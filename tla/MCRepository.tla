---------------------------- MODULE MCRepository ----------------------------
(* Two instruments; an ingest of both, the same with revised prices, and one  *)
(* of a single instrument, whose version sorts after theirs.                  *)
EXTENDS Repository

MCBundle(ids, span, revision) == [ids |-> ids, span |-> span, revision |-> revision]

MCBundles ==
  {MCBundle({"CSI300", "GOLD"}, 1, 1), MCBundle({"CSI300", "GOLD"}, 1, 2),
   MCBundle({"CSI300"}, 1, 1)}

\* An injection of the keys in an order of their own.
MCDigest ==
  [k \in (SUBSET Instruments) \X Spans |->
     LET code == k[2] + 2 * (IF "GOLD" \in k[1] THEN 1 ELSE 0)
                      + 4 * (IF "CSI300" \in k[1] THEN 1 ELSE 0)
     IN (3 * code) % 8]
=============================================================================
