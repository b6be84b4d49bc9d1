-------------------------- MODULE RepositoryProofs --------------------------
(***************************************************************************)
(* What the repository keeps through every crash of an ingest, and what a  *)
(* reader of one version gets, for all instruments, bundles and digests.   *)
(* The facts about the store are about the files and the ingest alone; the *)
(* readers leave these as they are.                                        *)
(***************************************************************************)
EXTENDS Repository, Sums, TLAPS

StoreTypeOK ==
  /\ files \in [Versions -> [Parts -> Content]]
  /\ ingest \in [bundle : Bundles \cup {None}, todo : SUBSET Parts,
                 open : Parts \cup {None}]

\* The ingest under way: it has parts of its bundle still to write, the
\* metadata among them, every other part is written out, and the file it
\* has open is one of those it was allowed to open.
IngestWhole ==
  ingest # Idle =>
    /\ ingest.bundle \in Bundles
    /\ ingest.todo \subseteq PartsOf(ingest.bundle)
    /\ "meta" \in ingest.todo
    /\ ingest.open \in ingest.todo \cup {None}
    /\ ingest.open = "meta" => ingest.todo = {"meta"}
    /\ \A part \in PartsOf(ingest.bundle) \ ingest.todo :
         files[VersionId(ingest.bundle)][part] = ingest.bundle

\* Every file of the version is of the bundle.
AllOf(v, b) == VersionId(b) = v /\ \A part \in PartsOf(b) : files[v][part] = b

\* A version is at rest when no ingest of it is under way or was cut short.
AtRest(v) == v \in Versions \ damaged /\ (ingest # Idle => VersionId(ingest.bundle) # v)

\* A published version at rest is of one ingest.
WholeVersions ==
  \A v \in Versions : AtRest(v) /\ files[v]["meta"] # Missing => \E b \in Bundles : AllOf(v, b)

StoreInv ==
  /\ StoreTypeOK /\ IngestWhole /\ WholeVersions
  /\ OwnFilesOnly /\ RevisionsOnly /\ PublishedComplete /\ CrashHealed

-----------------------------------------------------------------------------
\* The version id of two bundles is the same only if their instruments and
\* dates are.
LEMMA SameVersionSameParts ==
  ASSUME NEW a \in Bundles, NEW b \in Bundles, VersionId(a) = VersionId(b)
  PROVE  PartsOf(a) = PartsOf(b) /\ a.ids = b.ids /\ a.span = b.span
<1>1. /\ <<a.ids, a.span>> \in (SUBSET Instruments) \X Spans
      /\ <<b.ids, b.span>> \in (SUBSET Instruments) \X Spans
  BY BundlesAssumption
<1>2. <<a.ids, a.span>> = <<b.ids, b.span>>
  BY <1>1, DigestAssumption DEF VersionId
<1> QED
  BY <1>2 DEF PartsOf

\* The parts of a bundle are parts, and its version is a version.
LEMMA BundleParts ==
  ASSUME NEW b \in Bundles
  PROVE  /\ VersionId(b) \in Versions
         /\ PartsOf(b) \subseteq Parts
         /\ "meta" \in PartsOf(b)
  BY BundlesAssumption DEF Versions, PartsOf, Parts

LEMMA InitStore == Init => StoreInv
<1> SUFFICES ASSUME Init PROVE StoreInv
  OBVIOUS
<1>1. StoreTypeOK
  BY DEF Init, StoreTypeOK, Idle, Content
<1>2. IngestWhole
  BY DEF Init, IngestWhole
<1>3. \A v \in Versions, part \in Parts : files[v][part] = Missing
  BY DEF Init
<1>4. OwnFilesOnly
  BY <1>3, BundleParts DEF OwnFilesOnly
<1>5. PublishedComplete
  BY <1>3, BundleParts DEF PublishedComplete
<1>6. CrashHealed
  BY <1>3, NamesAssumption DEF CrashHealed
<1>7. RevisionsOnly
  BY <1>3, BundleParts, NamesAssumption DEF RevisionsOnly
<1>8. WholeVersions
  BY <1>3 DEF WholeVersions, Parts
<1> QED
  BY <1>1, <1>2, <1>4, <1>5, <1>6, <1>7, <1>8 DEF StoreInv

\* A step that leaves files, ingest and damage alone.
LEMMA ReaderStep ==
  ASSUME StoreInv, UNCHANGED <<files, ingest, damaged>>
  PROVE  StoreInv'
  BY DEF StoreInv, StoreTypeOK, IngestWhole, OwnFilesOnly, RevisionsOnly,
         PublishedComplete, CrashHealed, WholeVersions, AtRest, AllOf

\* A version at rest stays as it is, unless an ingest of it begins.
LEMMA RestFiles ==
  ASSUME StoreInv, NEW v \in Versions, AtRest(v),
         (\E part \in Parts : OpenFile(part)) \/ CloseFile
  PROVE  files'[v] = files[v]
<1>1. ingest # Idle
  <2>1. ASSUME NEW part \in Parts, OpenFile(part) PROVE ingest.todo # {}
    BY <2>1 DEF OpenFile, Due
  <2>2. CloseFile => ingest.open # None
    BY DEF CloseFile
  <2> QED
    BY <2>1, <2>2 DEF Idle
<1>2. v # VersionId(ingest.bundle)
  BY <1>1 DEF AtRest
<1> QED
  BY <1>2 DEF OpenFile, CloseFile, StoreInv, StoreTypeOK

LEMMA BeginStep ==
  ASSUME StoreInv, NEW b \in Bundles, Begin(b)
  PROVE  StoreInv'
<1>1. /\ ingest = Idle
      /\ ingest' = [bundle |-> b, todo |-> PartsOf(b), open |-> None]
      /\ UNCHANGED <<files, damaged>>
  BY DEF Begin
<1>2. StoreTypeOK'
  BY <1>1, BundleParts DEF StoreInv, StoreTypeOK
<1>3. IngestWhole'
  BY <1>1, BundleParts, NamesAssumption DEF IngestWhole
<1>4. OwnFilesOnly' /\ RevisionsOnly' /\ PublishedComplete'
  BY <1>1 DEF StoreInv, OwnFilesOnly, RevisionsOnly, PublishedComplete
<1>5. CrashHealed'
  BY <1>1 DEF StoreInv, CrashHealed
<1>6. WholeVersions'
  BY <1>1 DEF StoreInv, WholeVersions, AtRest, AllOf
<1> QED
  BY <1>2, <1>3, <1>4, <1>5, <1>6 DEF StoreInv

LEMMA OpenStep ==
  ASSUME StoreInv, NEW part \in Parts, OpenFile(part)
  PROVE  StoreInv'
<1> DEFINE c == ingest.bundle
           v == VersionId(c)
<1>1. /\ ingest.open = None
      /\ part \in Due
      /\ ingest' = [ingest EXCEPT !.open = part]
      /\ files' = [files EXCEPT ![v][part] = Torn]
      /\ damaged' = damaged
  BY DEF OpenFile
<1>2. /\ part \in ingest.todo
      /\ part = "meta" => ingest.todo \cap Instruments = {} /\ "instruments" \notin ingest.todo
  BY <1>1, NamesAssumption DEF Due
<1>3. ingest # Idle
  BY <1>2 DEF Idle
<1>4. /\ c \in Bundles
      /\ ingest.todo \subseteq PartsOf(c)
      /\ "meta" \in ingest.todo
      /\ \A q \in PartsOf(c) \ ingest.todo : files[v][q] = c
  BY <1>3 DEF StoreInv, IngestWhole
<1>5. /\ v \in Versions
      /\ files \in [Versions -> [Parts -> Content]]
      /\ part \in PartsOf(c)
  BY <1>2, <1>4, BundleParts DEF StoreInv, StoreTypeOK
<1>6. /\ files'[v][part] = Torn
      /\ \A w \in Versions, q \in Parts :
           ~(w = v /\ q = part) => files'[w][q] = files[w][q]
  BY <1>1, <1>5
<1>7. /\ ingest' # Idle
      /\ ingest'.bundle = c /\ ingest'.todo = ingest.todo /\ ingest'.open = part
  BY <1>1, <1>2 DEF StoreInv, StoreTypeOK, Idle
<1>8. part = "meta" => ingest.todo = {"meta"}
  BY <1>2, <1>4, BundlesAssumption DEF PartsOf
<1>9. StoreTypeOK'
  BY <1>1, <1>5 DEF StoreInv, StoreTypeOK, Content
<1>10. IngestWhole'
  <2>1. \A q \in PartsOf(c) \ ingest.todo : files'[v][q] = c
    BY <1>2, <1>4, <1>5, <1>6, BundleParts
  <2> QED
    BY <1>2, <1>4, <1>7, <1>8, <2>1 DEF IngestWhole
<1>11. OwnFilesOnly'
  <2> SUFFICES ASSUME NEW b \in Bundles, NEW q \in Parts \ PartsOf(b)
               PROVE  files'[VersionId(b)][q] = Missing
    BY DEF OwnFilesOnly
  <2>1. ~(VersionId(b) = v /\ q = part)
    BY <1>4, <1>5, SameVersionSameParts
  <2> QED
    BY <1>6, <2>1, BundleParts DEF StoreInv, OwnFilesOnly
<1>12. PublishedComplete'
  <2> SUFFICES ASSUME NEW b \in Bundles, files'[VersionId(b)]["meta"] # Missing,
                      NEW q \in PartsOf(b)
               PROVE  files'[VersionId(b)][q] # Missing
    BY DEF PublishedComplete
  <2>0. /\ VersionId(b) \in Versions /\ q \in Parts /\ "meta" \in Parts
        /\ {Missing, Torn} \cap Bundles = {} /\ Missing # Torn
    BY BundleParts, NamesAssumption DEF Parts
  <2>1. CASE VersionId(b) = v /\ part = "meta"
    <3>1. PartsOf(b) = PartsOf(c)
      BY <2>1, <1>4, SameVersionSameParts
    <3>2. CASE q = "meta"
      BY <3>2, <2>1, <1>6, <2>0
    <3>3. CASE q # "meta"
      BY <3>1, <3>3, <2>0, <2>1, <1>4, <1>6, <1>8
    <3> QED
      BY <3>2, <3>3
  <2>2. CASE ~(VersionId(b) = v /\ part = "meta")
    <3>1. files[VersionId(b)]["meta"] # Missing
      BY <2>0, <2>2, <1>6
    <3>2. files[VersionId(b)][q] # Missing
      BY <3>1 DEF StoreInv, PublishedComplete
    <3> QED
      BY <3>2, <2>0, <1>6
  <2> QED
    BY <2>1, <2>2
<1>13. CrashHealed'
  <2> SUFFICES ASSUME NEW w \in Versions \ damaged, NEW q \in Parts,
                      files'[w][q] = Torn
               PROVE  w = v /\ q = part
    BY <1>1, <1>7 DEF CrashHealed
  <2>1. SUFFICES ASSUME ~(w = v /\ q = part) PROVE FALSE
    OBVIOUS
  <2>2. files[w][q] = Torn
    BY <1>6, <2>1
  <2>3. q = None
    BY <1>1, <2>2 DEF StoreInv, CrashHealed
  <2> QED
    BY <2>3, NamesAssumption DEF Parts
<1>14. RevisionsOnly'
  <2> SUFFICES ASSUME NEW b \in Bundles, NEW d \in Bundles, NEW q \in Parts,
                      files'[VersionId(b)][q] = d
               PROVE  d.ids = b.ids /\ d.span = b.span
    BY DEF RevisionsOnly
  <2>1. files[VersionId(b)][q] = d
    BY <1>5, <1>6, BundleParts, NamesAssumption
  <2> QED
    BY <2>1 DEF StoreInv, RevisionsOnly
<1>15. WholeVersions'
  <2> SUFFICES ASSUME NEW w \in Versions, AtRest(w)', files'[w]["meta"] # Missing
               PROVE  \E b \in Bundles : AllOf(w, b)'
    BY DEF WholeVersions
  <2>1. AtRest(w)
    BY <1>1, <1>7 DEF AtRest
  <2>2. files'[w] = files[w]
    BY <2>1, RestFiles
  <2> QED
    BY <2>1, <2>2 DEF StoreInv, WholeVersions, AllOf
<1> QED
  BY <1>9, <1>10, <1>11, <1>12, <1>13, <1>14, <1>15 DEF StoreInv

LEMMA CloseStep ==
  ASSUME StoreInv, CloseFile
  PROVE  StoreInv'
<1> DEFINE c == ingest.bundle
           v == VersionId(c)
           part == ingest.open
           rest == ingest.todo \ {part}
<1>1. /\ part # None
      /\ files' = [files EXCEPT ![v][part] = c]
      /\ ingest' = IF rest = {} THEN Idle ELSE [ingest EXCEPT !.todo = rest, !.open = None]
      /\ damaged' = IF rest = {} THEN damaged \ {v} ELSE damaged
  BY DEF CloseFile
<1>2. ingest # Idle
  BY <1>1 DEF Idle
<1>3. /\ c \in Bundles
      /\ ingest.todo \subseteq PartsOf(c)
      /\ "meta" \in ingest.todo
      /\ part \in ingest.todo
      /\ part = "meta" => ingest.todo = {"meta"}
      /\ \A q \in PartsOf(c) \ ingest.todo : files[v][q] = c
  BY <1>1, <1>2 DEF StoreInv, IngestWhole
<1>4. /\ v \in Versions
      /\ files \in [Versions -> [Parts -> Content]]
      /\ part \in PartsOf(c) /\ part \in Parts /\ PartsOf(c) \subseteq Parts
  BY <1>3, BundleParts DEF StoreInv, StoreTypeOK
<1>5. /\ files'[v][part] = c
      /\ \A w \in Versions, q \in Parts :
           ~(w = v /\ q = part) => files'[w][q] = files[w][q]
  BY <1>1, <1>4
<1>6. \A q \in PartsOf(c) \ rest : files'[v][q] = c
  BY <1>3, <1>4, <1>5
<1>7. rest # {} => /\ "meta" \in rest
                   /\ ingest'.bundle = c /\ ingest'.todo = rest /\ ingest'.open = None
  BY <1>1, <1>3 DEF StoreInv, StoreTypeOK
<1>8. StoreTypeOK'
  <2>1. files' \in [Versions -> [Parts -> Content]]
    BY <1>1, <1>3, <1>4 DEF Content
  <2>2. ingest' \in [bundle : Bundles \cup {None}, todo : SUBSET Parts,
                     open : Parts \cup {None}]
    BY <1>1 DEF StoreInv, StoreTypeOK, Idle
  <2> QED
    BY <2>1, <2>2 DEF StoreTypeOK
<1>9. IngestWhole'
  BY <1>1, <1>3, <1>6, <1>7, NamesAssumption DEF IngestWhole, Parts, PartsOf
<1>10. OwnFilesOnly'
  <2> SUFFICES ASSUME NEW b \in Bundles, NEW q \in Parts \ PartsOf(b)
               PROVE  files'[VersionId(b)][q] = Missing
    BY DEF OwnFilesOnly
  <2>1. ~(VersionId(b) = v /\ q = part)
    BY <1>3, <1>4, SameVersionSameParts
  <2> QED
    BY <1>5, <2>1, BundleParts DEF StoreInv, OwnFilesOnly
<1>11. PublishedComplete'
  <2> SUFFICES ASSUME NEW b \in Bundles, files'[VersionId(b)]["meta"] # Missing,
                      NEW q \in PartsOf(b)
               PROVE  files'[VersionId(b)][q] # Missing
    BY DEF PublishedComplete
  <2>0. /\ VersionId(b) \in Versions /\ q \in Parts /\ "meta" \in Parts
        /\ Missing \notin Bundles
    BY BundleParts, NamesAssumption DEF Parts
  <2>1. CASE VersionId(b) = v /\ part = "meta"
    <3>1. PartsOf(b) = PartsOf(c) /\ rest = {}
      BY <2>1, <1>3, SameVersionSameParts
    <3> QED
      BY <3>1, <2>0, <2>1, <1>3, <1>6
  <2>2. CASE ~(VersionId(b) = v /\ part = "meta")
    <3>1. files[VersionId(b)]["meta"] # Missing
      BY <2>0, <2>2, <1>5
    <3>2. files[VersionId(b)][q] # Missing
      BY <3>1 DEF StoreInv, PublishedComplete
    <3> QED
      BY <3>2, <2>0, <1>3, <1>5
  <2> QED
    BY <2>1, <2>2
<1>12. CrashHealed'
  <2> SUFFICES ASSUME NEW w \in Versions \ damaged', NEW q \in Parts,
                      files'[w][q] = Torn
               PROVE  /\ ingest' # Idle
                      /\ w = VersionId(ingest'.bundle)
                      /\ q = ingest'.open
    BY DEF CrashHealed
  <2>0. Torn \notin Bundles /\ Torn # Missing
    BY NamesAssumption
  <2>1. ~(w = v /\ q = part) /\ files[w][q] = Torn
    BY <1>3, <1>5, <2>0
  <2>2. w \in damaged
    BY <2>1 DEF StoreInv, CrashHealed
  <2>3. w = v /\ rest = {}
    BY <1>1, <2>2
  <2>4. q \in PartsOf(c)
    BY <1>3, <2>0, <2>1, <2>3 DEF StoreInv, OwnFilesOnly
  <2> QED
    BY <1>3, <1>6, <2>0, <2>3, <2>4
<1>13. RevisionsOnly'
  <2> SUFFICES ASSUME NEW b \in Bundles, NEW d \in Bundles, NEW q \in Parts,
                      files'[VersionId(b)][q] = d
               PROVE  d.ids = b.ids /\ d.span = b.span
    BY DEF RevisionsOnly
  <2>1. CASE VersionId(b) = v /\ q = part
    BY <1>3, <1>5, <2>1, SameVersionSameParts
  <2>2. CASE ~(VersionId(b) = v /\ q = part)
    BY <1>5, <2>2, BundleParts DEF StoreInv, RevisionsOnly
  <2> QED
    BY <2>1, <2>2
<1>14. WholeVersions'
  <2> SUFFICES ASSUME NEW w \in Versions, AtRest(w)', files'[w]["meta"] # Missing
               PROVE  \E b \in Bundles : AllOf(w, b)'
    BY DEF WholeVersions
  <2>1. CASE w = v
    <3>1. rest = {}
      BY <1>3, <1>7, <2>1 DEF AtRest, Idle
    <3>2. PICK b \in Bundles : b = c
      BY <1>3
    <3>3. \A x \in PartsOf(b) : files'[v][x] = b
      BY <1>6, <3>1, <3>2
    <3>4. AllOf(w, b)'
      BY <2>1, <3>2, <3>3 DEF AllOf, PartsOf, VersionId
    <3> QED
      BY <3>4
  <2>2. CASE w # v
    <3>1. AtRest(w)
      BY <1>1, <2>2 DEF AtRest
    <3>2. files'[w] = files[w]
      BY <3>1, RestFiles
    <3> QED
      BY <3>1, <3>2 DEF StoreInv, WholeVersions, AllOf
  <2> QED
    BY <2>1, <2>2
<1> QED
  BY <1>8, <1>9, <1>10, <1>11, <1>12, <1>13, <1>14 DEF StoreInv

LEMMA CrashStep ==
  ASSUME StoreInv, Crash
  PROVE  StoreInv'
<1>1. /\ ingest' = Idle /\ files' = files
      /\ damaged' = damaged \cup {VersionId(ingest.bundle)}
  BY DEF Crash
<1>2. StoreTypeOK'
  BY <1>1 DEF StoreInv, StoreTypeOK, Idle
<1>3. IngestWhole'
  BY <1>1 DEF IngestWhole, Idle
<1>4. OwnFilesOnly' /\ RevisionsOnly' /\ PublishedComplete'
  BY <1>1 DEF StoreInv, OwnFilesOnly, RevisionsOnly, PublishedComplete
<1>5. CrashHealed'
  BY <1>1 DEF StoreInv, CrashHealed
<1>6. WholeVersions'
  BY <1>1 DEF StoreInv, WholeVersions, AtRest, AllOf
<1> QED
  BY <1>2, <1>3, <1>4, <1>5, <1>6 DEF StoreInv

LEMMA StoreStep == StoreInv /\ [Next]_vars => StoreInv'
<1> SUFFICES ASSUME StoreInv, [Next]_vars PROVE StoreInv'
  OBVIOUS
<1>1. ASSUME NEW b \in Bundles, Begin(b) PROVE StoreInv'
  BY <1>1, BeginStep
<1>2. ASSUME NEW part \in Parts, OpenFile(part) PROVE StoreInv'
  BY <1>2, OpenStep
<1>3. CASE CloseFile
  BY <1>3, CloseStep
<1>4. CASE Crash
  BY <1>4, CrashStep
<1>5. ASSUME \/ \E kind \in Kinds : Request(kind)
             \/ Restart
             \/ \E v \in Versions : ReadMeta(v)
             \/ GetLatestVersion
             \/ LoadInstruments
             \/ \E i \in Instruments : LoadBar(i)
             \/ Answer
      PROVE  StoreInv'
  <2>1. UNCHANGED <<files, ingest, damaged>>
    BY <1>5 DEF Request, Restart, ReadMeta, GetLatestVersion, LoadInstruments, LoadBar, Answer
  <2> QED
    BY <2>1, ReaderStep
<1>6. CASE UNCHANGED vars
  BY <1>6, ReaderStep DEF vars
<1> QED
  BY <1>1, <1>2, <1>3, <1>4, <1>5, <1>6 DEF Next

\* The facts about the store hold in every state of the repository.
THEOREM StoreInvariant == Spec => []StoreInv
  BY InitStore, StoreStep, PTL DEF Spec

\* Whatever dies and whatever is ingested beside it, a version with a
\* version.json has all its files (create_version writes it last).
THEOREM VersionsAreComplete == Spec => []PublishedComplete
<1>1. StoreInv => PublishedComplete
  BY DEF StoreInv
<1> QED
  BY <1>1, StoreInvariant, PTL

\* An ingest writes over the files of the table it revises and over no other,
\* whatever the digests of the tables are.
THEOREM OverwritesAreRevisions == Spec => []OverwrittenByRevisionsOnly
<1>1. StoreInv => OverwrittenByRevisionsOnly
  BY DEF StoreInv, OverwrittenByRevisionsOnly
<1> QED
  BY <1>1, StoreInvariant, PTL

\* An ingest that runs to its end leaves no torn file in its version, not
\* even one of an earlier ingest that died (the version id binds the
\* instruments, so both write the same files).
THEOREM CrashesAreHealed == Spec => []CrashHealed
<1>1. StoreInv => CrashHealed
  BY DEF StoreInv
<1> QED
  BY <1>1, StoreInvariant, PTL

-----------------------------------------------------------------------------
(* The readers *)

ReaderTypeOK ==
  reader \in [kind : Kinds,
              at : {"idle", "version", "instruments", "bars", "done", "failed"},
              unread : SUBSET Versions, version : Versions \cup {None},
              ids : SUBSET Instruments,
              left : SUBSET Instruments, quiet : BOOLEAN,
              columns : [Instruments -> Bundles \cup {Missing}]]

\* What a quality report has read of a version at rest: all of it from the bundle
\* the version is of.
OneIngest ==
  (/\ reader.kind = "data_quality" /\ reader.quiet
   /\ reader.at \in {"version", "instruments", "bars", "done"}) =>
    /\ reader.version \in Versions /\ AtRest(reader.version)
    /\ \E b \in Bundles :
         /\ AllOf(reader.version, b)
         /\ reader.at \in {"bars", "done"} =>
              /\ reader.ids = b.ids
              /\ \A i \in b.ids \ reader.left : reader.columns[i] = b
         /\ reader.at = "done" => reader.left = {}

ReaderInv == ReaderTypeOK /\ damaged \subseteq Versions /\ OneIngest

LEMMA VersionsNat == Versions \subseteq Nat
<1>1. \A b \in Bundles : VersionId(b) \in Nat
  BY BundlesAssumption, DigestAssumption DEF VersionId
<1> QED
  BY <1>1 DEF Versions

\* The last version of those there are is one of them.
LEMMA LastIsThere ==
  ASSUME NEW S \in SUBSET Versions, S # {}
  PROVE  Last(S) \in S
<1>1. IsFiniteSet(Versions) /\ Versions \subseteq Nat
  <2>2. IsFiniteSet(Versions)
    <3> DEFINE f == [b \in Bundles |-> VersionId(b)]
    <3>1. f \in Surjection(Bundles, Versions)
      BY DEF Surjection, Versions
    <3> QED
      BY <3>1, BundlesAssumption, FS_Surjection
  <2> QED
    BY <2>2, VersionsNat
<1> DEFINE P == {T \in SUBSET Versions : T # {} => \E v \in T : \A w \in T : w <= v}
<1>2. {} \in P
  OBVIOUS
<1>3. ASSUME NEW T \in SUBSET Versions, T # {}, \A x \in T : T \ {x} \in P
      PROVE  T \in P
  <2>1. PICK x \in T : TRUE
    BY <1>3
  <2>2. T \ {x} \in P
    BY <1>3
  <2>3. CASE T \ {x} = {}
    BY <1>1, <2>3
  <2>4. CASE T \ {x} # {}
    <3>1. PICK v \in T \ {x} : \A w \in T \ {x} : w <= v
      BY <2>2, <2>4
    <3>2. x \in Nat /\ v \in Nat /\ T \subseteq Nat
      BY <1>1
    <3>3. CASE x <= v
      BY <3>1, <3>3
    <3>4. CASE v < x
      <4>1. \A w \in T : w <= x
        BY <3>1, <3>2, <3>4
      <4> QED
        BY <4>1
    <3> QED
      BY <3>2, <3>3, <3>4
  <2> QED
    BY <2>3, <2>4
<1> HIDE DEF P
<1>4. \A T \in SUBSET Versions : T \in P
  BY <1>1, <1>2, <1>3, SubsetInduction
<1>5. \E v \in S : \A w \in S : w <= v
  BY <1>4 DEF P
<1> QED
  BY <1>5 DEF Last

\* What a reader finds.
LEMMA FoundType ==
  ASSUME StoreTypeOK, ReaderTypeOK, NEW part \in Parts, NEW versioned
  PROVE  Found(part, versioned) \in Content
<1> DEFINE v == IF versioned THEN reader.version ELSE Last(Present(part))
<1>1. v \in Versions \cup {None}
  <2>1. Present(part) \in SUBSET Versions
    BY DEF Present
  <2>2. Present(part) # {} => Last(Present(part)) \in Versions
    BY <2>1, LastIsThere
  <2>3. Present(part) = {} => Last(Present(part)) = None
    BY DEF Last
  <2> QED
    BY <2>2, <2>3 DEF ReaderTypeOK
<1>2. Found(part, versioned) = IF v = None THEN Missing ELSE files[v][part]
  BY DEF Found
<1> HIDE DEF v
<1> QED
  BY <1>1, <1>2 DEF StoreTypeOK, Content

LEMMA InitReader == Init => ReaderInv
  BY NamesAssumption
     DEF Init, ReaderInv, ReaderTypeOK, OneIngest, NoReader, Kinds

\* An ingest writes no file of the version a quiet reader took.
LEMMA ReaderBesideIngest ==
  ASSUME StoreInv, ReaderInv,
         \/ \E b \in Bundles : Begin(b)
         \/ \E part \in Parts : OpenFile(part)
         \/ CloseFile
         \/ Crash
  PROVE  ReaderInv'
<1>1. /\ ReaderTypeOK'
      /\ reader' = [reader EXCEPT !.quiet = reader'.quiet]
      /\ reader'.quiet => reader.quiet
  BY DEF Begin, OpenFile, CloseFile, Crash, ReaderInv, ReaderTypeOK
<1>2. damaged' \subseteq Versions
  <2>1. ingest # Idle => VersionId(ingest.bundle) \in Versions
    BY BundleParts DEF StoreInv, IngestWhole
  <2> QED
    BY <2>1 DEF Begin, OpenFile, CloseFile, Crash, ReaderInv
<1>3. /\ reader'.kind = reader.kind /\ reader'.at = reader.at
      /\ reader'.version = reader.version /\ reader'.ids = reader.ids
      /\ reader'.left = reader.left /\ reader'.columns = reader.columns
  BY <1>1 DEF ReaderInv, ReaderTypeOK
<1>4. ASSUME reader'.quiet, reader.version \in Versions, AtRest(reader.version)
      PROVE  AtRest(reader.version)' /\ files'[reader.version] = files[reader.version]
  <2> DEFINE v == reader.version
  <2>1. ASSUME NEW b \in Bundles, Begin(b) PROVE AtRest(v)' /\ files'[v] = files[v]
    <3>1. VersionId(b) # v
      BY <1>4, <2>1 DEF Begin, ReaderInv, ReaderTypeOK
    <3> QED
      BY <1>3, <1>4, <2>1, <3>1 DEF Begin, AtRest
  <2>2. ASSUME NEW part \in Parts, OpenFile(part) PROVE AtRest(v)' /\ files'[v] = files[v]
    <3>1. files'[v] = files[v]
      BY <1>4, <2>2, RestFiles
    <3>2. ingest'.bundle = ingest.bundle /\ ingest # Idle /\ damaged' = damaged
      BY <2>2, NamesAssumption DEF OpenFile, StoreInv, StoreTypeOK, Idle, Due
    <3> QED
      BY <1>3, <1>4, <3>1, <3>2 DEF AtRest
  <2>3. CASE CloseFile
    <3>1. files'[v] = files[v]
      BY <1>4, <2>3, RestFiles
    <3>2. /\ ingest' = Idle \/ ingest'.bundle = ingest.bundle
          /\ ingest # Idle /\ damaged' \subseteq damaged
      BY <2>3 DEF CloseFile, StoreInv, StoreTypeOK, Idle
    <3> QED
      BY <1>3, <1>4, <3>1, <3>2 DEF AtRest
  <2>4. CASE Crash
    BY <1>3, <1>4, <2>4 DEF Crash, AtRest
  <2> QED
    BY <2>1, <2>2, <2>3, <2>4
<1>5. OneIngest'
  BY <1>1, <1>3, <1>4 DEF ReaderInv, OneIngest, AllOf
<1> QED
  BY <1>1, <1>2, <1>5 DEF ReaderInv

LEMMA ReaderReads ==
  ASSUME StoreInv, ReaderInv,
         \/ \E kind \in Kinds : Request(kind)
         \/ Restart
         \/ \E v \in Versions : ReadMeta(v)
         \/ GetLatestVersion
         \/ LoadInstruments
         \/ \E i \in Instruments : LoadBar(i)
         \/ Answer
  PROVE  ReaderInv'
<1>0. /\ UNCHANGED <<files, ingest, damaged>>
      /\ ReaderTypeOK /\ damaged' \subseteq Versions
  BY DEF Request, Restart, ReadMeta, GetLatestVersion, LoadInstruments, LoadBar, Answer,
         ReaderInv
<1>a. NoReader \in [kind : Kinds,
              at : {"idle", "version", "instruments", "bars", "done", "failed"},
              unread : SUBSET Versions, version : Versions \cup {None},
              ids : SUBSET Instruments,
              left : SUBSET Instruments, quiet : BOOLEAN,
              columns : [Instruments -> Bundles \cup {Missing}]]
  BY DEF NoReader, Kinds
\* A reader that is not quiet, or at rest.
<1>b. ASSUME ReaderTypeOK', ~reader'.quiet \/ reader'.at \in {"idle", "failed"}
      PROVE  ReaderInv'
  BY <1>0, <1>b DEF ReaderInv, OneIngest
<1>c. ASSUME reader' = Failed PROVE ReaderInv'
  BY <1>a, <1>b, <1>c DEF Failed, ReaderTypeOK, NoReader
\* What does not depend on the reader.
<1>d. ASSUME NEW v, NEW b PROVE (AtRest(v) => AtRest(v)') /\ (AllOf(v, b) => AllOf(v, b)')
  BY <1>0 DEF AtRest, AllOf
<1>1. ASSUME NEW kind \in Kinds, Request(kind) PROVE ReaderInv'
  <2>1. reader' = [NoReader EXCEPT !.kind = kind,
                     !.at = IF kind \in VersionedBars THEN "version" ELSE "instruments",
                     !.unread = IF kind \in VersionedBars THEN Directories ELSE {}]
    BY <1>1 DEF Request
  <2>a. Directories \in SUBSET Versions
    BY DEF Directories
  <2>2. ReaderTypeOK'
    BY <1>a, <2>a, <2>1 DEF ReaderTypeOK
  <2>3. ~reader'.quiet
    BY <2>1 DEF NoReader
  <2> QED
    BY <1>b, <2>2, <2>3
<1>2. CASE Restart
  <2>1. reader' = NoReader
    BY <1>2 DEF Restart
  <2> QED
    BY <1>a, <1>b, <2>1 DEF ReaderTypeOK, NoReader
<1>3. ASSUME NEW v \in Versions, ReadMeta(v) PROVE ReaderInv'
  <2> DEFINE q == v \notin damaged /\ (ingest # Idle => VersionId(ingest.bundle) # v)
  <2>0. reader.at = "version"
    BY <1>3 DEF ReadMeta
  <2>1. CASE reader' = Failed
    BY <1>c, <2>1
  <2>2. CASE reader' = [reader EXCEPT !.unread = @ \ {v}]
    <3>1. /\ ReaderTypeOK'
          /\ reader'.at = reader.at /\ reader'.version = reader.version
          /\ reader'.quiet = reader.quiet /\ reader'.kind = reader.kind
      BY <1>0, <2>2 DEF ReaderTypeOK
    <3>2. OneIngest'
      BY <1>0, <2>0, <3>1 DEF ReaderInv, OneIngest, AtRest, AllOf
    <3> QED
      BY <1>0, <3>1, <3>2 DEF ReaderInv
  <2>3. CASE /\ files[v]["meta"] # Missing
             /\ reader' = [reader EXCEPT !.unread = @ \ {v}, !.version = v, !.quiet = q]
    <3>2. q \in BOOLEAN /\ (q => AtRest(v))
      BY DEF AtRest
    <3> HIDE DEF q
    <3>3. ReaderTypeOK'
      BY <1>0, <2>3, <3>2 DEF ReaderTypeOK
    <3>4. reader'.at = "version" /\ reader'.version = v /\ reader'.quiet = q
      BY <1>0, <2>0, <2>3 DEF ReaderTypeOK
    <3>5. OneIngest'
      <4>1. ASSUME q PROVE AtRest(v)' /\ \E b \in Bundles : AllOf(v, b)'
        <5>1. AtRest(v) /\ \E b \in Bundles : AllOf(v, b)
          BY <2>3, <3>2, <4>1 DEF StoreInv, WholeVersions
        <5> QED
          BY <1>d, <5>1
      <4> QED
        BY <3>4, <4>1 DEF OneIngest, AtRest, AllOf
    <3> QED
      BY <1>0, <3>3, <3>5 DEF ReaderInv
  <2> QED
    BY <1>3, <2>1, <2>2, <2>3, NamesAssumption DEF ReadMeta
<1>7. CASE GetLatestVersion
  <2>1. CASE reader' = Failed
    BY <1>c, <2>1
  <2>2. CASE reader' = [reader EXCEPT !.at = "instruments"]
    <3>1. /\ ReaderTypeOK'
          /\ reader'.at = "instruments" /\ reader'.version = reader.version
          /\ reader'.quiet = reader.quiet /\ reader'.kind = reader.kind
      BY <1>0, <2>2 DEF ReaderTypeOK
    <3>2. reader.at = "version"
      BY <1>7 DEF GetLatestVersion
    <3>3. OneIngest'
      BY <1>0, <3>1, <3>2 DEF ReaderInv, OneIngest, AtRest, AllOf
    <3> QED
      BY <1>0, <3>1, <3>3 DEF ReaderInv
  <2> QED
    BY <1>7, <2>1, <2>2 DEF GetLatestVersion
<1>4. CASE LoadInstruments
  <2> DEFINE found == Found("instruments", reader.kind \in VersionedInstruments)
  <2>1. CASE reader' = Failed
    BY <1>c, <2>1
  <2>2. CASE /\ found \notin {Missing, Torn}
             /\ reader' = [reader EXCEPT !.at = "bars", !.ids = found.ids, !.left = found.ids]
    <3>1. found \in Bundles /\ found.ids \in SUBSET Instruments
      <4>1. found \in Content
        BY <1>0, FoundType DEF StoreInv, Parts
      <4> HIDE DEF found
      <4> QED
        BY <2>2, <4>1, BundlesAssumption DEF Content
    <3>2. ReaderTypeOK'
      <4> HIDE DEF found
      <4> QED
        BY <1>0, <2>2, <3>1 DEF ReaderTypeOK
    <3>3. /\ reader'.at = "bars" /\ reader'.version = reader.version
          /\ reader'.quiet = reader.quiet /\ reader'.kind = reader.kind
          /\ reader'.ids = found.ids /\ reader'.left = found.ids
      <4> HIDE DEF found
      <4> QED
        BY <1>0, <2>2 DEF ReaderTypeOK
    <3>4. OneIngest'
      <4>1. PICK v \in Versions \cup {None} : v = reader.version
        BY <1>0 DEF ReaderTypeOK
      <4>2. ASSUME reader.kind = "data_quality", reader.quiet
            PROVE  /\ v \in Versions /\ AtRest(v)'
                   /\ \E b \in Bundles : AllOf(v, b)' /\ found.ids = b.ids
        <5>1. v \in Versions /\ AtRest(v) /\ \E b \in Bundles : AllOf(v, b)
          BY <1>4, <4>1, <4>2 DEF LoadInstruments, ReaderInv, OneIngest
        <5>2. PICK b \in Bundles : AllOf(v, b)
          BY <5>1
        <5>3. v # None
          BY <5>1, VersionsNat, NamesAssumption
        <5>4. found = files[v]["instruments"]
          BY <4>1, <4>2, <5>3 DEF Found, VersionedInstruments
        <5>5. found = b
          BY <5>2, <5>4 DEF AllOf, PartsOf
        <5>6. AtRest(v)' /\ AllOf(v, b)'
          BY <1>d, <5>1, <5>2
        <5> HIDE DEF found
        <5> QED
          BY <5>1, <5>5, <5>6
      <4> HIDE DEF found
      <4> QED
        BY <3>3, <4>1, <4>2 DEF OneIngest, AtRest, AllOf
    <3> QED
      BY <1>0, <3>2, <3>4 DEF ReaderInv
  <2> QED
    BY <1>4, <2>1, <2>2 DEF LoadInstruments
<1>5. ASSUME NEW i \in Instruments, LoadBar(i) PROVE ReaderInv'
  <2> DEFINE bars == BarsFound(i)
  <2>1. CASE reader' = Failed
    BY <1>c, <2>1
  <2>2. CASE /\ bars # Torn
             /\ reader' = [reader EXCEPT !.left = @ \ {i}, !.columns[i] = bars]
    <3>1. bars \in Bundles \cup {Missing}
      <4>1. bars \in Content
        BY <1>0, FoundType DEF StoreInv, Parts, BarsFound
      <4> HIDE DEF bars
      <4> QED
        BY <2>2, <4>1 DEF Content
    <3>2. /\ ReaderTypeOK'
          /\ reader'.at = reader.at /\ reader'.version = reader.version
          /\ reader'.quiet = reader.quiet /\ reader'.kind = reader.kind
          /\ reader'.ids = reader.ids /\ reader'.left = reader.left \ {i}
          /\ \A j \in Instruments : reader'.columns[j] = IF j = i THEN bars ELSE reader.columns[j]
      <4> HIDE DEF bars
      <4> QED
        BY <1>0, <2>2, <3>1 DEF ReaderTypeOK
    <3>3. reader.at = "bars" /\ i \in reader.left
      BY <1>5 DEF LoadBar
    <3>4. OneIngest'
      <4>1. PICK v \in Versions \cup {None} : v = reader.version
        BY <1>0 DEF ReaderTypeOK
      <4>2. ASSUME reader.kind = "data_quality", reader.quiet
            PROVE  /\ v \in Versions /\ AtRest(v)'
                   /\ \E b \in Bundles :
                        /\ AllOf(v, b)'
                        /\ reader.ids = b.ids
                        /\ \A j \in b.ids \ reader'.left : reader'.columns[j] = b
        <5>1. v \in Versions /\ AtRest(v)
          BY <3>3, <4>1, <4>2 DEF ReaderInv, OneIngest
        <5>2. PICK b \in Bundles : /\ AllOf(v, b)
                                   /\ reader.ids = b.ids
                                   /\ \A j \in b.ids \ reader.left : reader.columns[j] = b
          BY <3>3, <4>1, <4>2 DEF ReaderInv, OneIngest
        <5>3. v # None
          BY <5>1, VersionsNat, NamesAssumption
        <5>4. bars = files[v][i]
          BY <4>1, <4>2, <5>3 DEF BarsFound, Found, VersionedBars
        <5>5. i \in b.ids => bars = b
          BY <5>2, <5>4 DEF AllOf, PartsOf
        <5>6. AtRest(v)' /\ AllOf(v, b)'
          BY <1>d, <5>1, <5>2
        <5>7. b.ids \subseteq Instruments
          BY BundlesAssumption
        <5> HIDE DEF bars
        <5>8. \A j \in b.ids \ reader'.left : reader'.columns[j] = b
          BY <3>2, <5>2, <5>5, <5>7
        <5> QED
          BY <5>1, <5>2, <5>6, <5>8
      <4> HIDE DEF bars
      <4> QED
        BY <3>2, <3>3, <4>1, <4>2 DEF OneIngest, AtRest, AllOf
    <3> QED
      BY <1>0, <3>2, <3>4 DEF ReaderInv
  <2> QED
    BY <1>5, <2>1, <2>2 DEF LoadBar
<1>6. CASE Answer
  <2>1. CASE reader' = Failed
    BY <1>c, <2>1
  <2>2. CASE reader' = [reader EXCEPT !.at = "done"]
    <3>1. /\ ReaderTypeOK'
          /\ reader'.at = "done" /\ reader'.version = reader.version
          /\ reader'.quiet = reader.quiet /\ reader'.kind = reader.kind
          /\ reader'.ids = reader.ids /\ reader'.left = reader.left
          /\ reader'.columns = reader.columns
      BY <1>0, <2>2 DEF ReaderTypeOK
    <3>2. reader.at = "bars" /\ reader.left = {}
      BY <1>6 DEF Answer
    <3>3. OneIngest'
      BY <1>0, <3>1, <3>2 DEF ReaderInv, OneIngest, AtRest, AllOf
    <3> QED
      BY <1>0, <3>1, <3>3 DEF ReaderInv
  <2> QED
    BY <1>6, <2>1, <2>2 DEF Answer
<1> QED
  BY <1>1, <1>2, <1>3, <1>4, <1>5, <1>6, <1>7

LEMMA ReaderInvStep == StoreInv /\ ReaderInv /\ [Next]_vars => ReaderInv'
<1>1. ASSUME ReaderInv, UNCHANGED vars PROVE ReaderInv'
  BY <1>1 DEF vars, ReaderInv, ReaderTypeOK, OneIngest, AtRest, AllOf
<1> QED
  BY <1>1, ReaderBesideIngest, ReaderReads DEF Next

\* Files, ingest, history and reader always have their types.
THEOREM TypeCorrect == Spec => []TypeOK
<1>1. StoreInv /\ ReaderInv => TypeOK
  BY DEF StoreInv, StoreTypeOK, ReaderInv, ReaderTypeOK, TypeOK
<1> QED
  BY <1>1, InitReader, ReaderInvStep, StoreInvariant, PTL DEF Spec

\* The report of cli/data_quality mixes no two ingests, whatever is ingested, dies
\* or is revised beside it, unless that happens to the very version it took.
THEOREM QualityReports == Spec => []QualityReadsOneIngest
<1>1. ReaderInv => QualityReadsOneIngest
  BY DEF ReaderInv, OneIngest, QualityReadsOneIngest, AllOf
<1> QED
  BY <1>1, InitReader, ReaderInvStep, StoreInvariant, PTL DEF Spec
=============================================================================
