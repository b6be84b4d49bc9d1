----------------------------- MODULE Repository -----------------------------
(***************************************************************************)
(* The data repository of infrastructure/data/repository.py as its callers *)
(* use it.  An ingest writes the files of a version one after the other,   *)
(* in place; a reader takes several reads to get a price table.  The       *)
(* ingest can die at any point, and readers run beside it.                 *)
(***************************************************************************)
EXTENDS Integers, FiniteSets

CONSTANTS
  Instruments,
  Spans,        \* shape, first and last date of a price table
  Bundles,      \* what can be ingested: ids, span, and the revision of the prices
  Digest,       \* the hash of _make_version_id, as the place of its hex digits in
                \* the lexicographic order
  Missing,      \* there is no such file
  Torn,         \* a file opened for writing and not yet, or never, written out
  None

ASSUME BundlesAssumption ==
  /\ IsFiniteSet(Bundles)
  /\ \A b \in Bundles : /\ b.ids \subseteq Instruments
                        /\ b.ids # {}
                        /\ b.span \in Spans
\* Two different inputs of the hash have different digests.
ASSUME DigestAssumption ==
  /\ Digest \in [(SUBSET Instruments) \X Spans -> Nat]
  /\ \A k, l \in (SUBSET Instruments) \X Spans : Digest[k] = Digest[l] => k = l
ASSUME NamesAssumption ==
  /\ {"instruments", "meta"} \cap Instruments = {}
  /\ {Missing, Torn, None} \cap Bundles = {} /\ Missing # Torn
  /\ None \notin Instruments \cup {"instruments", "meta"} \cup Nat

VARIABLES
  files,      \* what each file of each version holds: the bundle it came from
  ingest,     \* the ingest under way: its bundle, what it has to write, what is open
  damaged,    \* the versions whose last ingest died
  reader      \* the reader: kind, where it is, what it has read so far

vars == <<files, ingest, damaged, reader>>

\* Fault: the instruments are left out of the hash.
VersionId_NoInstruments(b) == Digest[<<{}, b.span>>]

\* _make_version_id: the instruments and the span, not the prices.
VersionId(b) == Digest[<<b.ids, b.span>>]

Versions == {VersionId(b) : b \in Bundles}

\* The instruments file, one bar file per instrument, and version.json.
Parts == {"instruments", "meta"} \cup Instruments
PartsOf(b) == {"instruments", "meta"} \cup b.ids
Content == Bundles \cup {Missing, Torn}

Idle == [bundle |-> None, todo |-> {}, open |-> None]

\* cli/data_quality reads one version; cli/validate takes the bars of a version
\* and the instruments of whatever comes last; the API takes the last of both
\* and caches the result (cli/evaluate does the same without the cache).
Kinds == {"data_quality", "validate", "api"}
VersionedBars == {"data_quality", "validate"}
VersionedInstruments == {"data_quality"}

NoReader == [kind |-> "api", at |-> "idle", unread |-> {}, version |-> None, ids |-> {},
             left |-> {}, columns |-> [i \in Instruments |-> Missing],
             quiet |-> FALSE]

Failed == [NoReader EXCEPT !.at = "failed"]

Init ==
  /\ files = [v \in Versions |-> [part \in Parts |-> Missing]]
  /\ ingest = Idle
  /\ damaged = {}
  /\ reader = NoReader

-----------------------------------------------------------------------------
(* create_version: one file after the other, the metadata last. *)

\* A run of cli/ingest whose data passed the validation.
Begin(b) ==
  /\ ingest = Idle
  /\ ingest' = [bundle |-> b, todo |-> PartsOf(b), open |-> None]
  /\ reader' = [reader EXCEPT !.quiet = @ /\ reader.version # VersionId(b)]
  /\ UNCHANGED <<files, damaged>>

\* Fault: the metadata may come before the bars.
Due_Unordered == ingest.todo

\* What may be written next: instruments, then the bars in the order of the
\* columns, then the metadata.
Due ==
  IF "instruments" \in ingest.todo THEN {"instruments"}
  ELSE IF ingest.todo \cap Instruments # {} THEN ingest.todo \cap Instruments
  ELSE ingest.todo

\* Opening a file for writing truncates it.
OpenFile(part) ==
  /\ ingest.open = None
  /\ part \in Due
  /\ ingest' = [ingest EXCEPT !.open = part]
  /\ files' = [files EXCEPT ![VersionId(ingest.bundle)][part] = Torn]
  /\ UNCHANGED <<damaged, reader>>

\* The file is complete; after the last one the ingest returns.
CloseFile ==
  /\ ingest.open # None
  /\ LET v == VersionId(ingest.bundle)
         rest == ingest.todo \ {ingest.open}
     IN /\ files' = [files EXCEPT ![v][ingest.open] = ingest.bundle]
        /\ ingest' = IF rest = {} THEN Idle
                     ELSE [ingest EXCEPT !.todo = rest, !.open = None]
        /\ damaged' = IF rest = {} THEN damaged \ {v} ELSE damaged
  /\ UNCHANGED reader

\* The ingest dies and leaves the files as they are.
Crash ==
  /\ ingest # Idle
  /\ ingest' = Idle
  /\ damaged' = damaged \cup {VersionId(ingest.bundle)}
  /\ UNCHANGED <<files, reader>>

-----------------------------------------------------------------------------
(* The readers. *)

Present(part) == {v \in Versions : files[v][part] # Missing}
Last(S) == IF S = {} THEN None ELSE CHOOSE v \in S : \A w \in S : w <= v

\* An ingest makes the directory of its version before it writes anything.
Directories ==
  {v \in Versions : \/ \E part \in Parts : files[v][part] # Missing
                    \/ v \in damaged
                    \/ ingest # Idle /\ v = VersionId(ingest.bundle)}

\* A reader starts; one that takes a version lists the directories first.  The API
\* that holds a table answers from it for good.
Request(kind) ==
  /\ reader.at \in {"idle", "failed"} \/ (reader.at = "done" /\ reader.kind # "api")
  /\ reader' = [NoReader EXCEPT
       !.kind = kind, !.at = IF kind \in VersionedBars THEN "version" ELSE "instruments",
       !.unread = IF kind \in VersionedBars THEN Directories ELSE {}]
  /\ UNCHANGED <<files, ingest, damaged>>

\* The API process is restarted.
Restart ==
  /\ reader.at = "done" /\ reader.kind = "api"
  /\ reader' = NoReader
  /\ UNCHANGED <<files, ingest, damaged>>

\* list_versions opens the version.json of one directory after the other, in the
\* order of their names; a torn one raises.  The last one read is kept.
ReadMeta(v) ==
  /\ reader.at = "version"
  /\ v \in reader.unread /\ \A w \in reader.unread : v <= w
  /\ reader' =
       CASE files[v]["meta"] = Torn -> Failed
         [] files[v]["meta"] = Missing -> [reader EXCEPT !.unread = @ \ {v}]
         [] OTHER -> [reader EXCEPT
                        !.unread = @ \ {v}, !.version = v,
                        !.quiet = /\ v \notin damaged
                                  /\ ingest # Idle => VersionId(ingest.bundle) # v]
  /\ UNCHANGED <<files, ingest, damaged>>

\* get_latest_version returns.
GetLatestVersion ==
  /\ reader.at = "version" /\ reader.unread = {}
  /\ reader' = IF reader.version = None THEN Failed
               ELSE [reader EXCEPT !.at = "instruments"]
  /\ UNCHANGED <<files, ingest, damaged>>

\* What a reader finds under a part, of its version or of the last one.
Found(part, versioned) ==
  LET v == IF versioned THEN reader.version ELSE Last(Present(part))
  IN IF v = None THEN Missing ELSE files[v][part]

LoadInstruments ==
  /\ reader.at = "instruments"
  /\ LET found == Found("instruments", reader.kind \in VersionedInstruments)
     IN reader' = IF found \in {Missing, Torn}
                  THEN Failed
                  ELSE [reader EXCEPT !.at = "bars", !.ids = found.ids,
                                      !.left = found.ids]
  /\ UNCHANGED <<files, ingest, damaged>>

\* Fault: the bars are always the last ones.
BarsFound_Latest(i) == Found(i, FALSE)
BarsFound(i) == Found(i, reader.kind \in VersionedBars)

\* load_bars, one instrument: a missing file is skipped, a torn one raises.
LoadBar(i) ==
  /\ reader.at = "bars"
  /\ i \in reader.left
  /\ reader' = IF BarsFound(i) = Torn
               THEN Failed
               ELSE [reader EXCEPT !.left = @ \ {i}, !.columns[i] = BarsFound(i)]
  /\ UNCHANGED <<files, ingest, damaged>>

\* The table is complete; to the API an empty one is no table.
Answer ==
  /\ reader.at = "bars"
  /\ reader.left = {}
  /\ reader' = IF /\ reader.kind = "api"
                   /\ \A i \in reader.ids : reader.columns[i] = Missing
                THEN Failed ELSE [reader EXCEPT !.at = "done"]
  /\ UNCHANGED <<files, ingest, damaged>>

Next ==
  \/ \E b \in Bundles : Begin(b)
  \/ \E part \in Parts : OpenFile(part)
  \/ CloseFile
  \/ Crash
  \/ \E kind \in Kinds : Request(kind)
  \/ Restart
  \/ \E v \in Versions : ReadMeta(v)
  \/ GetLatestVersion
  \/ LoadInstruments
  \/ \E i \in Instruments : LoadBar(i)
  \/ Answer

Spec == Init /\ [][Next]_vars

-----------------------------------------------------------------------------
(* Properties *)

\* Files, ingest, history and reader have their types.
TypeOK ==
  /\ files \in [Versions -> [Parts -> Content]]
  /\ ingest \in [bundle : Bundles \cup {None}, todo : SUBSET Parts,
                 open : Parts \cup {None}]
  /\ damaged \subseteq Versions
  /\ reader \in [kind : Kinds,
                 at : {"idle", "version", "instruments", "bars", "done", "failed"},
                 unread : SUBSET Versions, version : Versions \cup {None},
                 ids : SUBSET Instruments,
                 left : SUBSET Instruments, quiet : BOOLEAN,
                 columns : [Instruments -> Bundles \cup {Missing}]]

\* A version that lists as published has every one of its files, whichever
\* ingest of it died and where, and whatever was ingested beside it.
PublishedComplete ==
  \A b \in Bundles :
    files[VersionId(b)]["meta"] # Missing =>
      \A part \in PartsOf(b) : files[VersionId(b)][part] # Missing

\* An ingest run again after a crash repairs its version: no file of a version
\* stays torn once an ingest of it has run to its end.
CrashHealed ==
  \A v \in Versions \ damaged, part \in Parts :
    files[v][part] = Torn =>
      ingest # Idle /\ v = VersionId(ingest.bundle) /\ part = ingest.open

\* The quality report is about one ingest: when the version it took was not
\* damaged or being ingested again, every instrument of the version has its
\* column, and all columns come from the ingest that published it.
QualityReadsOneIngest ==
  reader.kind = "data_quality" /\ reader.at = "done" /\ reader.quiet =>
    \E b \in Bundles : /\ VersionId(b) = reader.version
                       /\ reader.ids = b.ids
                       /\ \A i \in b.ids : reader.columns[i] = b

\* A version holds no file of an instrument that is not one of its own.
OwnFilesOnly ==
  \A b \in Bundles : \A part \in Parts \ PartsOf(b) :
    files[VersionId(b)][part] = Missing
\* What it holds is of its own instruments and dates.
RevisionsOnly ==
  \A b, c \in Bundles : \A part \in Parts :
    files[VersionId(b)][part] = c => c.ids = b.ids /\ c.span = b.span

\* The version id does not depend on the prices, so an ingest writes over the
\* version it revises (repository.py:37 says that nothing is overwritten).  It
\* never writes over anything else: every file a version holds is one of its
\* own, and was written by an ingest of its own instruments and dates.
OverwrittenByRevisionsOnly == OwnFilesOnly /\ RevisionsOnly
=============================================================================
