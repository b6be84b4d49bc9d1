---------------------------- MODULE IngestProofs ----------------------------
(***************************************************************************)
(* What was published stays what the cache holds, and an ingest gets what  *)
(* it owes, for every set of symbols and ranges, every number of retries   *)
(* and every number of ingests.                                            *)
(***************************************************************************)
EXTENDS Ingest, TLAPS

\* The key under work and what is known of its file; the columns and the
\* published versions repeat the cache, whose rows are of the range of their key.
Steady ==
  /\ ingest.at # "idle" => ingest.range \in Ranges /\ runs \in 1..MaxRuns
  /\ ingest.at \in {"request", "write", "close", "assemble"} => ingest.symbol \in Symbols
  /\ ingest.at \in {"request", "write"} =>
       cache[CacheKey(ingest.symbol, ingest.range)] = Missing
  /\ ingest.at = "close" => cache[CacheKey(ingest.symbol, ingest.range)] = Torn
  /\ ingest.at \in {"write", "close"} =>
       ingest.received \in Rows /\ ingest.received.range = ingest.range
  /\ \A s \in Symbols : ingest.columns[s] # None =>
       ingest.columns[s] = cache[CacheKey(s, ingest.range)]

CutToKey == \A s \in Symbols, r \in Ranges :
  cache[CacheKey(s, r)] \in Rows => cache[CacheKey(s, r)].range = r

SavedIsCached == \A v \in saved, s \in Symbols :
  v.columns[s] # None =>
    v.columns[s] = cache[CacheKey(s, v.range)] /\ v.columns[s].flaw = "none"

IngestInv == TypeOK /\ Steady /\ CutToKey /\ SavedIsCached

LEMMA InitInv == Init => IngestInv
  BY SymbolsAssumption, NamesAssumption
     DEF Init, IngestInv, TypeOK, Ingests, Steady, CutToKey, SavedIsCached, Idle, NoColumns,
         Keys, CacheKey

\* The types of what an ingest becomes.
LEMMA IdleType == Idle \in Ingests
  BY NamesAssumption DEF Ingests, Idle, NoColumns

LEMMA DoneFields ==
  ASSUME ingest \in Ingests, NEW s \in Symbols, NEW rows \in Rows \cup {None}
  PROVE  LET d == Done(s, rows)
         IN /\ d \in Ingests /\ d.range = ingest.range
            /\ d.at = "symbols" \/ (d.at = "assemble" /\ d.symbol = s)
            /\ d.available = ingest.available /\ d.due = ingest.due
            /\ d.left = ingest.left \ {s}
            /\ \A t \in Symbols : d.columns[t] = IF t = s THEN rows ELSE ingest.columns[t]
<1> DEFINE last == ingest.left \cap Of(Provider[s]) = {s}
           at == IF last THEN "assemble" ELSE "symbols"
           symbol == IF last THEN s ELSE None
           left == ingest.left \ {s}
           columns == [ingest.columns EXCEPT ![s] = rows]
           d == [ingest EXCEPT !.at = at, !.symbol = symbol, !.left = left,
                               !.attempt = 0, !.received = None, !.columns = columns]
<1>1. Done(s, rows) = d
  BY DEF Done, Ingests
<1>2. /\ at \in {"symbols", "assemble"} /\ symbol \in Symbols \cup {None}
      /\ at = "symbols" \/ (at = "assemble" /\ symbol = s)
  OBVIOUS
<1>3. left \in SUBSET Symbols /\ columns \in [Symbols -> Rows \cup {None}]
  BY DEF Ingests
<1>4. \A t \in Symbols : columns[t] = IF t = s THEN rows ELSE ingest.columns[t]
  BY DEF Ingests
<1>5. left = ingest.left \ {s}
  OBVIOUS
<1> HIDE DEF last, at, symbol, left, columns
<1>6. /\ d.range = ingest.range /\ d.at = at /\ d.symbol = symbol
      /\ d.available = ingest.available /\ d.due = ingest.due
      /\ d.left = left /\ d.columns = columns
  BY DEF Ingests
<1>7. d \in Ingests
  BY <1>2, <1>3 DEF Ingests
<1> HIDE DEF d
<1> QED
  BY <1>1, <1>2, <1>4, <1>5, <1>6, <1>7

\* What a symbol given up leaves.
LEMMA FailedFields ==
  ASSUME ingest \in Ingests, NEW s \in Symbols
  PROVE  LET d == Failed(s)
         IN /\ d \in Ingests /\ d.range = ingest.range
            /\ d.at = "symbols" \/ (d.at = "assemble" /\ d.symbol = s)
            /\ d.available = ingest.available /\ d.due = ingest.due \ {s}
            /\ d.left = ingest.left \ {s}
            /\ \A t \in Symbols : d.columns[t] = IF t = s THEN None ELSE ingest.columns[t]
<1> DEFINE d == Done(s, None)
<1>1. /\ d \in Ingests /\ d.range = ingest.range
      /\ d.at = "symbols" \/ (d.at = "assemble" /\ d.symbol = s)
      /\ d.available = ingest.available /\ d.due = ingest.due
      /\ d.left = ingest.left \ {s}
      /\ \A t \in Symbols : d.columns[t] = IF t = s THEN None ELSE ingest.columns[t]
  BY DoneFields
<1>2. Failed(s) = [d EXCEPT !.due = @ \ {s}]
  BY DEF Failed
<1> HIDE DEF d
<1> QED
  BY <1>1, <1>2 DEF Ingests

\* What an exception leaves of the columns of a provider.
LEMMA DropFields ==
  ASSUME ingest \in Ingests, NEW p
  PROVE  LET d == DropProvider(p)
         IN /\ d \in Ingests /\ d.range = ingest.range /\ d.at = "symbols"
            /\ d.available = ingest.available /\ d.due = ingest.due \ Of(p)
            /\ d.left = ingest.left \ Of(p)
            /\ \A t \in Symbols : d.columns[t] = IF t \in Of(p) THEN None ELSE ingest.columns[t]
<1> DEFINE columns == [t \in Symbols |-> IF t \in Of(p) THEN None ELSE ingest.columns[t]]
           d == [ingest EXCEPT !.at = "symbols", !.left = ingest.left \ Of(p), !.symbol = None,
                               !.attempt = 0, !.received = None, !.due = ingest.due \ Of(p),
                               !.columns = columns]
<1>1. DropProvider(p) = d
  BY DEF DropProvider, Ingests
<1>2. columns \in [Symbols -> Rows \cup {None}]
  BY DEF Ingests
<1>3. \A t \in Symbols : columns[t] = IF t \in Of(p) THEN None ELSE ingest.columns[t]
  OBVIOUS
<1> HIDE DEF columns
<1>4. d \in Ingests
  BY <1>2 DEF Ingests
<1>5. /\ d.range = ingest.range /\ d.at = "symbols" /\ d.available = ingest.available
      /\ d.due = ingest.due \ Of(p) /\ d.left = ingest.left \ Of(p)
      /\ d.columns = columns
  BY DEF Ingests
<1> HIDE DEF d
<1> QED
  BY <1>1, <1>3, <1>4, <1>5

LEMMA StepType ==
  ASSUME ingest \in Ingests, NEW s \in Symbols, NEW rows \in Rows \cup {None},
         NEW S \in SUBSET Symbols
  PROVE  /\ Done(s, rows) \in Ingests
         /\ Failed(s) \in Ingests
         /\ DropProvider(Provider[s]) \in Ingests
         /\ Raised(Provider[s]) \in Ingests
         /\ [ingest EXCEPT !.at = "symbols", !.symbol = None] \in Ingests
         /\ [ingest EXCEPT !.at = "request", !.symbol = s] \in Ingests
         /\ [ingest EXCEPT !.at = "write", !.received = rows, !.due = S] \in Ingests
         /\ [ingest EXCEPT !.attempt = @ + 1] \in Ingests
         /\ [ingest EXCEPT !.at = "close"] \in Ingests
<1>1. Done(s, rows) \in Ingests
  BY DoneFields
<1>2. Failed(s) \in Ingests
  BY FailedFields
<1>3. DropProvider(Provider[s]) \in Ingests
  BY DropFields
<1>4. /\ [ingest EXCEPT !.at = "request", !.symbol = s] \in Ingests
      /\ [ingest EXCEPT !.at = "symbols", !.symbol = None] \in Ingests
  BY DEF Ingests
<1>5. [ingest EXCEPT !.at = "write", !.received = rows, !.due = S] \in Ingests
  BY DEF Ingests
<1>6. [ingest EXCEPT !.attempt = @ + 1] \in Ingests
  BY DEF Ingests
<1>7. [ingest EXCEPT !.at = "close"] \in Ingests
  BY DEF Ingests
<1>8. Raised(Provider[s]) \in Ingests
  BY <1>3, IdleType DEF Raised
<1> QED BY <1>1, <1>2, <1>3, <1>4, <1>5, <1>6, <1>7, <1>8

\* The fields of what an ingest becomes.
LEMMA StepFields ==
  ASSUME ingest \in Ingests, NEW s \in Symbols, NEW rows \in Rows \cup {None},
         NEW S \in SUBSET Symbols
  PROVE  /\ LET r == [ingest EXCEPT !.at = "request", !.symbol = s]
            IN /\ r.at = "request" /\ r.range = ingest.range /\ r.symbol = s
               /\ r.columns = ingest.columns
         /\ LET w == [ingest EXCEPT !.at = "write", !.received = rows, !.due = S]
            IN /\ w.at = "write" /\ w.range = ingest.range /\ w.received = rows
               /\ w.symbol = ingest.symbol /\ w.columns = ingest.columns
         /\ LET t == [ingest EXCEPT !.attempt = @ + 1]
            IN /\ t.at = ingest.at /\ t.range = ingest.range /\ t.symbol = ingest.symbol
               /\ t.received = ingest.received /\ t.columns = ingest.columns
         /\ LET o == [ingest EXCEPT !.at = "close"]
            IN /\ o.at = "close" /\ o.range = ingest.range /\ o.symbol = ingest.symbol
               /\ o.received = ingest.received /\ o.columns = ingest.columns
  BY DEF Ingests

\* No ingest under way satisfies all that is said of one.
LEMMA IdleSteady ==
  ASSUME Idle = ingest' PROVE Steady'
  BY DEF Steady, Idle, NoColumns

\* What an exception leaves takes columns away and starts nothing.
LEMMA RaisedSteady ==
  ASSUME ingest \in Ingests, Steady, ingest.at # "idle", NEW s \in Symbols,
         ingest' = Raised(Provider[s]), UNCHANGED <<cache, runs, saved>>
  PROVE  Steady'
<1>1. CASE ingest' = Idle
  BY <1>1, IdleSteady
<1>2. CASE ingest' = DropProvider(Provider[s])
  <2>1. /\ ingest'.at = "symbols" /\ ingest'.range = ingest.range
        /\ \A t \in Symbols : ingest'.columns[t] \in {ingest.columns[t], None}
    BY <1>2, DropFields
  <2> QED
    BY <2>1 DEF Steady
<1> QED
  BY <1>1, <1>2 DEF Raised

LEMMA StepInv == IngestInv /\ [Next]_vars => IngestInv'
<1> SUFFICES ASSUME IngestInv, [Next]_vars PROVE IngestInv'
  OBVIOUS
<1> USE SymbolsAssumption, NamesAssumption
<1>0. /\ TypeOK /\ Steady /\ CutToKey /\ SavedIsCached
      /\ ingest \in Ingests /\ runs \in 0..MaxRuns
      /\ cache \in [Keys -> Rows \cup {Missing, Torn}]
      /\ saved \subseteq [range : Ranges, columns : [Symbols -> Rows \cup {None}]]
      /\ ingest.columns \in [Symbols -> Rows \cup {None}]
  BY DEF IngestInv, TypeOK, Ingests
\* A step that leaves cache, runs and published versions needs only its ingest.
<1>a. ASSUME UNCHANGED <<cache, runs, saved>>, ingest' \in Ingests, Steady'
      PROVE IngestInv'
  BY <1>0, <1>a DEF IngestInv, TypeOK, CutToKey, SavedIsCached
<1>1. ASSUME NEW request \in Requests, NEW range \in Ranges, NEW skip \in BOOLEAN,
             NEW available \in SUBSET Providers,
             Begin(request, range, skip, available)
      PROVE IngestInv'
  <2> DEFINE left == IF skip THEN request \ Of("yfinance") ELSE request
             owed == IF \A s \in left : Usable(CacheKey(s, range))
                     THEN {s \in left : Provider[s] \in available} ELSE {}
  <2>0. left \in SUBSET Symbols /\ owed \in SUBSET Symbols
    OBVIOUS
  <2>1. ingest' = [Idle EXCEPT !.at = "symbols", !.range = range,
                     !.available = available, !.left = left, !.due = owed]
    BY <1>1 DEF Begin
  <2> HIDE DEF left, owed
  <2>2. runs' \in 1..MaxRuns
    BY <1>0, <1>1 DEF Begin
  <2>3. ingest' \in Ingests
    BY <2>0, <2>1 DEF Idle, NoColumns, Ingests
  <2>4. /\ ingest'.at = "symbols" /\ ingest'.range = range
        /\ ingest'.columns = NoColumns
    BY <2>1 DEF Idle
  <2>5. Steady'
    BY <2>2, <2>4 DEF Steady, NoColumns
  <2> QED BY <1>0, <1>1, <2>2, <2>3, <2>5
          DEF Begin, IngestInv, TypeOK, CutToKey, SavedIsCached
<1>2. ASSUME NEW s \in Symbols, FetchOne(s) PROVE IngestInv'
  <2> DEFINE entry == cache[CacheKey(s, ingest.range)]
  <2>0. /\ ingest.range \in Ranges /\ runs \in 1..MaxRuns
        /\ ingest.at = "symbols"
        /\ entry \in Rows \cup {Missing, Torn}
        /\ UNCHANGED <<cache, runs, saved>>
    BY <1>0, <1>2 DEF FetchOne, Steady, CacheKey, Keys
  <2>1. CASE Lookup(s) = "hit" /\ ingest' = Done(s, entry)
    <3>1. entry \in Rows
      BY <2>0, <2>1 DEF Lookup, AKShareLookup, TiingoLookup, YahooLookup
    <3>2. ingest' \in Ingests
      BY <1>0, <2>1, <3>1, StepType
    <3>3. /\ ingest'.range = ingest.range
          /\ ingest'.at = "symbols" \/ (ingest'.at = "assemble" /\ ingest'.symbol = s)
          /\ \A t \in Symbols : ingest'.columns[t] = IF t = s THEN entry ELSE ingest.columns[t]
      BY <1>0, <2>1, <3>1, DoneFields
    <3>4. Steady'
      BY <1>0, <2>0, <3>3 DEF Steady
    <3> QED BY <2>0, <3>2, <3>4, <1>a
  <2>2. CASE ingest' = Done(s, None)
    <3>1. ingest' \in Ingests
      BY <1>0, <2>2, StepType
    <3>2. /\ ingest'.range = ingest.range
          /\ ingest'.at = "symbols" \/ (ingest'.at = "assemble" /\ ingest'.symbol = s)
          /\ \A t \in Symbols : ingest'.columns[t] \in {ingest.columns[t], None}
      BY <1>0, <2>2, DoneFields
    <3>3. Steady'
      BY <1>0, <2>0, <3>2 DEF Steady
    <3> QED BY <2>0, <3>1, <3>3, <1>a
  <2>3. CASE ingest' = Raised(Provider[s])
    BY <1>0, <2>0, <2>3, RaisedSteady, StepType, <1>a
  <2>5. CASE /\ Lookup(s) = "ask"
             /\ ingest' = [ingest EXCEPT !.at = "request", !.symbol = s]
    <3>1. entry = Missing
      BY <2>0, <2>5 DEF Lookup, AKShareLookup, TiingoLookup, YahooLookup
    <3>2. ingest' \in Ingests
      BY <1>0, <2>5, StepType
    <3>3. /\ ingest'.at = "request" /\ ingest'.range = ingest.range
          /\ ingest'.symbol = s /\ ingest'.columns = ingest.columns
      BY <1>0, <2>5, StepFields
    <3>4. Steady'
      BY <1>0, <2>0, <3>1, <3>3 DEF Steady
    <3> QED BY <2>0, <3>2, <3>4, <1>a
  <2>6. Lookup(s) \in {"hit", "none", "raise", "ask"}
    BY DEF Lookup, AKShareLookup, TiingoLookup, YahooLookup
  <2> QED BY <1>2, <2>1, <2>2, <2>3, <2>5, <2>6 DEF FetchOne
<1>3. ASSUME NEW reply \in Replies, NEW flaw \in Flaws, Respond(reply, flaw)
      PROVE IngestInv'
  <2> DEFINE s == ingest.symbol
             rows == [range |-> ingest.range, run |-> runs, flaw |-> flaw]
             owed == IF flaw = "none" THEN ingest.due ELSE {}
  <2>0. /\ s \in Symbols /\ ingest.range \in Ranges /\ runs \in 1..MaxRuns
        /\ ingest.at = "request" /\ UNCHANGED <<cache, runs, saved>>
    BY <1>0, <1>3 DEF Respond, Steady
  <2>1. CASE ingest' = [ingest EXCEPT !.at = "write", !.received = rows, !.due = owed]
    <3>1. rows \in Rows /\ rows.range = ingest.range /\ owed \in SUBSET Symbols
      BY <1>0, <2>0 DEF Rows, Ingests
    <3> HIDE DEF rows, owed
    <3>2. ingest' \in Ingests
      BY <1>0, <2>0, <2>1, <3>1, StepType
    <3>3. /\ ingest'.at = "write" /\ ingest'.range = ingest.range
          /\ ingest'.received = rows
          /\ ingest'.symbol = s /\ ingest'.columns = ingest.columns
      BY <1>0, <2>0, <2>1, <3>1, StepFields
    <3>4. Steady'
      BY <1>0, <2>0, <3>1, <3>3 DEF Steady
    <3> QED BY <2>0, <3>2, <3>4, <1>a
  <2>2. CASE ingest' = Failed(s)
    <3>1. ingest' \in Ingests
      BY <1>0, <2>0, <2>2, StepType
    <3>2. /\ ingest'.range = ingest.range
          /\ ingest'.at = "symbols" \/ (ingest'.at = "assemble" /\ ingest'.symbol = s)
          /\ \A t \in Symbols : ingest'.columns[t] \in {ingest.columns[t], None}
      BY <1>0, <2>0, <2>2, FailedFields
    <3>3. Steady'
      BY <1>0, <2>0, <3>2 DEF Steady
    <3> QED BY <2>0, <3>1, <3>3, <1>a
  <2>3. CASE ingest' = [ingest EXCEPT !.attempt = @ + 1]
    <3>1. ingest' \in Ingests
      BY <1>0, <2>0, <2>3, StepType
    <3>2. /\ ingest'.at = ingest.at /\ ingest'.range = ingest.range
          /\ ingest'.symbol = s /\ ingest'.received = ingest.received
          /\ ingest'.columns = ingest.columns
      BY <1>0, <2>0, <2>3, StepFields
    <3>3. Steady'
      BY <1>0, <2>0, <3>2 DEF Steady
    <3> QED BY <2>0, <3>1, <3>3, <1>a
  <2>4. CASE ingest' = Raised(Provider[s])
    BY <1>0, <2>0, <2>4, RaisedSteady, StepType, <1>a
  <2> QED BY <1>3, <2>1, <2>2, <2>3, <2>4 DEF Respond, TryAgain
<1>4. CASE OpenCache
  <2> DEFINE key == CacheKey(ingest.symbol, ingest.range)
  <2>0. /\ ingest.symbol \in Symbols /\ ingest.range \in Ranges
        /\ runs \in 1..MaxRuns /\ UNCHANGED <<runs, saved>>
        /\ ingest.received \in Rows /\ ingest.received.range = ingest.range
        /\ key \in Keys /\ cache[key] = Missing /\ cache'[key] = Torn
        /\ \A k \in Keys \ {key} : cache'[k] = cache[k]
    BY <1>0, <1>4 DEF OpenCache, Steady, CacheKey, Keys
  <2>1. /\ ingest' \in Ingests
        /\ ingest'.at = "close" /\ ingest'.range = ingest.range
        /\ ingest'.symbol = ingest.symbol /\ ingest'.received = ingest.received
        /\ ingest'.columns = ingest.columns
    BY <1>0, <1>4 DEF OpenCache, Ingests
  <2>2. \A s \in Symbols, r \in Ranges :
          cache[CacheKey(s, r)] \in Rows => cache'[CacheKey(s, r)] = cache[CacheKey(s, r)]
    BY <2>0 DEF CacheKey, Keys
  <2>3. cache' \in [Keys -> Rows \cup {Missing, Torn}]
    BY <1>0, <1>4, <2>0 DEF OpenCache
  <2>4. Steady'
    BY <1>0, <2>0, <2>1, <2>2 DEF Steady
  <2>5. CutToKey'
    BY <1>0, <2>0, <2>2 DEF CutToKey, CacheKey, Keys
  <2>6. SavedIsCached'
    BY <1>0, <2>0, <2>2 DEF SavedIsCached
  <2> QED BY <1>0, <2>0, <2>1, <2>3, <2>4, <2>5, <2>6 DEF IngestInv, TypeOK
<1>5. CASE CloseCache
  <2> DEFINE key == CacheKey(ingest.symbol, ingest.range)
  <2>0. /\ ingest.symbol \in Symbols /\ ingest.range \in Ranges
        /\ runs \in 1..MaxRuns /\ UNCHANGED <<runs, saved>>
        /\ ingest.received \in Rows /\ ingest.received.range = ingest.range
        /\ key \in Keys /\ cache[key] = Torn /\ cache'[key] = ingest.received
        /\ \A k \in Keys \ {key} : cache'[k] = cache[k]
    BY <1>0, <1>5 DEF CloseCache, Steady, CacheKey, Keys
  <2>1. /\ ingest' \in Ingests /\ ingest'.range = ingest.range
        /\ \/ ingest'.at = "symbols"
           \/ ingest'.at = "assemble" /\ ingest'.symbol = ingest.symbol
        /\ \A t \in Symbols : ingest'.columns[t] =
             IF t = ingest.symbol THEN ingest.received ELSE ingest.columns[t]
    <3>1. ingest' = Done(ingest.symbol, ingest.received)
      BY <1>5 DEF CloseCache
    <3>2. ingest' \in Ingests
      BY <1>0, <2>0, <3>1, StepType
    <3> QED BY <1>0, <2>0, <3>1, <3>2, DoneFields
  <2>2. \A s \in Symbols, r \in Ranges :
          cache[CacheKey(s, r)] \in Rows => cache'[CacheKey(s, r)] = cache[CacheKey(s, r)]
    BY <2>0 DEF CacheKey, Keys
  <2>3. cache' \in [Keys -> Rows \cup {Missing, Torn}]
    BY <1>0, <1>5, <2>0 DEF CloseCache
  <2>4. Steady'
    BY <1>0, <2>0, <2>1, <2>2 DEF Steady
  <2>5. CutToKey'
    BY <1>0, <2>0, <2>2 DEF CutToKey, CacheKey, Keys
  <2>6. SavedIsCached'
    BY <1>0, <2>0, <2>2 DEF SavedIsCached
  <2> QED BY <1>0, <2>0, <2>1, <2>3, <2>4, <2>5, <2>6 DEF IngestInv, TypeOK
<1>6. CASE Abort \/ Kill
  <2>1. ingest' = Idle /\ UNCHANGED <<cache, runs, saved>>
    BY <1>6 DEF Abort, Kill
  <2> QED BY <2>1, IdleType, IdleSteady, <1>a
<1>7. CASE Save
  <2> DEFINE v == [range |-> ingest.range, columns |-> ingest.columns]
  <2>1. /\ ingest.range \in Ranges /\ ingest' = Idle /\ saved' = saved \cup {v}
        /\ UNCHANGED <<cache, runs>>
    BY <1>0, <1>7 DEF Save, Steady
  <2>2. TypeOK' /\ Steady' /\ CutToKey'
    BY <1>0, <2>1, IdleType, IdleSteady DEF TypeOK, CutToKey
  <2>3. \A s \in Symbols : v.columns[s] # None =>
          v.columns[s] = cache[CacheKey(s, v.range)] /\ v.columns[s].flaw = "none"
    BY <1>0, <1>7 DEF Save, Valid, Fetched, Steady
  <2>4. SavedIsCached'
    BY <1>0, <2>1, <2>3 DEF SavedIsCached
  <2> QED BY <2>2, <2>4 DEF IngestInv
<1>8. CASE WriteFails
  <2>1. /\ ingest.symbol \in Symbols /\ ingest' = Raised(Provider[ingest.symbol])
        /\ ingest.at # "idle" /\ UNCHANGED <<cache, runs, saved>>
    BY <1>0, <1>8 DEF WriteFails, Steady
  <2> QED BY <1>0, <2>1, RaisedSteady, StepType, <1>a
<1>9. ASSUME NEW clash \in BOOLEAN, Assemble(clash) PROVE IngestInv'
  <2>0. /\ ingest.symbol \in Symbols /\ ingest.at = "assemble"
        /\ UNCHANGED <<cache, runs, saved>>
    BY <1>0, <1>9 DEF Assemble, Steady
  <2>1. CASE ingest' = Raised(Provider[ingest.symbol])
    BY <1>0, <2>0, <2>1, RaisedSteady, StepType, <1>a
  <2>2. CASE ingest' = [ingest EXCEPT !.at = "symbols", !.symbol = None]
    <3>1. /\ ingest'.at = "symbols" /\ ingest'.range = ingest.range
          /\ ingest'.columns = ingest.columns
      BY <1>0, <2>2 DEF Ingests
    <3>2. Steady'
      BY <1>0, <2>0, <3>1 DEF Steady
    <3>3. ingest' \in Ingests
      BY <1>0, <2>0, <2>2, StepType
    <3> QED BY <2>0, <3>2, <3>3, <1>a
  <2> QED BY <1>9, <2>1, <2>2 DEF Assemble
<1>10. CASE UNCHANGED vars
  BY <1>0, <1>10 DEF vars, IngestInv, TypeOK, Steady, CutToKey, SavedIsCached
<1> QED BY <1>1, <1>2, <1>3, <1>4, <1>5, <1>6, <1>7, <1>8, <1>9, <1>10 DEF Next, Work

\* The invariant of the ingests: what is published is what the cache holds.
THEOREM IngestInvariant == Spec => []IngestInv
  BY InitInv, StepInv, PTL DEF Spec

\* Cache, ingest and published versions always have their types.
THEOREM TypeCorrect == Spec => []TypeOK
<1>1. IngestInv => TypeOK
  BY DEF IngestInv
<1> QED BY <1>1, IngestInvariant, PTL

\* Nothing unsound and nothing of another range is published, by any sequence of
\* ingests, outages and kills.
THEOREM PublishedSound == Spec => []PublishedIsSound
<1>1. IngestInv => PublishedIsSound
  <2> SUFFICES ASSUME IngestInv, NEW v \in saved, NEW s \in Symbols, v.columns[s] # None
               PROVE v.columns[s].range = v.range /\ v.columns[s].flaw = "none"
    BY DEF PublishedIsSound
  <2>1. v.range \in Ranges /\ v.columns[s] \in Rows
    BY DEF IngestInv, TypeOK
  <2> QED BY <2>1 DEF IngestInv, SavedIsCached, CutToKey
<1> QED BY <1>1, IngestInvariant, PTL

\* Ingests of one range agree on every symbol both published.
THEOREM RerunsAgreeAlways == Spec => []RerunsAgree
<1>1. IngestInv => RerunsAgree
  BY DEF IngestInv, SavedIsCached, RerunsAgree
<1> QED BY <1>1, IngestInvariant, PTL

-----------------------------------------------------------------------------
(* What an ingest owes *)

\* A symbol that is due is still to come or there.  Something is due only as long
\* as every cache file to come is missing or sound, but for the one being written,
\* and what is written is sound.
Owing ==
  /\ \A s \in ingest.due : /\ Provider[s] \in ingest.available
                           /\ s \in ingest.left \/ ingest.columns[s] # None
  /\ ingest.due # {} =>
       /\ \A s \in ingest.left : \/ Usable(CacheKey(s, ingest.range))
                                 \/ ingest.at = "close" /\ s = ingest.symbol
       /\ ingest.at \in {"write", "close"} => ingest.received.flaw = "none"

\* With a cache that is the same, less to come, less due and nothing taken away.
LEMMA OwingShrinks ==
  ASSUME IngestInv, Owing, cache' = cache, ingest' \in Ingests,
         ingest.at # "close" \/ ingest.symbol \notin ingest'.left,
         ingest'.at \in {"symbols", "request", "assemble"},
         ingest'.range = ingest.range, ingest'.available = ingest.available,
         ingest'.left \subseteq ingest.left, ingest'.due \subseteq ingest.due,
         \A s \in ingest'.due : \/ s \in ingest.left => s \in ingest'.left
                                \/ ingest'.columns[s] # None,
         \A s \in ingest'.due : ingest.columns[s] # None => ingest'.columns[s] # None
  PROVE  Owing'
<1>1. \A k : Usable(k)' <=> Usable(k)
  BY DEF Usable
<1>2. ASSUME NEW s \in ingest'.due
      PROVE  Provider[s] \in ingest'.available /\ (s \in ingest'.left \/ ingest'.columns[s] # None)
  BY <1>2 DEF Owing
<1>3. ASSUME ingest'.due # {}, NEW s \in ingest'.left
      PROVE  Usable(CacheKey(s, ingest.range))
  BY <1>3 DEF Owing
<1> QED
  BY <1>1, <1>2, <1>3 DEF Owing, CacheKey, Usable

LEMMA OwingNothing ==
  ASSUME ingest' \in Ingests, ingest'.due = {}
  PROVE  Owing'
  BY DEF Owing

\* What an exception drops it is not owed.
LEMMA OwingRaised ==
  ASSUME IngestInv, Owing, cache' = cache, NEW s \in Symbols,
         ingest.at = "close" => ingest.symbol = s,
         ingest' = Raised(Provider[s]), ingest' \in Ingests
  PROVE  Owing'
<1>0. ingest \in Ingests
  BY DEF IngestInv, TypeOK
<1>1. CASE ingest' = Idle
  BY <1>1, OwingNothing DEF Idle
<1>2. CASE ingest' = DropProvider(Provider[s])
  <2>1. /\ ingest'.at = "symbols" /\ ingest'.range = ingest.range
        /\ ingest'.available = ingest.available
        /\ ingest'.left = ingest.left \ Of(Provider[s])
        /\ ingest'.due = ingest.due \ Of(Provider[s])
        /\ \A t \in Symbols \ Of(Provider[s]) : ingest'.columns[t] = ingest.columns[t]
    BY <1>0, <1>2, DropFields
  <2>3. s \in Of(Provider[s]) /\ ingest.due \subseteq Symbols
    BY <1>0 DEF Of, Ingests
  <2> QED
    BY <2>1, <2>3, OwingShrinks
<1> QED
  BY <1>1, <1>2 DEF Raised

LEMMA OwingStep == IngestInv /\ Owing /\ [Next]_vars => Owing'
<1> SUFFICES ASSUME IngestInv, Owing, [Next]_vars PROVE Owing'
  OBVIOUS
<1> USE SymbolsAssumption, NamesAssumption
<1>0. /\ Steady /\ ingest \in Ingests /\ ingest' \in Ingests
      /\ cache \in [Keys -> Rows \cup {Missing, Torn}]
      /\ ingest.columns \in [Symbols -> Rows \cup {None}]
      /\ ingest.due \in SUBSET Symbols /\ ingest.left \in SUBSET Symbols
  <2>1. IngestInv'
    BY StepInv
  <2> QED
    BY <2>1 DEF IngestInv, TypeOK, Ingests
<1>1. ASSUME NEW request \in Requests, NEW range \in Ranges, NEW skip \in BOOLEAN,
             NEW available \in SUBSET Providers,
             Begin(request, range, skip, available)
      PROVE  Owing'
  <2> DEFINE left == IF skip THEN request \ Of("yfinance") ELSE request
             owed == IF \A s \in left : Usable(CacheKey(s, range))
                     THEN {s \in left : Provider[s] \in available} ELSE {}
  <2>1. /\ cache' = cache
        /\ ingest' = [Idle EXCEPT !.at = "symbols", !.range = range,
                        !.available = available, !.left = left, !.due = owed]
    BY <1>1 DEF Begin
  <2>2. owed # {} => \A s \in left : Usable(CacheKey(s, range))
    OBVIOUS
  <2>3. \A s \in owed : s \in left /\ Provider[s] \in available
    OBVIOUS
  <2> HIDE DEF left, owed
  <2>4. /\ ingest'.at = "symbols" /\ ingest'.range = range /\ ingest'.left = left
        /\ ingest'.due = owed /\ ingest'.available = available
    BY <2>1 DEF Idle
  <2>5. \A k : Usable(k)' <=> Usable(k)
    BY <2>1 DEF Usable
  <2> QED
    BY <2>2, <2>3, <2>4, <2>5 DEF Owing, Usable, CacheKey
<1>2. ASSUME NEW s \in Symbols, FetchOne(s) PROVE Owing'
  <2> DEFINE entry == cache[CacheKey(s, ingest.range)]
  <2>0. /\ ingest.at = "symbols" /\ s \in ingest.left
        /\ cache' = cache
        /\ entry \in Rows \cup {Missing, Torn}
    BY <1>0, <1>2 DEF FetchOne, Steady, CacheKey, Keys
  <2>2. CASE Lookup(s) = "hit" /\ ingest' = Done(s, entry)
    <3>1. entry \in Rows
      BY <2>0, <2>2 DEF Lookup, AKShareLookup, TiingoLookup, YahooLookup
    <3>2. /\ ingest'.at \in {"symbols", "assemble"} /\ ingest'.range = ingest.range
          /\ ingest'.available = ingest.available /\ ingest'.due = ingest.due
          /\ ingest'.left = ingest.left \ {s}
          /\ \A t \in Symbols : ingest'.columns[t] = IF t = s THEN entry ELSE ingest.columns[t]
      BY <1>0, <2>2, <3>1, DoneFields
    <3>3. entry # None
      BY <3>1
    <3> HIDE DEF entry
    <3> QED
      BY <1>0, <2>0, <3>2, <3>3, OwingShrinks
  <2>3. CASE Lookup(s) = "none" /\ ingest' = Done(s, None)
    <3>1. Provider[s] \notin ingest.available
      BY <2>0, <2>3 DEF Lookup, AKShareLookup, TiingoLookup, YahooLookup
    <3>2. s \notin ingest.due
      BY <3>1 DEF Owing
    <3>3. /\ ingest'.at \in {"symbols", "assemble"} /\ ingest'.range = ingest.range
          /\ ingest'.available = ingest.available /\ ingest'.due = ingest.due
          /\ ingest'.left = ingest.left \ {s}
          /\ \A t \in Symbols \ {s} : ingest'.columns[t] = ingest.columns[t]
      BY <1>0, <2>3, DoneFields
    <3> QED
      BY <1>0, <2>0, <3>2, <3>3, OwingShrinks
  <2>4. CASE ingest' = Raised(Provider[s])
    BY <1>0, <2>0, <2>4, OwingRaised
  <2>6. CASE ingest' = [ingest EXCEPT !.at = "request", !.symbol = s]
    <3>1. /\ ingest'.at = "request" /\ ingest'.range = ingest.range
          /\ ingest'.available = ingest.available /\ ingest'.due = ingest.due
          /\ ingest'.left = ingest.left /\ ingest'.columns = ingest.columns
      BY <1>0, <2>6 DEF Ingests
    <3> QED
      BY <1>0, <2>0, <3>1, OwingShrinks
  <2>7. Lookup(s) \in {"hit", "none", "raise", "ask"}
    BY DEF Lookup, AKShareLookup, TiingoLookup, YahooLookup
  <2> QED
    BY <1>2, <2>2, <2>3, <2>4, <2>6, <2>7 DEF FetchOne
<1>3. ASSUME NEW reply \in Replies, NEW flaw \in Flaws, Respond(reply, flaw)
      PROVE  Owing'
  <2> DEFINE s == ingest.symbol
             rows == [range |-> ingest.range, run |-> runs, flaw |-> flaw]
             owed == IF flaw = "none" THEN ingest.due ELSE {}
  <2>0. s \in Symbols /\ ingest.at = "request" /\ cache' = cache
    BY <1>0, <1>3 DEF Respond, Steady
  <2>1. CASE ingest' = [ingest EXCEPT !.at = "write", !.received = rows, !.due = owed]
    <3>1. /\ rows.flaw = flaw
          /\ flaw = "none" => owed = ingest.due
          /\ flaw # "none" => owed = {}
      OBVIOUS
    <3> HIDE DEF rows, owed
    <3>2. /\ ingest'.at = "write" /\ ingest'.range = ingest.range
          /\ ingest'.available = ingest.available /\ ingest'.due = owed
          /\ ingest'.left = ingest.left /\ ingest'.columns = ingest.columns
          /\ ingest'.received = rows
      BY <1>0, <2>1 DEF Ingests
    <3>3. CASE flaw = "none"
      <4>1. \A k : Usable(k)' <=> Usable(k)
        BY <2>0 DEF Usable
      <4> QED
        BY <2>0, <3>1, <3>2, <3>3, <4>1 DEF Owing, Usable, CacheKey
    <3>4. CASE flaw # "none"
      BY <1>0, <3>1, <3>2, <3>4, OwingNothing
    <3> QED
      BY <3>3, <3>4
  <2>2. CASE ingest' = Failed(s)
    <3>1. /\ ingest'.at \in {"symbols", "assemble"} /\ ingest'.range = ingest.range
          /\ ingest'.available = ingest.available /\ ingest'.due = ingest.due \ {s}
          /\ ingest'.left = ingest.left \ {s}
          /\ \A t \in Symbols \ {s} : ingest'.columns[t] = ingest.columns[t]
      BY <1>0, <2>0, <2>2, FailedFields
    <3> QED
      BY <1>0, <2>0, <3>1, OwingShrinks
  <2>3. CASE ingest' = [ingest EXCEPT !.attempt = @ + 1]
    <3>1. /\ ingest'.at = "request" /\ ingest'.range = ingest.range
          /\ ingest'.available = ingest.available /\ ingest'.due = ingest.due
          /\ ingest'.left = ingest.left /\ ingest'.columns = ingest.columns
      BY <1>0, <2>0, <2>3 DEF Ingests
    <3> QED
      BY <1>0, <2>0, <3>1, OwingShrinks
  <2>4. CASE ingest' = Raised(Provider[s])
    BY <1>0, <2>0, <2>4, OwingRaised
  <2> QED
    BY <1>3, <2>1, <2>2, <2>3, <2>4 DEF Respond, TryAgain
<1>4. CASE OpenCache
  <2> DEFINE key == CacheKey(ingest.symbol, ingest.range)
  <2>0. /\ ingest.at = "write" /\ cache' = [cache EXCEPT ![key] = Torn]
        /\ ingest.symbol \in Symbols
    BY <1>0, <1>4 DEF OpenCache, Steady
  <2>1. /\ ingest'.at = "close" /\ ingest'.range = ingest.range
        /\ ingest'.available = ingest.available /\ ingest'.due = ingest.due
        /\ ingest'.left = ingest.left /\ ingest'.columns = ingest.columns
        /\ ingest'.symbol = ingest.symbol /\ ingest'.received = ingest.received
    BY <1>0, <1>4 DEF OpenCache, Ingests
  <2>2. \A s \in Symbols \ {ingest.symbol} :
          cache'[CacheKey(s, ingest.range)] = cache[CacheKey(s, ingest.range)]
    <3>1. ingest.range \in Ranges
      BY <1>0, <2>0 DEF Steady
    <3> QED
      BY <1>0, <2>0, <3>1 DEF CacheKey, Keys
  <2> QED
    BY <1>0, <2>0, <2>1, <2>2 DEF Owing, Usable, CacheKey
<1>5. CASE CloseCache
  <2> DEFINE key == CacheKey(ingest.symbol, ingest.range)
  <2>0. /\ ingest.at = "close" /\ cache' = [cache EXCEPT ![key] = ingest.received]
        /\ ingest.symbol \in Symbols /\ ingest.received \in Rows
        /\ ingest' = Done(ingest.symbol, ingest.received)
    BY <1>0, <1>5 DEF CloseCache, Steady
  <2>1. /\ ingest'.at \in {"symbols", "assemble"} /\ ingest'.range = ingest.range
        /\ ingest'.available = ingest.available /\ ingest'.due = ingest.due
        /\ ingest'.left = ingest.left \ {ingest.symbol}
        /\ \A t \in Symbols : ingest'.columns[t] =
             IF t = ingest.symbol THEN ingest.received ELSE ingest.columns[t]
    BY <1>0, <2>0, DoneFields
  <2>2. \A s \in Symbols \ {ingest.symbol} :
          cache'[CacheKey(s, ingest.range)] = cache[CacheKey(s, ingest.range)]
    <3>1. ingest.range \in Ranges
      BY <1>0, <2>0 DEF Steady
    <3> QED
      BY <1>0, <2>0, <3>1 DEF CacheKey, Keys
  <2>3. ingest.received # None
    BY <2>0
  <2> QED
    BY <1>0, <2>0, <2>1, <2>2, <2>3 DEF Owing, Usable, CacheKey
<1>6. CASE Abort \/ Kill \/ Save
  <2>1. ingest' = Idle
    BY <1>6 DEF Abort, Kill, Save
  <2> QED
    BY <1>0, <2>1, OwingNothing DEF Idle
<1>7. CASE WriteFails
  <2>1. /\ ingest.symbol \in Symbols /\ ingest' = Raised(Provider[ingest.symbol])
        /\ cache' = cache
    BY <1>0, <1>7 DEF WriteFails, Steady
  <2> QED
    BY <1>0, <2>1, OwingRaised
<1>8. ASSUME NEW clash \in BOOLEAN, Assemble(clash) PROVE Owing'
  <2>0. /\ ingest.symbol \in Symbols /\ ingest.at = "assemble" /\ cache' = cache
    BY <1>0, <1>8 DEF Assemble, Steady
  <2>1. CASE ingest' = Raised(Provider[ingest.symbol])
    BY <1>0, <2>0, <2>1, OwingRaised
  <2>2. CASE ingest' = [ingest EXCEPT !.at = "symbols", !.symbol = None]
    <3>1. /\ ingest'.at = "symbols" /\ ingest'.range = ingest.range
          /\ ingest'.available = ingest.available /\ ingest'.due = ingest.due
          /\ ingest'.left = ingest.left /\ ingest'.columns = ingest.columns
      BY <1>0, <2>2 DEF Ingests
    <3> QED
      BY <1>0, <2>0, <3>1, OwingShrinks
  <2> QED
    BY <1>8, <2>1, <2>2 DEF Assemble
<1>9. CASE UNCHANGED vars
  BY <1>9 DEF vars, Owing, Usable
<1> QED
  BY <1>1, <1>2, <1>3, <1>4, <1>5, <1>6, <1>7, <1>8, <1>9 DEF Next, Work

\* Whatever failed or was killed before, an ingest whose cache files are missing or
\* sound has every symbol its source answered for.
THEOREM OutagesLeaveNoMark == Spec => []OutageLeavesNoMark
<1>1. Init => Owing
  BY DEF Init, Owing, Idle
<1>2. IngestInv /\ Owing => OutageLeavesNoMark
  BY DEF IngestInv, TypeOK, Ingests, Owing, OutageLeavesNoMark, Fetched
<1> QED
  BY <1>1, <1>2, IngestInvariant, OwingStep, PTL DEF Spec
=============================================================================
