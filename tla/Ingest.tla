------------------------------- MODULE Ingest -------------------------------
(***************************************************************************)
(* cli/ingest: the market data providers behind their file cache, the      *)
(* retries against the sources, the validation and what is published.      *)
(* Ingests run one after the other on the same data directory; each can be *)
(* killed at any point.  Publishing is one step here, its files one by one *)
(* are in module Repository.                                               *)
(***************************************************************************)
EXTENDS Integers, FiniteSets

CONSTANTS
  Symbols,
  Provider,     \* the provider of each symbol
  Ranges,       \* the ranges an ingest is asked for, start and end
  Requests,     \* the sets of symbols an ingest is asked for
  MaxRetries,   \* of each provider
  MaxRuns,      \* bound on the ingests
  Missing,      \* no cache file
  Torn,         \* a cache file opened for writing and not written out
  None

Providers == {"akshare", "tiingo", "yfinance"}

\* The providers that give their requests a timeout.
Timed == {"tiingo"}

ASSUME SymbolsAssumption ==
  /\ Provider \in [Symbols -> Providers]
  /\ MaxRetries \in [Providers -> Nat \ {0}]
  /\ Requests \subseteq SUBSET Symbols
  /\ MaxRuns \in Nat \ {0}

Flaws == {"none", "negative", "repeated"}

\* The rows of one symbol: the range they were cut to, the ingest that fetched
\* them, and what keeps them from passing the validation.
Rows == [range : Ranges, run : 1..MaxRuns, flaw : Flaws]
Keys == Symbols \X Ranges

ASSUME NamesAssumption ==
  {Missing, Torn, None} \cap Rows = {} /\ Missing # Torn /\ None \notin Symbols

VARIABLES
  cache,    \* data/raw: what each cache file holds
  runs,     \* the ingests started
  ingest,   \* the ingest under way
  saved     \* what was published: the range asked for and the columns

vars == <<cache, runs, ingest, saved>>

NoColumns == [s \in Symbols |-> None]

Idle == [at |-> "idle", range |-> None, available |-> {}, left |-> {},
         symbol |-> None, attempt |-> 0, received |-> None,
         columns |-> NoColumns, due |-> {}]

Init ==
  /\ cache = [k \in Keys |-> Missing]
  /\ runs = 0
  /\ ingest = Idle
  /\ saved = {}

\* Fault: the range is left out of the key.
CacheKey_NoRange(s, range) == <<s, CHOOSE r \in Ranges : TRUE>>

\* _cache_key of the three providers, under a prefix of each.
CacheKey(s, range) == <<s, range>>

Of(provider) == {s \in Symbols : Provider[s] = provider}

\* The providers are called one after the other.
Current ==
  IF ingest.left \cap Of("akshare") # {} THEN "akshare"
  ELSE IF ingest.left \cap Of("tiingo") # {} THEN "tiingo" ELSE "yfinance"

\* A key whose rows are there, or whose source will be asked.
Usable(k) == cache[k] = Missing \/ (cache[k] \in Rows /\ cache[k].flaw = "none")

\* A run of the command, maybe with --skip-yfinance.  A provider is available
\* when its package is installed or its token is set; only those of the request
\* are looked at.  "due" is history: the
\* symbols this ingest owes, unless a source, an old cache file or an exception
\* fails them.
Begin(request, range, skip, available) ==
  /\ ingest.at = "idle"
  /\ runs < MaxRuns
  /\ available \subseteq {Provider[s] : s \in request}
  /\ runs' = runs + 1
  /\ LET left == IF skip THEN request \ Of("yfinance") ELSE request
     IN ingest' = [Idle EXCEPT
          !.at = "symbols", !.range = range, !.available = available, !.left = left,
          !.due = IF \A s \in left : Usable(CacheKey(s, range))
                  THEN {s \in left : Provider[s] \in available} ELSE {}]
  /\ UNCHANGED <<cache, saved>>

-----------------------------------------------------------------------------
(* _fetch_one: the cache first. *)

AKShareLookup(entry, available) ==
  CASE entry = Torn -> "raise"
    [] entry \notin {Torn, Missing} -> "hit"
    [] entry = Missing -> IF available THEN "ask" ELSE "none"

\* Without the token nothing is served, not even what is cached.
TiingoLookup(entry, available) ==
  CASE ~available -> "none"
    [] available /\ entry = Torn -> "raise"
    [] available /\ entry = Missing -> "ask"
    [] available /\ entry \notin {Torn, Missing} -> "hit"

YahooLookup(entry, available) ==
  CASE entry = Torn -> "raise"
    [] entry \notin {Torn, Missing} -> "hit"
    [] entry = Missing -> IF available THEN "ask" ELSE "none"

Lookup(s) ==
  LET entry == cache[CacheKey(s, ingest.range)]
      available == Provider[s] \in ingest.available
  IN CASE Provider[s] = "akshare" -> AKShareLookup(entry, available)
       [] Provider[s] = "tiingo" -> TiingoLookup(entry, available)
       [] OTHER -> YahooLookup(entry, available)

\* The symbol is done, with rows or without; after the last one of a provider its
\* frame is put together.
Done(s, rows) ==
  LET last == ingest.left \cap Of(Provider[s]) = {s}
  IN [ingest EXCEPT !.at = IF last THEN "assemble" ELSE "symbols",
                    !.symbol = IF last THEN s ELSE None, !.left = @ \ {s},
                    !.attempt = 0, !.received = None, !.columns[s] = rows]

\* Fault: the first symbol that fails ends the call.
Failed_EndsCall(s) == [Done(s, None) EXCEPT !.due = @ \ {s}, !.left = @ \ Of(Provider[s])]

Failed(s) == [Done(s, None) EXCEPT !.due = @ \ {s}]

\* An exception in Tiingo or Yahoo Finance is swallowed by the command: the
\* whole call returns nothing, the symbols it already had included.
DropProvider(provider) ==
  [ingest EXCEPT !.at = "symbols", !.left = @ \ Of(provider), !.symbol = None,
                 !.attempt = 0, !.received = None, !.due = @ \ Of(provider),
                 !.columns = [s \in Symbols |->
                   IF s \in Of(provider) THEN None ELSE @[s]]]

\* An exception of AKShare ends the command.
Raised(provider) == IF provider = "akshare" THEN Idle ELSE DropProvider(provider)

\* One symbol of a fetch_bars.
FetchOne(s) ==
  /\ ingest.at = "symbols"
  /\ s \in ingest.left \cap Of(Current)
  /\ ingest' = CASE Lookup(s) = "hit" -> Done(s, cache[CacheKey(s, ingest.range)])
                 [] Lookup(s) = "none" -> Done(s, None)
                 [] Lookup(s) = "raise" -> Raised(Provider[s])
                 [] OTHER -> [ingest EXCEPT !.at = "request", !.symbol = s]
  /\ UNCHANGED <<cache, runs, saved>>

-----------------------------------------------------------------------------
(* The source: rows, rows outside the range, rows that the normalisation cannot  *)
(* read, nothing, or an error.                                                   *)

Replies == {"rows", "outside", "garbled", "empty", "limited", "denied", "error"}

\* What a reply ends the attempts with; the others are tried again.  AKShare
\* raises on every error.
AKShareFinal == {"rows", "outside", "garbled", "empty"}
\* An empty list and a refused token end it, a rate limit does not.
TiingoFinal == {"rows", "outside", "garbled", "empty", "denied"}
\* An empty table is asked for again.
YahooFinal == {"rows", "outside", "garbled"}

Final(provider) ==
  CASE provider = "akshare" -> AKShareFinal
    [] provider = "tiingo" -> TiingoFinal
    [] OTHER -> YahooFinal

\* Fault: after the last attempt the count starts over.
TryAgain_StartsOver(s) ==
  [ingest EXCEPT !.attempt = (@ + 1) % MaxRetries[Provider[s]]]

\* After the last attempt the symbol is given up.
TryAgain(s) ==
  IF ingest.attempt + 1 < MaxRetries[Provider[s]]
  THEN [ingest EXCEPT !.attempt = @ + 1]
  ELSE Failed(s)

\* One request of _fetch_raw_with_retry, _fetch_tiingo_with_retry or
\* _download_with_retry, and the normalisation of what comes back, whose exceptions
\* no attempt catches.
Respond(reply, flaw) ==
  /\ ingest.at = "request"
  /\ LET s == ingest.symbol
     IN ingest' =
          CASE reply = "rows" ->
                 [ingest EXCEPT
                    !.at = "write",
                    !.received = [range |-> ingest.range, run |-> runs, flaw |-> flaw],
                    !.due = IF flaw = "none" THEN @ ELSE {}]
            [] reply = "garbled" -> Raised(Provider[s])
            [] reply \in Final(Provider[s]) \ {"rows", "garbled"} -> Failed(s)
            [] OTHER -> TryAgain(s)
  /\ UNCHANGED <<cache, runs, saved>>

\* to_parquet truncates the file ...
OpenCache ==
  /\ ingest.at = "write"
  /\ cache' = [cache EXCEPT ![CacheKey(ingest.symbol, ingest.range)] = Torn]
  /\ ingest' = [ingest EXCEPT !.at = "close"]
  /\ UNCHANGED <<runs, saved>>

\* Fault: the rows are used and the cache file is removed.
CloseCache_NotKept ==
  /\ ingest.at = "close"
  /\ cache' = [cache EXCEPT ![CacheKey(ingest.symbol, ingest.range)] = Missing]
  /\ ingest' = Done(ingest.symbol, ingest.received)
  /\ UNCHANGED <<runs, saved>>

\* ... and writes it out.
CloseCache ==
  /\ ingest.at = "close"
  /\ cache' = [cache EXCEPT ![CacheKey(ingest.symbol, ingest.range)] = ingest.received]
  /\ ingest' = Done(ingest.symbol, ingest.received)
  /\ UNCHANGED <<runs, saved>>

\* The file cannot be opened or written out: a truncated one stays.
WriteFails ==
  /\ ingest.at \in {"write", "close"}
  /\ ingest' = Raised(Provider[ingest.symbol])
  /\ UNCHANGED <<cache, runs, saved>>

\* The end of a fetch_bars: one column with repeated dates beside another may not
\* fit into one frame (clash), which depends on the dates of both.
Assemble(clash) ==
  /\ ingest.at = "assemble"
  /\ LET provider == Provider[ingest.symbol]
         filled == {s \in Of(provider) : ingest.columns[s] # None}
     IN /\ clash => /\ Cardinality(filled) > 1
                    /\ \E s \in filled : ingest.columns[s].flaw = "repeated"
        /\ ingest' = IF clash THEN Raised(provider)
                     ELSE [ingest EXCEPT !.at = "symbols", !.symbol = None]
  /\ UNCHANGED <<cache, runs, saved>>

-----------------------------------------------------------------------------
(* The end of the command. *)

Fetched == {s \in Symbols : ingest.columns[s] # None}

\* The checks of DataBundleValidator that give errors, negative prices and
\* repeated dates, on which the concatenation before them may fail as well; missing
\* rows, short columns and jumps are warnings.
Valid == \A s \in Fetched : ingest.columns[s].flaw = "none"

\* Nothing was fetched, or the data has errors: the command exits.
Abort ==
  /\ ingest.at = "symbols" /\ ingest.left = {}
  /\ Fetched = {} \/ ~Valid
  /\ ingest' = Idle
  /\ UNCHANGED <<cache, runs, saved>>

\* What was fetched is published, however much of the request that is.
Save ==
  /\ ingest.at = "symbols" /\ ingest.left = {}
  /\ Fetched # {} /\ Valid
  /\ saved' = saved \cup {[range |-> ingest.range, columns |-> ingest.columns]}
  /\ ingest' = Idle
  /\ UNCHANGED <<cache, runs>>

\* The command is killed.
Kill ==
  /\ ingest.at # "idle"
  /\ ingest' = Idle
  /\ UNCHANGED <<cache, runs, saved>>

Work ==
  \/ \E s \in Symbols : FetchOne(s)
  \/ \E reply \in Replies, flaw \in Flaws : Respond(reply, flaw)
  \/ OpenCache
  \/ CloseCache
  \/ WriteFails
  \/ \E clash \in BOOLEAN : Assemble(clash)
  \/ Abort
  \/ Save

\* A request that may never come back.
Untimed == ingest.at = "request" /\ Provider[ingest.symbol] \notin Timed

Next ==
  \/ \E request \in Requests, range \in Ranges, skip \in BOOLEAN,
        available \in SUBSET Providers : Begin(request, range, skip, available)
  \/ Work
  \/ Kill

\* A command that was started goes on, and a request with a timeout comes back, if
\* only by it.  Nothing makes a request without one come back.
Spec == Init /\ [][Next]_vars /\ WF_vars(Work /\ ~Untimed)

-----------------------------------------------------------------------------
(* Properties *)

Ingests ==
  [at : {"idle", "symbols", "request", "write", "close", "assemble"}, range : Ranges \cup {None},
   available : SUBSET Providers, left : SUBSET Symbols, symbol : Symbols \cup {None},
   attempt : Nat, received : Rows \cup {None},
   columns : [Symbols -> Rows \cup {None}], due : SUBSET Symbols]

\* Cache, ingest and published versions have their types.
TypeOK ==
  /\ cache \in [Keys -> Rows \cup {Missing, Torn}]
  /\ runs \in 0..MaxRuns
  /\ ingest \in Ingests
  /\ saved \subseteq [range : Ranges, columns : [Symbols -> Rows \cup {None}]]

\* What is published was fetched for the range it is published for and passed
\* the validation, whichever ingest put it into the cache.
PublishedIsSound ==
  \A v \in saved, s \in Symbols :
    v.columns[s] # None => v.columns[s].range = v.range /\ v.columns[s].flaw = "none"

\* Two ingests of one range agree on every symbol both have, whatever was killed
\* or failed between them: a version is only ever rewritten with what it holds.
RerunsAgree ==
  \A v, w \in saved, s \in Symbols :
    v.range = w.range /\ None \notin {v.columns[s], w.columns[s]} =>
      v.columns[s] = w.columns[s]

\* An outage leaves no mark: at the end of an ingest every symbol is there whose
\* source answered now, whatever failed in the ingests before, when no cache
\* file of the request was torn or unsound at the start.
OutageLeavesNoMark ==
  ingest.at = "symbols" /\ ingest.left = {} => ingest.due \subseteq Fetched

\* An ingest ends, come what may: data updates have a timeout, as
\* docs/12_api_contracts.md asks of them.  AKShare's requests have none.
UpdatesTimeOut == ingest.at # "idle" ~> ingest.at = "idle"

\* The request of one attempt for a symbol without a timeout is waited for.
WaitsFor(s, n) == Untimed /\ ingest.symbol = s /\ ingest.attempt = n

\* Every ingest ends, by itself or killed, unless one request of a provider without
\* a timeout never comes back: the retries of no provider go on for ever, and
\* nothing else is waited for.
EveryIngestEnds ==
  \/ UpdatesTimeOut
  \/ \E s \in Symbols : \E n \in 0..(MaxRetries[Provider[s]] - 1) : <>[]WaitsFor(s, n)
=============================================================================
