-------------------------- MODULE ValidationProofs --------------------------
(***************************************************************************)
(* What holds of the validation of every strategy, whatever the lengths,   *)
(* levels and evidence: the two properties of its lifecycle and the five   *)
(* of its evaluation.                                                      *)
(***************************************************************************)
EXTENDS Evaluation, StrategyLifecycle, Sums, SequenceTheorems, TLAPS

-----------------------------------------------------------------------------
(* The lifecycle *)

\* What the proofs need of the types.
Entries == [from_state : States, to_state : States, approved_by : Approvers]
LifecycleTypes ==
  /\ current_state \in States
  /\ history \in Seq(Entries)

\* ShadowBeforeMoney is inductive once the history is known to be a chain.
LifecycleInv == LifecycleTypes /\ TrailReplays /\ ShadowBeforeMoney

LEMMA InitLifecycle == LifecycleInit => LifecycleInv
  BY DEF LifecycleInit, LifecycleInv, LifecycleTypes, TrailReplays, ShadowBeforeMoney, StateAfter,
         States, Invested

\* What a transition does to the history: one entry more, the others as they were.
LEMMA TransitionFacts ==
  ASSUME LifecycleInv, NEW to \in States, NEW force \in BOOLEAN, NEW approver \in Approvers,
         Transition(to, force, approver)
  PROVE  /\ LifecycleTypes'
         /\ Len(history') = Len(history) + 1
         /\ Len(history) \in Nat
         /\ \A i \in 1..Len(history) : history'[i] = history[i]
         /\ history'[Len(history) + 1].from_state = current_state
         /\ history'[Len(history) + 1].to_state = to
         /\ current_state' = to
<1> DEFINE entry == [from_state |-> current_state, to_state |-> to, approved_by |-> approver]
<1>1. entry \in Entries
  BY DEF LifecycleInv, LifecycleTypes, Entries
<1>2. /\ history' = Append(history, entry)
      /\ current_state' = to
  BY DEF Transition, Entered
<1>3. history \in Seq(Entries)
  BY DEF LifecycleInv, LifecycleTypes
<1> HIDE DEF entry
<1>4. history' \in Seq(Entries)
  BY <1>1, <1>2, <1>3
<1>5. /\ Len(history') = Len(history) + 1
      /\ Len(history) \in Nat
      /\ \A i \in 1..Len(history) : history'[i] = history[i]
      /\ history'[Len(history) + 1] = entry
  BY <1>1, <1>2, <1>3
<1>6. entry.from_state = current_state /\ entry.to_state = to
  BY DEF entry
<1>7. current_state' \in States
  BY <1>2
<1> QED
  BY <1>2, <1>4, <1>5, <1>6, <1>7 DEF LifecycleTypes

\* The states a history tells of do not change when it grows.
LEMMA StatesStay ==
  ASSUME LifecycleInv, NEW to \in States, NEW force \in BOOLEAN, NEW approver \in Approvers,
         Transition(to, force, approver)
  PROVE  /\ \A i \in 0..Len(history) : StateAfter(i)' = StateAfter(i)
         /\ \A i \in Nat : i = Len(history) + 1 => StateAfter(i)' = to
         /\ StateAfter(Len(history)) = current_state
<1>1. /\ Len(history) \in Nat
      /\ \A i \in 1..Len(history) : history'[i] = history[i]
      /\ history'[Len(history) + 1].to_state = to
  BY TransitionFacts
<1>2. \A i \in 0..Len(history) : StateAfter(i)' = StateAfter(i)
  BY <1>1 DEF StateAfter
<1>3. \A i \in Nat : i = Len(history) + 1 => StateAfter(i)' = to
  BY <1>1 DEF StateAfter
<1>4. StateAfter(Len(history)) = current_state
  BY DEF LifecycleInv, TrailReplays
<1> QED
  BY <1>2, <1>3, <1>4

\* A transition keeps the history a chain.
LEMMA ChainStep ==
  ASSUME LifecycleInv, NEW to \in States, NEW force \in BOOLEAN, NEW approver \in Approvers,
         Transition(to, force, approver)
  PROVE  TrailReplays'
<1>1. /\ Len(history') = Len(history) + 1
      /\ Len(history) \in Nat
      /\ \A i \in 1..Len(history) : history'[i] = history[i]
      /\ history'[Len(history) + 1].from_state = current_state
      /\ current_state' = to
  BY TransitionFacts
<1>2. \A i \in 1..Len(history') : history'[i].from_state = StateAfter(i - 1)'
  <2> SUFFICES ASSUME NEW i \in 1..Len(history')
               PROVE  history'[i].from_state = StateAfter(i - 1)'
    OBVIOUS
  <2>1. CASE i = Len(history) + 1
    <3>1. i - 1 \in 0..Len(history) /\ i - 1 = Len(history)
      BY <1>1, <2>1
    <3>2. StateAfter(i - 1)' = StateAfter(i - 1)
      BY <3>1, StatesStay
    <3>3. StateAfter(i - 1) = current_state
      BY <3>1, StatesStay
    <3> QED
      BY <1>1, <2>1, <3>2, <3>3
  <2>2. CASE i \in 1..Len(history)
    <3>1. history[i].from_state = StateAfter(i - 1)
      BY <2>2 DEF LifecycleInv, TrailReplays
    <3>2. StateAfter(i - 1)' = StateAfter(i - 1)
      BY <1>1, <2>2, StatesStay
    <3> QED
      BY <1>1, <2>2, <3>1, <3>2
  <2> QED
    BY <1>1, <2>1, <2>2
<1>3. \A i \in Nat : i = Len(history') => StateAfter(i)' = current_state'
  BY <1>1, StatesStay
<1>4. StateAfter(Len(history))' = current_state'
  BY <1>1, <1>3 DEF StateAfter
<1> QED
  BY <1>2, <1>4 DEF TrailReplays

\* A transition by the table into a state that runs money leaves the shadow or
\* a state that runs money already.
LEMMA WaysIntoMoney ==
  ASSUME NEW from \in States, NEW to \in Allowed(from), to \in Invested
  PROVE  from = "shadow" \/ from \in Invested
  BY DEF States, Allowed, Invested

\* A transition keeps the shadow before the money.
LEMMA ShadowStep ==
  ASSUME LifecycleInv, NEW to \in States, NEW force \in BOOLEAN, NEW approver \in Approvers,
         Transition(to, force, approver)
  PROVE  ShadowBeforeMoney'
<1> DEFINE Barred == {"research", "candidate", "suspended", "retired"}
<1> SUFFICES ASSUME ByTheTable', current_state' \in Invested
             PROVE  \E i \in 1..Len(history') :
                      /\ StateAfter(i)' = "shadow"
                      /\ \A j \in i..Len(history') : StateAfter(j)' \notin Barred
  BY DEF ShadowBeforeMoney
<1>1. /\ Len(history') = Len(history) + 1
      /\ Len(history) \in Nat
      /\ \A i \in 1..Len(history) : history'[i] = history[i]
      /\ history'[Len(history) + 1].from_state = current_state
      /\ history'[Len(history) + 1].to_state = to
      /\ current_state' = to
  BY TransitionFacts
<1>2. ByTheTable
  BY <1>1 DEF ByTheTable
<1>3. to \in Allowed(current_state)
  BY <1>1 DEF ByTheTable
<1>4. current_state = "shadow" \/ current_state \in Invested
  BY <1>1, <1>3, WaysIntoMoney DEF LifecycleInv, LifecycleTypes
<1>5. to \notin Barred
  BY <1>1 DEF Invested
<1>6. /\ \A i \in 0..Len(history) : StateAfter(i)' = StateAfter(i)
      /\ \A i \in Nat : i = Len(history) + 1 => StateAfter(i)' = to
      /\ StateAfter(Len(history)) = current_state
  BY StatesStay
<1>7. CASE current_state = "shadow"
  <2>1. PICK i \in Nat : i = Len(history)
    BY <1>1
  <2>2. i \in 1..Len(history')
    BY <1>1, <1>6, <1>7, <2>1 DEF StateAfter
  <2>3. StateAfter(i)' = "shadow"
    BY <1>1, <1>6, <1>7, <2>1
  <2>4. \A j \in i..Len(history') : StateAfter(j)' \notin Barred
    BY <1>1, <1>5, <1>6, <2>1, <2>3
  <2> QED
    BY <2>2, <2>3, <2>4
<1>8. CASE current_state \in Invested
  <2>1. PICK i \in 1..Len(history) :
          /\ StateAfter(i) = "shadow"
          /\ \A j \in i..Len(history) : StateAfter(j) \notin Barred
    BY <1>2, <1>8 DEF LifecycleInv, ShadowBeforeMoney
  <2>2. \A j \in i..Len(history') : StateAfter(j)' \notin Barred
    BY <1>1, <1>5, <1>6, <2>1
  <2>3. i \in 1..Len(history') /\ StateAfter(i)' = "shadow"
    BY <1>1, <1>6, <2>1
  <2> QED
    BY <2>2, <2>3
<1> QED
  BY <1>4, <1>7, <1>8

LEMMA LifecycleStep == LifecycleInv /\ [LifecycleNext]_lifecycleVars => LifecycleInv'
<1> SUFFICES ASSUME LifecycleInv, [LifecycleNext]_lifecycleVars PROVE LifecycleInv'
  OBVIOUS
<1>1. CASE UNCHANGED lifecycleVars
  BY <1>1 DEF lifecycleVars, LifecycleInv, LifecycleTypes, TrailReplays, ShadowBeforeMoney,
              ByTheTable, StateAfter
<1>2. CASE LifecycleNext
  <2>1. PICK to \in States, force \in BOOLEAN, approver \in Approvers :
          Transition(to, force, approver)
    BY <1>2 DEF LifecycleNext
  <2> QED
    BY <2>1, TransitionFacts, ChainStep, ShadowStep DEF LifecycleInv
<1> QED
  BY <1>1, <1>2

\* The invariant the two theorems below are read off.
THEOREM LifecycleInvariant == LifecycleSpec => []LifecycleInv
  BY InitLifecycle, LifecycleStep, PTL DEF LifecycleSpec

\* The audit trail is a chain from RESEARCH to the current state (transition,
\* governance.py:105-123), for histories of every length, forced moves included.
THEOREM TrailIsChain == LifecycleSpec => []TrailReplays
<1>1. LifecycleInv => TrailReplays
  BY DEF LifecycleInv
<1> QED
  BY <1>1, LifecycleInvariant, PTL

\* No path through ALLOWED_TRANSITIONS, however long, runs money past the shadow.
THEOREM MoneyNeedsShadow == LifecycleSpec => []ShadowBeforeMoney
<1>1. LifecycleInv => ShadowBeforeMoney
  BY DEF LifecycleInv
<1> QED
  BY <1>1, LifecycleInvariant, PTL

-----------------------------------------------------------------------------
(* Greatest and least *)

LEMMA MaxFacts ==
  ASSUME NEW S \in SUBSET Int, IsFiniteSet(S), S # {}
  PROVE  Max(S) \in S /\ Max(S) \in Int /\ \A y \in S : y <= Max(S)
<1>1. PICK x \in S : \A y \in S : y <= x
  BY FiniteMaximum
<1>2. \A y \in S : x >= y
  BY <1>1
<1> QED
  BY <1>2 DEF Max

LEMMA MinFacts ==
  ASSUME NEW S \in SUBSET Int, IsFiniteSet(S), S # {}
  PROVE  Min(S) \in S /\ Min(S) \in Int /\ \A y \in S : Min(S) <= y
<1>1. PICK x \in S : \A y \in S : x <= y
  BY FiniteMinimum
<1> QED
  BY <1>1 DEF Min

\* A set of naturals needs no bound to have a least element.
LEMMA MinOfNaturals ==
  ASSUME NEW S \in SUBSET Nat, S # {}
  PROVE  Min(S) \in S /\ \A y \in S : Min(S) <= y
<1>1. PICK x \in S : \A y \in S : x <= y
  BY NatMinimum
<1> QED
  BY <1>1 DEF Min

\* The bars up to some bar, and any part of them, are finitely many.
LEMMA BarsFinite ==
  ASSUME NEW n \in Nat
  PROVE  \A S \in SUBSET (1..n) : IsFiniteSet(S) /\ Cardinality(S) \in Nat /\ S \in SUBSET Nat
<1>1. IsFiniteSet(1..n)
  BY FS_Interval
<1>2. ASSUME NEW S \in SUBSET (1..n)
      PROVE  IsFiniteSet(S) /\ Cardinality(S) \in Nat
  BY <1>1, FS_Subset, FS_CardinalityType
<1>3. ASSUME NEW S \in SUBSET (1..n)
      PROVE  S \in SUBSET Nat
  OBVIOUS
<1> QED
  BY <1>2, <1>3

\* The part of a set of bars up to some bar.
LEMMA UpTo ==
  ASSUME NEW n, NEW S, \A j \in S : j \in Nat /\ 2 <= j /\ j <= n
  PROVE  /\ {j \in S : j <= 1} = {}
         /\ \A i \in Nat : {j \in S : j <= i} \subseteq 1..i
         /\ \A i, k \in Nat : i <= k => {j \in S : j <= i} \subseteq {j \in S : j <= k}
         /\ \A i \in Nat : i + 1 \in S =>
              /\ {j \in S : j <= i + 1} = {j \in S : j <= i} \union {i + 1}
              /\ {j \in S : j <= i + 1} \ {i + 1} = {j \in S : j <= i}
              /\ i + 1 \notin {j \in S : j <= i}
              /\ i + 1 \in {j \in S : j <= i + 1}
         /\ \A i \in Nat : i + 1 \notin S => {j \in S : j <= i + 1} = {j \in S : j <= i}
<1>1. {j \in S : j <= 1} = {}
  OBVIOUS
<1>2. \A j \in S : j \in Nat
  OBVIOUS
<1>3. \A i \in Nat : {j \in S : j <= i} \subseteq 1..i
  OBVIOUS
<1>4. ASSUME NEW i \in Nat, NEW k \in Nat, i <= k
      PROVE  {j \in S : j <= i} \subseteq {j \in S : j <= k}
  BY <1>2, <1>4
<1>5. ASSUME NEW i \in Nat, i + 1 \in S
      PROVE  /\ {j \in S : j <= i + 1} = {j \in S : j <= i} \union {i + 1}
             /\ {j \in S : j <= i + 1} \ {i + 1} = {j \in S : j <= i}
             /\ i + 1 \notin {j \in S : j <= i}
             /\ i + 1 \in {j \in S : j <= i + 1}
  BY <1>2, <1>5
<1>6. ASSUME NEW i \in Nat, i + 1 \notin S
      PROVE  {j \in S : j <= i + 1} = {j \in S : j <= i}
  BY <1>2, <1>6
<1> QED
  BY <1>1, <1>3, <1>4, <1>5, <1>6

\* The peak is one of the values so far, and none is higher.
LEMMA PeakFacts ==
  ASSUME NEW p, NEW n \in Nat, \A j \in 1..n : p[j] \in Int,
         NEW i \in 1..n
  PROVE  /\ Peak(p, i) \in Int
         /\ \E j \in 1..i : Peak(p, i) = p[j]
         /\ \A j \in 1..i : p[j] <= Peak(p, i)
<1> DEFINE f == [j \in 1..i |-> p[j]]
           S == {p[j] : j \in 1..i}
<1>1. IsFiniteSet({f[j] : j \in 1..i})
  <2>1. IsFiniteSet(1..i)
    BY FS_Interval
  <2>2. f = [j \in 1..i |-> f[j]]
    OBVIOUS
  <2> HIDE DEF f
  <2> QED
    BY <2>1, <2>2, ImageFinite
<1>2. {f[j] : j \in 1..i} = S
  OBVIOUS
<1>3. S \in SUBSET Int
  OBVIOUS
<1>4. \A j \in 1..i : p[j] \in S
  OBVIOUS
<1>5. S # {}
  <2>1. p[1] \in S
    BY <1>4
  <2> QED
    BY <2>1
<1>6. Max(S) \in S /\ Max(S) \in Int /\ \A y \in S : y <= Max(S)
  BY <1>1, <1>2, <1>3, <1>5, MaxFacts
<1>7. PICK j \in 1..i : Max(S) = p[j]
  BY <1>6
<1> QED
  BY <1>4, <1>6, <1>7 DEF Peak

-----------------------------------------------------------------------------
(* Histories *)

\* What the program evaluates, whole or in part: increasing days, one NAV each.
History(d, path) ==
  /\ d \in Seq(Nat) /\ path \in Seq(Levels)
  /\ Len(path) \in Nat /\ Len(d) = Len(path) /\ Len(path) >= 1
  /\ \A i, j \in 1..Len(path) : i < j => d[i] < d[j]

LEMMA HistoryFacts ==
  ASSUME NEW d, NEW path, History(d, path)
  PROVE  /\ Len(path) \in Nat \ {0}
         /\ \A i \in 1..Len(path) : d[i] \in Nat /\ path[i] \in Levels /\ path[i] \in Nat \ {0}
         /\ \A i, j \in 1..Len(path) : i <= j => d[i] <= d[j]
<1>1. \A i \in 1..Len(path) : d[i] \in Nat /\ path[i] \in Levels
  BY ElementOfSeq DEF History
<1>2. Levels \subseteq Nat \ {0}
  BY EvaluationAssumption
<1>3. \A i, j \in 1..Len(path) : i < j => d[i] < d[j]
  BY DEF History
<1>4. \A i, j \in 1..Len(path) : i <= j => d[i] <= d[j]
  BY <1>1, <1>3
<1>5. Len(path) \in Nat \ {0}
  BY DEF History
<1>6. \A i \in 1..Len(path) : path[i] \in Nat \ {0}
  BY <1>1, <1>2
<1> QED
  BY <1>1, <1>4, <1>5, <1>6

\* The end of a history is one.
LEMMA TailHistory ==
  ASSUME NEW d, NEW path, History(d, path), NEW m \in 1..Len(path)
  PROVE  /\ History(SubSeq(d, m, Len(d)), SubSeq(path, m, Len(path)))
         /\ Len(SubSeq(path, m, Len(path))) = Len(path) - m + 1
         /\ Len(SubSeq(d, m, Len(d))) = Len(path) - m + 1
         /\ \A i \in 1..(Len(path) - m + 1) : /\ SubSeq(d, m, Len(d))[i] = d[m + i - 1]
                                              /\ SubSeq(path, m, Len(path))[i] = path[m + i - 1]
<1> DEFINE n == Len(path)
           e == SubSeq(d, m, Len(d))
           q == SubSeq(path, m, Len(path))
<1>0. n \in Nat /\ m \in Nat /\ m <= n /\ Len(d) = n
  BY DEF History
<1>1. \A i \in 1..n : d[i] \in Nat /\ path[i] \in Levels
  BY HistoryFacts
<1>2. \A i \in m..n : d[i] \in Nat /\ path[i] \in Levels
  BY <1>0, <1>1
<1>3. /\ e \in Seq(Nat) /\ Len(e) = n - m + 1
      /\ \A i \in 1..(n - m + 1) : e[i] = d[m + i - 1]
  BY <1>0, <1>2, SubSeqProperties
<1>4. /\ q \in Seq(Levels) /\ Len(q) = n - m + 1
      /\ \A i \in 1..(n - m + 1) : q[i] = path[m + i - 1]
  BY <1>0, <1>2, SubSeqProperties
<1> HIDE DEF e, q
<1>5. \A i, j \in 1..Len(q) : i < j => e[i] < e[j]
  <2> SUFFICES ASSUME NEW i \in 1..Len(q), NEW j \in 1..Len(q), i < j
               PROVE  e[i] < e[j]
    OBVIOUS
  <2>1. m + i - 1 \in 1..n /\ m + j - 1 \in 1..n /\ m + i - 1 < m + j - 1
    BY <1>0, <1>4
  <2>2. d[m + i - 1] < d[m + j - 1]
    BY <2>1 DEF History
  <2> QED
    BY <1>3, <1>4, <2>2
<1>6. Len(q) \in Nat /\ Len(e) = Len(q) /\ Len(q) >= 1
  BY <1>0, <1>3, <1>4
<1> QED
  BY <1>3, <1>4, <1>5, <1>6 DEF History, e, q

-----------------------------------------------------------------------------
(* The invariant: the report was made by the gates from facts of its history *)

Falls == {x \in Int : x <= 0}
FactSet == [cagr : Int, drawdown : Falls, saa_cagr : Int, saa_drawdown : Falls]

Reported ==
  /\ report.evidence \in EvidenceSet
  /\ report.facts \in FactSet
  /\ report.gates = Evaluated(report.facts, report.evidence)
  /\ report.status = Status(report.gates)

EvaluationInv ==
  /\ nav \in Seq(Levels) /\ Len(nav) \in 1..MaxBars
  /\ calendar \in Calendars /\ bench \in Benchmarks
  /\ report = NoReport \/ Reported

\* How far a close is from the peak before it, the opening NAV included.
Fall(path, i) ==
  ((<<Opening>> \o path)[i] * 1000) \div Peak(<<Opening>> \o path, i) - 1000

\* The opening NAV is the first close and its own peak: no drawdown is above 0.
LEMMA DrawdownRange ==
  ASSUME NEW path \in Seq(Nat)
  PROVE  /\ MaxDrawdown(path) \in Falls
         /\ \A i \in 1..(Len(path) + 1) : MaxDrawdown(path) <= Fall(path, i)
<1> DEFINE closes == <<Opening>> \o path
           n == Len(path) + 1
           fall(i) == (closes[i] * 1000) \div Peak(closes, i) - 1000
           f == [i \in 1..n |-> fall(i)]
           S == {fall(i) : i \in DOMAIN closes}
<1>0. Opening \in Nat \ {0} /\ n \in Nat /\ 1 \in 1..n
  BY EvaluationAssumption
<1>1. <<Opening>> \in Seq(Nat) /\ Len(<<Opening>>) = 1
  BY <1>0
<1>2. closes \in Seq(Nat) /\ Len(closes) = n /\ closes[1] = Opening
  BY <1>0, <1>1
<1> HIDE DEF closes, n
<1>3. /\ \A i \in 1..n : closes[i] \in Nat /\ closes[i] \in Int
      /\ DOMAIN closes = 1..n
  BY <1>2
<1>4. \A i \in 1..n : Peak(closes, i) \in Nat \ {0}
  <2> SUFFICES ASSUME NEW i \in 1..n PROVE Peak(closes, i) \in Nat \ {0}
    OBVIOUS
  <2>1. /\ Peak(closes, i) \in Int
        /\ \A j \in 1..i : closes[j] <= Peak(closes, i)
    BY <1>0, <1>3, PeakFacts
  <2>2. closes[1] <= Peak(closes, i)
    BY <1>0, <2>1
  <2> QED
    BY <1>0, <1>2, <2>1, <2>2
<1>5. \A i \in 1..n : fall(i) \in Int
  BY <1>3, <1>4, DivRange
<1>6. fall(1) = 0
  <2>1. PICK j \in 1..1 : Peak(closes, 1) = closes[j]
    BY <1>0, <1>3, PeakFacts
  <2>2. Peak(closes, 1) = Opening
    BY <1>2, <2>1
  <2>3. (Opening * 1000) \div Opening = 1000
    BY <1>0, DivBound, DivFloor
  <2> QED
    BY <1>2, <2>2, <2>3
<1> HIDE DEF fall
<1>7. IsFiniteSet(S) /\ S # {} /\ S \in SUBSET Int
  <2>1. S = {f[i] : i \in 1..n}
    BY <1>3
  <2>2. f = [i \in 1..n |-> f[i]]
    OBVIOUS
  <2>3. IsFiniteSet(1..n)
    BY <1>0, FS_Interval
  <2>4. IsFiniteSet(S)
    <3> HIDE DEF f, S
    <3> QED
      BY <2>1, <2>2, <2>3, ImageFinite
  <2>5. fall(1) \in S
    BY <1>0, <1>3
  <2>6. S \in SUBSET Int
    BY <1>3, <1>5
  <2> QED
    BY <2>4, <2>5, <2>6
<1>8. Min(S) \in Int /\ \A y \in S : Min(S) <= y
  BY <1>7, MinFacts
<1>9. \A i \in 1..n : Min(S) <= fall(i)
  BY <1>3, <1>8
<1>10. MaxDrawdown(path) = Min(S)
  BY DEF MaxDrawdown, closes, fall
<1> HIDE DEF S
<1>11. MaxDrawdown(path) \in Falls
  BY <1>0, <1>6, <1>8, <1>9, <1>10 DEF Falls
<1> QED
  BY <1>9, <1>10, <1>11 DEF Fall, fall, closes, n

\* The days and the benchmark of a history.
LEMMA TheHistory ==
  ASSUME EvaluationInv
  PROVE  /\ History(days, nav)
         /\ saa \in Seq(Nat) /\ Len(saa) = Len(nav)
<1> DEFINE n == Len(nav)
<1>1. n \in Nat /\ n >= 1 /\ n <= MaxBars /\ MaxBars \in Nat /\ nav \in Seq(Levels)
  BY EvaluationAssumption DEF EvaluationInv
<1>2. calendar \in Seq(Nat) /\ bench \in Seq(Nat) /\ Len(calendar) >= n /\ Len(bench) >= n
  BY <1>1, EvaluationAssumption DEF EvaluationInv
<1>3. \A i \in 1..n : calendar[i] \in Nat /\ bench[i] \in Nat
  BY <1>1, <1>2
<1>4. /\ days \in Seq(Nat) /\ Len(days) = n /\ \A i \in 1..n : days[i] = calendar[i]
      /\ saa \in Seq(Nat) /\ Len(saa) = n
  <2>1. \A i \in 1..(n - 1 + 1) : 1 + i - 1 = i
    BY <1>1
  <2> QED
    BY <1>1, <1>3, <2>1, SubSeqProperties DEF days, saa
<1>5. \A i, j \in 1..MaxBars : i < j => calendar[i] < calendar[j]
  BY EvaluationAssumption DEF EvaluationInv
<1>6. \A i, j \in 1..n : i < j => days[i] < days[j]
  <2> SUFFICES ASSUME NEW i \in 1..n, NEW j \in 1..n, i < j PROVE days[i] < days[j]
    OBVIOUS
  <2>1. i \in 1..MaxBars /\ j \in 1..MaxBars
    BY <1>1
  <2>2. days[i] = calendar[i] /\ days[j] = calendar[j]
    BY <1>4
  <2> QED
    BY <1>5, <2>1, <2>2
<1> HIDE DEF n
<1> QED
  BY <1>1, <1>4, <1>6 DEF History, n

LEMMA NavNatural ==
  ASSUME NEW path \in Seq(Levels)
  PROVE  path \in Seq(Nat)
<1>1. Levels \subseteq Nat
  BY EvaluationAssumption
<1> QED
  BY <1>1, SeqMonotonic

\* What the gates are given.
LEMMA FactsType ==
  ASSUME EvaluationInv, Len(nav) > 1
  PROVE  Facts \in FactSet
<1>1. nav \in Seq(Nat) /\ saa \in Seq(Nat) /\ Len(saa) = Len(nav) /\ Len(nav) \in Nat
  BY TheHistory, NavNatural DEF EvaluationInv
<1>2. ASSUME NEW p \in Seq(Nat), Len(p) > 1 PROVE Return(p) \in Int
  <2>1. Last(p) \in Nat
    BY <1>2 DEF Last
  <2>2. Opening \in Nat \ {0}
    BY EvaluationAssumption
  <2> QED
    BY <2>1, <2>2, DivRange DEF Return
<1>3. Return(nav) \in Int /\ Return(saa) \in Int
  BY <1>1, <1>2
<1>4. MaxDrawdown(nav) \in Falls /\ MaxDrawdown(saa) \in Falls
  BY <1>1, DrawdownRange
<1> QED
  BY <1>3, <1>4 DEF Facts, FactSet

LEMMA EvaluationInit == Init => EvaluationInv
<1> SUFFICES ASSUME Init PROVE EvaluationInv
  OBVIOUS
<1>1. PICK level \in Levels : nav = <<level>>
  BY DEF Init
<1>2. nav \in Seq(Levels) /\ Len(nav) = 1 /\ MaxBars \in Nat \ {0}
  BY <1>1, EvaluationAssumption
<1> QED
  BY <1>2 DEF Init, EvaluationInv

LEMMA EvaluationStep == EvaluationInv /\ [Next]_vars => EvaluationInv'
<1> SUFFICES ASSUME EvaluationInv, [Next]_vars PROVE EvaluationInv'
  OBVIOUS
<1>1. CASE UNCHANGED vars
  BY <1>1 DEF vars, EvaluationInv, Reported, NoReport
<1>2. ASSUME NEW level \in Levels, Bar(level) PROVE EvaluationInv'
  <2>1. nav \in Seq(Levels) /\ nav' = Append(nav, level) /\ Len(nav) \in 1..MaxBars
        /\ Len(nav) < MaxBars /\ MaxBars \in Nat
    BY <1>2, EvaluationAssumption DEF Bar, EvaluationInv
  <2>2. nav' \in Seq(Levels) /\ Len(nav') \in 1..MaxBars
    BY <2>1
  <2>3. (report = NoReport)'
    BY <1>2 DEF Bar, NoReport
  <2> QED
    BY <1>2, <2>2, <2>3 DEF Bar, EvaluationInv
<1>3. ASSUME NEW evidence \in EvidenceSet, Evaluate(evidence) PROVE EvaluationInv'
  <2>1. Facts \in FactSet
    BY <1>3, FactsType DEF Evaluate
  <2>2. report' = [status |-> Status(Evaluated(Facts, evidence)),
                   gates |-> Evaluated(Facts, evidence),
                   facts |-> Facts, evidence |-> evidence]
    BY <1>3 DEF Evaluate
  <2>3. Reported'
    <3> DEFINE E(f) == Evaluated(f, evidence)
    <3>1. /\ report'.evidence = evidence /\ report'.facts = Facts
          /\ report'.gates = Evaluated(Facts, evidence)
          /\ report'.status = Status(Evaluated(Facts, evidence))
      BY <2>2
    <3> QED
      BY <2>1, <3>1 DEF Reported
  <2> QED
    BY <1>3, <2>3 DEF Evaluate, EvaluationInv
<1> QED
  BY <1>1, <1>2, <1>3 DEF Next

\* The invariant the theorems below are read off.
THEOREM EvaluationInvariant == Spec => []EvaluationInv
  BY EvaluationInit, EvaluationStep, PTL DEF Spec

-----------------------------------------------------------------------------
(* The verdict *)

\* Fewer failures, no lower verdict.
LEMMA FewerFailures ==
  ASSUME NEW a, NEW b, Failures(b) \subseteq Failures(a)
  PROVE  Rank(Status(b)) >= Rank(Status(a))
<1>1. IsFiniteSet(Gates)
  <2> DEFINE Half == {"G1"} \union {"G2"} \union {"G3"} \union {"G4"} \union {"G5"}
             Rest == {"G6"} \union {"G7"} \union {"G8"} \union {"G9"} \union {"G10"}
  <2>1. IsFiniteSet(Half)
    BY FS_Singleton, FS_Union
  <2>2. IsFiniteSet(Rest)
    BY FS_Singleton, FS_Union
  <2>3. Gates = Half \union Rest
    BY DEF Gates
  <2> HIDE DEF Half, Rest
  <2> QED
    BY <2>1, <2>2, <2>3, FS_Union
<1>2. IsFiniteSet(Failures(a)) /\ IsFiniteSet(Failures(b))
  BY <1>1, FS_Subset DEF Failures
<1>3. /\ Cardinality(Failures(a)) \in Nat /\ Cardinality(Failures(b)) \in Nat
      /\ Cardinality(Failures(b)) <= Cardinality(Failures(a))
  BY <1>2, FS_Subset, FS_CardinalityType
<1> HIDE DEF Failures
<1>4. CASE Failures(a) = {}
  <2>1. Failures(b) = {}
    BY <1>4
  <2>2. ~ (Cardinality(Failures(a)) >= 3) /\ ~ (Cardinality(Failures(b)) >= 3)
    BY <1>4, <2>1, FS_EmptySet
  <2>3. Status(a) = "validated" /\ Status(b) = "validated"
    BY <1>4, <2>1, <2>2 DEF Status
  <2> QED
    BY <2>3 DEF Rank
<1>5. CASE Failures(a) # {} /\ Cardinality(Failures(a)) >= 3
  BY <1>5 DEF Status, Rank
<1>6. CASE Failures(a) # {} /\ ~ (Cardinality(Failures(a)) >= 3)
  <2>1. ~ (Cardinality(Failures(b)) >= 3)
    BY <1>3, <1>6
  <2>2. Status(a) = "research"
    BY <1>6 DEF Status
  <2>3. Status(b) \in {"validated", "research"}
    BY <2>1 DEF Status
  <2> QED
    BY <2>2, <2>3 DEF Rank
<1> QED
  BY <1>4, <1>5, <1>6

\* A Calmar ratio that improves on the benchmark's still does after a higher
\* return, or after a shallower drawdown of a strategy that lost nothing.  In
\* the products: mine are returns times s, theirs the benchmark's times a drawdown.
LEMMA CalmarArithmetic ==
  ASSUME NEW c \in Int, NEW c2 \in Int, NEW sc \in Int, NEW s \in Nat,
         NEW d \in Nat, NEW d2 \in Nat, c <= c2,
         d2 = d \/ (c >= 0 /\ d2 <= d),
         (c * s - sc * d) * 100 >= 15 * Absolute(sc * d)
  PROVE  (c2 * s - sc * d2) * 100 >= 15 * Absolute(sc * d2)
<1> DEFINE mine == c * s
           mine2 == c2 * s
           theirs == sc * d
           theirs2 == sc * d2
<1>1. mine \in Int /\ mine2 \in Int /\ theirs \in Int /\ theirs2 \in Int /\ mine <= mine2
  BY MulMono
<1>2. CASE d2 = d
  <2>1. theirs2 = theirs
    BY <1>2
  <2>2. (mine - theirs) * 100 >= 15 * Absolute(theirs)
    OBVIOUS
  <2> HIDE DEF mine, mine2, theirs, theirs2
  <2>3. (mine2 - theirs2) * 100 >= 15 * Absolute(theirs2)
    BY <1>1, <2>1, <2>2 DEF Absolute
  <2> QED
    BY <2>3 DEF mine2, theirs2
<1>3. CASE c >= 0 /\ d2 <= d /\ sc >= 0
  <2>1. theirs2 >= 0 /\ theirs2 <= theirs
    <3>1. d2 * sc <= d * sc /\ 0 * sc <= d2 * sc
      BY <1>3, MulMono
    <3> QED
      BY <3>1
  <2>2. (mine - theirs) * 100 >= 15 * Absolute(theirs)
    OBVIOUS
  <2> HIDE DEF mine, mine2, theirs, theirs2
  <2>3. (mine2 - theirs2) * 100 >= 15 * Absolute(theirs2)
    BY <1>1, <2>1, <2>2 DEF Absolute
  <2> QED
    BY <2>3 DEF mine2, theirs2
<1>4. CASE c >= 0 /\ sc < 0
  <2>1. theirs2 <= 0
    <3>1. sc * d2 <= 0 * d2
      BY <1>4, MulMono
    <3> QED
      BY <3>1
  <2>2. mine2 >= 0
    <3>1. 0 * s <= c2 * s
      BY <1>4, MulMono
    <3> QED
      BY <3>1
  <2> HIDE DEF mine, mine2, theirs, theirs2
  <2>3. (mine2 - theirs2) * 100 >= 15 * Absolute(theirs2)
    BY <1>1, <2>1, <2>2 DEF Absolute
  <2> QED
    BY <2>3 DEF mine2, theirs2
<1> QED
  BY <1>2, <1>3, <1>4

\* What better facts are.
LEMMA ImprovedFacts ==
  ASSUME NEW a \in FactSet, NEW b \in Improvements(a)
  PROVE  /\ b \in FactSet
         /\ b.saa_cagr = a.saa_cagr /\ b.saa_drawdown = a.saa_drawdown
         /\ a.cagr <= b.cagr
         /\ a.drawdown <= b.drawdown
         /\ a.drawdown # 0 => b.drawdown # 0
         /\ b.drawdown = a.drawdown \/ a.cagr >= 0
<1> DEFINE C == {a.cagr, a.cagr + 9, a.cagr + 200}
           D == {a.drawdown} \union
                (IF a.cagr >= 0 /\ a.drawdown < -1
                 THEN {-1, a.drawdown + 1, a.drawdown \div 2} ELSE {})
<1>0. Improvements(a) = {With(a, x, y) : x \in C, y \in D}
  BY DEF Improvements
<1> HIDE DEF C, D
<1>1. PICK c \in C, d \in D : b = With(a, c, d)
  BY <1>0
<1>2. /\ a.cagr \in Int /\ a.drawdown \in Int /\ a.drawdown <= 0
      /\ a.saa_cagr \in Int /\ a.saa_drawdown \in Falls
  BY DEF FactSet, Falls
<1>3. c \in Int /\ a.cagr <= c
  BY <1>2 DEF C
<1>4. a.drawdown \div 2 \in Int /\ a.drawdown <= (a.drawdown \div 2) * 2 + 1
      /\ (a.drawdown \div 2) * 2 <= a.drawdown
  BY <1>2
<1>5. /\ d \in Int /\ d <= 0 /\ a.drawdown <= d
      /\ a.drawdown # 0 => d # 0
      /\ d = a.drawdown \/ a.cagr >= 0
  BY <1>2, <1>4 DEF D
<1>6. /\ b.cagr = c /\ b.drawdown = d
      /\ b.saa_cagr = a.saa_cagr /\ b.saa_drawdown = a.saa_drawdown
  BY <1>1 DEF FactSet, With
<1>7. b \in FactSet
  <2>1. b = [cagr |-> c, drawdown |-> d, saa_cagr |-> a.saa_cagr,
             saa_drawdown |-> a.saa_drawdown]
    BY <1>1 DEF FactSet, With
  <2> QED
    BY <1>2, <1>3, <1>5, <2>1 DEF FactSet, Falls
<1> QED
  BY <1>3, <1>5, <1>6, <1>7

\* What evidence is, as far as the gates compare it.
LEMMA EvidenceType ==
  ASSUME NEW e \in EvidenceSet
  PROVE  /\ e.compared \in BOOLEAN /\ e.sortino \in SUBSET Int /\ e.saa_sortino \in SUBSET Int
         /\ e.deflated \in SUBSET Int /\ e.pbo \in Int /\ e.regimes \in Seq(Int)
         /\ e.cost \in Outcomes /\ e.delay \in Outcomes
         /\ e = [compared |-> e.compared, sortino |-> e.sortino,
                 saa_sortino |-> e.saa_sortino, deflated |-> e.deflated, pbo |-> e.pbo,
                 surfaces |-> e.surfaces, regimes |-> e.regimes, cost |-> e.cost,
                 delay |-> e.delay]
<1> DEFINE Type == [compared : BOOLEAN, sortino : SUBSET Int, saa_sortino : SUBSET Int,
                    deflated : SUBSET Int, pbo : Int,
                    surfaces : {x.surfaces : x \in EvidenceSet},
                    regimes : Seq(Int), cost : Outcomes, delay : Outcomes]
<1>1. e \in Type
  BY EvaluationAssumption
<1> QED
  BY <1>1

\* The gates one at a time: each is passed with better facts and evidence.
LEMMA BetterGates ==
  ASSUME NEW a \in FactSet, NEW b \in Improvements(a),
         NEW e \in EvidenceSet, NEW f \in EvidenceSet, NoWorse(e, f)
  PROVE  Failures(Evaluated(b, f)) \subseteq Failures(Evaluated(a, e))
<1>1. /\ b \in FactSet
      /\ b.saa_cagr = a.saa_cagr /\ b.saa_drawdown = a.saa_drawdown
      /\ a.cagr <= b.cagr
      /\ a.drawdown <= b.drawdown
      /\ a.drawdown # 0 => b.drawdown # 0
      /\ b.drawdown = a.drawdown \/ a.cagr >= 0
  BY ImprovedFacts
<1>2. /\ a.cagr \in Int /\ b.cagr \in Int /\ a.saa_cagr \in Int
      /\ a.drawdown \in Int /\ b.drawdown \in Int /\ a.saa_drawdown \in Int
      /\ a.drawdown <= 0 /\ b.drawdown <= 0 /\ a.saa_drawdown <= 0
  BY <1>1 DEF FactSet, Falls
<1>3. /\ e.sortino \in SUBSET Int /\ e.saa_sortino \in SUBSET Int
      /\ e.deflated \in SUBSET Int /\ e.pbo \in Int /\ e.regimes \in Seq(Int)
      /\ e.cost \in Outcomes /\ e.delay \in Outcomes
  BY EvidenceType
<1>4. /\ f.sortino \in SUBSET Int /\ f.deflated \in SUBSET Int /\ f.pbo \in Int
      /\ f.regimes \in Seq(Int) /\ f.cost \in Outcomes /\ f.delay \in Outcomes
  BY EvidenceType
<1>5. Gate2(b) = "fail" => Gate2(a) = "fail"
  <2>1. a.cagr - a.saa_cagr >= -RETURN_TOLERANCE => b.cagr - b.saa_cagr >= -RETURN_TOLERANCE
    BY <1>1, <1>2 DEF RETURN_TOLERANCE
  <2> QED
    BY <2>1 DEF Gate2, Passed
<1>6. Gate3(b) = "fail" => Gate3(a) = "fail"
  <2>1. (a.drawdown - a.saa_drawdown) * 100 >= DRAWDOWN_GAIN * Absolute(a.saa_drawdown)
        => (b.drawdown - b.saa_drawdown) * 100 >= DRAWDOWN_GAIN * Absolute(b.saa_drawdown)
    BY <1>1, <1>2 DEF DRAWDOWN_GAIN, Absolute
  <2> QED
    BY <1>1, <2>1 DEF Gate3, Passed
<1>7. CalmarImproved(a) => CalmarImproved(b)
  <2> SUFFICES ASSUME CalmarImproved(a) PROVE CalmarImproved(b)
    OBVIOUS
  <2> DEFINE s == Absolute(a.saa_drawdown)
             d == Absolute(a.drawdown)
             d2 == Absolute(b.drawdown)
             c == a.cagr
             c2 == b.cagr
             sc == a.saa_cagr
  <2>1. /\ s \in Nat /\ d \in Nat /\ d2 \in Nat
        /\ d2 = d \/ (c >= 0 /\ d2 <= d)
    BY <1>1, <1>2 DEF Absolute
  <2>2. /\ a.drawdown # 0 /\ a.saa_drawdown # 0 /\ a.saa_cagr # 0
        /\ (c * s - sc * d) * 100 >= 15 * Absolute(sc * d)
    BY DEF CalmarImproved, CALMAR_GAIN
  <2>3. c \in Int /\ c2 \in Int /\ sc \in Int /\ c <= c2
    BY <1>1, <1>2
  <2>4. Absolute(b.saa_drawdown) = s /\ b.cagr = c2 /\ Absolute(b.drawdown) = d2
        /\ b.saa_cagr = sc
    BY <1>1
  <2> HIDE DEF s, d, d2, c, c2, sc
  <2>5. (c2 * s - sc * d2) * 100 >= 15 * Absolute(sc * d2)
    BY <2>1, <2>2, <2>3, CalmarArithmetic
  <2> QED
    BY <1>1, <2>2, <2>4, <2>5 DEF CalmarImproved, CALMAR_GAIN
<1>8. SortinoImproved(e) => SortinoImproved(f)
  <2> SUFFICES ASSUME SortinoImproved(e) PROVE SortinoImproved(f)
    OBVIOUS
  <2>1. PICK mine \in e.sortino, theirs \in e.saa_sortino :
          theirs # 0 /\ (mine - theirs) * 100 >= SORTINO_GAIN * Absolute(theirs)
    BY DEF SortinoImproved
  <2>2. PICK mine2 \in f.sortino : mine2 >= mine
    BY DEF NoWorse
  <2>3. mine \in Int /\ mine2 \in Int /\ theirs \in Int
    BY <1>3, <1>4
  <2>4. (mine2 - theirs) * 100 >= SORTINO_GAIN * Absolute(theirs)
    BY <2>1, <2>2, <2>3 DEF SORTINO_GAIN, Absolute
  <2> QED
    BY <2>1, <2>4 DEF SortinoImproved, NoWorse
<1>9. Gate4(b, f) = "fail" => Gate4(a, e) = "fail"
  BY <1>7, <1>8 DEF Gate4, Passed
<1>10. Gate5(f) = Gate5(e)
  BY DEF Gate5, NoWorse
<1>11. Gate6(f) = "fail" => Gate6(e) = "fail"
  <2> SUFFICES ASSUME Gate6(f) = "fail", Gate6(e) # "fail" PROVE FALSE
    OBVIOUS
  <2> DEFINE n == Len(e.regimes)
             A == {i \in DOMAIN e.regimes : e.regimes[i] > 0}
             B == {i \in DOMAIN f.regimes : f.regimes[i] > 0}
  <2>1. n \in Nat /\ DOMAIN e.regimes = 1..n /\ DOMAIN f.regimes = 1..n
    BY <1>3 DEF NoWorse
  <2>2. Len(f.regimes) = n
    BY <1>4, <2>1
  <2>3. \A i \in 1..n : /\ e.regimes[i] \in Int /\ f.regimes[i] \in Int
                        /\ f.regimes[i] >= e.regimes[i]
    <3>1. \A i \in DOMAIN e.regimes : f.regimes[i] >= e.regimes[i]
      BY DEF NoWorse
    <3>2. \A i \in 1..n : e.regimes[i] \in Int
      BY <1>3, ElementOfSeq
    <3>3. \A i \in 1..n : f.regimes[i] \in Int
      BY <1>4, <2>2, ElementOfSeq
    <3> QED
      BY <2>1, <3>1, <3>2, <3>3
  <2>4. A \subseteq B /\ B \in SUBSET (1..n)
    BY <2>1, <2>3
  <2>5. Cardinality(A) <= Cardinality(B) /\ Cardinality(A) \in Nat /\ Cardinality(B) \in Nat
    BY <2>1, <2>4, BarsFinite, FS_Subset
  <2>6. f.regimes # <<>> /\ ~ (2 * Cardinality(B) >= n)
    BY <2>2 DEF Gate6, Passed
  <2>7. e.regimes = <<>> \/ 2 * Cardinality(A) >= n
    BY DEF Gate6, Passed
  <2>8. e.regimes # <<>>
    <3> SUFFICES ASSUME e.regimes = <<>> PROVE FALSE
      OBVIOUS
    <3>1. Len(f.regimes) = 0
      BY <2>2
    <3>2. f.regimes = <<>>
      BY <1>4, <3>1, EmptySeq
    <3> QED
      BY <2>6, <3>2
  <2> HIDE DEF A, B, n
  <2> QED
    BY <2>1, <2>5, <2>6, <2>7, <2>8
<1>12. /\ Stress(f.cost, "skip") = "fail" => Stress(e.cost, "skip") = "fail"
       /\ Stress(f.delay, "warn") = "fail" => Stress(e.delay, "warn") = "fail"
  <2>1. /\ f["cost"] \in {e["cost"]} \union (IF e["cost"] = "failed" THEN {"passed"} ELSE {})
        /\ f["delay"] \in {e["delay"]} \union (IF e["delay"] = "failed" THEN {"passed"} ELSE {})
    BY DEF NoWorse
  <2> QED
    BY <2>1 DEF Stress, Passed
<1>13. Gate10(f) = "fail" => Gate10(e) = "fail"
  <2>1. ASSUME NEW x \in e.deflated, x >= MIN_DEFLATED
        PROVE  \E y \in f.deflated : y >= MIN_DEFLATED
    <3>1. PICK y \in f.deflated : y >= x
      BY DEF NoWorse
    <3>2. x \in Int /\ y \in Int
      BY <1>3, <1>4
    <3> QED
      BY <2>1, <3>1, <3>2 DEF MIN_DEFLATED
  <2>2. e.pbo <= MAX_PBO => f.pbo <= MAX_PBO
    BY <1>3, <1>4 DEF NoWorse, MAX_PBO
  <2> QED
    BY <2>1, <2>2 DEF Gate10, Passed
<1>14. f.compared = e.compared
  BY DEF NoWorse
<1> SUFFICES ASSUME NEW g \in Gates, Evaluated(b, f)[g] = "fail"
             PROVE  Evaluated(a, e)[g] = "fail"
  BY DEF Failures
<1>15. CASE g \in {"G1", "G9"}
  BY <1>15 DEF Evaluated, Gates
<1>16. CASE g \in {"G2", "G3", "G4"}
  BY <1>5, <1>6, <1>9, <1>14, <1>16 DEF Evaluated, Gates, Compared
<1>17. CASE g \in {"G5", "G6", "G7", "G8", "G10"}
  BY <1>10, <1>11, <1>12, <1>13, <1>17 DEF Evaluated, Gates
<1> QED
  BY <1>15, <1>16, <1>17 DEF Gates

\* The verdict never falls because the report got better (gates.py:71-380), whatever
\* the facts and the evidence.
THEOREM VerdictIsMonotone == Spec => []VerdictMonotone
<1>1. EvaluationInv => VerdictMonotone
  <2> SUFFICES ASSUME Reported, NEW f \in EvidenceSet, NoWorse(report.evidence, f),
                      NEW b \in Improvements(report.facts)
               PROVE  Rank(Status(Evaluated(b, f))) >= Rank(report.status)
    BY DEF EvaluationInv, VerdictMonotone
  <2>1. Failures(Evaluated(b, f)) \subseteq Failures(Evaluated(report.facts, report.evidence))
    BY BetterGates DEF Reported
  <2> QED
    BY <2>1, FewerFailures DEF Reported
<1> QED
  BY <1>1, EvaluationInvariant, PTL

-----------------------------------------------------------------------------
(* The investor *)

LEMMA Exact ==
  ASSUME NEW a \in Nat, NEW b \in Nat \ {0}, a % b = 0
  PROVE  (a \div b) * b = a /\ a \div b \in Nat
  OBVIOUS

\* The units of a history: whole, and more with every contribution.
LEMMA UnitsFacts ==
  ASSUME NEW d, NEW path, History(d, path), NEW S \in SUBSET (2..Len(path)),
         NEW capital \in Nat
  PROVE  /\ UnitsAt(path, S, capital, 1) = capital \div path[1]
         /\ \A i \in 1..Len(path) : UnitsAt(path, S, capital, i) \in Nat
         /\ \A i, j \in 1..Len(path) :
              i <= j => UnitsAt(path, S, capital, i) <= UnitsAt(path, S, capital, j)
         /\ \A i \in 1..(Len(path) - 1) :
              /\ i + 1 \in S => UnitsAt(path, S, capital, i + 1)
                               = UnitsAt(path, S, capital, i) + Contribution \div path[i + 1]
              /\ i + 1 \notin S =>
                   UnitsAt(path, S, capital, i + 1) = UnitsAt(path, S, capital, i)
<1> DEFINE n == Len(path)
           f == [j \in S |-> Issued(path, j, Contribution)]
           To(i) == {j \in S : j <= i}
           units(i) == UnitsAt(path, S, capital, i)
           first == Issued(path, 1, capital)
<1>0. n \in Nat \ {0} /\ \A i \in 1..n : path[i] \in Nat \ {0}
  BY HistoryFacts
<1>c. Contribution \in Nat
  BY InvestorAssumption
<1>d. \A a \in Nat, b \in Nat \ {0} : a \div b \in Nat
  OBVIOUS
<1>1. first \in Nat /\ first = capital \div path[1]
  BY <1>0, <1>d DEF Issued
<1>s. n \in Nat /\ \A j \in S : j \in Nat /\ 2 <= j /\ j <= n
  BY <1>0
<1>u. /\ To(1) = {}
      /\ \A i \in Nat : To(i) \subseteq 1..i
      /\ \A i, k \in Nat : i <= k => To(i) \subseteq To(k)
      /\ \A i \in Nat : i + 1 \in S =>
           /\ To(i + 1) = To(i) \union {i + 1} /\ To(i + 1) \ {i + 1} = To(i)
           /\ i + 1 \notin To(i) /\ i + 1 \in To(i + 1)
      /\ \A i \in Nat : i + 1 \notin S => To(i + 1) = To(i)
  BY <1>s, UpTo
<1>2. \A j \in S : j \in 1..n /\ f[j] = Contribution \div path[j] /\ f[j] \in Nat /\ f[j] \in Int
  BY <1>0, <1>c, <1>d DEF Issued
<1>3. IsFiniteSet(S) /\ \A i \in 1..n : IsFiniteSet(To(i))
  BY <1>0, <1>2, BarsFinite
<1>4. \A i : units(i) = first + SumFunctionOnSet(f, To(i))
  BY DEF UnitsAt
<1> HIDE DEF f, first, units, n
<1>5. To(1) = {}
  BY <1>u
<1> HIDE DEF To
<1>6. units(1) = first
  <2>1. units(1) = first + SumFunctionOnSet(f, {})
    BY <1>4, <1>5
  <2>2. SumFunctionOnSet(f, {}) = 0
    BY SumEmpty
  <2> QED
    BY <1>1, <2>1, <2>2
<1>7. ASSUME NEW i \in 1..n
      PROVE  SumFunctionOnSet(f, To(i)) \in Nat /\ units(i) \in Nat
  <2>1. SumFunctionOnSet(f, To(i)) \in Nat
    BY <1>2, <1>3, SumNat DEF To
  <2> QED
    BY <1>1, <1>4, <2>1
<1>8. ASSUME NEW i \in 1..n, NEW j \in 1..n, i <= j
      PROVE  units(i) <= units(j)
  <2>1. To(i) \in SUBSET To(j)
    BY <1>u, <1>8, <1>0
  <2>2. \A s \in To(j) : f[s] \in Nat
    BY <1>2 DEF To
  <2>3. SumFunctionOnSet(f, To(i)) <= SumFunctionOnSet(f, To(j))
    BY <1>3, <2>1, <2>2, SumPart
  <2> QED
    BY <1>1, <1>4, <1>7, <2>3
<1>9. ASSUME NEW i \in 1..(n - 1)
      PROVE  /\ i + 1 \in S => units(i + 1) = units(i) + Contribution \div path[i + 1]
             /\ i + 1 \notin S => units(i + 1) = units(i)
  <2>0. i \in 1..n /\ i + 1 \in 1..n
    BY <1>0
  <2>1. CASE i + 1 \in S
    <3>1. i + 1 \in To(i + 1) /\ To(i + 1) \ {i + 1} = To(i)
      BY <1>u, <2>0, <2>1
    <3>2. IsFiniteSet(To(i + 1)) /\ \A s \in To(i + 1) : f[s] \in Int
      BY <1>2, <1>3, <2>0 DEF To
    <3>3. SumFunctionOnSet(f, To(i + 1))
            = f[i + 1] + SumFunctionOnSet(f, To(i + 1) \ {i + 1})
      <4> DEFINE T == To(i + 1)
      <4> HIDE DEF T
      <4>1. IsFiniteSet(T) /\ i + 1 \in T /\ \A s \in T : f[s] \in Int
        BY <3>1, <3>2 DEF T
      <4>2. SumFunctionOnSet(f, T) = f[i + 1] + SumFunctionOnSet(f, T \ {i + 1})
        BY <4>1, SumSplit
      <4> QED
        BY <4>2 DEF T
    <3>4. f[i + 1] = Contribution \div path[i + 1] /\ f[i + 1] \in Nat
      BY <1>2, <2>1
    <3>5. SumFunctionOnSet(f, To(i + 1)) = f[i + 1] + SumFunctionOnSet(f, To(i))
      BY <3>1, <3>3
    <3> QED
      BY <1>1, <1>4, <1>7, <2>0, <2>1, <3>4, <3>5
  <2>2. CASE i + 1 \notin S
    <3>1. To(i + 1) = To(i)
      BY <1>u, <2>0, <2>2
    <3>2. units(i + 1) = units(i)
      BY <1>4, <3>1
    <3>3. units(i) \in Nat
      BY <1>7, <2>0
    <3> QED
      BY <2>2, <3>2, <3>3
  <2> QED
    BY <2>1, <2>2
<1> QED
  BY <1>1, <1>6, <1>7, <1>8, <1>9 DEF units, n

\* The bars that contribute, and how many there may be.
LEMMA ContributingFacts ==
  ASSUME NEW d, NEW path, History(d, path)
  PROVE  /\ Contributing(d) \in SUBSET (2..Len(path))
         /\ Cardinality(Contributing(d)) \in Nat
         /\ Cardinality(MonthStarts(d[1], Last(d))) \in Nat
         /\ Cardinality(Contributing(d)) <= Cardinality(MonthStarts(d[1], Last(d)))
<1> DEFINE n == Len(path)
           S == Contributing(d)
           M == MonthStarts(d[1], Last(d))
           f == [i \in S |-> d[i] - ContributionDay]
<1>0. n \in Nat \ {0} /\ Len(d) = n /\ \A i \in 1..n : d[i] \in Nat
  BY HistoryFacts DEF History
<1>1. S \in SUBSET (2..n) /\ S \in SUBSET (1..n)
  BY <1>0 DEF Contributing
<1>2. d[1] \in Nat /\ Last(d) \in Nat /\ ContributionDay \in Nat
  BY <1>0, InvestorAssumption DEF Last
<1>3. IsFiniteSet(M)
  <2>1. M \subseteq d[1]..Last(d)
    BY DEF MonthStarts
  <2>2. d[1] \in Int /\ Last(d) \in Int
    BY <1>2
  <2>3. IsFiniteSet(d[1]..Last(d))
    BY <2>2, FS_Interval
  <2> QED
    BY <2>1, <2>3, FS_Subset
<1>4. ASSUME NEW i \in S PROVE d[i] - ContributionDay \in M
  <2>1. d[i] \in Schedule(d)
    BY DEF Contributing
  <2>2. PICK m \in M : d[i] = m + ContributionDay
    BY <2>1 DEF Schedule
  <2>3. m \in Int
    BY <1>2 DEF MonthStarts
  <2> QED
    BY <1>2, <2>2, <2>3
<1>5. f \in [S -> M]
  BY <1>4
<1>6. ASSUME NEW i \in S, NEW j \in S, f[i] = f[j] PROVE i = j
  <2>1. i \in 1..n /\ j \in 1..n /\ d[i] = d[j]
    BY <1>0, <1>1, <1>2, <1>6
  <2>2. i < j => d[i] < d[j]
    BY <2>1 DEF History
  <2>3. j < i => d[j] < d[i]
    BY <2>1 DEF History
  <2> QED
    BY <1>0, <2>1, <2>2, <2>3
<1>7. f \in Injection(S, M)
  BY <1>5, <1>6 DEF Injection, IsInjective
<1> HIDE DEF S, M, f
<1>8. Cardinality(S) <= Cardinality(M) /\ IsFiniteSet(S)
  BY <1>3, <1>7, FS_Injection
<1>9. Cardinality(S) \in Nat /\ Cardinality(M) \in Nat
  BY <1>3, <1>8, FS_CardinalityType
<1> QED
  BY <1>1, <1>8, <1>9 DEF S, M, n

\* A wealth path has a close for every close of the NAV.
LEMMA WealthFacts ==
  ASSUME NEW d, NEW path, History(d, path), NEW S \in SUBSET (2..Len(path)),
         NEW capital \in Nat
  PROVE  /\ Len(WealthPath(path, S, capital)) = Len(path)
         /\ DOMAIN WealthPath(path, S, capital) = 1..Len(path)
         /\ Last(WealthPath(path, S, capital))
              = UnitsAt(path, S, capital, Len(path)) * path[Len(path)]
         /\ \A i \in 1..Len(path) :
              /\ WealthPath(path, S, capital)[i] = UnitsAt(path, S, capital, i) * path[i]
              /\ WealthPath(path, S, capital)[i] \in Nat
<1> DEFINE n == Len(path)
           w == WealthPath(path, S, capital)
           units(i) == UnitsAt(path, S, capital, i)
<1>0. n \in Nat \ {0} /\ \A i \in 1..n : path[i] \in Nat \ {0}
  BY HistoryFacts
<1>1. \A i \in 1..n : units(i) \in Nat
  BY UnitsFacts
<1>2. w = [i \in 1..n |-> units(i) * path[i]]
  BY DEF WealthPath, Bars
<1> HIDE DEF units, w
<1>3. \A i \in 1..n : units(i) * path[i] \in Nat
  <2> SUFFICES ASSUME NEW i \in 1..n PROVE units(i) * path[i] \in Nat
    OBVIOUS
  <2>1. units(i) \in Nat /\ path[i] \in Nat
    BY <1>0, <1>1
  <2> QED
    BY <2>1
<1>4. w \in [1..n -> Nat]
  BY <1>2, <1>3
<1>5. Len(w) = n /\ DOMAIN w = 1..n
  BY <1>0, <1>4
<1>6. \A i \in 1..n : w[i] = units(i) * path[i] /\ w[i] \in Nat
  BY <1>2, <1>3
<1>7. Last(w) = w[n] /\ n \in 1..n
  BY <1>0, <1>5 DEF Last
<1> QED
  BY <1>5, <1>6, <1>7 DEF units, w

\* Over every stretch wealth does at least as well as the NAV.
THEOREM WealthFollowsNav == Spec => []WealthFallsNoDeeper
<1>1. EvaluationInv => WealthFallsNoDeeper
  <2> SUFFICES ASSUME EvaluationInv, NEW i \in Bars(nav), NEW j \in Bars(nav), j <= i
               PROVE  Wealth(days, nav, Capital)[i] * nav[j]
                        >= Wealth(days, nav, Capital)[j] * nav[i]
    BY DEF WealthFallsNoDeeper
  <2> DEFINE S == Contributing(days)
             u == UnitsAt(nav, S, Capital, i)
             v == UnitsAt(nav, S, Capital, j)
             a == nav[i]
             b == nav[j]
  <2>1. History(days, nav) /\ i \in 1..Len(nav) /\ j \in 1..Len(nav)
    BY TheHistory DEF Bars
  <2>2. S \in SUBSET (2..Len(nav)) /\ Capital \in Nat
    BY <2>1, ContributingFacts, InvestorAssumption
  <2>3. u \in Nat /\ v \in Nat /\ v <= u
    BY <2>1, <2>2, UnitsFacts
  <2>4. a \in Nat /\ b \in Nat
    BY <2>1, HistoryFacts
  <2>5. Wealth(days, nav, Capital)[i] = u * a /\ Wealth(days, nav, Capital)[j] = v * b
    BY <2>1, <2>2, WealthFacts DEF Wealth
  <2> HIDE DEF u, v, a, b
  <2>6. a * b \in Nat
    BY <2>4
  <2>7. v * (a * b) <= u * (a * b)
    BY <2>3, <2>6, MulMono
  <2>8. u * a * b = u * (a * b) /\ v * b * a = v * (a * b)
    BY <2>3, <2>4
  <2>9. u * a * b >= v * b * a
    BY <2>7, <2>8, <2>3, <2>6
  <2> QED
    BY <2>5, <2>9 DEF a, b
<1> QED
  BY <1>1, EvaluationInvariant, PTL

\* Bar by bar: what the wealth is above the contributions was earned so far.
LEMMA EarnedSoFar ==
  ASSUME NEW d, NEW path, History(d, path), NEW S \in SUBSET (2..Len(path)),
         NEW m \in 1..Len(path)
  PROVE  UnitsAt(path, S, Capital, m) * path[m] - Capital
           - Contribution * Cardinality({j \in S : j <= m})
         = SumFunctionOnSet([i \in 2..Len(path) |->
             UnitsAt(path, S, Capital, i - 1) * (path[i] - path[i - 1])], 2..m)
<1> DEFINE n == Len(path)
           units(i) == UnitsAt(path, S, Capital, i)
           f == [i \in 2..n |-> units(i - 1) * (path[i] - path[i - 1])]
           To(i) == {j \in S : j <= i}
           Earned(i) == units(i) * path[i] - Capital - Contribution * Cardinality(To(i))
           P == {k \in Nat : k + 1 \in 1..n => Earned(k + 1) = SumFunctionOnSet(f, 2..(k + 1))}
<1>0. n \in Nat \ {0} /\ \A i \in 1..n : path[i] \in Nat \ {0} /\ path[i] \in Levels
  BY HistoryFacts
<1>1. Capital \in Nat /\ Contribution \in Nat
  BY InvestorAssumption
<1>s. \A j \in S : j \in Nat /\ 2 <= j /\ j <= n
  BY <1>0
<1>u. /\ To(1) = {}
      /\ \A i \in Nat : To(i) \subseteq 1..i
      /\ \A i, k \in Nat : i <= k => To(i) \subseteq To(k)
      /\ \A i \in Nat : i + 1 \in S =>
           /\ To(i + 1) = To(i) \union {i + 1} /\ To(i + 1) \ {i + 1} = To(i)
           /\ i + 1 \notin To(i) /\ i + 1 \in To(i + 1)
      /\ \A i \in Nat : i + 1 \notin S => To(i + 1) = To(i)
  BY <1>s, UpTo
<1>2. /\ units(1) = Capital \div path[1]
      /\ \A i \in 1..n : units(i) \in Nat
      /\ \A i \in 1..(n - 1) :
           /\ i + 1 \in S => units(i + 1) = units(i) + Contribution \div path[i + 1]
           /\ i + 1 \notin S => units(i + 1) = units(i)
  BY <1>1, UnitsFacts
<1>3. \A i \in 1..n : Capital % path[i] = 0 /\ Contribution % path[i] = 0
  BY <1>0, EvaluationAssumption
<1> HIDE DEF units, n
<1>4. ASSUME NEW i \in 2..n
      PROVE  f[i] = units(i - 1) * (path[i] - path[i - 1]) /\ f[i] \in Int
  <2>1. i \in 1..n /\ i - 1 \in 1..n
    BY <1>0
  <2>2. units(i - 1) \in Int /\ path[i] \in Int /\ path[i - 1] \in Int
    BY <1>0, <1>2, <2>1
  <2>3. f[i] = units(i - 1) * (path[i] - path[i - 1])
    OBVIOUS
  <2> QED
    BY <2>2, <2>3
<1> HIDE DEF f
<1>5. 0 \in P
  <2>1. To(1) = {} /\ 2..1 = {}
    BY <1>u
  <2>2. units(1) * path[1] = Capital
    <3>1. 1 \in 1..n
      BY <1>0
    <3>2. path[1] \in Nat \ {0} /\ Capital % path[1] = 0
      BY <1>0, <1>3, <3>1
    <3> QED
      BY <1>1, <1>2, <3>2, Exact
  <2>3. Contribution * Cardinality(To(1)) = 0 /\ SumFunctionOnSet(f, 2..1) = 0
    <3>1. Cardinality(To(1)) = 0
      BY <2>1, FS_EmptySet
    <3>2. SumFunctionOnSet(f, {}) = 0
      BY SumEmpty
    <3> QED
      BY <1>1, <2>1, <3>1, <3>2
  <2>4. Earned(1) = 0
    BY <1>1, <2>2, <2>3
  <2> HIDE DEF Earned
  <2>5. Earned(0 + 1) = SumFunctionOnSet(f, 2..(0 + 1))
    BY <2>3, <2>4
  <2> QED
    BY <2>5
<1>6. ASSUME NEW k \in P PROVE k + 1 \in P
  <2> DEFINE i == k + 1
  <2> SUFFICES ASSUME i + 1 \in 1..n PROVE Earned(i + 1) = SumFunctionOnSet(f, 2..(i + 1))
    OBVIOUS
  <2>0. k \in Nat /\ i \in Nat /\ i \in 1..(n - 1) /\ i \in 1..n /\ i + 1 \in 2..n
    BY <1>0
  <2>1. Earned(i) = SumFunctionOnSet(f, 2..i)
    BY <2>0
  <2> HIDE DEF i, P
  <2>2. SumFunctionOnSet(f, 2..(i + 1)) = f[i + 1] + SumFunctionOnSet(f, 2..i)
    <3> DEFINE T == 2..(i + 1)
    <3>1. IsFiniteSet(T)
      BY <2>0, FS_Interval
    <3>2. i + 1 \in T /\ T \ {i + 1} = 2..i
      BY <2>0
    <3>3. \A s \in T : f[s] \in Int
      BY <1>0, <1>4, <2>0
    <3> HIDE DEF T
    <3>4. SumFunctionOnSet(f, T) = f[i + 1] + SumFunctionOnSet(f, T \ {i + 1})
      BY <3>1, <3>2, <3>3, SumSplit
    <3> QED
      BY <3>2, <3>4 DEF T
  <2>3. f[i + 1] = units(i) * (path[i + 1] - path[i])
    <3>1. i + 1 - 1 = i
      BY <2>0
    <3> QED
      BY <1>4, <2>0, <3>1
  <2>4. /\ units(i) \in Nat /\ units(i + 1) \in Nat
        /\ path[i] \in Nat /\ path[i + 1] \in Nat \ {0}
    BY <1>0, <1>2, <2>0
  <2>5. IsFiniteSet(To(i)) /\ Cardinality(To(i)) \in Nat
    <3>1. n \in Nat /\ To(i) \in SUBSET (1..n)
      BY <1>0, <1>u, <2>0
    <3> QED
      BY <3>1, BarsFinite
  <2> DEFINE c == Cardinality(To(i))
             a == path[i]
             b == path[i + 1]
             u == units(i)
  <2>6. CASE i + 1 \in S
    <3>1. To(i + 1) = To(i) \union {i + 1} /\ i + 1 \notin To(i)
      BY <1>u, <2>0, <2>6
    <3>2. Cardinality(To(i + 1)) = c + 1
      BY <2>5, <3>1, FS_AddElement
    <3>3. units(i + 1) = u + Contribution \div b
      BY <1>2, <2>0, <2>6
    <3>4. (Contribution \div b) * b = Contribution /\ Contribution \div b \in Nat
      BY <1>1, <1>3, <2>0, <2>4, Exact
    <3>5. units(i + 1) * b = u * b + Contribution
      BY <2>4, <3>3, <3>4
    <3>6. Contribution * (c + 1) = Contribution * c + Contribution
      BY <1>1, <2>5
    <3>7. u * (b - a) = u * b - u * a
      BY <2>4
    <3> DEFINE ub == u * b
               ua == u * a
               cc == Contribution * c
    <3>8. ub \in Int /\ ua \in Int /\ cc \in Int
      BY <1>1, <2>4, <2>5
    <3>9. Earned(i + 1) = ub + Contribution - Capital - (cc + Contribution)
      <4> DEFINE x == units(i + 1) * b
                 y == Contribution * Cardinality(To(i + 1))
      <4>1. Earned(i + 1) = x - Capital - y
        OBVIOUS
      <4>2. x = ub + Contribution
        BY <3>5
      <4>3. y = cc + Contribution
        BY <3>2, <3>6
      <4> HIDE DEF x, y, ub, cc, Earned
      <4> QED
        BY <1>1, <3>8, <4>1, <4>2, <4>3
    <3>10. Earned(i) = ua - Capital - cc
      OBVIOUS
    <3>11. f[i + 1] = ub - ua
      BY <2>3, <3>7
    <3> HIDE DEF ub, ua, cc, Earned
    <3> QED
      BY <1>1, <2>1, <2>2, <3>8, <3>9, <3>10, <3>11
  <2>7. CASE i + 1 \notin S
    <3>1. To(i + 1) = To(i)
      BY <1>u, <2>0, <2>7
    <3>2. units(i + 1) = u
      BY <1>2, <2>0, <2>4, <2>7
    <3>7. u * (b - a) = u * b - u * a
      BY <2>4
    <3> DEFINE ub == u * b
               ua == u * a
               cc == Contribution * c
    <3>8. ub \in Int /\ ua \in Int /\ cc \in Int
      BY <1>1, <2>4, <2>5
    <3>9. Earned(i + 1) = ub - Capital - cc
      BY <3>1, <3>2
    <3>10. Earned(i) = ua - Capital - cc
      OBVIOUS
    <3>11. f[i + 1] = ub - ua
      BY <2>3, <3>7
    <3> HIDE DEF ub, ua, cc, Earned
    <3> QED
      BY <1>1, <2>1, <2>2, <3>8, <3>9, <3>10, <3>11
  <2> QED
    BY <2>6, <2>7
<1>7. m - 1 \in P
  <2> HIDE DEF P
  <2>1. P \in SUBSET Nat
    BY DEF P
  <2>2. P = Nat
    BY <1>5, <1>6, <2>1, NatSetInduction
  <2> QED
    BY <2>2, <1>0 DEF n
<1>8. m - 1 + 1 = m /\ m \in 1..n
  BY <1>0 DEF n
<1>9. Earned(m) = SumFunctionOnSet(f, 2..m)
  <2> HIDE DEF Earned
  <2> QED
    BY <1>7, <1>8
<1> QED
  BY <1>9 DEF f, units, n

\* The type invariant, the wealth and the contributions included.
LEMMA EvaluationTypes ==
  ASSUME EvaluationInv
  PROVE  TypeOK
<1>1. History(days, nav) /\ Capital \in Nat /\ Contribution \in Nat
  BY TheHistory, InvestorAssumption
<1>2. \A i \in Bars(nav) : Wealth(days, nav, Capital)[i] \in Nat
  <2>1. Contributing(days) \in SUBSET (2..Len(nav))
    BY <1>1, ContributingFacts
  <2> QED
    BY <1>1, <2>1, WealthFacts DEF Wealth, Bars
<1>3. Contributed(days, Capital) <=
        Capital + Contribution * Cardinality(MonthStarts(days[1], Last(days)))
  <2> DEFINE c == Cardinality(Contributing(days))
             k == Cardinality(MonthStarts(days[1], Last(days)))
  <2>1. c \in Nat /\ k \in Nat /\ c <= k
    BY <1>1, ContributingFacts
  <2>2. Contributed(days, Capital) = Capital + Contribution * c
    BY DEF Contributed
  <2> HIDE DEF c, k
  <2>3. c * Contribution <= k * Contribution
    BY <1>1, <2>1, MulMono
  <2>4. Contribution * c <= Contribution * k /\ Contribution * c \in Nat /\ Contribution * k \in Nat
    BY <1>1, <2>1, <2>3
  <2>5. Capital + Contribution * c <= Capital + Contribution * k
    BY <1>1, <2>4
  <2> QED
    BY <2>2, <2>5 DEF k
<1>4. report.status \in {"none", "rejected", "research", "validated"}
  BY DEF EvaluationInv, Reported, NoReport, Status
<1>5. report # NoReport => report.gates \in [Gates -> {"pass", "fail", "warn", "skip"}]
  <2> DEFINE V == {"pass", "fail", "warn", "skip"}
  <2> SUFFICES ASSUME Reported PROVE report.gates \in [Gates -> V]
    BY DEF EvaluationInv
  <2>1. ASSUME NEW a, NEW e, NEW g \in Gates PROVE Evaluated(a, e)[g] \in V
    <3>1. CASE g \in {"G1", "G9"}
      BY <3>1 DEF Evaluated, Gates
    <3>2. CASE g \in {"G2", "G3", "G4"}
      BY <3>2 DEF Evaluated, Gates, Compared, Gate2, Gate3, Gate4, Passed
    <3>3. CASE g \in {"G5", "G6"}
      BY <3>3 DEF Evaluated, Gates, Gate5, Gate6, Passed
    <3>4. CASE g \in {"G7", "G8", "G10"}
      BY <3>4 DEF Evaluated, Gates, Stress, Gate10, Passed
    <3> QED
      BY <3>1, <3>2, <3>3, <3>4 DEF Gates
  <2>3. ASSUME NEW a, NEW e PROVE Evaluated(a, e) \in [Gates -> V]
    <3> DEFINE h == Evaluated(a, e)
    <3> DEFINE case(g) == CASE g \in {"G1", "G9"} -> "pass"
                            [] g = "G2" -> Compared(e, Gate2(a))
                            [] g = "G3" -> Compared(e, Gate3(a))
                            [] g = "G4" -> Compared(e, Gate4(a, e))
                            [] g = "G5" -> Gate5(e)
                            [] g = "G6" -> Gate6(e)
                            [] g = "G7" -> Stress(e.cost, "skip")
                            [] g = "G8" -> Stress(e.delay, "warn")
                            [] g = "G10" -> Gate10(e)
    <3>0. h = [g \in Gates |-> case(g)]
      BY DEF Evaluated
    <3> HIDE DEF case, h
    <3>1. h = [g \in Gates |-> h[g]]
      BY <3>0
    <3>2. \A g \in Gates : h[g] \in V
      BY <2>1 DEF h
    <3>3. h \in [Gates -> V]
      BY <3>1, <3>2
    <3> QED
      BY <3>3 DEF h
  <2> QED
    BY <2>3 DEF Reported
<1> QED
  BY <1>2, <1>3, <1>4, <1>5 DEF EvaluationInv, TypeOK

\* What is reported as profit was earned (simulate_investor, investor.py:37-115):
\* no contribution counts as profit, however many there are.
THEOREM ReportedProfitIsEarned == Spec => []ProfitIsEarned
<1>1. EvaluationInv => ProfitIsEarned
  <2> SUFFICES ASSUME EvaluationInv
               PROVE  Profit(days, nav, Capital) =
                        SumFunction([i \in 2..Len(nav) |->
                          UnitsAt(nav, Contributing(days), Capital, i - 1) * (nav[i] - nav[i - 1])])
    BY EvaluationTypes DEF ProfitIsEarned
  <2> DEFINE S == Contributing(days)
             n == Len(nav)
             f == [i \in 2..n |-> UnitsAt(nav, S, Capital, i - 1) * (nav[i] - nav[i - 1])]
             w == UnitsAt(nav, S, Capital, n) * nav[n]
             c == Contribution * Cardinality(S)
  <2>1. History(days, nav) /\ n \in Nat \ {0} /\ n \in 1..n
    BY TheHistory, HistoryFacts
  <2>2. S \in SUBSET (2..n) /\ Cardinality(S) \in Nat
    BY <2>1, ContributingFacts
  <2>3. Capital \in Nat /\ Contribution \in Nat
    BY InvestorAssumption
  <2>4. {j \in S : j <= n} = S
    BY <2>2
  <2>5. w - Capital - c = SumFunctionOnSet(f, 2..n)
    BY <2>1, <2>2, <2>4, EarnedSoFar
  <2>6. SumFunction(f) = SumFunctionOnSet(f, 2..n)
    BY DEF SumFunction
  <2>7. Profit(days, nav, Capital) = w - (Capital + c)
    BY <2>1, <2>2, <2>3, WealthFacts DEF Profit, Wealth, Contributed
  <2>8. w \in Int /\ c \in Int
    <3>1. UnitsAt(nav, S, Capital, n) \in Nat /\ nav[n] \in Nat
      BY <2>1, <2>2, <2>3, UnitsFacts, HistoryFacts
    <3> QED
      BY <2>2, <2>3, <3>1
  <2> HIDE DEF w, c, f
  <2>9. Profit(days, nav, Capital) = SumFunction(f)
    BY <2>3, <2>5, <2>6, <2>7, <2>8
  <2> QED
    BY <2>9 DEF f
<1> QED
  BY <1>1, EvaluationInvariant, PTL

-----------------------------------------------------------------------------
(* Milestones *)

\* A goal is crossed at the first of the bars that reach it.
LEMMA CrossingFacts ==
  ASSUME NEW path, NEW L \in Nat, DOMAIN path = 1..L, NEW goal,
         \E i \in 1..L : path[i] >= goal
  PROVE  /\ Crossing(path, goal) \in 1..L
         /\ path[Crossing(path, goal)] >= goal
         /\ \A i \in 1..L : path[i] >= goal => Crossing(path, goal) <= i
<1> DEFINE S == {i \in DOMAIN path : path[i] >= goal}
<1>1. S \in SUBSET Nat /\ S # {}
  OBVIOUS
<1>2. Min(S) \in S /\ \A y \in S : Min(S) <= y
  BY <1>1, MinOfNaturals
<1> QED
  BY <1>2 DEF Crossing

\* The last bar that is no later than a day.
LEMMA LastBefore ==
  ASSUME NEW d, NEW path, History(d, path), NEW start \in Int, d[1] <= start
  PROVE  Max({i \in DOMAIN d : d[i] <= start}) \in 1..Len(path)
<1> DEFINE S == {i \in DOMAIN d : d[i] <= start}
<1>1. Len(path) \in Nat \ {0} /\ DOMAIN d = 1..Len(path)
  BY HistoryFacts DEF History
<1>2. S \in SUBSET (1..Len(path)) /\ 1 \in S
  BY <1>1
<1> HIDE DEF S
<1>3. IsFiniteSet(S) /\ S \in SUBSET Nat /\ S # {}
  BY <1>1, <1>2, BarsFinite
<1>4. S \in SUBSET Int
  BY <1>3
<1>5. Max(S) \in S
  BY <1>3, <1>4, MaxFacts
<1> QED
  BY <1>2, <1>5 DEF S

\* A goal that is reached from some start is preceded by every lower goal.
LEMMA MilestonesOf ==
  ASSUME NEW d, NEW path, History(d, path), NEW low \in Nat, NEW high \in Nat, low < high,
         NEW capital \in Nat, MilestoneDays(d, path, capital, high) # {}
  PROVE  /\ MilestoneDays(d, path, capital, low) # {}
         /\ Min(MilestoneDays(d, path, capital, low))
              <= Min(MilestoneDays(d, path, capital, high))
<1> DEFINE months == IF Len(d) < YearBars THEN {}
                     ELSE MonthStarts(d[1], d[Len(d) - YearBars + 1])
           starts == {start \in months : Cardinality({m \in months : m <= start}) <= MaxStarts}
           from(start) == Max({i \in DOMAIN d : d[i] <= start})
           dayTail(start) == SubSeq(d, from(start), Len(d))
           navTail(start) == SubSeq(path, from(start), Len(path))
           sim(start) == SimWealth(navTail(start), capital)
           Reaches(start, goal) ==
             /\ Len(navTail(start)) >= YearBars
             /\ Last(Wealth(dayTail(start), navTail(start), capital)) >= goal
             /\ \E i \in Bars(navTail(start)) : sim(start)[i] >= goal
           Took(start, goal) ==
             dayTail(start)[Crossing(sim(start), goal)] - dayTail(start)[1]
           Reached(goal) == {start \in starts : Reaches(start, goal)}
<1>0. Len(path) \in Nat \ {0} /\ Len(d) = Len(path) /\ \A i \in 1..Len(path) : d[i] \in Nat
  BY HistoryFacts DEF History
<1>1. \A goal : MilestoneDays(d, path, capital, goal)
                  = {Took(start, goal) : start \in Reached(goal)}
  BY DEF MilestoneDays
<1>2. ASSUME NEW start \in starts
      PROVE  /\ History(dayTail(start), navTail(start))
  <2>1. start \in Int /\ d[1] <= start
    <3>1. ~ (Len(d) < YearBars) /\ start \in MonthStarts(d[1], d[Len(d) - YearBars + 1])
      OBVIOUS
    <3>2. start \in d[1]..d[Len(d) - YearBars + 1]
      BY <3>1 DEF MonthStarts
    <3>3. YearBars \in Nat \ {0}
      BY InvestorAssumption
    <3>4. d[1] \in Int /\ d[Len(d) - YearBars + 1] \in Int
      <4>1. Len(d) - YearBars + 1 \in 1..Len(path) /\ 1 \in 1..Len(path)
        BY <1>0, <3>1, <3>3
      <4> QED
        BY <1>0, <4>1
    <3> QED
      BY <3>2, <3>4
  <2>2. from(start) \in 1..Len(path)
    BY <2>1, LastBefore
  <2> HIDE DEF from
  <2> QED
    BY <2>2, TailHistory
<1> HIDE DEF dayTail, navTail, starts
<1>3. ASSUME NEW start \in starts
      PROVE  /\ Len(navTail(start)) \in Nat \ {0}
             /\ DOMAIN sim(start) = 1..Len(navTail(start))
             /\ \A i \in 1..Len(navTail(start)) : sim(start)[i] \in Nat
             /\ Last(Wealth(dayTail(start), navTail(start), capital)) \in Int
             /\ \A i \in 1..Len(navTail(start)) : dayTail(start)[i] \in Nat
             /\ \A i, j \in 1..Len(navTail(start)) :
                  i <= j => dayTail(start)[i] <= dayTail(start)[j]
  <2> DEFINE e == dayTail(start)
             q == navTail(start)
             n == Len(q)
             S == {i \in 2..n : (i - 1) % Resim = 0}
  <2>1. History(e, q)
    BY <1>2
  <2>2. /\ n \in Nat \ {0} /\ \A i \in 1..n : e[i] \in Nat
        /\ \A i, j \in 1..n : i <= j => e[i] <= e[j]
    BY <2>1, HistoryFacts
  <2>3. DOMAIN WealthPath(q, S, capital) = 1..n /\ \A i \in 1..n : WealthPath(q, S, capital)[i] \in Nat
    BY <2>1, WealthFacts
  <2>4. sim(start) = WealthPath(q, S, capital)
    BY DEF SimWealth
  <2>5. Last(Wealth(e, q, capital)) \in Int
    <3>1. Contributing(e) \in SUBSET (2..n)
      BY <2>1, ContributingFacts
    <3> DEFINE w == WealthPath(q, Contributing(e), capital)
    <3>2. Len(w) = n /\ \A i \in 1..n : w[i] \in Nat
      BY <2>1, <3>1, WealthFacts
    <3> HIDE DEF w
    <3>3. w[n] \in Nat /\ Last(w) = w[n]
      BY <2>2, <3>2 DEF Last
    <3> QED
      BY <3>3 DEF Wealth, w
  <2> QED
    BY <2>2, <2>3, <2>4, <2>5
<1> HIDE DEF sim
<1>4. ASSUME NEW start \in Reached(high)
      PROVE  /\ start \in Reached(low)
             /\ Took(start, high) \in Nat /\ Took(start, low) <= Took(start, high)
  <2> DEFINE e == dayTail(start)
             n == Len(navTail(start))
             s == sim(start)
  <2>1. start \in starts
    OBVIOUS
  <2>2. /\ n \in Nat \ {0} /\ DOMAIN s = 1..n /\ \A i \in 1..n : s[i] \in Nat
        /\ Last(Wealth(dayTail(start), navTail(start), capital)) \in Int
        /\ \A i \in 1..n : e[i] \in Nat
        /\ \A i, j \in 1..n : i <= j => e[i] <= e[j]
    BY <1>3, <2>1
  <2>3. PICK i \in 1..n : s[i] >= high
    BY DEF Bars
  <2> HIDE DEF s, e, n
  <2>4. s[i] >= low
    BY <2>2, <2>3
  <2>5. start \in Reached(low)
    <3>1. Last(Wealth(dayTail(start), navTail(start), capital)) >= low
      BY <2>2
    <3> QED
      BY <2>1, <2>4, <3>1 DEF Bars, s, n
  <2>6. /\ Crossing(s, high) \in 1..n /\ s[Crossing(s, high)] >= high
    BY <2>2, <2>3, CrossingFacts
  <2>7. /\ Crossing(s, low) \in 1..n
        /\ \A k \in 1..n : s[k] >= low => Crossing(s, low) <= k
    BY <2>2, <2>4, CrossingFacts
  <2>8. s[Crossing(s, high)] >= low
    BY <2>2, <2>6
  <2>9. Crossing(s, low) <= Crossing(s, high)
    BY <2>6, <2>7, <2>8
  <2>10. e[Crossing(s, low)] <= e[Crossing(s, high)] /\ e[1] <= e[Crossing(s, high)]
    BY <2>2, <2>6, <2>7, <2>9
  <2>11. e[Crossing(s, low)] \in Nat /\ e[Crossing(s, high)] \in Nat /\ e[1] \in Nat
    BY <2>2, <2>6, <2>7
  <2> DEFINE x == e[Crossing(s, low)]
             y == e[Crossing(s, high)]
  <2>12. y - e[1] \in Nat /\ x - e[1] <= y - e[1]
    <3> HIDE DEF x, y
    <3> QED
      BY <2>10, <2>11 DEF x, y
  <2> QED
    BY <2>5, <2>12 DEF s, e
<1>5. ASSUME NEW start \in Reached(low)
      PROVE  Took(start, low) \in Nat
  <2> DEFINE e == dayTail(start)
             n == Len(navTail(start))
             s == sim(start)
  <2>1. start \in starts
    OBVIOUS
  <2>2. /\ n \in Nat \ {0} /\ DOMAIN s = 1..n
        /\ \A i \in 1..n : e[i] \in Nat
        /\ \A i, j \in 1..n : i <= j => e[i] <= e[j]
    BY <1>3, <2>1
  <2>3. \E i \in 1..n : s[i] >= low
    BY DEF Bars
  <2>4. Crossing(s, low) \in 1..n
    BY <2>2, <2>3, CrossingFacts
  <2> DEFINE x == e[Crossing(s, low)]
  <2>5. x \in Nat /\ e[1] \in Nat /\ e[1] <= x
    BY <2>2, <2>4
  <2>6. x - e[1] \in Nat
    <3> HIDE DEF x
    <3> QED
      BY <2>5
  <2> QED
    BY <2>6
<1> DEFINE soon == {Took(start, low) : start \in Reached(low)}
           late == {Took(start, high) : start \in Reached(high)}
<1> HIDE DEF Took, Reached
<1>6. soon \in SUBSET Nat /\ late \in SUBSET Nat /\ late # {}
  BY <1>1, <1>4, <1>5
<1>7. Min(late) \in late
  BY <1>6, MinOfNaturals
<1>8. PICK start \in Reached(high) : Min(late) = Took(start, high)
  BY <1>7
<1>9. Took(start, low) \in soon /\ Took(start, low) <= Min(late)
  BY <1>4, <1>8
<1>10. soon # {}
  BY <1>9
<1>11. Min(soon) \in Nat /\ Min(soon) <= Took(start, low)
  BY <1>6, <1>9, <1>10, MinOfNaturals
<1>12. Min(soon) <= Min(late)
  <2>1. Took(start, low) \in Nat /\ Min(late) \in Nat
    BY <1>6, <1>7, <1>9
  <2> QED
    BY <1>9, <1>11, <2>1
<1> QED
  BY <1>1, <1>10, <1>12

\* A higher goal is never reached sooner (compute_milestones, investor.py:178-240),
\* for every calendar, NAV and pair of goals.
THEOREM HigherGoalsTakeLonger == Spec => []MilestonesOrdered
<1>1. EvaluationInv => MilestonesOrdered
  <2> SUFFICES ASSUME EvaluationInv, NEW low \in Goals, NEW high \in Goals, low < high,
                      MilestoneDays(days, nav, Capital, high) # {}
               PROVE  /\ MilestoneDays(days, nav, Capital, low) # {}
                      /\ Min(MilestoneDays(days, nav, Capital, low))
                           <= Min(MilestoneDays(days, nav, Capital, high))
    BY DEF MilestonesOrdered
  <2>1. History(days, nav) /\ low \in Nat /\ high \in Nat /\ Capital \in Nat
    BY TheHistory, EvaluationAssumption, InvestorAssumption
  <2> QED
    BY <2>1, MilestonesOf
<1> QED
  BY <1>1, EvaluationInvariant, PTL

-----------------------------------------------------------------------------
(* Streaks below the peak *)

\* The largest value of a function of the bars.
LEMMA MaxOfImage ==
  ASSUME NEW n \in Nat \ {0}, NEW f, f = [i \in 1..n |-> f[i]], \A i \in 1..n : f[i] \in Int
  PROVE  /\ Max({f[j] : j \in 1..n}) \in Int
         /\ \E i \in 1..n : Max({f[j] : j \in 1..n}) = f[i]
         /\ \A i \in 1..n : f[i] <= Max({f[j] : j \in 1..n})
<1> DEFINE S == {f[i] : i \in 1..n}
<1>1. IsFiniteSet(S)
  <2>1. 1..n \in SUBSET (1..n) /\ n \in Nat
    OBVIOUS
  <2>2. IsFiniteSet(1..n)
    BY <2>1, BarsFinite
  <2> QED
    BY <2>2, ImageFinite
<1>2. S \in SUBSET Int /\ \A i \in 1..n : f[i] \in S
  OBVIOUS
<1>3. S # {}
  <2>1. f[1] \in S
    BY <1>2
  <2> QED
    BY <2>1
<1>4. Max(S) \in S /\ Max(S) \in Int /\ \A y \in S : y <= Max(S)
  BY <1>1, <1>2, <1>3, MaxFacts
<1>5. PICK i \in 1..n : Max(S) = f[i]
  BY <1>4
<1> QED
  BY <1>2, <1>4, <1>5

\* A streak is the run of bars below that ends at a bar.
LEMMA StreakFacts ==
  ASSUME NEW path, NEW percent, NEW i \in Nat \ {0}
  PROVE  /\ Streak(path, i, percent) \in 0..i
         /\ \A j \in (i - Streak(path, i, percent) + 1)..i : Below(path, j, percent)
         /\ \A a \in 1..i : (\A j \in a..i : Below(path, j, percent))
                              => i - a + 1 <= Streak(path, i, percent)
<1> DEFINE S == {0} \union {j \in 1..i : ~Below(path, j, percent)}
           m == Max(S)
<1>1. IsFiniteSet(S)
  <2>1. S \in SUBSET (0..i)
    OBVIOUS
  <2>2. IsFiniteSet(0..i)
    BY FS_Interval
  <2> QED
    BY <2>1, <2>2, FS_Subset
<1>2. S \in SUBSET Int /\ 0 \in S /\ S \in SUBSET (0..i)
  OBVIOUS
<1>3. \A j \in 1..i : j \in S <=> ~Below(path, j, percent)
  OBVIOUS
<1> HIDE DEF S
<1>4. m \in S /\ \A y \in S : y <= m
  BY <1>1, <1>2, MaxFacts
<1>5. Streak(path, i, percent) = i - m
  BY DEF Streak, S
<1>6. m \in 0..i
  BY <1>2, <1>4
<1> HIDE DEF m
<1>7. i - m \in 0..i /\ i - (i - m) + 1 = m + 1
  BY <1>6
<1>8. ASSUME NEW j \in (m + 1)..i PROVE Below(path, j, percent)
  <2>1. j \in 1..i /\ ~(j <= m)
    BY <1>6
  <2> QED
    BY <1>3, <1>4, <2>1
<1>9. ASSUME NEW a \in 1..i, \A j \in a..i : Below(path, j, percent)
      PROVE  i - a + 1 <= i - m
  <2>1. m < a
    <3> SUFFICES ASSUME a <= m PROVE FALSE
      BY <1>6
    <3>1. m \in a..i /\ m \in 1..i
      BY <1>6
    <3>2. Below(path, m, percent)
      BY <1>9, <3>1
    <3> QED
      BY <1>3, <1>4, <3>1, <3>2
  <2> QED
    BY <1>6, <2>1
<1> QED
  BY <1>5, <1>7, <1>8, <1>9

LEMMA LongestFacts ==
  ASSUME NEW path, NEW percent, Len(path) \in Nat \ {0}
  PROVE  /\ Longest(path, percent) \in Nat
         /\ \E i \in 1..Len(path) : Longest(path, percent) = Streak(path, i, percent)
         /\ \A i \in 1..Len(path) : Streak(path, i, percent) <= Longest(path, percent)
<1> DEFINE n == Len(path)
           f == [i \in 1..n |-> Streak(path, i, percent)]
<1>1. \A i \in 1..n : f[i] = Streak(path, i, percent) /\ f[i] \in Nat
  <2> SUFFICES ASSUME NEW i \in 1..n
               PROVE  f[i] = Streak(path, i, percent) /\ f[i] \in Nat
    OBVIOUS
  <2>1. i \in Nat \ {0}
    OBVIOUS
  <2>2. Streak(path, i, percent) \in 0..i
    BY <2>1, StreakFacts
  <2> QED
    BY <2>1, <2>2
<1>2. f = [i \in 1..n |-> f[i]]
  OBVIOUS
<1>3. {Streak(path, i, percent) : i \in 1..n} = {f[i] : i \in 1..n}
  BY <1>1
<1> HIDE DEF f
<1>4. \A i \in 1..n : f[i] \in Int
  BY <1>1
<1>5. /\ \E i \in 1..n : Max({f[j] : j \in 1..n}) = f[i]
      /\ \A i \in 1..n : f[i] <= Max({f[j] : j \in 1..n})
  BY <1>2, <1>4, MaxOfImage
<1>6. Longest(path, percent) = Max({f[j] : j \in 1..n})
  BY <1>3 DEF Longest, Bars
<1> HIDE DEF n
<1>7. PICK i \in 1..n : Longest(path, percent) = f[i]
  BY <1>5, <1>6
<1> QED
  BY <1>1, <1>5, <1>6, <1>7 DEF n

\* Falling by more than a percent is falling, and a first bar has not fallen.
LEMMA BelowFacts ==
  ASSUME NEW d, NEW path, History(d, path)
  PROVE  /\ ~Below(path, 1, 0) /\ ~Below(path, 1, UNDERWATER)
         /\ \A i \in 1..Len(path) : Below(path, i, UNDERWATER) => Below(path, i, 0)
<1> DEFINE n == Len(path)
<1>1. n \in Nat \ {0} /\ \A i \in 1..n : path[i] \in Nat \ {0} /\ path[i] \in Int
  BY HistoryFacts
<1>2. \A i \in 1..n : /\ Peak(path, i) \in Int
                      /\ \E j \in 1..i : Peak(path, i) = path[j]
  <2> SUFFICES ASSUME NEW i \in 1..n
               PROVE  Peak(path, i) \in Int /\ \E j \in 1..i : Peak(path, i) = path[j]
    OBVIOUS
  <2> QED
    BY <1>1, PeakFacts
<1>3. \A i \in 1..n : Peak(path, i) \in Nat
  <2> SUFFICES ASSUME NEW i \in 1..n PROVE Peak(path, i) \in Nat
    OBVIOUS
  <2>1. PICK j \in 1..i : Peak(path, i) = path[j]
    BY <1>2
  <2>2. j \in 1..n
    BY <1>1
  <2> QED
    BY <1>1, <2>1, <2>2
<1>4. Peak(path, 1) = path[1]
  <2>1. 1 \in 1..n
    BY <1>1
  <2>2. PICK j \in 1..1 : Peak(path, 1) = path[j]
    BY <1>2, <2>1
  <2> QED
    BY <2>2
<1>5. path[1] \in Nat
  BY <1>1
<1>6. ~Below(path, 1, 0) /\ ~Below(path, 1, UNDERWATER)
  BY <1>4, <1>5 DEF Below, UNDERWATER
<1>7. ASSUME NEW i \in 1..n, Below(path, i, UNDERWATER) PROVE Below(path, i, 0)
  <2>1. path[i] \in Nat /\ Peak(path, i) \in Nat
    BY <1>1, <1>3
  <2> QED
    BY <1>7, <2>1 DEF Below, UNDERWATER
<1> QED
  BY <1>6, <1>7

\* The longest streak at all is no shorter than the longest below the threshold.
LEMMA LongestOrdered ==
  ASSUME NEW d, NEW path, History(d, path)
  PROVE  Longest(path, UNDERWATER) <= Longest(path, 0)
<1> DEFINE n == Len(path)
<1>1. n \in Nat \ {0}
  BY HistoryFacts
<1>2. PICK i \in 1..n : Longest(path, UNDERWATER) = Streak(path, i, UNDERWATER)
  BY <1>1, LongestFacts
<1> DEFINE s == Streak(path, i, UNDERWATER)
           t == Streak(path, i, 0)
<1>3. i \in Nat \ {0}
  BY <1>1
<1>4. s \in 0..i /\ \A j \in (i - s + 1)..i : Below(path, j, UNDERWATER)
  BY <1>3, StreakFacts
<1>5. t \in 0..i /\ \A a \in 1..i : (\A j \in a..i : Below(path, j, 0)) => i - a + 1 <= t
  BY <1>3, StreakFacts
<1> HIDE DEF s, t
<1>6. s <= t
  <2>1. CASE s = 0
    BY <1>5, <2>1
  <2>2. CASE s # 0
    <3>1. i - s + 1 \in 1..i
      BY <1>3, <1>4, <2>2
    <3>2. \A j \in (i - s + 1)..i : Below(path, j, 0)
      BY <1>1, <1>4, <3>1, BelowFacts
    <3>3. i - (i - s + 1) + 1 <= t
      BY <1>5, <3>1, <3>2
    <3> QED
      BY <1>3, <1>4, <1>5, <3>3
  <2> QED
    BY <2>1, <2>2
<1>7. t <= Longest(path, 0) /\ Longest(path, 0) \in Nat
  BY <1>1, LongestFacts DEF t
<1> QED
  BY <1>2, <1>4, <1>5, <1>6, <1>7 DEF s

-----------------------------------------------------------------------------
(* The groups of recovery_time *)

\* While the group stays, so does the side of the peak.
LEMMA GroupConstant ==
  ASSUME NEW n \in Nat \ {0}, NEW path, NEW i \in 1..n, NEW j \in 1..n, i <= j,
         \A k \in (i + 1)..j : ~Below(path, k, 0) <=> ~Below(path, k - 1, 0)
  PROVE  \A k \in i..j : Below(path, k, 0) <=> Below(path, i, 0)
<1> DEFINE P == {k \in Nat : i + k <= j => (Below(path, i + k, 0) <=> Below(path, i, 0))}
<1>1. 0 \in P
  OBVIOUS
<1>2. ASSUME NEW k \in P PROVE k + 1 \in P
  <2> SUFFICES ASSUME i + (k + 1) <= j
               PROVE  Below(path, i + (k + 1), 0) <=> Below(path, i, 0)
    OBVIOUS
  <2>1. i + k <= j /\ i + (k + 1) \in (i + 1)..j /\ i + (k + 1) - 1 = i + k
    OBVIOUS
  <2>2. Below(path, i + k, 0) <=> Below(path, i, 0)
    BY <2>1
  <2>3. ~Below(path, i + (k + 1), 0) <=> ~Below(path, i + k, 0)
    BY <2>1
  <2> QED
    BY <2>2, <2>3
<1> HIDE DEF P
<1>3. P = Nat
  <2>1. P \in SUBSET Nat
    BY DEF P
  <2> QED
    BY <1>1, <1>2, <2>1, NatSetInduction
<1>4. ASSUME NEW k \in i..j PROVE Below(path, k, 0) <=> Below(path, i, 0)
  <2>1. k - i \in Nat /\ i + (k - i) = k /\ k <= j
    OBVIOUS
  <2>2. k - i \in P
    BY <1>3, <2>1
  <2> QED
    BY <2>1, <2>2 DEF P
<1> QED
  BY <1>4

\* recovery_time counts the bars of the longest streak below the peak.
LEMMA RecoveryIsLongest ==
  ASSUME NEW d, NEW path, History(d, path)
  PROVE  RecoveryTime(path) = Longest(path, 0)
<1> DEFINE n == Len(path)
           reached(i) == ~Below(path, i, 0)
           Changes(i) == {j \in 2..i : reached(j) # reached(j - 1)}
           group(i) == Cardinality(Changes(i))
           G(i) == {j \in Bars(path) : group(j) = group(i) /\ ~reached(j)}
           f == [i \in 1..n |-> Cardinality(G(i))]
           top == Longest(path, 0)
<1>1. n \in Nat \ {0}
  BY HistoryFacts
<1>2. \A i \in 1..n : IsFiniteSet(Changes(i)) /\ group(i) \in Nat
  <2> SUFFICES ASSUME NEW i \in 1..n PROVE IsFiniteSet(Changes(i)) /\ group(i) \in Nat
    OBVIOUS
  <2>1. Changes(i) \in SUBSET (1..i) /\ i \in Nat
    BY <1>1
  <2> HIDE DEF Changes
  <2> QED
    BY <2>1, BarsFinite
<1>3. \A i \in 1..n : G(i) \in SUBSET (1..n) /\ IsFiniteSet(G(i)) /\ Cardinality(G(i)) \in Nat
  <2> SUFFICES ASSUME NEW i \in 1..n
               PROVE  G(i) \in SUBSET (1..n) /\ IsFiniteSet(G(i)) /\ Cardinality(G(i)) \in Nat
    OBVIOUS
  <2>1. G(i) \in SUBSET (1..n)
    BY DEF Bars
  <2> HIDE DEF G
  <2> QED
    BY <1>1, <2>1, BarsFinite
<1>4. \A i, j \in 1..n : i <= j => Changes(i) \subseteq Changes(j) /\ group(i) <= group(j)
  <2> SUFFICES ASSUME NEW i \in 1..n, NEW j \in 1..n, i <= j
               PROVE  Changes(i) \subseteq Changes(j) /\ group(i) <= group(j)
    OBVIOUS
  <2>1. Changes(i) \in SUBSET Changes(j)
    BY <1>1
  <2> HIDE DEF Changes
  <2> QED
    BY <1>2, <2>1, FS_Subset
\* Bars of one group, and those between them, are on one side of the peak.
<1>5. ASSUME NEW i \in 1..n, NEW j \in 1..n, i <= j, group(i) = group(j)
      PROVE  \A k \in i..j : group(k) = group(i) /\ (Below(path, k, 0) <=> Below(path, i, 0))
  <2>1. Changes(i) = Changes(j)
    <3>1. Changes(i) \in SUBSET Changes(j) /\ IsFiniteSet(Changes(j))
      BY <1>2, <1>4, <1>5
    <3> HIDE DEF Changes
    <3> QED
      BY <1>5, <3>1, FS_Subset
  <2>2. \A k \in (i + 1)..j : reached(k) <=> reached(k - 1)
    <3> SUFFICES ASSUME NEW k \in (i + 1)..j, ~(reached(k) <=> reached(k - 1)) PROVE FALSE
      OBVIOUS
    <3>1. k \in 2..j /\ k \notin 2..i
      BY <1>1
    <3>2. k \in Changes(j)
      BY <3>1
    <3>3. k \notin Changes(i)
      BY <3>1
    <3> QED
      BY <2>1, <3>2, <3>3
  <2>3. \A k \in i..j : Below(path, k, 0) <=> Below(path, i, 0)
    BY <1>1, <1>5, <2>2, GroupConstant
  <2>4. ASSUME NEW k \in i..j PROVE group(k) = group(i)
    <3>1. k \in 1..n /\ i <= k /\ k <= j
      BY <1>1
    <3>2. group(i) <= group(k) /\ group(k) <= group(j)
      BY <1>4, <3>1
    <3>3. group(i) \in Nat /\ group(k) \in Nat /\ group(j) \in Nat
      BY <1>2, <3>1
    <3> HIDE DEF group
    <3> QED
      BY <1>5, <3>2, <3>3
  <2> QED
    BY <2>3, <2>4
<1> HIDE DEF group, Changes
<1>6. /\ top \in Nat
      /\ \E i \in 1..n : top = Streak(path, i, 0)
      /\ \A i \in 1..n : Streak(path, i, 0) <= top
  BY <1>1, LongestFacts
<1> HIDE DEF top
\* The bars below of a group are a run, so a streak.
<1>7. ASSUME NEW i \in 1..n PROVE Cardinality(G(i)) <= top
  <2>1. CASE G(i) = {}
    <3>1. Cardinality(G(i)) = 0
      BY <2>1, FS_EmptySet
    <3> HIDE DEF G
    <3> QED
      BY <1>6, <3>1
  <2>2. CASE G(i) # {}
    <3>1. /\ G(i) \in SUBSET Int /\ IsFiniteSet(G(i))
      <4>1. G(i) \in SUBSET (1..n) /\ IsFiniteSet(G(i))
        BY <1>3
      <4> HIDE DEF G
      <4> QED
        BY <1>1, <4>1
    <3> DEFINE a == Min(G(i))
               b == Max(G(i))
    <3>2. /\ a \in G(i) /\ b \in G(i) /\ a \in Int /\ b \in Int
          /\ \A y \in G(i) : a <= y /\ y <= b
      <4> HIDE DEF G
      <4> QED
        BY <2>2, <3>1, MinFacts, MaxFacts
    <3> HIDE DEF a, b
    <3>3. /\ a \in 1..n /\ b \in 1..n /\ a <= b
          /\ group(a) = group(b) /\ Below(path, a, 0)
      BY <3>2 DEF Bars
    <3>4. \A k \in a..b : Below(path, k, 0)
      BY <1>5, <3>3
    <3>5. b - a + 1 <= Streak(path, b, 0)
      <4>1. b \in Nat \ {0} /\ a \in 1..b
        BY <1>1, <3>3
      <4> QED
        BY <3>4, <4>1, StreakFacts
    <3>6. Streak(path, b, 0) \in Nat
      <4>1. b \in Nat \ {0}
        BY <1>1, <3>3
      <4>2. Streak(path, b, 0) \in 0..b
        BY <4>1, StreakFacts
      <4> QED
        BY <4>1, <4>2
    <3>7. Cardinality(G(i)) <= b - a + 1
      <4>1. G(i) \in SUBSET (a..b)
        <5>1. \A y \in G(i) : y \in Int
          BY <3>1
        <5>2. ASSUME NEW y \in G(i) PROVE y \in a..b
          BY <3>2, <5>1
        <5> HIDE DEF G
        <5> QED
          BY <5>2
      <4>2. IsFiniteSet(a..b) /\ Cardinality(a..b) = b - a + 1
        BY <3>2, <3>3, FS_Interval
      <4> HIDE DEF G
      <4> QED
        BY <4>1, <4>2, FS_Subset
    <3>8. Streak(path, b, 0) <= top /\ Cardinality(G(i)) \in Nat
      BY <1>3, <1>6, <3>3
    <3> HIDE DEF G
    <3> QED
      BY <1>6, <3>2, <3>5, <3>6, <3>7, <3>8
  <2> QED
    BY <2>1, <2>2
\* The longest streak is within one group.
<1>8. \E i \in 1..n : top <= Cardinality(G(i))
  <2>1. PICK i \in 1..n : top = Streak(path, i, 0)
    BY <1>6
  <2>2. i \in Nat \ {0}
    BY <1>1
  <2>3. top \in 0..i /\ \A j \in (i - top + 1)..i : Below(path, j, 0)
    BY <2>1, <2>2, StreakFacts
  <2>4. CASE top = 0
    <3>1. Cardinality(G(i)) \in Nat
      BY <1>3
    <3> HIDE DEF G
    <3> QED
      BY <2>4, <3>1
  <2>5. CASE top # 0
    <3> DEFINE a == i - top + 1
    <3>1. a \in 1..i /\ a \in 1..n /\ a \in Int /\ i - a + 1 = top
      BY <1>1, <2>2, <2>3, <2>5
    <3>2. \A j \in a..i : Below(path, j, 0)
      BY <2>3
    <3> HIDE DEF a
    <3>3. \A k \in (a + 1)..i : reached(k) <=> reached(k - 1)
      <4> SUFFICES ASSUME NEW k \in (a + 1)..i PROVE reached(k) <=> reached(k - 1)
        OBVIOUS
      <4>1. k \in a..i /\ k - 1 \in a..i
        BY <2>2, <3>1
      <4> QED
        BY <3>2, <4>1
    <3>4. ASSUME NEW j \in a..i PROVE j \in G(i)
      <4>1. Changes(j) = Changes(i)
        <5>1. \A k \in 2..i : k \notin 2..j => k \in (j + 1)..i
          BY <2>2, <3>1
        <5>2. \A k \in (j + 1)..i : k \in (a + 1)..i
          BY <2>2, <3>1
        <5>3. \A k \in 2..j : k \in 2..i
          BY <2>2, <3>1
        <5>4. \A k \in 2..i : k \notin 2..j => (reached(k) <=> reached(k - 1))
          BY <3>3, <5>1, <5>2
        <5> QED
          BY <5>3, <5>4 DEF Changes
      <4>2. group(j) = group(i)
        BY <4>1 DEF group
      <4>3. j \in 1..n /\ Below(path, j, 0)
        BY <1>1, <3>1, <3>2
      <4> QED
        BY <4>2, <4>3 DEF Bars
    <3>5. a..i \in SUBSET G(i) /\ IsFiniteSet(G(i))
      BY <1>3, <3>4
    <3>6. Cardinality(a..i) = i - a + 1
      BY <2>2, <3>1, FS_Interval
    <3> HIDE DEF G
    <3>7. Cardinality(a..i) <= Cardinality(G(i))
      BY <3>5, FS_Subset
    <3> QED
      BY <3>1, <3>6, <3>7
  <2> QED
    BY <2>4, <2>5
<1>9. RecoveryTime(path) = Max({f[j] : j \in 1..n})
  <2>1. RecoveryTime(path) = Max({Cardinality(G(i)) : i \in 1..n})
    BY DEF RecoveryTime, Bars, group, Changes
  <2>2. \A i \in 1..n : f[i] = Cardinality(G(i))
    OBVIOUS
  <2> HIDE DEF f, G
  <2> QED
    BY <2>1, <2>2
<1>10. /\ f = [i \in 1..n |-> f[i]]
       /\ \A i \in 1..n : f[i] = Cardinality(G(i)) /\ f[i] \in Int
  <2>1. ASSUME NEW i \in 1..n PROVE Cardinality(G(i)) \in Int
    <3>1. Cardinality(G(i)) \in Nat
      BY <1>3
    <3> HIDE DEF G
    <3> QED
      BY <3>1
  <2> HIDE DEF G
  <2> QED
    BY <2>1
<1> HIDE DEF f, G
<1>11. /\ Max({f[j] : j \in 1..n}) \in Int
       /\ \E i \in 1..n : Max({f[j] : j \in 1..n}) = f[i]
       /\ \A i \in 1..n : f[i] <= Max({f[j] : j \in 1..n})
  BY <1>1, <1>10, MaxOfImage
<1> DEFINE max == Max({f[j] : j \in 1..n})
<1> HIDE DEF max
<1>12. max \in Int /\ (\E i \in 1..n : max = f[i]) /\ \A i \in 1..n : f[i] <= max
  BY <1>11 DEF max
<1>13. max <= top
  BY <1>7, <1>10, <1>12
<1>14. top <= max
  <2>1. PICK i \in 1..n : top <= f[i]
    BY <1>8, <1>10
  <2>2. f[i] <= max /\ f[i] \in Int
    BY <1>10, <1>12
  <2> QED
    BY <1>6, <1>12, <2>1, <2>2
<1> QED
  BY <1>6, <1>9, <1>12, <1>13, <1>14 DEF top, max

-----------------------------------------------------------------------------
(* The pass over the drawdowns *)

PassStep(path, g, i) == IF i = 0 THEN NothingSeen ELSE Scanned(path, g[i - 1], i)

Pass(path) == CHOOSE g : g = [i \in 0..Len(path) |->
  IF i = 0 THEN NothingSeen ELSE Scanned(path, g[i - 1], i)]

LEMMA ScanIsPass ==
  ASSUME NEW path
  PROVE  Scan(path) = Pass(path)[Len(path)]
  BY DEF Scan, Pass

\* The recursion of the pass has a solution, for every length.
LEMMA PassDefined ==
  ASSUME NEW path, Len(path) \in Nat
  PROVE  \A i \in 0..Len(path) : Pass(path)[i] = PassStep(path, Pass(path), i)
<1> DEFINE N == {n \in Nat : \E g : g = [i \in 0..n |-> PassStep(path, g, i)]}
<1>1. 0 \in N
  <2> DEFINE g == [i \in 0..0 |-> NothingSeen]
  <2>1. g = [i \in 0..0 |-> PassStep(path, g, i)]
    BY DEF PassStep
  <2> QED
    BY <2>1
<1>2. ASSUME NEW n \in N PROVE n + 1 \in N
  <2>1. PICK g : g = [i \in 0..n |-> PassStep(path, g, i)]
    OBVIOUS
  <2> DEFINE h == [i \in 0..(n + 1) |-> PassStep(path, g, i)]
  <2>2. \A i \in 0..n : i \in 0..(n + 1) /\ h[i] = g[i]
    BY <2>1
  <2>3. ASSUME NEW i \in 0..(n + 1) PROVE PassStep(path, h, i) = PassStep(path, g, i)
    <3>1. CASE i = 0
      BY <3>1 DEF PassStep
    <3>2. CASE i # 0
      <4>1. i - 1 \in 0..n
        BY <3>2
      <4>2. h[i - 1] = g[i - 1]
        BY <2>2, <4>1
      <4> QED
        BY <3>2, <4>2 DEF PassStep
    <3> QED
      BY <3>1, <3>2
  <2>4. h = [i \in 0..(n + 1) |-> PassStep(path, h, i)]
    BY <2>3
  <2>5. \E k : k = [i \in 0..(n + 1) |-> PassStep(path, k, i)]
    <3> HIDE DEF h
    <3> QED
      BY <2>4
  <2>6. n + 1 \in Nat
    OBVIOUS
  <2> QED
    BY <2>5, <2>6, Zenon
<1>3. N = Nat
  <2> HIDE DEF N
  <2>1. N \in SUBSET Nat
    BY DEF N
  <2> QED
    BY <1>1, <1>2, <2>1, NatSetInduction
<1>4. \E g : g = [i \in 0..Len(path) |-> PassStep(path, g, i)]
  BY <1>3
<1>5. Pass(path) = [i \in 0..Len(path) |-> PassStep(path, Pass(path), i)]
  BY <1>4 DEF Pass, PassStep
<1> QED
  BY <1>5

\* A run below the threshold, from bar a and k bars long, that was over at a bar
\* no later than i.
EndedBy(path, i, a, k) ==
  /\ a \in Nat /\ k \in Nat /\ a > 1 /\ k > 0 /\ a + k <= i
  /\ ~Below(path, a - 1, UNDERWATER) /\ ~Below(path, a + k, UNDERWATER)
  /\ \A j \in a..(a + k - 1) : Below(path, j, UNDERWATER)

\* What the pass has seen after i bars.
SeenBy(path, i, seen) ==
  /\ seen \in [in_dd : BOOLEAN, start : Nat, ended : Seq(Nat \X Nat)]
  /\ i = 0 => ~seen.in_dd
  /\ i > 0 => (seen.in_dd <=> Below(path, i, UNDERWATER))
  /\ seen.in_dd => /\ seen.start > 1 /\ seen.start <= i
                   /\ ~Below(path, seen.start - 1, UNDERWATER)
                   /\ \A j \in seen.start..i : Below(path, j, UNDERWATER)
  /\ \A m \in DOMAIN seen.ended : EndedBy(path, i, seen.ended[m][1], seen.ended[m][2])
  /\ \A a, k \in Nat : EndedBy(path, i, a, k) =>
       \E m \in DOMAIN seen.ended : seen.ended[m] = <<a, k>>
  /\ IsInjective(seen.ended)

LEMMA SeenStart ==
  ASSUME NEW path
  PROVE  SeenBy(path, 0, NothingSeen)
<1>1. NothingSeen \in [in_dd : BOOLEAN, start : Nat, ended : Seq(Nat \X Nat)]
  BY DEF NothingSeen
<1>2. NothingSeen.ended = <<>> /\ ~NothingSeen.in_dd /\ DOMAIN NothingSeen.ended = {}
  BY DEF NothingSeen
<1>3. \A a, k \in Nat : ~EndedBy(path, 0, a, k)
  BY DEF EndedBy
<1>4. IsInjective(NothingSeen.ended)
  BY <1>2 DEF IsInjective
<1> QED
  BY <1>1, <1>2, <1>3, <1>4 DEF SeenBy

\* One bar more: a drawdown begins, ends or goes on.
LEMMA SeenNext ==
  ASSUME NEW path, ~Below(path, 1, UNDERWATER), NEW i \in Nat, NEW seen,
         SeenBy(path, i, seen)
  PROVE  SeenBy(path, i + 1, Scanned(path, seen, i + 1))
<1> DEFINE t == i + 1
           B(j) == Below(path, j, UNDERWATER)
           Type == [in_dd : BOOLEAN, start : Nat, ended : Seq(Nat \X Nat)]
           next == Scanned(path, seen, t)
<1>0. t \in Nat /\ t > 0 /\ t - 1 = i
  OBVIOUS
<1>1. /\ seen \in Type /\ seen.in_dd \in BOOLEAN /\ seen.start \in Nat
      /\ seen.ended \in Seq(Nat \X Nat)
  BY DEF SeenBy
<1>2. /\ i = 0 => ~seen.in_dd
      /\ i > 0 => (seen.in_dd <=> B(i))
      /\ seen.in_dd => /\ seen.start > 1 /\ seen.start <= i /\ ~B(seen.start - 1)
                       /\ \A j \in seen.start..i : B(j)
      /\ \A m \in DOMAIN seen.ended : EndedBy(path, i, seen.ended[m][1], seen.ended[m][2])
      /\ \A a, k \in Nat : EndedBy(path, i, a, k) =>
           \E m \in DOMAIN seen.ended : seen.ended[m] = <<a, k>>
      /\ IsInjective(seen.ended)
  BY DEF SeenBy
<1>3. \A a, k \in Nat : EndedBy(path, i, a, k) => EndedBy(path, t, a, k)
  BY DEF EndedBy
\* Unless a run is over at the very bar, the same runs are over.
<1>4. ASSUME ~(~B(t) /\ seen.in_dd), NEW a \in Nat, NEW k \in Nat, EndedBy(path, t, a, k)
      PROVE  EndedBy(path, i, a, k)
  <2>1. CASE a + k <= i
    BY <1>4, <2>1 DEF EndedBy
  <2>2. CASE ~(a + k <= i)
    <3>1. a + k = t /\ a > 1 /\ k > 0 /\ ~B(a + k)
      BY <1>4, <2>2 DEF EndedBy
    <3>2. i \in a..(a + k - 1) /\ i > 0
      BY <3>1
    <3>3. B(i)
      BY <1>4, <3>2 DEF EndedBy
    <3>4. seen.in_dd /\ ~B(t)
      BY <1>2, <3>1, <3>2, <3>3
    <3> QED
      BY <1>4, <3>4
  <2> QED
    BY <2>1, <2>2
<1> DEFINE Same(s) ==
      /\ \A m \in DOMAIN s : EndedBy(path, t, s[m][1], s[m][2])
      /\ \A a, k \in Nat : EndedBy(path, t, a, k) => \E m \in DOMAIN s : s[m] = <<a, k>>
      /\ IsInjective(s)
<1>5. ~(~B(t) /\ seen.in_dd) => Same(seen.ended)
  <2> SUFFICES ASSUME ~(~B(t) /\ seen.in_dd) PROVE Same(seen.ended)
    OBVIOUS
  <2>1. \A m \in DOMAIN seen.ended : EndedBy(path, t, seen.ended[m][1], seen.ended[m][2])
    <3> SUFFICES ASSUME NEW m \in DOMAIN seen.ended
                 PROVE  EndedBy(path, t, seen.ended[m][1], seen.ended[m][2])
      OBVIOUS
    <3>1. EndedBy(path, i, seen.ended[m][1], seen.ended[m][2])
      BY <1>2
    <3>2. seen.ended[m][1] \in Nat /\ seen.ended[m][2] \in Nat
      BY <3>1 DEF EndedBy
    <3> QED
      BY <1>3, <3>1, <3>2
  <2>2. \A a, k \in Nat : EndedBy(path, t, a, k) =>
          \E m \in DOMAIN seen.ended : seen.ended[m] = <<a, k>>
    BY <1>2, <1>4
  <2> QED
    BY <1>2, <2>1, <2>2
<1> SUFFICES SeenBy(path, t, next)
  OBVIOUS
<1> HIDE DEF B, t, next
\* A drawdown begins.
<1>6. CASE B(t) /\ ~seen.in_dd
  <2>1. next = [seen EXCEPT !.in_dd = TRUE, !.start = t]
    BY <1>6 DEF next, Scanned, B
  <2>2. /\ next.in_dd = TRUE /\ next.start = t /\ next.ended = seen.ended
        /\ next \in Type
    BY <1>0, <1>1, <2>1
  <2>3. i > 0
    <3>1. CASE i = 0
      BY <1>6, <3>1 DEF B, t
    <3> QED
      BY <3>1
  <2>4. ~B(i) /\ t > 1
    BY <1>2, <1>6, <2>3 DEF t
  <2>5. ~B(t - 1) /\ \A j \in t..t : B(j)
    BY <1>0, <1>6, <2>4
  <2> QED
    BY <1>0, <1>5, <1>6, <2>2, <2>4, <2>5 DEF SeenBy, B
\* A drawdown is over.
<1>7. CASE ~B(t) /\ seen.in_dd
  <2> DEFINE a0 == seen.start
             k0 == t - seen.start
             run == <<a0, k0>>
             L == Len(seen.ended)
  <2>1. next = [seen EXCEPT !.in_dd = FALSE, !.ended = Append(@, run)]
    BY <1>7 DEF next, Scanned, B
  <2>2. /\ a0 \in Nat /\ a0 > 1 /\ a0 <= i /\ ~B(a0 - 1) /\ (\A j \in a0..i : B(j))
        /\ k0 \in Nat /\ k0 > 0 /\ a0 + k0 = t
    BY <1>0, <1>1, <1>2, <1>7
  <2>3. run \in Nat \X Nat /\ run[1] = a0 /\ run[2] = k0
    BY <2>2
  <2> HIDE DEF run, a0, k0
  <2>4. /\ Append(seen.ended, run) \in Seq(Nat \X Nat)
        /\ L \in Nat /\ DOMAIN seen.ended = 1..L
        /\ DOMAIN Append(seen.ended, run) = 1..(L + 1)
        /\ Append(seen.ended, run)[L + 1] = run
        /\ \A m \in 1..L : Append(seen.ended, run)[m] = seen.ended[m]
    BY <1>1, <2>3
  <2>5. /\ next.in_dd = FALSE /\ next.start = a0 /\ next.ended = Append(seen.ended, run)
        /\ next \in Type
    BY <1>1, <2>1, <2>4 DEF a0
  <2>6. EndedBy(path, t, a0, k0)
    <3>1. \A j \in a0..(a0 + k0 - 1) : B(j)
      BY <1>0, <2>2
    <3> QED
      BY <1>0, <1>7, <2>2, <3>1 DEF EndedBy, B
  \* It is the only run that is over at this bar.
  <2>7. ASSUME NEW a \in Nat, NEW k \in Nat, EndedBy(path, t, a, k), ~(a + k <= i)
        PROVE  a = a0 /\ k = k0
    <3>1. a + k = t /\ a > 1 /\ k > 0 /\ ~B(a - 1) /\ \A j \in a..(a + k - 1) : B(j)
      BY <1>0, <2>7 DEF EndedBy, B
    <3>2. ~(a < a0)
      <4> SUFFICES ASSUME a < a0 PROVE FALSE
        OBVIOUS
      <4>1. a0 - 1 \in a..(a + k - 1)
        BY <1>0, <2>2, <3>1
      <4> QED
        BY <2>2, <3>1, <4>1
    <3>3. ~(a0 < a)
      <4> SUFFICES ASSUME a0 < a PROVE FALSE
        OBVIOUS
      <4>1. a - 1 \in a0..i
        BY <1>0, <2>2, <3>1
      <4> QED
        BY <2>2, <3>1, <4>1
    <3> QED
      BY <2>2, <3>1, <3>2, <3>3
  <2> DEFINE E == Append(seen.ended, run)
  <2> HIDE DEF E, L
  <2>8. /\ DOMAIN E = 1..(L + 1) /\ E[L + 1] = run /\ L \in Nat
        /\ \A m \in 1..L : E[m] = seen.ended[m]
        /\ DOMAIN seen.ended = 1..L /\ next.ended = E
    BY <2>4, <2>5 DEF E
  <2>9. \A m \in 1..(L + 1) : m \in 1..L \/ m = L + 1
    BY <2>8
  <2>10. ASSUME NEW m \in 1..L
         PROVE  /\ EndedBy(path, i, seen.ended[m][1], seen.ended[m][2])
                /\ EndedBy(path, t, seen.ended[m][1], seen.ended[m][2])
                /\ seen.ended[m] # run
    <3>1. EndedBy(path, i, seen.ended[m][1], seen.ended[m][2])
      BY <1>2, <2>8
    <3>2. /\ seen.ended[m][1] \in Nat /\ seen.ended[m][2] \in Nat
          /\ seen.ended[m][1] + seen.ended[m][2] <= i
      BY <3>1 DEF EndedBy
    <3>3. EndedBy(path, t, seen.ended[m][1], seen.ended[m][2])
      BY <1>3, <3>1, <3>2
    <3>4. run[1] + run[2] = t /\ ~(t <= i)
      BY <1>0, <2>2, <2>3
    <3>5. seen.ended[m] # run
      BY <3>2, <3>4
    <3> QED
      BY <3>1, <3>3, <3>5
  <2>11. \A m \in DOMAIN E : EndedBy(path, t, E[m][1], E[m][2])
    <3> SUFFICES ASSUME NEW m \in DOMAIN E PROVE EndedBy(path, t, E[m][1], E[m][2])
      OBVIOUS
    <3>1. CASE m \in 1..L
      BY <2>8, <2>10, <3>1
    <3>2. CASE m = L + 1
      BY <2>3, <2>6, <2>8, <3>2
    <3> QED
      BY <2>8, <2>9, <3>1, <3>2
  <2>12. ASSUME NEW a \in Nat, NEW k \in Nat, EndedBy(path, t, a, k)
         PROVE  \E m \in DOMAIN E : E[m] = <<a, k>>
    <3>1. CASE a + k <= i
      <4>1. EndedBy(path, i, a, k)
        BY <2>12, <3>1 DEF EndedBy
      <4>2. PICK m \in 1..L : seen.ended[m] = <<a, k>>
        BY <1>2, <2>8, <4>1
      <4>3. m \in 1..(L + 1)
        BY <2>8
      <4> QED
        BY <2>8, <4>2, <4>3
    <3>2. CASE ~(a + k <= i)
      <4>1. <<a, k>> = run
        BY <2>7, <2>12, <3>2 DEF run
      <4>2. L + 1 \in 1..(L + 1)
        BY <2>8
      <4> QED
        BY <2>8, <4>1, <4>2
    <3> QED
      BY <3>1, <3>2
  <2>13. IsInjective(E)
    <3> SUFFICES ASSUME NEW m \in 1..(L + 1), NEW o \in 1..(L + 1), E[m] = E[o] PROVE m = o
      BY <2>8 DEF IsInjective
    <3>1. CASE m \in 1..L /\ o \in 1..L
      BY <1>2, <2>8, <3>1 DEF IsInjective
    <3>2. CASE m = L + 1 /\ o \in 1..L
      BY <2>8, <2>10, <3>2
    <3>3. CASE m \in 1..L /\ o = L + 1
      BY <2>8, <2>10, <3>3
    <3> QED
      BY <2>9, <3>1, <3>2, <3>3
  <2>14. Same(next.ended)
    BY <2>8, <2>11, <2>12, <2>13
  <2>15. next \in Type /\ ~next.in_dd /\ ~B(t)
    BY <1>7, <2>5
  <2> HIDE DEF E
  <2> QED
    BY <1>0, <2>14, <2>15 DEF SeenBy, B
\* Nothing changes.
<1>8. CASE ~(B(t) /\ ~seen.in_dd) /\ ~(~B(t) /\ seen.in_dd)
  <2>1. next = seen
    BY <1>8 DEF next, Scanned, B
  <2>2. seen.in_dd <=> B(t)
    BY <1>1, <1>8
  <2>3. seen.in_dd => /\ seen.start > 1 /\ seen.start <= t /\ ~B(seen.start - 1)
                      /\ \A j \in seen.start..t : B(j)
    <3> SUFFICES ASSUME seen.in_dd
                 PROVE  /\ seen.start > 1 /\ seen.start <= t /\ ~B(seen.start - 1)
                        /\ \A j \in seen.start..t : B(j)
      OBVIOUS
    <3>1. \A j \in seen.start..t : j \in seen.start..i \/ j = t
      BY <1>0, <1>1
    <3>2. seen.start <= t
      BY <1>0, <1>1, <1>2
    <3> QED
      BY <1>2, <2>2, <3>1, <3>2
  <2>4. Same(seen.ended)
    BY <1>5, <1>8
  <2>5. SeenBy(path, t, seen)
    <3>1. t = 0 => ~seen.in_dd
      BY <1>0
    <3>2. t > 0 => (seen.in_dd <=> Below(path, t, UNDERWATER))
      BY <2>2 DEF B
    <3>3. seen.in_dd => /\ seen.start > 1 /\ seen.start <= t
                        /\ ~Below(path, seen.start - 1, UNDERWATER)
                        /\ \A j \in seen.start..t : Below(path, j, UNDERWATER)
      BY <2>3 DEF B
    <3> QED
      BY <1>1, <2>4, <3>1, <3>2, <3>3, Zenon DEF SeenBy
  <2> QED
    BY <2>1, <2>5
<1> QED
  BY <1>6, <1>7, <1>8

\* What the whole pass has seen: the runs of the history that were over.
LEMMA ScanFacts ==
  ASSUME NEW d, NEW path, History(d, path)
  PROVE  SeenBy(path, Len(path), Scan(path))
<1> DEFINE n == Len(path)
           g == Pass(path)
           P == {i \in Nat : i \in 0..n => SeenBy(path, i, g[i])}
<1>1. n \in Nat /\ ~Below(path, 1, UNDERWATER)
  BY HistoryFacts, BelowFacts
<1>2. \A i \in 0..n : g[i] = PassStep(path, g, i)
  BY <1>1, PassDefined
<1> HIDE DEF g
<1>3. 0 \in P
  <2>1. g[0] = NothingSeen
    BY <1>1, <1>2 DEF PassStep
  <2> QED
    BY <2>1, SeenStart
<1>4. ASSUME NEW i \in P PROVE i + 1 \in P
  <2> SUFFICES ASSUME i + 1 \in 0..n PROVE SeenBy(path, i + 1, g[i + 1])
    OBVIOUS
  <2>1. i \in Nat /\ i \in 0..n
    BY <1>1
  <2>2. SeenBy(path, i, g[i])
    BY <2>1
  <2>3. g[i + 1] = Scanned(path, g[i], i + 1)
    <3>1. i + 1 # 0 /\ i + 1 - 1 = i
      BY <2>1
    <3>2. g[i + 1] = PassStep(path, g, i + 1)
      BY <1>2
    <3> QED
      BY <3>1, <3>2 DEF PassStep
  <2>4. SeenBy(path, i + 1, Scanned(path, g[i], i + 1))
    BY <1>1, <2>1, <2>2, SeenNext
  <2> QED
    BY <2>3, <2>4
<1>5. n \in P
  <2> HIDE DEF P
  <2>1. P \in SUBSET Nat
    BY DEF P
  <2>2. P = Nat
    BY <1>3, <1>4, <2>1, NatSetInduction
  <2> QED
    BY <1>1, <2>2
<1>6. SeenBy(path, n, g[n])
  BY <1>1, <1>5
<1> QED
  BY <1>6, ScanIsPass DEF g

\* The episodes of the pass are the runs below the threshold that ended.
LEMMA EpisodesAreRuns ==
  ASSUME NEW d, NEW path, History(d, path)
  PROVE  /\ \A episode \in Range(Scan(path).ended) :
              /\ episode \in (1..Len(path)) \X (1..Len(path))
              /\ EndedBy(path, Len(path), episode[1], episode[2])
         /\ \A a, k \in Nat : EndedBy(path, Len(path), a, k) =>
              <<a, k>> \in Range(Scan(path).ended)
         /\ IsInjective(Scan(path).ended)
<1> DEFINE n == Len(path)
           ended == Scan(path).ended
<1>0. n \in Nat
  BY HistoryFacts
<1>1. /\ ended \in Seq(Nat \X Nat)
      /\ \A m \in DOMAIN ended : EndedBy(path, n, ended[m][1], ended[m][2])
      /\ \A a, k \in Nat : EndedBy(path, n, a, k) => \E m \in DOMAIN ended : ended[m] = <<a, k>>
      /\ IsInjective(ended)
  <2> DEFINE seen == Scan(path)
  <2>1. SeenBy(path, n, seen)
    BY ScanFacts
  <2> HIDE DEF seen
  <2>2. /\ seen.ended \in Seq(Nat \X Nat)
        /\ \A m \in DOMAIN seen.ended : EndedBy(path, n, seen.ended[m][1], seen.ended[m][2])
        /\ \A a, k \in Nat : EndedBy(path, n, a, k) =>
             \E m \in DOMAIN seen.ended : seen.ended[m] = <<a, k>>
        /\ IsInjective(seen.ended)
    BY <2>1 DEF SeenBy
  <2> QED
    BY <2>2 DEF seen
<1> HIDE DEF ended
<1>2. ASSUME NEW episode \in Range(ended)
      PROVE  /\ episode \in (1..n) \X (1..n)
             /\ EndedBy(path, n, episode[1], episode[2])
  <2>1. PICK m \in DOMAIN ended : episode = ended[m]
    BY DEF Range
  <2>2. episode \in Nat \X Nat
    BY <1>1, <2>1
  <2>3. EndedBy(path, n, episode[1], episode[2])
    BY <1>1, <2>1
  <2>4. /\ episode[1] \in Nat /\ episode[2] \in Nat /\ episode[1] > 1 /\ episode[2] > 0
        /\ episode[1] + episode[2] <= n
    BY <2>3 DEF EndedBy
  <2>5. episode[1] \in 1..n /\ episode[2] \in 1..n
    BY <1>0, <2>4
  <2> QED
    BY <2>2, <2>3, <2>5
<1>3. ASSUME NEW a \in Nat, NEW k \in Nat, EndedBy(path, n, a, k)
      PROVE  <<a, k>> \in Range(ended)
  <2>1. PICK m \in DOMAIN ended : ended[m] = <<a, k>>
    BY <1>1, <1>3
  <2> QED
    BY <2>1 DEF Range
<1> QED
  BY <1>1, <1>2, <1>3 DEF ended

\* A larger divisor, a smaller quotient.
LEMMA DivAntitone ==
  ASSUME NEW x \in Nat, NEW small \in Nat \ {0}, NEW large \in Nat \ {0}, small <= large
  PROVE  x \div large <= x \div small
<1> DEFINE q == x \div large
<1>1. q \in Nat /\ q * large <= x
  BY DivRange
<1> HIDE DEF q
<1>2. small * q <= large * q
  BY <1>1, MulMono
<1>3. q * small <= x
  <2>1. q * small = small * q /\ q * large = large * q /\ q * small \in Int /\ q * large \in Int
    BY <1>1
  <2> QED
    BY <1>1, <1>2, <2>1
<1>4. q <= x \div small
  BY <1>1, <1>3, DivFloor
<1> QED
  BY <1>4 DEF q

\* From any bar to any later one the NAV falls no deeper than the drawdown.
LEMMA FallWithinDrawdown ==
  ASSUME NEW d, NEW path, History(d, path),
         NEW i \in 1..Len(path), NEW j \in 1..Len(path), i <= j
  PROVE  (path[j] * 1000) \div path[i] - 1000 >= MaxDrawdown(path)
<1> DEFINE closes == <<Opening>> \o path
           n == Len(path)
           peak == Peak(closes, j + 1)
           x == path[j] * 1000
<1>1. n \in Nat \ {0} /\ path[i] \in Nat \ {0} /\ path[j] \in Nat \ {0}
  BY HistoryFacts
<1>2. path \in Seq(Nat) /\ Opening \in Nat
  BY NavNatural, EvaluationAssumption DEF History
<1>3. <<Opening>> \in Seq(Nat) /\ Len(<<Opening>>) = 1
  BY <1>2
<1>4. /\ closes \in Seq(Nat) /\ Len(closes) = n + 1
      /\ closes[i + 1] = path[i] /\ closes[j + 1] = path[j]
  BY <1>1, <1>2, <1>3
<1>5. MaxDrawdown(path) <= (closes[j + 1] * 1000) \div Peak(closes, j + 1) - 1000
      /\ MaxDrawdown(path) \in Int
  <2>1. j + 1 \in 1..(Len(path) + 1)
    BY <1>1
  <2> QED
    <3>1. path \in Seq(Nat)
      BY <1>2
    <3>2. MaxDrawdown(path) \in Falls
      BY <3>1, DrawdownRange
    <3>3. \A m \in 1..(Len(path) + 1) : MaxDrawdown(path) <= Fall(path, m)
      BY <3>1, DrawdownRange
    <3>4. MaxDrawdown(path) <= (closes[j + 1] * 1000) \div Peak(closes, j + 1) - 1000
      BY <2>1, <3>3 DEF Fall
    <3> QED
      BY <3>2, <3>4 DEF Falls
<1> HIDE DEF closes, n
<1>6. \A m \in 1..(n + 1) : closes[m] \in Int
  BY <1>1, <1>4
<1>7. j + 1 \in 1..(n + 1) /\ n + 1 \in Nat /\ i + 1 \in 1..(j + 1)
  BY <1>1 DEF n
<1>8. peak \in Int /\ closes[i + 1] <= peak
  <2>1. /\ Peak(closes, j + 1) \in Int
        /\ \A m \in 1..(j + 1) : closes[m] <= Peak(closes, j + 1)
    BY <1>6, <1>7, PeakFacts
  <2> QED
    BY <1>7, <2>1
<1> HIDE DEF peak
<1>9. peak \in Nat \ {0} /\ path[i] <= peak
  BY <1>1, <1>4, <1>8
<1>10. x \in Nat
  BY <1>1
<1>11. MaxDrawdown(path) <= x \div peak - 1000
  BY <1>4, <1>5 DEF peak
<1> HIDE DEF x
<1>12. x \div peak <= x \div path[i]
  BY <1>1, <1>9, <1>10, DivAntitone
<1>13. x \div peak \in Int /\ x \div path[i] \in Int
  BY <1>1, <1>9, <1>10, DivRange
<1>14. x \div path[i] - 1000 >= MaxDrawdown(path)
  BY <1>5, <1>11, <1>12, <1>13
<1> QED
  BY <1>14 DEF x

\* A window holds a bar: it starts with one and ends with one no earlier.
LEMMA WindowFacts ==
  ASSUME NEW d, NEW path, History(d, path),
         NEW window \in StartingWindows(d) \union ProbabilityWindows(d)
  PROVE  Min(window) \in 1..Len(path) /\ Max(window) \in 1..Len(path) /\ Min(window) <= Max(window)
<1>0. Len(path) \in Nat /\ DOMAIN d = 1..Len(path)
  BY HistoryFacts DEF History
<1>1. \A start : Window(d, start) \in SUBSET (1..Len(path))
  BY <1>0 DEF Window
<1>2. ASSUME NEW starts, NEW least \in Nat \ {0}, window \in Windows(d, starts, least)
      PROVE  window \in SUBSET (1..Len(path)) /\ Cardinality(window) >= least
  <2>1. /\ window \in {Window(d, start) : start \in
                         starts \intersect (d[1]..d[Len(d) - HoldingBars + 1])}
        /\ Cardinality(window) >= least
    BY <1>2 DEF Windows
  <2>2. PICK start : window = Window(d, start)
    BY <2>1
  <2> QED
    BY <1>1, <2>1, <2>2
<1>3. YearBars \in Nat \ {0} /\ NegativeBars \in Nat \ {0}
  BY InvestorAssumption
<1>4. PICK least \in Nat \ {0} : window \in SUBSET (1..Len(path)) /\ Cardinality(window) >= least
  BY <1>2, <1>3 DEF StartingWindows, ProbabilityWindows
<1>5. window # {}
  <2>1. Cardinality({}) = 0
    BY FS_EmptySet
  <2> QED
    BY <1>4, <2>1
<1>6. IsFiniteSet(window) /\ window \in SUBSET Nat
  BY <1>0, <1>4, BarsFinite
<1>7. window \in SUBSET Int
  BY <1>6
<1>8. /\ Min(window) \in window /\ Min(window) \in Int
      /\ Max(window) \in window /\ Max(window) \in Int
      /\ \A y \in window : Min(window) <= y
  BY <1>5, <1>6, <1>7, MinFacts, MaxFacts
<1> QED
  BY <1>4, <1>8

\* The passes over the drawdowns agree (compute_underwater_metrics, investor.py:118-164,
\* and the extended metrics), for every NAV: with each other, with the depth of
\* the recoveries they count, and with what any starting point loses.
THEOREM DrawdownPassesAgree == Spec => []DrawdownsAgree
<1>1. EvaluationInv => DrawdownsAgree
  <2> SUFFICES ASSUME EvaluationInv PROVE DrawdownsAgree
    OBVIOUS
  <2> DEFINE n == Len(nav)
             ended == Scan(nav).ended
  <2>1. History(days, nav)
    BY TheHistory
  <2>2. n \in Nat \ {0}
    BY <2>1, HistoryFacts
  <2>3. /\ \A episode \in Range(ended) : /\ episode \in (1..n) \X (1..n)
                                         /\ EndedBy(nav, n, episode[1], episode[2])
        /\ \A a, k \in Nat : EndedBy(nav, n, a, k) => <<a, k>> \in Range(ended)
        /\ IsInjective(ended)
    BY <2>1, EpisodesAreRuns
  <2>4. ScannersAgree
    <3> DEFINE Ended(i, k) == /\ i > 1 /\ i + k <= Len(nav)
                              /\ ~Below(nav, i - 1, UNDERWATER) /\ ~Below(nav, i + k, UNDERWATER)
                              /\ \A j \in i..(i + k - 1) : Below(nav, j, UNDERWATER)
               runs == {run \in Bars(nav) \X Bars(nav) : Ended(run[1], run[2])}
    <3>1. ASSUME NEW episode \in Range(ended) PROVE episode \in runs
      <4>1. episode \in Bars(nav) \X Bars(nav)
        BY <2>3 DEF Bars
      <4>2. EndedBy(nav, n, episode[1], episode[2])
        BY <2>3
      <4> QED
        BY <4>1, <4>2 DEF EndedBy
    <3>2. ASSUME NEW run \in runs PROVE run \in Range(ended)
      <4>1. run[1] \in 1..n /\ run[2] \in 1..n /\ run = <<run[1], run[2]>>
        BY DEF Bars
      <4>2. EndedBy(nav, n, run[1], run[2])
        BY <2>2, <4>1 DEF EndedBy
      <4>3. <<run[1], run[2]>> \in Range(ended)
        BY <2>2, <2>3, <4>1, <4>2
      <4> QED
        BY <4>1, <4>3
    <3>3. Range(ended) = runs
      BY <3>1, <3>2
    <3>4. ASSUME NEW episode \in Range(ended)
          PROVE  episode[2] <= Longest(nav, UNDERWATER)
      <4> DEFINE a == episode[1]
                 k == episode[2]
                 i == a + k - 1
      <4>1. EndedBy(nav, n, a, k)
        BY <2>3
      <4>2. /\ a \in Nat /\ k \in Nat /\ a > 1 /\ k > 0 /\ a + k <= n
            /\ \A j \in a..i : Below(nav, j, UNDERWATER)
        BY <4>1 DEF EndedBy
      <4> HIDE DEF a, k
      <4>3. i \in Nat \ {0} /\ a \in 1..i /\ i \in 1..n /\ i - a + 1 = k
        BY <2>2, <4>2
      <4> HIDE DEF i
      <4>4. k <= Streak(nav, i, UNDERWATER)
        BY <4>2, <4>3, StreakFacts
      <4>5. Streak(nav, i, UNDERWATER) <= Longest(nav, UNDERWATER)
            /\ Longest(nav, UNDERWATER) \in Nat
        BY <2>2, <4>3, LongestFacts
      <4>6. Streak(nav, i, UNDERWATER) \in 0..i
        BY <4>3, StreakFacts
      <4>7. k <= Longest(nav, UNDERWATER)
        BY <4>2, <4>3, <4>4, <4>5, <4>6
      <4> QED
        BY <4>7 DEF k
    <3>5. RecoveryTime(nav) = Longest(nav, 0) /\ Longest(nav, UNDERWATER) <= Longest(nav, 0)
      BY <2>1, RecoveryIsLongest, LongestOrdered
    <3> QED
      BY <2>3, <3>3, <3>4, <3>5 DEF ScannersAgree
  <2>5. LossWithinDrawdown
    <3> SUFFICES ASSUME NEW window \in StartingWindows(days) \union ProbabilityWindows(days)
                 PROVE  (Exit(nav, window) * 1000) \div Entry(nav, window) - 1000
                          >= MaxDrawdown(nav)
      BY DEF LossWithinDrawdown
    <3>1. Min(window) \in 1..n /\ Max(window) \in 1..n /\ Min(window) <= Max(window)
      BY <2>1, WindowFacts
    <3> QED
      BY <2>1, <3>1, FallWithinDrawdown DEF Entry, Exit
  <2> QED
    BY <2>4, <2>5 DEF DrawdownsAgree
<1> QED
  BY <1>1, EvaluationInvariant, PTL
=============================================================================
