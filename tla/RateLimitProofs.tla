--------------------------- MODULE RateLimitProofs ---------------------------
(***************************************************************************)
(* RateLimit for any subjects, limits and windows: what is let through     *)
(* stays within the budget of the counters it counts on, and below twice   *)
(* that in any stretch of a window's length.                               *)
(***************************************************************************)
EXTENDS RateLimit, TLAPS

\* What the steps need of types.
Counters ==
  /\ countsRefused \in BOOLEAN
  /\ count \in [Keys -> 0..MaxCount]
  /\ spent \in [Keys -> Nat]

LEMMA LimitsBelow ==
  ASSUME NEW k \in Keys
  PROVE  Limit(k) \in Nat /\ Limit(k) < MaxCount
BY LimitsAssumption DEF Limit, Keys

\* A script that admits a call counts it.
LEMMA AdmittedCounts ==
  ASSUME Counters, NEW s \in Subjects, Admits(s), Script(s)
  PROVE  count' = [k \in Keys |-> IF k \in KeysOf(s) THEN count[k] + 1 ELSE count[k]]
<1>1. KeysOf(s) \subseteq Keys
  BY DEF KeysOf, Keys
<1>2. \A k \in KeysOf(s) : count[k] < MaxCount
  BY <1>1, LimitsBelow, LimitsAssumption DEF Admits, Counters
<1>3. Incr(KeysOf(s))
  BY DEF Script, Counts
<1> QED
  BY <1>1, <1>2, <1>3 DEF Incr

LEMMA BudgetStep ==
  ASSUME Counters, BudgetSpentOnce, [Next]_vars
  PROVE  (Counters /\ BudgetSpentOnce)'
<1> USE LimitsAssumption
<1>1. ASSUME NEW s \in Subjects, Admits(s), Script(s), Spend(s), UNCHANGED countsRefused
      PROVE  (Counters /\ BudgetSpentOnce)'
  <2>1. /\ count' = [k \in Keys |-> IF k \in KeysOf(s) THEN count[k] + 1 ELSE count[k]]
        /\ spent' = [k \in Keys |-> IF k \in KeysOf(s) THEN spent[k] + 1 ELSE spent[k]]
    BY <1>1, AdmittedCounts DEF Spend
  <2>2. \A k \in KeysOf(s) : k \in Keys /\ count[k] < Limit(k)
    BY <1>1 DEF Admits, KeysOf, Keys
  <2>3. ASSUME NEW k \in Keys
        PROVE  /\ count'[k] \in 0..MaxCount /\ spent'[k] \in Nat
               /\ spent'[k] <= Limit(k) /\ spent'[k] <= count'[k]
               /\ ~countsRefused => spent'[k] = count'[k]
    BY <2>1, <2>2, <2>3, LimitsBelow DEF Counters, BudgetSpentOnce
  <2> QED
    BY <1>1, <2>1, <2>3 DEF Counters, BudgetSpentOnce
<1>2. ASSUME NEW s \in Subjects, ~Admits(s), Script(s), UNCHANGED <<countsRefused, spent>>
      PROVE  (Counters /\ BudgetSpentOnce)'
  <2>1. CASE countsRefused
    <3>1. Incr(KeysOf(s))
      BY <1>2, <2>1 DEF Script, Counts
    <3>2. \A k \in Keys : count'[k] \in 0..MaxCount /\ count[k] <= count'[k]
      BY <3>1 DEF Incr, Counters
    <3>3. count' = [k \in Keys |-> count'[k]]
      BY <3>1 DEF Incr
    <3> QED
      BY <1>2, <2>1, <3>2, <3>3, LimitsBelow DEF Counters, BudgetSpentOnce
  <2>2. CASE ~countsRefused
    <3>1. UNCHANGED count
      BY <1>2, <2>2 DEF Script, Counts
    <3> QED
      BY <1>2, <3>1 DEF Counters, BudgetSpentOnce, Limit
  <2> QED
    BY <2>1, <2>2
<1>3. CASE Tick
  <2>1. \A k \in Keys : \/ count'[k] = 0 /\ spent'[k] = 0
                        \/ count'[k] = count[k] /\ spent'[k] = spent[k]
    BY <1>3 DEF Tick
  <2>2. /\ count' \in [Keys -> 0..MaxCount] /\ spent' \in [Keys -> Nat]
        /\ UNCHANGED countsRefused
    BY <1>3 DEF Tick, Counters
  <2> QED
    BY <2>1, <2>2, LimitsBelow DEF Counters, BudgetSpentOnce
<1>4. CASE UNCHANGED vars
  BY <1>4 DEF vars, Counters, BudgetSpentOnce, Limit
<1> QED
  BY <1>1, <1>2, <1>3, <1>4 DEF Next, Admit, Refuse, Unheard

\* Calls let through, or whose answer was not heard, never exceed the budget
\* of the counters they count on, and refused calls of the browser limiter
\* cost nobody anything (the Lua scripts of the four limiters).
THEOREM BudgetKept == Spec => []BudgetSpentOnce
<1>1. Init => Counters /\ BudgetSpentOnce
  BY LimitsAssumption, LimitsBelow DEF Init, Counters, BudgetSpentOnce
<1>2. Counters /\ BudgetSpentOnce /\ [Next]_vars => (Counters /\ BudgetSpentOnce)'
  BY BudgetStep
<1> QED
  BY <1>1, <1>2, PTL DEF Spec

(***************************************************************************)
(* Windows that slide.                                                     *)
(***************************************************************************)
Clocks ==
  /\ ttl \in [Keys -> 0..Window]
  /\ recent \in [Keys -> [Ages -> Nat]]

\* Ticks since the call that has created the counter of k.
Age(k) == Window - ttl[k]

\* Calls of the running window are among those the counter has room for, the
\* call that opened it being one of them; those before it are of one earlier
\* window, whose first call is too long ago.
Slides(k) ==
  /\ count[k] = 0 <=> ttl[k] = 0
  /\ \A a, b \in Ages : a <= b => recent[k][a] <= recent[k][b]
  /\ ttl[k] = 0 => recent[k][0] = 0 /\ recent[k][Window - 1] < Limit(k)
  /\ ttl[k] # 0 =>
       /\ recent[k][Age(k)] <= spent[k]
       /\ \A a \in Ages : a < Age(k) => recent[k][a] < count[k] /\ recent[k][a] < Limit(k)
       /\ recent[k][Window - 1] < recent[k][Age(k)] + Limit(k)

Limited ==
  /\ Counters /\ BudgetSpentOnce
  /\ Clocks
  /\ \A k \in Keys : Slides(k)

LEMMA WindowAges ==
  /\ Window \in Nat \ {0} /\ 0 \in Ages /\ Window - 1 \in Ages
  /\ Ages = {a \in Nat : a < Window}
  /\ \A a \in Ages : a # 0 => a - 1 \in Ages
BY LimitsAssumption DEF Ages

LEMMA KeyNumbers ==
  ASSUME Limited, NEW k \in Keys
  PROVE  /\ Limit(k) \in Nat \ {0} /\ Limit(k) < MaxCount /\ MaxCount \in Nat
         /\ count[k] \in 0..MaxCount /\ spent[k] \in Nat /\ ttl[k] \in 0..Window
         /\ \A a \in Ages : recent[k][a] \in Nat
         /\ ttl[k] # 0 => Age(k) \in Ages
         /\ spent[k] <= Limit(k) /\ spent[k] <= count[k]
<1>1. Limit(k) \in Nat \ {0} /\ Limit(k) < MaxCount /\ MaxCount \in Nat
  BY LimitsAssumption DEF Limit, Keys
<1>2. /\ count[k] \in 0..MaxCount /\ spent[k] \in Nat /\ ttl[k] \in 0..Window
      /\ \A a \in Ages : recent[k][a] \in Nat
      /\ spent[k] <= Limit(k) /\ spent[k] <= count[k]
  BY DEF Limited, Counters, Clocks, BudgetSpentOnce
<1>3. ttl[k] # 0 => Age(k) \in Ages
  BY <1>2, WindowAges DEF Age
<1> QED
  BY <1>1, <1>2, <1>3

\* A call counts on k: it is let through, or it is refused or unheard.
LEMMA CountedSlides ==
  ASSUME Limited, NEW k \in Keys,
         ttl'[k] = Expiry(k),
         count'[k] = IF count[k] < MaxCount THEN count[k] + 1 ELSE count[k],
         \/ /\ count[k] < Limit(k) /\ spent'[k] = spent[k] + 1
            /\ \A a \in Ages : recent'[k][a] = recent[k][a] + 1
         \/ /\ spent'[k] \in Nat /\ spent'[k] >= spent[k]
            /\ recent'[k] = recent[k]
  PROVE  Slides(k)'
<1>1. Slides(k)
  BY DEF Limited
<1>2. /\ Limit(k) \in Nat \ {0} /\ Limit(k) < MaxCount /\ MaxCount \in Nat
      /\ count[k] \in 0..MaxCount /\ spent[k] \in Nat /\ ttl[k] \in 0..Window
      /\ \A a \in Ages : recent[k][a] \in Nat
      /\ ttl[k] # 0 => Age(k) \in Ages
      /\ spent[k] <= count[k]
  BY KeyNumbers
<1>3. Window \in Nat \ {0} /\ 0 \in Ages /\ Window - 1 \in Ages /\ \A a \in Ages : a \in Nat
  BY WindowAges
<1>4. Limit(k)' = Limit(k)
  BY DEF Limit
<1>5. count'[k] \in Nat /\ count'[k] # 0 /\ ttl'[k] # 0
  BY <1>1, <1>2, <1>3 DEF Slides, Expiry
<1>6. \A a, b \in Ages : a <= b => recent'[k][a] <= recent'[k][b]
  BY <1>1, <1>2 DEF Slides
<1>7. CASE ttl[k] = 0
  <2>1. count[k] = 0 /\ spent[k] = 0 /\ Age(k)' = 0
    BY <1>1, <1>2, <1>3, <1>7 DEF Slides, Expiry, Age
  <2>2. /\ recent'[k][0] <= spent'[k]
        /\ recent'[k][Window - 1] < recent'[k][0] + Limit(k)
    BY <1>1, <1>2, <1>3, <1>7, <2>1 DEF Slides
  <2>3. \A a \in Ages : ~(a < 0)
    BY <1>3
  <2> QED
    BY <1>4, <1>5, <1>6, <2>1, <2>2, <2>3 DEF Slides
<1>8. CASE ttl[k] # 0
  <2>1. Age(k)' = Age(k) /\ Age(k) \in Ages
    BY <1>1, <1>2, <1>8 DEF Slides, Expiry, Age
  <2>2. /\ recent'[k][Age(k)] <= spent'[k]
        /\ recent'[k][Window - 1] < recent'[k][Age(k)] + Limit(k)
    BY <1>1, <1>2, <1>3, <1>8, <2>1 DEF Slides
  <2>3. ASSUME NEW a \in Ages, a < Age(k)
        PROVE  recent'[k][a] < count'[k] /\ recent'[k][a] < Limit(k)
    BY <1>1, <1>2, <1>8, <2>3 DEF Slides
  <2> QED
    BY <1>4, <1>5, <1>6, <2>1, <2>2, <2>3 DEF Slides
<1> QED
  BY <1>7, <1>8

LEMMA TickSlides ==
  ASSUME Limited, Tick, NEW k \in Keys
  PROVE  Slides(k)'
<1>1. Slides(k)
  BY DEF Limited
<1>2. /\ Limit(k) \in Nat \ {0}
      /\ count[k] \in Nat /\ spent[k] \in Nat /\ ttl[k] \in 0..Window
      /\ \A a \in Ages : recent[k][a] \in Nat
      /\ ttl[k] # 0 => Age(k) \in Ages
  BY KeyNumbers
<1>3. /\ Window \in Nat \ {0} /\ 0 \in Ages /\ Window - 1 \in Ages
      /\ \A a \in Ages : a \in Nat /\ a < Window /\ (a # 0 => a - 1 \in Ages)
  BY WindowAges
<1>4. /\ count'[k] = IF ttl[k] = 1 THEN 0 ELSE count[k]
      /\ spent'[k] = IF ttl[k] = 1 THEN 0 ELSE spent[k]
      /\ ttl'[k] = IF ttl[k] = 0 THEN 0 ELSE ttl[k] - 1
      /\ \A a \in Ages : recent'[k][a] = IF a = 0 THEN 0 ELSE recent[k][a - 1]
  BY DEF Tick
<1>5. Limit(k)' = Limit(k)
  BY DEF Limit
<1>6. count'[k] = 0 <=> ttl'[k] = 0
  BY <1>1, <1>2, <1>4 DEF Slides
<1>7. ASSUME NEW a \in Ages, NEW b \in Ages, a <= b
      PROVE  recent'[k][a] <= recent'[k][b]
  <2>1. CASE a = 0
    BY <1>2, <1>3, <1>4, <2>1
  <2>2. CASE a # 0
    <3>1. a - 1 \in Ages /\ b - 1 \in Ages /\ a - 1 <= b - 1 /\ b # 0
      BY <1>3, <1>7, <2>2
    <3> QED
      BY <1>1, <1>4, <2>2, <3>1 DEF Slides
  <2> QED
    BY <2>1, <2>2
<1>8. /\ recent'[k][0] = 0
      /\ \A a \in Ages : recent'[k][a] = 0 \/ (a - 1 \in Ages /\ recent'[k][a] = recent[k][a - 1])
  BY <1>3, <1>4
<1>9. recent'[k][Window - 1] \in Nat /\ recent'[k][Window - 1] <= recent[k][Window - 1]
  <2>1. \A a \in Ages : a <= Window - 1
    BY <1>3
  <2>2. \A a \in Ages : recent[k][a] <= recent[k][Window - 1]
    BY <1>1, <1>3, <2>1 DEF Slides
  <2> QED
    BY <1>2, <1>3, <1>8, <2>2
<1>10. CASE ttl[k] = 0
  <2>1. ttl'[k] = 0 /\ recent'[k][Window - 1] < Limit(k)
    BY <1>1, <1>2, <1>3, <1>4, <1>9, <1>10 DEF Slides
  <2> QED
    BY <1>5, <1>6, <1>7, <1>8, <2>1 DEF Slides
<1>11. CASE ttl[k] = 1
  <2>1. Age(k) = Window - 1
    BY <1>11 DEF Age
  <2>2. recent'[k][Window - 1] < Limit(k)
    BY <1>1, <1>2, <1>3, <1>8, <1>11, <2>1 DEF Slides
  <2>3. ttl'[k] = 0
    BY <1>4, <1>11
  <2> QED
    BY <1>5, <1>6, <1>7, <1>8, <2>2, <2>3 DEF Slides
<1>12. CASE ttl[k] \notin {0, 1}
  <2>1. /\ Age(k)' = Age(k) + 1 /\ Age(k) \in Ages /\ Age(k) + 1 \in Ages
        /\ ttl'[k] # 0 /\ count'[k] = count[k] /\ spent'[k] = spent[k]
        /\ count[k] # 0
    BY <1>1, <1>2, <1>3, <1>4, <1>12, WindowAges DEF Age, Slides
  <2>2. recent'[k][Age(k) + 1] = recent[k][Age(k)]
    BY <1>3, <1>4, <2>1
  <2>3. /\ recent[k][Age(k)] <= spent[k]
        /\ recent[k][Window - 1] < recent[k][Age(k)] + Limit(k)
    BY <1>1, <1>12 DEF Slides
  <2>4. recent'[k][Window - 1] < recent'[k][Age(k) + 1] + Limit(k)
    BY <1>2, <1>3, <1>9, <2>1, <2>2, <2>3
  <2>5. ASSUME NEW a \in Ages, a < Age(k) + 1
        PROVE  recent'[k][a] < count'[k] /\ recent'[k][a] < Limit(k)
    <3>1. CASE a = 0
      BY <1>2, <1>4, <2>1, <3>1
    <3>2. CASE a # 0
      <4>1. a - 1 \in Ages /\ a - 1 < Age(k)
        <5>1. a \in Nat /\ Age(k) \in Nat /\ a - 1 \in Ages
          BY <1>3, <2>1, <3>2
        <5> QED
          BY <2>5, <5>1
      <4> QED
        BY <1>1, <1>4, <1>12, <2>1, <3>2, <4>1 DEF Slides
    <3> QED
      BY <3>1, <3>2
  <2> QED
    BY <1>5, <1>6, <1>7, <2>1, <2>2, <2>3, <2>4, <2>5 DEF Slides
<1> QED
  BY <1>10, <1>11, <1>12

\* What a call does to the counters of a key.
LEMMA CallMoves ==
  ASSUME Limited, NEW s \in Subjects, Admit(s) \/ Refuse(s) \/ Unheard(s), NEW k \in Keys
  PROVE  \/ /\ count'[k] = count[k] /\ ttl'[k] = ttl[k]
            /\ spent'[k] = spent[k] /\ recent'[k] = recent[k]
         \/ /\ ttl'[k] = Expiry(k)
            /\ count'[k] = IF count[k] < MaxCount THEN count[k] + 1 ELSE count[k]
            /\ \/ /\ count[k] < Limit(k) /\ spent'[k] = spent[k] + 1
                  /\ recent'[k] = [a \in Ages |-> recent[k][a] + 1]
               \/ /\ spent'[k] \in Nat /\ spent'[k] >= spent[k]
                  /\ recent'[k] = recent[k]
<1>0. spent[k] \in Nat
  BY KeyNumbers
<1>1. CASE UNCHANGED <<count, ttl>> /\ ~Counts(s)
  <2>1. ~Admits(s)
    BY <1>1 DEF Counts
  <2>2. UNCHANGED <<spent, recent>>
    BY <2>1 DEF Admit, Refuse, Unheard
  <2> QED
    BY <1>1, <2>2
<1>2. CASE Incr(KeysOf(s))
  <2>1. CASE k \in KeysOf(s)
    <3>1. /\ ttl'[k] = Expiry(k)
          /\ count'[k] = IF count[k] < MaxCount THEN count[k] + 1 ELSE count[k]
      BY <1>2, <2>1 DEF Incr
    <3>2. CASE Admit(s)
      BY <2>1, <3>1, <3>2 DEF Admit, Admits, Spend, Record
    <3>3. CASE Refuse(s) \/ Unheard(s)
      <4>1. recent' = recent /\ (spent'[k] = spent[k] + 1 \/ spent'[k] = spent[k])
        BY <2>1, <3>3 DEF Refuse, Unheard, Spend
      <4> QED
        BY <1>0, <3>1, <4>1
    <3> QED
      BY <3>2, <3>3
  <2>2. CASE k \notin KeysOf(s)
    <3>1. count'[k] = count[k] /\ ttl'[k] = ttl[k]
      BY <1>2, <2>2 DEF Incr
    <3>2. spent'[k] = spent[k] /\ recent'[k] = recent[k]
      BY <2>2 DEF Admit, Refuse, Unheard, Spend, Record
    <3> QED
      BY <3>1, <3>2
  <2> QED
    BY <2>1, <2>2
<1> QED
  BY <1>1, <1>2 DEF Admit, Refuse, Unheard, Script

LEMMA ClocksStep ==
  ASSUME Limited, Next
  PROVE  Clocks'
<1>1. CASE Tick
  <2>1. ASSUME NEW k \in Keys
        PROVE  /\ (IF ttl[k] = 0 THEN 0 ELSE ttl[k] - 1) \in 0..Window
               /\ \A a \in Ages : (IF a = 0 THEN 0 ELSE recent[k][a - 1]) \in Nat
    BY KeyNumbers, WindowAges
  <2> QED
    BY <1>1, <2>1 DEF Tick, Clocks
<1>2. ASSUME NEW s \in Subjects, Admit(s) \/ Refuse(s) \/ Unheard(s)
      PROVE  Clocks'
  <2>1. \A k \in Keys : Expiry(k) \in 0..Window
    BY KeyNumbers, WindowAges DEF Expiry
  <2>2. ttl' \in [Keys -> 0..Window]
    BY <1>2, <2>1 DEF Limited, Clocks, Admit, Refuse, Unheard, Script, Incr
  <2>3. recent' \in [Keys -> [Ages -> Nat]]
    BY <1>2 DEF Limited, Clocks, Admit, Refuse, Unheard, Record
  <2> QED
    BY <2>2, <2>3 DEF Clocks
<1> QED
  BY <1>1, <1>2 DEF Next

LEMMA LimitedStep == Limited /\ [Next]_vars => Limited'
<1> SUFFICES ASSUME Limited, [Next]_vars
             PROVE  Limited'
  OBVIOUS
<1>1. (Counters /\ BudgetSpentOnce)'
  BY BudgetStep DEF Limited
<1>2. CASE UNCHANGED vars
  BY <1>1, <1>2 DEF vars, Limited, Clocks, Slides, Age, Limit
<1>3. ASSUME NEW s \in Subjects, Admit(s) \/ Refuse(s) \/ Unheard(s), NEW k \in Keys
      PROVE  Slides(k)'
  <2>1. CASE /\ count'[k] = count[k] /\ ttl'[k] = ttl[k]
             /\ spent'[k] = spent[k] /\ recent'[k] = recent[k]
    BY <2>1 DEF Limited, Slides, Age, Limit
  <2>2. CASE /\ ttl'[k] = Expiry(k)
             /\ count'[k] = IF count[k] < MaxCount THEN count[k] + 1 ELSE count[k]
             /\ \/ /\ count[k] < Limit(k) /\ spent'[k] = spent[k] + 1
                   /\ recent'[k] = [a \in Ages |-> recent[k][a] + 1]
                \/ /\ spent'[k] \in Nat /\ spent'[k] >= spent[k]
                   /\ recent'[k] = recent[k]
    BY <2>2, CountedSlides
  <2> QED
    BY <1>3, <2>1, <2>2, CallMoves
<1>4. ASSUME Next
      PROVE  \A k \in Keys : Slides(k)'
  BY <1>3, <1>4, TickSlides DEF Next
<1> QED
  BY <1>1, <1>2, <1>4, ClocksStep DEF Limited

LEMMA LimitedInit == Init => Limited
<1> SUFFICES ASSUME Init
             PROVE  Limited
  OBVIOUS
<1>1. Counters /\ BudgetSpentOnce
  BY LimitsAssumption, LimitsBelow DEF Init, Counters, BudgetSpentOnce
<1>2. Clocks
  BY WindowAges DEF Init, Clocks
<1>3. ASSUME NEW k \in Keys
      PROVE  Slides(k)
  <2>1. count[k] = 0 /\ ttl[k] = 0 /\ \A a \in Ages : recent[k][a] = 0
    BY <1>3 DEF Init
  <2>2. Limit(k) \in Nat \ {0}
    BY LimitsAssumption DEF Limit, Keys
  <2> QED
    BY <2>1, <2>2, WindowAges DEF Slides
<1> QED
  BY <1>1, <1>2, <1>3 DEF Limited

LEMMA LimitsHold == Spec => []Limited
BY LimitedInit, LimitedStep, PTL DEF Spec

LEMMA RecentBelow ==
  ASSUME Limited, NEW k \in Keys
  PROVE  /\ recent[k][Window - 1] < 2 * Limit(k)
         /\ \A a \in Ages : recent[k][a] <= recent[k][Window - 1]
<1>1. Slides(k)
  BY DEF Limited
<1>2. /\ Limit(k) \in Nat \ {0} /\ spent[k] \in Nat /\ spent[k] <= Limit(k)
      /\ \A a \in Ages : recent[k][a] \in Nat
      /\ ttl[k] # 0 => Age(k) \in Ages
  BY KeyNumbers
<1>3. recent[k][Window - 1] < 2 * Limit(k)
  BY <1>1, <1>2, WindowAges DEF Slides
<1>4. \A a \in Ages : a <= Window - 1
  BY WindowAges
<1> QED
  BY <1>1, <1>3, <1>4, WindowAges DEF Slides

\* However the windows of the two counters lie, fewer than twice the limit of
\* calls of a subject, and of all, are let through in Window consecutive ticks
\* (the expiry the Lua scripts of the four limiters set once per window).
THEOREM SlidingBounded == Spec => []SlidingBound
<1>1. Limited => SlidingBound
  BY RecentBelow DEF SlidingBound
<1> QED
  BY <1>1, LimitsHold, PTL

\* Counters, expiries and histories keep to their bounds.
THEOREM TypeCorrect == Spec => []TypeOK
<1>1. Limited => TypeOK
  <2> SUFFICES ASSUME Limited
               PROVE  TypeOK
    OBVIOUS
  <2>1. ASSUME NEW k \in Keys
        PROVE  /\ spent[k] \in 0..MaxCount
               /\ \A a \in Ages : recent[k][a] \in 0..(2 * MaxCount)
    BY KeyNumbers, RecentBelow, WindowAges
  <2> QED
    BY <2>1 DEF Limited, Counters, Clocks, TypeOK
<1> QED
  BY <1>1, LimitsHold, PTL
=============================================================================
