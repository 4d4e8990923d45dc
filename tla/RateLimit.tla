----------------------------- MODULE RateLimit -----------------------------
(***************************************************************************)
(* The Redis limiters: submission writes, operator assisted analysis and   *)
(* browser session exchange count every call; browser assisted analysis    *)
(* counts only the calls it admits.  Each has a counter per subject (a     *)
(* credential, a network source or a principal) and one for all, and each  *)
(* counter expires one window after the call that created it.  A script is *)
(* atomic in Redis; its answer may come too late for the handler, which    *)
(* then refuses the call.  Time passes in ticks between the calls.         *)
(***************************************************************************)
EXTENDS Naturals

CONSTANTS
  Subjects,      \* credentials, network sources or principals
  Global,        \* the key every call counts on
  SubjectLimit,  \* calls admitted per subject and window
  GlobalLimit,   \* calls admitted per window
  Window,        \* ticks until a counter expires
  MaxCount       \* where counters saturate, above both limits

ASSUME LimitsAssumption ==
  /\ Global \notin Subjects
  /\ SubjectLimit \in Nat \ {0}
  /\ GlobalLimit \in Nat \ {0}
  /\ Window \in Nat \ {0}
  /\ MaxCount \in Nat
  /\ SubjectLimit < MaxCount /\ GlobalLimit < MaxCount

Keys == Subjects \cup {Global}
Ages == 0..(Window - 1)

VARIABLES
  countsRefused,  \* which of the two scripts the limiter runs
  count,          \* the counters, 0 when the key does not exist
  ttl,            \* ticks until a key expires, 0 when it never does
  spent,          \* calls of a key's window that were let through or unheard
  recent          \* calls of a key let through in the last a ticks and this one

vars == <<countsRefused, count, ttl, spent, recent>>

Limit(k) == IF k = Global THEN GlobalLimit ELSE SubjectLimit

TypeOK ==
  /\ countsRefused \in BOOLEAN
  /\ count \in [Keys -> 0..MaxCount]
  /\ ttl \in [Keys -> 0..Window]
  /\ spent \in [Keys -> 0..MaxCount]
  /\ recent \in [Keys -> [Ages -> 0..(2 * MaxCount)]]

(***************************************************************************)
(* The scripts.                                                            *)
(***************************************************************************)
\* Mutant: PEXPIRE after every INCR.
ExpiryRenewed(k) == Window

\* PEXPIRE when INCR has created the key.
Expiry(k) == IF count[k] = 0 THEN Window ELSE ttl[k]

\* Counters above every limit are not told apart.
Incr(ks) ==
  /\ count' = [k \in Keys |-> IF k \in ks /\ count[k] < MaxCount
                              THEN count[k] + 1 ELSE count[k]]
  /\ ttl'   = [k \in Keys |-> IF k \in ks THEN Expiry(k) ELSE ttl[k]]

KeysOf(s) == {s, Global}

\* Mutant: the count before INCR is compared as the one after it.
AdmitsOneMore(s) == \A k \in KeysOf(s) : count[k] <= Limit(k)

\* The count after INCR is within the limit, or the one before below it.
Admits(s) == \A k \in KeysOf(s) : count[k] < Limit(k)

\* Mutant: browser assisted analysis counts like the others.
CountsAlways(s) == TRUE

\* The script counts a call of s.
Counts(s) == countsRefused \/ Admits(s)

Script(s) ==
  IF Counts(s) THEN Incr(KeysOf(s)) ELSE UNCHANGED <<count, ttl>>

Spend(s) ==
  spent' = [k \in Keys |-> IF k \in KeysOf(s) THEN spent[k] + 1 ELSE spent[k]]

Record(s) ==
  recent' = [k \in Keys |-> IF k \in KeysOf(s) THEN [a \in Ages |-> recent[k][a] + 1]
                            ELSE recent[k]]

(***************************************************************************)
(* Calls of the middleware.                                                *)
(***************************************************************************)
Admit(s) ==
  /\ Admits(s)
  /\ Script(s)
  /\ Spend(s)
  /\ Record(s)
  /\ UNCHANGED countsRefused

\* 429.
Refuse(s) ==
  /\ ~Admits(s)
  /\ Script(s)
  /\ UNCHANGED <<countsRefused, spent, recent>>

\* 503: the script has run and its answer is not heard in time.
Unheard(s) ==
  /\ Script(s)
  /\ IF Admits(s) THEN Spend(s) ELSE UNCHANGED spent
  /\ UNCHANGED <<countsRefused, recent>>

\* A tick passes, and keys whose time is over expire.
Tick ==
  /\ count' = [k \in Keys |-> IF ttl[k] = 1 THEN 0 ELSE count[k]]
  /\ spent' = [k \in Keys |-> IF ttl[k] = 1 THEN 0 ELSE spent[k]]
  /\ ttl'   = [k \in Keys |-> IF ttl[k] = 0 THEN 0 ELSE ttl[k] - 1]
  /\ recent' = [k \in Keys |->
                  [a \in Ages |-> IF a = 0 THEN 0 ELSE recent[k][a - 1]]]
  /\ UNCHANGED countsRefused

Init ==
  /\ countsRefused \in BOOLEAN
  /\ count = [k \in Keys |-> 0]
  /\ ttl = [k \in Keys |-> 0]
  /\ spent = [k \in Keys |-> 0]
  /\ recent = [k \in Keys |-> [a \in Ages |-> 0]]

Next ==
  \/ \E s \in Subjects : Admit(s) \/ Refuse(s) \/ Unheard(s)
  \/ Tick

Spec == Init /\ [][Next]_vars

\* Time passes.
FairSpec == Spec /\ WF_vars(Tick)

-----------------------------------------------------------------------------
\* However the windows of the two counters lie, fewer than twice the limit of
\* calls are let through in any Window consecutive ticks.
SlidingBound == \A k \in Keys : recent[k][Window - 1] < 2 * Limit(k)

\* Calls let through never exceed the budget of the counters they count on,
\* and where refused calls are not counted they cost nobody anything.
BudgetSpentOnce ==
  \A k \in Keys :
    /\ spent[k] <= Limit(k)
    /\ spent[k] <= count[k]
    /\ ~countsRefused => spent[k] = count[k]

\* A subject that keeps calling while it is refused does not keep its window,
\* or the one of all, from ending.
WindowsEnd == \A k \in Keys : count[k] > 0 ~> count[k] = 0

=============================================================================
