-------------------------- MODULE AnalysisContract --------------------------
(***************************************************************************)
(* What an analysis promises to who asks for it.  A request is judged by   *)
(* the rules once, after everything that may refuse it, and then it is     *)
(* always answered with that verdict, unless the server goes down.  Only   *)
(* an explicit request tells its text to a provider, once, after the       *)
(* verdict and while somebody is still waiting.  The provider's help is    *)
(* part of the answer only if it came from a whole answer in time; it      *)
(* never changes the verdict.                                              *)
(***************************************************************************)
CONSTANTS
  Requests,  \* requests under way at the same time
  None       \* no verdict

VARIABLES
  stage,      \* how far a request is: none, open, cleared, judged
  explicit,   \* it asks for assistance
  verdict,    \* what the rules say, None before that
  disclosed,  \* its text was told to a provider
  helped,     \* the provider has given a whole and valid answer
  over,       \* its time is over, or who asked is gone
  recorded,   \* the verdict that was stored
  said        \* how the last request ended

vars == <<stage, explicit, verdict, disclosed, helped, over, recorded, said>>

Endings == {"nothing", "refused", "lost", "plain", "available", "unavailable"}

Init ==
  /\ stage = [q \in Requests |-> "none"]
  /\ explicit = [q \in Requests |-> FALSE]
  /\ verdict = [q \in Requests |-> None]
  /\ disclosed = [q \in Requests |-> FALSE]
  /\ helped = [q \in Requests |-> FALSE]
  /\ over = [q \in Requests |-> FALSE]
  /\ recorded = [q \in Requests |-> None]
  /\ said = [q \in Requests |-> "nothing"]

Open(q) ==
  /\ stage[q] = "none"
  /\ stage' = [stage EXCEPT ![q] = "open"]
  /\ LET e == explicit'[q]
     IN  e \in BOOLEAN /\ explicit' = [explicit EXCEPT ![q] = e]
  /\ verdict' = [verdict EXCEPT ![q] = None]
  /\ recorded' = [recorded EXCEPT ![q] = None]
  /\ said' = [said EXCEPT ![q] = "nothing"]
  /\ UNCHANGED <<disclosed, helped, over>>

Clear(q) ==
  /\ stage[q] = "open"
  /\ stage' = [stage EXCEPT ![q] = "cleared"]
  /\ UNCHANGED <<explicit, verdict, disclosed, helped, over, recorded, said>>

Judge(q) ==
  /\ stage[q] = "cleared"
  /\ stage' = [stage EXCEPT ![q] = "judged"]
  /\ LET v == verdict'[q]
     IN  verdict' = [verdict EXCEPT ![q] = v]
  /\ UNCHANGED <<explicit, disclosed, helped, over, recorded, said>>

Disclose(q) ==
  /\ stage[q] = "judged" /\ explicit[q] /\ ~disclosed[q] /\ ~over[q]
  /\ disclosed' = [disclosed EXCEPT ![q] = TRUE]
  /\ UNCHANGED <<stage, explicit, verdict, helped, over, recorded, said>>

Help(q) ==
  /\ disclosed[q] /\ ~helped[q]
  /\ helped' = [helped EXCEPT ![q] = TRUE]
  /\ UNCHANGED <<stage, explicit, verdict, disclosed, over, recorded, said>>

Expire(q) ==
  /\ stage[q] # "none" /\ ~over[q]
  /\ over' = [over EXCEPT ![q] = TRUE]
  /\ UNCHANGED <<stage, explicit, verdict, disclosed, helped, recorded, said>>

Record(q) ==
  /\ stage[q] = "judged" /\ ~explicit[q] /\ recorded[q] = None
  /\ recorded' = [recorded EXCEPT ![q] = verdict[q]]
  /\ UNCHANGED <<stage, explicit, verdict, disclosed, helped, over, said>>

\* A request ends: what belongs to it alone is forgotten, not its verdict.
Close(qs, ending) ==
  /\ stage' = [q \in Requests |-> IF q \in qs THEN "none" ELSE stage[q]]
  /\ disclosed' = [q \in Requests |-> disclosed[q] /\ q \notin qs]
  /\ helped' = [q \in Requests |-> helped[q] /\ q \notin qs]
  /\ over' = [q \in Requests |-> over[q] /\ q \notin qs]
  /\ explicit' = [q \in Requests |-> explicit[q] /\ q \notin qs]
  /\ said' = [q \in Requests |-> IF q \in qs THEN ending ELSE said[q]]
  /\ UNCHANGED <<verdict, recorded>>

Refuse(q) ==
  stage[q] \in {"open", "cleared"} /\ Close({q}, "refused")

AnswerPlain(q) ==
  stage[q] = "judged" /\ ~explicit[q] /\ Close({q}, "plain")

AnswerAvailable(q) ==
  /\ stage[q] = "judged" /\ explicit[q]
  /\ disclosed[q] /\ helped[q] /\ ~over[q]
  /\ Close({q}, "available")

AnswerUnavailable(q) ==
  stage[q] = "judged" /\ explicit[q] /\ Close({q}, "unavailable")

\* The server goes down with every request it works on.
Lose ==
  Close({q \in Requests : stage[q] # "none"}, "lost")

Next ==
  \/ \E q \in Requests :
       Open(q) \/ Clear(q) \/ Judge(q) \/ Disclose(q) \/ Help(q) \/ Expire(q)
         \/ Record(q) \/ Refuse(q) \/ AnswerPlain(q) \/ AnswerAvailable(q)
         \/ AnswerUnavailable(q)
  \/ Lose

Spec == Init /\ [][Next]_vars

=============================================================================
