---------------------------- MODULE RuleLifecycle ----------------------------
(***************************************************************************)
(* What the rule workflow promises, without handlers, statements, locks or *)
(* retries: a proposal is submitted, decided once by one reviewer and, if  *)
(* it is an approved create proposal, published at most once by one        *)
(* publisher, when no executable rule has its code.  Nothing is undone and *)
(* only a publication makes a rule executable.                             *)
(***************************************************************************)
CONSTANTS
  SubIds,       \* submissions
  Codes,        \* rule codes
  Proposals,    \* what a submission can ask for: records with kind and draft
  Verdicts,     \* decisions with their reviewer: records with decision and by
  Publishers,   \* publisher labels
  SeededCodes,  \* codes of the rules that exist from the start
  Nothing       \* no proposal, no verdict, nobody: none of the above

VARIABLES
  proposal,   \* what each submission asks for
  verdict,    \* how each submission was decided
  publisher,  \* who published each submission
  executable  \* the codes of the executable rules

lifecycle == <<proposal, verdict, publisher, executable>>

Init ==
  /\ proposal = [s \in SubIds |-> Nothing]
  /\ verdict = [s \in SubIds |-> Nothing]
  /\ publisher = [s \in SubIds |-> Nothing]
  /\ executable = SeededCodes

Pending(s) == proposal[s] # Nothing /\ verdict[s] = Nothing

\* A new proposal; an identical one must not be pending.
Submit(s) ==
  /\ proposal[s] = Nothing
  /\ LET i == proposal'[s]
     IN /\ i \in Proposals
        /\ ~ \E t \in SubIds : Pending(t) /\ proposal[t] = i
        /\ proposal' = [proposal EXCEPT ![s] = i]
  /\ UNCHANGED <<verdict, publisher, executable>>

Decide(s) ==
  /\ Pending(s)
  /\ LET v == verdict'[s]
     IN v \in Verdicts /\ verdict' = [verdict EXCEPT ![s] = v]
  /\ UNCHANGED <<proposal, publisher, executable>>

Publish(s) ==
  /\ proposal[s] # Nothing
  /\ proposal[s].kind = "create"
  /\ proposal[s].draft.code \notin executable
  /\ verdict[s] # Nothing
  /\ verdict[s].decision = "approved"
  /\ publisher[s] = Nothing
  /\ LET by == publisher'[s]
     IN by \in Publishers /\ publisher' = [publisher EXCEPT ![s] = by]
  /\ executable' = executable \cup {proposal[s].draft.code}
  /\ UNCHANGED <<proposal, verdict>>

Next == \E s \in SubIds : Submit(s) \/ Decide(s) \/ Publish(s)

Spec == Init /\ [][Next]_lifecycle
=============================================================================
