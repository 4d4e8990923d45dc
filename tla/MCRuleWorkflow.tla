--------------------------- MODULE MCRuleWorkflow ---------------------------
EXTENDS RuleWorkflow, TLC

CONSTANTS p1, p2, p3, s1, s2, r1, r2, r3, seeded, fresh, on, off, bad, ann, bob,
  cat, dan

MCSeedRules == (r1 :> [code |-> seeded, content |-> on])
MCEnabledTwin == (on :> on) @@ (off :> on) @@ (bad :> bad)

New(x) == [code |-> fresh, content |-> x]

MCCommands ==
  {[op |-> "create", draft |-> New(off)], [op |-> "create", draft |-> New(on)],
   [op |-> "create", draft |-> New(bad)]}
  \cup {[op |-> "revise", target |-> r1, base |-> b, content |-> off] : b \in 1..2}
  \cup [op : {"review"}, sub : SubIds, decision : {"approved"}, by : Reviewers]
  \cup [op : {"review"}, sub : SubIds, decision : {"rejected"}, by : {ann}]
  \cup [op : {"publish"}, sub : SubIds, by : Publishers]

\* Fewer commands for the liveness run: every statement that can wait is
\* reached by approving, rejecting and publishing create submissions.
MCLiveCommands ==
  {[op |-> "create", draft |-> New(off)]}
  \cup [op : {"review"}, sub : SubIds, decision : Decisions, by : Reviewers]
  \cup [op : {"publish"}, sub : SubIds, by : Publishers]

\* Handlers, submission ids, publishers and the ids no seeded rule has are
\* interchangeable.
MCSymmetry == Permutations(Requests) \cup Permutations(SubIds)
                \cup Permutations(Publishers)
                \cup Permutations({r2, r3})
=============================================================================
