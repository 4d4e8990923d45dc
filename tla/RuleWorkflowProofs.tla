------------------------- MODULE RuleWorkflowProofs -------------------------
(***************************************************************************)
(* The safety of RuleWorkflow for any number of handlers, submissions,     *)
(* rules and commands.  None of the table invariants is inductive alone:   *)
(* a commit is safe because of what its handler has checked and locked, so *)
(* the inductive invariant Inv also says what each handler knows at each   *)
(* of its statements (Located) and that a revision has the code of a rule  *)
(* that exists (RevisionTargets).  From Inv follow the refinement of       *)
(* RuleLifecycle and, with the second invariant Honest, what the answers   *)
(* promise.                                                                *)
(***************************************************************************)
EXTENDS RuleWorkflow, TLAPS

Submitting == {"base", "lookup", "validate", "insert", "winner"}
Reviewing  == {"review_read", "review_validate", "review_cas", "review_commit",
               "review_reread", "review_resolve"}
Publishing == {"guard", "publish_read", "publish_event", "publish_source",
               "publish_validate", "publish_recheck", "publish_insert",
               "publish_commit", "publish_failed", "publish_resolve"}
Approved   == {"publish_source", "publish_validate", "publish_recheck",
               "publish_insert", "publish_commit", "publish_failed"}

\* What a handler knows when it is about to run a statement.
Located(p) ==
  /\ pc[p] \in Submitting => cmd[p] \in CreateCommand \cup ReviseCommand
  /\ pc[p] = "base" => cmd[p] \in ReviseCommand
  /\ pc[p] \in Submitting \ {"base"} /\ cmd[p] \in ReviseCommand
       => rules[cmd[p].target] # None
  /\ pc[p] \in Reviewing => cmd[p] \in ReviewCommand
  /\ pc[p] \in Reviewing \ {"review_read"} => Stored(cmd[p].sub)
  /\ pc[p] \in Publishing => cmd[p] \in PublishCommand
  /\ pc[p] \in Publishing \ {"guard", "publish_read"} => Stored(cmd[p].sub)
  /\ pc[p] = "publish_event" /\ seen[p] = "approved"
       => StatusOf(cmd[p].sub) = "approved"
  /\ pc[p] \in Approved => StatusOf(cmd[p].sub) = "approved"

AllLocated == \A p \in Requests : Located(p)

\* A stored revision has the code of its target, and rules stay.
RevisionTargets ==
  \A s \in SubIds : Stored(s) /\ submissions[s].intent.kind = "revision" =>
    LET i == submissions[s].intent
    IN rules[i.target] # None /\ rules[i.target].draft.code = i.draft.code

Inv ==
  /\ TypeOK
  /\ AllLocated
  /\ RevisionTargets
  /\ ReviewedExactlyOnce
  /\ OnePendingPerRequest
  /\ OneRulePerCode
  /\ PublicationsTraceable
  /\ LocksGuardCommits

-----------------------------------------------------------------------------
(***************************************************************************)
(* Commands, intents and drafts.                                           *)
(***************************************************************************)

LEMMA CommandKinds ==
  ASSUME NEW c \in Command
  PROVE  /\ c.op \in {"create", "revise", "review", "publish"}
         /\ c.op = "create" <=> c \in CreateCommand
         /\ c.op = "revise" <=> c \in ReviseCommand
         /\ c.op = "review" <=> c \in ReviewCommand
         /\ c.op = "publish" <=> c \in PublishCommand
BY DEF Command, CreateCommand, ReviseCommand, ReviewCommand, PublishCommand

LEMMA IntentType ==
  ASSUME TypeOK,
         NEW c \in CreateCommand \cup ReviseCommand,
         c \in ReviseCommand => rules[c.target] # None
  PROVE  /\ IntentOf(c) \in Intent
         /\ IntentOf(c).kind = "revision" =>
              /\ rules[IntentOf(c).target] # None
              /\ rules[IntentOf(c).target].draft.code = IntentOf(c).draft.code
<1>1. CASE c \in CreateCommand
  BY <1>1 DEF CreateCommand, IntentOf, Intent, CreateIntent
<1>2. CASE c \in ReviseCommand
  <2>1. c.op = "revise" /\ c.target \in RuleIds /\ c.base \in Nat /\ c.content \in Contents
    BY <1>2 DEF ReviseCommand
  <2>2. rules[c.target].draft \in Draft
    BY <1>2, <2>1 DEF TypeOK, RiskRule
  <2>3. rules[c.target].draft.code \in Codes
    BY <2>2 DEF Draft
  <2> QED
    BY <1>2, <2>1, <2>3 DEF IntentOf, Intent, RevisionIntent, Draft
<1> QED
  BY <1>1, <1>2

LEMMA SubmissionType ==
  ASSUME TypeOK, NEW s \in SubIds, Stored(s)
  PROVE  /\ submissions[s] \in RuleSubmission
         /\ StatusOf(s) \in Statuses
         /\ submissions[s].intent \in Intent
         /\ DraftOf(s) \in Draft
         /\ DraftOf(s).code \in Codes
<1>1. submissions[s] \in RuleSubmission
  BY DEF TypeOK, Stored
<1>2. StatusOf(s) \in Statuses /\ submissions[s].intent \in Intent
  BY <1>1 DEF RuleSubmission, StatusOf
<1>3. DraftOf(s) \in Draft
  BY <1>2 DEF DraftOf, Intent, CreateIntent, RevisionIntent
<1> QED
  BY <1>1, <1>2, <1>3 DEF Draft

\* What reaches risk_rules is the approved draft: the flag GORM sets on the
\* insert has been set back.
LEMMA PublishedIsApproved ==
  ASSUME NEW d
  PROVE  PublishedDraft(d) = d
BY DEF PublishedDraft

-----------------------------------------------------------------------------
(***************************************************************************)
(* A step of one handler changes the tables only by one of the three       *)
(* stores, and what they change is history that stays.                     *)
(***************************************************************************)
Step(p) ==
  \/ \E c \in Commands : Start(p, c)
  \/ Prompt(p)
  \/ Waiting(p)
  \/ Fault(p)

Stores(p) ==
  \/ \E s \in SubIds : StoreSubmission(p, s)
  \/ StoreReview(p)
  \/ StorePublication(p)

\* The matrix of HistoryKept.
Grown ==
  /\ reviewEvents \subseteq reviewEvents'
  /\ publicationEvents \subseteq publicationEvents'
  /\ ruleVersions \subseteq ruleVersions'
  /\ \A r \in RuleIds : rules[r] # None => rules'[r] = rules[r]
  /\ \A s \in SubIds : Stored(s) =>
       \/ submissions'[s] = submissions[s]
       \/ /\ StatusOf(s) = "pending"
          /\ submissions'[s] # None
          /\ submissions'[s].intent = submissions[s].intent

LEMMA StepStores ==
  ASSUME NEW p \in Requests, Step(p)
  PROVE  UNCHANGED tables \/ Stores(p)
<1>1. CASE \E c \in Commands : Start(p, c)
  BY <1>1 DEF Start
<1>2. CASE Prompt(p)
  <2>1. CASE ReviewCommit(p)
    BY <2>1 DEF ReviewCommit, Stores
  <2>2. CASE PublishCommit(p)
    BY <2>2 DEF PublishCommit, Stores
  <2> QED
    BY <1>2, <2>1, <2>2
    DEF Prompt, RevisionBase, LookupPending, ValidateCreate, LookupWinner, ReviewRead,
        ReviewValidate, ReviewReread, ReviewResolve, PublicationGuard, PublishRead,
        PublishLookupEvent, PublishSource, PublishValidate, PublishRecheck,
        PublishInsertFailed, PublishResolve
<1>3. CASE Waiting(p)
  <2>1. CASE InsertSubmission(p)
    BY <2>1 DEF InsertSubmission, Stores
  <2> QED
    BY <1>3, <2>1 DEF Waiting, InsertCollides, ReviewCAS, PublishInsert
<1>4. CASE Fault(p)
  <2>1. CASE InsertUnheard(p)
    BY <2>1 DEF InsertUnheard, Stores
  <2>2. CASE ReviewUnheard(p)
    BY <2>2 DEF ReviewUnheard, Stores
  <2>3. CASE PublicationUnheard(p)
    BY <2>3 DEF PublicationUnheard, Stores
  <2> QED
    BY <1>4, <2>1, <2>2, <2>3 DEF Fault, Fail, InsertFails, PublishInsertFails, ValidateCreateUncounted
<1> QED
  BY <1>1, <1>2, <1>3, <1>4 DEF Step

LEMMA NextStep == Next <=> \E p \in Requests : Step(p)
BY DEF Next, Step

\* What a create or revise command stores.
LEMMA SubmissionRows ==
  ASSUME Inv, NEW p \in Requests, NEW s \in SubIds, StoreSubmission(p, s)
  PROVE  /\ submissions' \in [SubIds -> RuleSubmission \cup {None}]
         /\ \A t \in SubIds \ {s} : submissions'[t] = submissions[t]
         /\ submissions'[s] # None
         /\ submissions'[s].status = "pending"
         /\ submissions'[s].intent = IntentOf(cmd[p])
         /\ ~Stored(s)
         /\ PendingWith(IntentOf(cmd[p])) = {}
         /\ IntentOf(cmd[p]).kind = "revision" =>
              /\ rules[IntentOf(cmd[p]).target] # None
              /\ rules[IntentOf(cmd[p]).target].draft.code = IntentOf(cmd[p]).draft.code
         /\ UNCHANGED <<reviewEvents, publicationEvents, rules, ruleVersions>>
<1> DEFINE row == [status |-> "pending", intent |-> IntentOf(cmd[p])]
<1>1. TypeOK
  BY DEF Inv
<1>2. /\ cmd[p] \in CreateCommand \cup ReviseCommand
      /\ cmd[p] \in ReviseCommand => rules[cmd[p].target] # None
  BY DEF Inv, AllLocated, Located, StoreSubmission, At, Submitting
<1>3. row \in RuleSubmission /\ row # None
  BY <1>1, <1>2, IntentType, NoneAssumption DEF RuleSubmission, Statuses
<1>4. submissions' = [submissions EXCEPT ![s] = row]
  BY DEF StoreSubmission
<1>5. row.status = "pending" /\ row.intent = IntentOf(cmd[p])
  OBVIOUS
<1> HIDE DEF row
<1>6. submissions' \in [SubIds -> RuleSubmission \cup {None}]
  BY <1>1, <1>3, <1>4 DEF TypeOK
<1>7. submissions'[s] = row /\ \A t \in SubIds \ {s} : submissions'[t] = submissions[t]
  BY <1>1, <1>4 DEF TypeOK
<1>8. /\ ~Stored(s)
      /\ PendingWith(IntentOf(cmd[p])) = {}
      /\ UNCHANGED <<reviewEvents, publicationEvents, rules, ruleVersions>>
  BY DEF StoreSubmission
<1> QED
  BY <1>1, <1>2, <1>3, <1>5, <1>6, <1>7, <1>8, IntentType

\* What the commit of a review does to the rows: its handler holds the row of a
\* pending submission.
LEMMA ReviewRows ==
  ASSUME Inv, NEW p \in Requests, StoreReview(p)
  PROVE  /\ cmd[p] \in ReviewCommand
         /\ cmd[p].sub \in SubIds
         /\ Stored(cmd[p].sub)
         /\ StatusOf(cmd[p].sub) = "pending"
         /\ \A e \in reviewEvents : e.sub # cmd[p].sub
         /\ submissions' \in [SubIds -> RuleSubmission \cup {None}]
         /\ \A t \in SubIds \ {cmd[p].sub} : submissions'[t] = submissions[t]
         /\ submissions'[cmd[p].sub] # None
         /\ submissions'[cmd[p].sub].status = cmd[p].decision
         /\ submissions'[cmd[p].sub].status # "pending"
         /\ submissions'[cmd[p].sub].intent = submissions[cmd[p].sub].intent
         /\ reviewEvents' = reviewEvents \cup {CommittedReview(cmd[p])}
         /\ UNCHANGED <<publicationEvents, rules, ruleVersions>>
<1> DEFINE s == cmd[p].sub
           row == [status |-> cmd[p].decision, intent |-> submissions[s].intent]
<1>1. TypeOK
  BY DEF Inv
<1>2. cmd[p] \in ReviewCommand /\ Stored(s)
  BY DEF Inv, AllLocated, Located, StoreReview, At, Reviewing
<1>3. s \in SubIds /\ cmd[p].decision \in Decisions
  BY <1>2 DEF ReviewCommand
<1>4. StatusOf(s) = "pending"
  BY DEF Inv, LocksGuardCommits, StoreReview
<1>5. row \in RuleSubmission /\ row # None
  BY <1>1, <1>2, <1>3, SubmissionType, NoneAssumption DEF RuleSubmission, Statuses
<1>6. submissions' = [submissions EXCEPT ![s] = row]
  BY DEF StoreReview, Decided
<1>7. row.status = cmd[p].decision /\ row.intent = submissions[s].intent
  OBVIOUS
<1>8. cmd[p].decision # "pending"
  BY <1>3 DEF Decisions
<1>9. /\ \A e \in reviewEvents : e.sub # s
      /\ reviewEvents' = reviewEvents \cup {CommittedReview(cmd[p])}
      /\ UNCHANGED <<publicationEvents, rules, ruleVersions>>
  BY DEF StoreReview
<1> HIDE DEF s, row
<1>10. submissions' \in [SubIds -> RuleSubmission \cup {None}]
  BY <1>1, <1>3, <1>5, <1>6 DEF TypeOK
<1>11. submissions'[s] = row /\ \A t \in SubIds \ {s} : submissions'[t] = submissions[t]
  BY <1>1, <1>3, <1>6 DEF TypeOK
<1> QED
  BY <1>2, <1>3, <1>4, <1>5, <1>7, <1>8, <1>9, <1>10, <1>11 DEF s

\* What the commit of a publication does to the rows: its handler is the only
\* one that may insert a rule of the code.
LEMMA PublicationRows ==
  ASSUME Inv, NEW p \in Requests, StorePublication(p)
  PROVE  /\ cmd[p] \in PublishCommand
         /\ cmd[p].sub \in SubIds
         /\ Stored(cmd[p].sub)
         /\ submissions[cmd[p].sub].intent.kind = "create"
         /\ EventsOf(cmd[p].sub) = {}
         /\ ~CodeTaken(DraftOf(cmd[p].sub).code)
         /\ UNCHANGED <<submissions, reviewEvents>>
<1>1. /\ cmd[p] \in PublishCommand
      /\ Stored(cmd[p].sub)
  BY DEF Inv, AllLocated, Located, StorePublication, At, Publishing
<1>2. cmd[p].sub \in SubIds
  BY <1>1 DEF PublishCommand
<1>3. /\ submissions[cmd[p].sub].intent.kind = "create"
      /\ EventsOf(cmd[p].sub) = {}
      /\ ~CodeTaken(DraftOf(cmd[p].sub).code)
  BY DEF Inv, LocksGuardCommits, StorePublication
<1> QED
  BY <1>1, <1>2, <1>3 DEF StorePublication

LEMMA PublicationRule ==
  ASSUME Inv, NEW p \in Requests, StorePublication(p)
  PROVE  \E r \in RuleIds, review \in reviewEvents :
           LET s == cmd[p].sub
               event == NewEvent(cmd[p], review, r)
           IN /\ rules[r] = None
              /\ ApprovesDraft(review, s)
              /\ rules' \in [RuleIds -> RiskRule \cup {None}]
              /\ \A q \in RuleIds \ {r} : rules'[q] = rules[q]
              /\ rules'[r] # None
              /\ rules'[r].draft = DraftOf(s)
              /\ rules'[r].version = 1
              /\ rules'[r].source = s
              /\ publicationEvents' = publicationEvents \cup {event}
              /\ ruleVersions' = ruleVersions \cup {NewVersion(r, event)}
<1> DEFINE s == cmd[p].sub
<1>1. s \in SubIds /\ Stored(s) /\ TypeOK
  BY PublicationRows DEF Inv
<1>2. DraftOf(s) \in Draft
  BY <1>1, SubmissionType
<1>3. NewRule(s) = [draft |-> DraftOf(s), version |-> 1, source |-> s]
  BY PublishedIsApproved DEF NewRule
<1>4. /\ NewRule(s) \in RiskRule \ {None}
      /\ NewRule(s).draft = DraftOf(s)
      /\ NewRule(s).version = 1
      /\ NewRule(s).source = s
  BY <1>1, <1>2, <1>3, NoneAssumption DEF RiskRule
<1>5. PICK r \in RuleIds, review \in reviewEvents :
        /\ rules[r] = None
        /\ ApprovesDraft(review, s)
        /\ rules' = [rules EXCEPT ![r] = NewRule(s)]
        /\ publicationEvents' = publicationEvents \cup {NewEvent(cmd[p], review, r)}
        /\ ruleVersions' = ruleVersions \cup {NewVersion(r, NewEvent(cmd[p], review, r))}
  BY DEF StorePublication
<1>6. rules' \in [RuleIds -> RiskRule \cup {None}]
  BY <1>1, <1>4, <1>5 DEF TypeOK
<1>7. rules'[r] = NewRule(s) /\ \A q \in RuleIds \ {r} : rules'[q] = rules[q]
  BY <1>1, <1>5 DEF TypeOK
<1> HIDE DEF s
<1> QED
  BY <1>4, <1>5, <1>6, <1>7 DEF s

LEMMA StepGrows ==
  ASSUME Inv, NEW p \in Requests, Step(p)
  PROVE  Grown
<1>1. CASE UNCHANGED tables
  BY <1>1 DEF tables, Grown
<1>2. ASSUME NEW s \in SubIds, StoreSubmission(p, s)
      PROVE  Grown
  BY <1>2, SubmissionRows DEF Grown, Stored
<1>3. CASE StoreReview(p)
  BY <1>3, ReviewRows DEF Grown
<1>4. CASE StorePublication(p)
  <2>1. \A r \in RuleIds : rules[r] # None => rules'[r] = rules[r]
    BY <1>4, PublicationRule
  <2> QED
    BY <1>4, <2>1 DEF StorePublication, Grown
<1> QED
  BY <1>1, <1>2, <1>3, <1>4, StepStores DEF Stores

\* The submissions after a step, row by row.
LEMMA SubmissionSteps ==
  ASSUME Inv, NEW p \in Requests, Step(p)
  PROVE  /\ submissions' \in [SubIds -> RuleSubmission \cup {None}]
         /\ \A s \in SubIds : Stored(s) =>
              Stored(s)' /\ submissions'[s].intent = submissions[s].intent
<1>1. submissions' \in [SubIds -> RuleSubmission \cup {None}]
  <2>1. CASE UNCHANGED tables
    BY <2>1 DEF tables, Inv, TypeOK
  <2>2. CASE \E s \in SubIds : StoreSubmission(p, s)
    BY <2>2, SubmissionRows
  <2>3. CASE StoreReview(p)
    BY <2>3, ReviewRows
  <2>4. CASE StorePublication(p)
    BY <2>4 DEF StorePublication, Inv, TypeOK
  <2> QED
    BY <2>1, <2>2, <2>3, <2>4, StepStores DEF Stores
<1> QED
  BY <1>1, StepGrows DEF Grown, Stored

LEMMA RevisionTargetsStep ==
  ASSUME Inv, NEW p \in Requests, Step(p)
  PROVE  RevisionTargets'
<1> SUFFICES ASSUME NEW s \in SubIds, Stored(s)',
                    submissions'[s].intent.kind = "revision"
             PROVE  /\ rules'[submissions'[s].intent.target] # None
                    /\ rules'[submissions'[s].intent.target].draft.code
                         = submissions'[s].intent.draft.code
  BY DEF RevisionTargets, Stored
<1> DEFINE i == submissions'[s].intent
<1>1. i \in Intent
  BY SubmissionSteps DEF Stored, RuleSubmission
<1>2. i.target \in RuleIds
  BY <1>1 DEF Intent, CreateIntent, RevisionIntent
<1>3. rules[i.target] # None /\ rules[i.target].draft.code = i.draft.code
  <2>1. CASE Stored(s)
    BY <2>1, SubmissionSteps DEF Inv, RevisionTargets
  <2>2. CASE ~Stored(s)
    <3>1. PICK t \in SubIds : StoreSubmission(p, t)
      <4>1. ~ UNCHANGED tables
        BY <2>2 DEF tables, Stored
      <4>2. ~ StoreReview(p)
        BY <2>2, ReviewRows DEF Stored
      <4>3. ~ StorePublication(p)
        BY <2>2 DEF StorePublication, Stored
      <4> QED
        BY <4>1, <4>2, <4>3, StepStores DEF Stores
    <3>2. t = s
      BY <2>2, <3>1, SubmissionRows DEF Stored
    <3> QED
      BY <3>1, <3>2, SubmissionRows
  <2> QED
    BY <2>1, <2>2
<1> QED
  BY <1>2, <1>3, StepGrows DEF Grown

LEMMA ReviewedExactlyOnceStep ==
  ASSUME Inv, NEW p \in Requests, Step(p)
  PROVE  ReviewedExactlyOnce'
<1>1. ReviewedExactlyOnce /\ \A e \in reviewEvents : e.sub \in SubIds
  BY DEF Inv, TypeOK, ReviewEvent
<1>2. CASE UNCHANGED tables
  BY <1>1, <1>2 DEF tables, ReviewedExactlyOnce, Stored, StatusOf, DraftOf
<1>3. ASSUME NEW s \in SubIds, StoreSubmission(p, s)
      PROVE  ReviewedExactlyOnce'
  <2>1. \A e \in reviewEvents : e.sub \in SubIds \ {s}
    BY <1>1, <1>3, SubmissionRows DEF ReviewedExactlyOnce
  <2>2. /\ \A t \in SubIds \ {s} : submissions'[t] = submissions[t]
        /\ submissions'[s].status = "pending"
        /\ UNCHANGED reviewEvents
    BY <1>3, SubmissionRows
  <2> QED
    BY <1>1, <2>1, <2>2 DEF ReviewedExactlyOnce, Stored, StatusOf, DraftOf
<1>4. CASE StoreReview(p)
  <2> DEFINE s == cmd[p].sub
             e == CommittedReview(cmd[p])
  <2>1. /\ s \in SubIds
        /\ \A f \in reviewEvents : f.sub \in SubIds \ {s}
        /\ reviewEvents' = reviewEvents \cup {e}
        /\ \A t \in SubIds \ {s} : submissions'[t] = submissions[t]
    BY <1>1, <1>4, ReviewRows
  <2>2. e.sub = s /\ e.decision = cmd[p].decision /\ e.draft = DraftOf(s)
    BY DEF CommittedReview
  <2>3. /\ submissions'[s] # None
        /\ submissions'[s].status = e.decision
        /\ submissions'[s].intent.draft = e.draft
    BY <1>4, <2>2, ReviewRows DEF DraftOf
  <2> HIDE DEF s, e
  <2>4. \A t \in SubIds : Stored(t)' /\ submissions'[t].status # "pending" =>
          \E f \in reviewEvents' : f.sub = t
    BY <1>1, <2>1, <2>2 DEF ReviewedExactlyOnce, Stored, StatusOf
  <2>5. \A f \in reviewEvents' :
          /\ Stored(f.sub)'
          /\ f.decision = submissions'[f.sub].status
          /\ f.draft = submissions'[f.sub].intent.draft
    BY <1>1, <2>1, <2>2, <2>3 DEF ReviewedExactlyOnce, Stored, StatusOf, DraftOf
  <2>6. \A f, g \in reviewEvents' : f.sub = g.sub => f = g
    BY <1>1, <2>1, <2>2 DEF ReviewedExactlyOnce
  <2> QED
    BY <2>4, <2>5, <2>6 DEF ReviewedExactlyOnce, StatusOf, DraftOf
<1>5. CASE StorePublication(p)
  BY <1>1, <1>5 DEF StorePublication, ReviewedExactlyOnce, Stored, StatusOf, DraftOf
<1> QED
  BY <1>2, <1>3, <1>4, <1>5, StepStores DEF Stores

LEMMA OnePendingPerRequestStep ==
  ASSUME Inv, NEW p \in Requests, Step(p)
  PROVE  OnePendingPerRequest'
<1>1. OnePendingPerRequest
  BY DEF Inv
<1>2. CASE UNCHANGED tables
  BY <1>1, <1>2 DEF tables, OnePendingPerRequest, Stored, StatusOf
<1>3. ASSUME NEW s \in SubIds, StoreSubmission(p, s)
      PROVE  OnePendingPerRequest'
  <2>1. \A t \in SubIds :
          Stored(t) /\ StatusOf(t) = "pending" => submissions[t].intent # IntentOf(cmd[p])
    BY <1>3, SubmissionRows DEF PendingWith
  <2>2. /\ \A t \in SubIds \ {s} : submissions'[t] = submissions[t]
        /\ submissions'[s].intent = IntentOf(cmd[p])
    BY <1>3, SubmissionRows
  <2> QED
    BY <1>1, <2>1, <2>2 DEF OnePendingPerRequest, Stored, StatusOf
<1>4. CASE StoreReview(p)
  <2>1. /\ \A t \in SubIds \ {cmd[p].sub} : submissions'[t] = submissions[t]
        /\ submissions'[cmd[p].sub].status # "pending"
    BY <1>4, ReviewRows
  <2> QED
    BY <1>1, <2>1 DEF OnePendingPerRequest, Stored, StatusOf
<1>5. CASE StorePublication(p)
  BY <1>1, <1>5 DEF StorePublication, OnePendingPerRequest, Stored, StatusOf
<1> QED
  BY <1>2, <1>3, <1>4, <1>5, StepStores DEF Stores

LEMMA OneRulePerCodeStep ==
  ASSUME Inv, NEW p \in Requests, Step(p)
  PROVE  OneRulePerCode'
<1>1. OneRulePerCode
  BY DEF Inv
<1>2. CASE UNCHANGED rules
  BY <1>1, <1>2 DEF OneRulePerCode
<1>3. CASE StorePublication(p)
  <2>1. PICK r \in RuleIds : /\ \A q \in RuleIds \ {r} : rules'[q] = rules[q]
                             /\ rules'[r].draft = DraftOf(cmd[p].sub)
    BY <1>3, PublicationRule
  <2>2. \A q \in RuleIds : rules[q] # None =>
          rules[q].draft.code # DraftOf(cmd[p].sub).code
    BY <1>3, PublicationRows DEF CodeTaken
  <2> QED
    BY <1>1, <2>1, <2>2 DEF OneRulePerCode
<1> QED
  BY <1>2, <1>3, StepStores DEF Stores, StoreSubmission, StoreReview, tables

\* An old publication event keeps everything it is traced to.
LEMMA OldPublications ==
  ASSUME Inv, NEW p \in Requests, Step(p), NEW e \in publicationEvents
  PROVE  /\ e.review \in reviewEvents'
         /\ ApprovesDraft(e.review, e.sub)'
         /\ submissions'[e.sub].intent.kind = "create"
         /\ rules'[e.rule] # None
         /\ rules'[e.rule].source = e.sub
         /\ rules'[e.rule].draft = DraftOf(e.sub)'
         /\ \E v \in ruleVersions' : LinkedVersion(e, v)' /\ MatchesVersion(e.rule, v)'
<1>1. e.sub \in SubIds /\ e.rule \in RuleIds /\ e.review \in reviewEvents
  BY DEF Inv, TypeOK, PublicationEvent, PublicationsTraceable
<1>2. /\ ApprovesDraft(e.review, e.sub)
      /\ submissions[e.sub].intent.kind = "create"
      /\ rules[e.rule] # None
      /\ rules[e.rule].source = e.sub
      /\ rules[e.rule].draft = DraftOf(e.sub)
  BY DEF Inv, PublicationsTraceable
<1>3. PICK v \in ruleVersions : LinkedVersion(e, v) /\ MatchesVersion(e.rule, v)
  BY DEF Inv, PublicationsTraceable
<1>4. Stored(e.sub)
  BY <1>1, <1>2 DEF Inv, ReviewedExactlyOnce, ApprovesDraft
<1>5. submissions'[e.sub].intent = submissions[e.sub].intent
  BY <1>1, <1>4, SubmissionSteps
<1>6. rules'[e.rule] = rules[e.rule]
  BY <1>1, <1>2, StepGrows DEF Grown
<1>7. e.review \in reviewEvents' /\ v \in ruleVersions'
  BY <1>1, StepGrows DEF Grown
<1> QED
  BY <1>2, <1>3, <1>5, <1>6, <1>7 DEF ApprovesDraft, DraftOf, LinkedVersion, MatchesVersion

LEMMA PublicationsTraceableStep ==
  ASSUME Inv, NEW p \in Requests, Step(p)
  PROVE  PublicationsTraceable'
<1>1. CASE UNCHANGED <<publicationEvents, rules>>
  <2>1. /\ \A e1, e2 \in publicationEvents : e1.sub = e2.sub => e1 = e2
        /\ \A r \in RuleIds : rules[r] # None =>
             rules[r].source = None \/ \E e \in publicationEvents : e.rule = r
    BY DEF Inv, PublicationsTraceable
  <2> QED
    BY <1>1, <2>1, OldPublications DEF PublicationsTraceable
<1>2. CASE StorePublication(p)
  <2>1. PICK s \in SubIds :
          /\ s = cmd[p].sub
          /\ submissions[s].intent.kind = "create"
          /\ EventsOf(s) = {}
          /\ UNCHANGED <<submissions, reviewEvents>>
    BY <1>2, PublicationRows
  <2>2. PICK r \in RuleIds, review \in reviewEvents :
          LET e == NewEvent(cmd[p], review, r)
          IN /\ ApprovesDraft(review, s)
             /\ \A q \in RuleIds \ {r} : rules'[q] = rules[q]
             /\ rules'[r] # None
             /\ rules'[r].draft = DraftOf(s)
             /\ rules'[r].version = 1
             /\ rules'[r].source = s
             /\ publicationEvents' = publicationEvents \cup {e}
             /\ ruleVersions' = ruleVersions \cup {NewVersion(r, e)}
    BY <1>2, <2>1, PublicationRule
  <2>3. PICK event : event = NewEvent(cmd[p], review, r)
    OBVIOUS
  <2>4. PICK v : v = NewVersion(r, event)
    OBVIOUS
  <2>5. event.sub = s /\ event.review = review /\ event.rule = r
    BY <2>1, <2>3 DEF NewEvent
  <2>6. /\ v.rule = r
         /\ v.version = 1
         /\ v.draft = DraftOf(s)
         /\ v.source = "controlled_publication"
         /\ v.event = event
    BY <2>4, <2>5, PublishedIsApproved DEF NewVersion
  <2>7. DraftOf(s)' = DraftOf(s)
    BY <2>1 DEF DraftOf
  <2>8. \A e \in publicationEvents : e.sub # s
    BY <2>1 DEF EventsOf
  <2>9. /\ event.review \in reviewEvents'
        /\ ApprovesDraft(event.review, event.sub)'
        /\ submissions'[event.sub].intent.kind = "create"
        /\ rules'[event.rule] # None
        /\ rules'[event.rule].source = event.sub
        /\ rules'[event.rule].draft = DraftOf(event.sub)'
    BY <2>1, <2>2, <2>5, <2>7 DEF ApprovesDraft, DraftOf
  <2>10. v \in ruleVersions' /\ LinkedVersion(event, v)' /\ MatchesVersion(event.rule, v)'
    BY <2>2, <2>3, <2>4, <2>5, <2>6, <2>7 DEF LinkedVersion, MatchesVersion
  <2>11. \A e1, e2 \in publicationEvents' : e1.sub = e2.sub => e1 = e2
    BY <2>2, <2>3, <2>5, <2>8 DEF Inv, PublicationsTraceable
  <2>12. \A q \in RuleIds : rules'[q] # None =>
           rules'[q].source = None \/ \E e \in publicationEvents' : e.rule = q
    BY <2>2, <2>3, <2>5 DEF Inv, PublicationsTraceable
  <2>13. publicationEvents' = publicationEvents \cup {event}
    BY <2>2, <2>3
  <2> QED
    BY <2>9, <2>10, <2>11, <2>12, <2>13, OldPublications DEF PublicationsTraceable
<1> QED
  BY <1>1, <1>2, StepStores DEF Stores, StoreSubmission, StoreReview, tables

-----------------------------------------------------------------------------
(***************************************************************************)
(* Where a handler goes and what it knows there.                           *)
(***************************************************************************)

\* The part of TypeOK about the handlers.
HandlersTyped ==
  /\ pc \in [Requests -> Labels]
  /\ cmd \in [Requests -> Command \cup {None}]
  /\ seen \in [Requests -> Statuses \cup {None}]
  /\ reply \in [Requests -> Reply \cup {None}]

\* A step of p leaves the other handlers alone.
Alone(p) ==
  \A q \in Requests \ {p} : pc'[q] = pc[q] /\ cmd'[q] = cmd[q] /\ seen'[q] = seen[q]

LEMMA GotoTyped ==
  ASSUME Inv, NEW p \in Requests, NEW l \in Labels, Goto(p, l),
         \/ UNCHANGED seen
         \/ \E s \in SubIds : Stored(s) /\ Read(p, s)
  PROVE  /\ HandlersTyped'
         /\ Alone(p)
         /\ pc'[p] = l
         /\ cmd' = cmd
<1>1. TypeOK
  BY DEF Inv
<1>2. pc' = [pc EXCEPT ![p] = l] /\ cmd' = cmd /\ reply' = reply
  BY DEF Goto
<1>3. /\ seen' \in [Requests -> Statuses \cup {None}]
      /\ \A q \in Requests \ {p} : seen'[q] = seen[q]
  <2>1. CASE UNCHANGED seen
    BY <1>1, <2>1 DEF TypeOK
  <2>2. ASSUME NEW s \in SubIds, Stored(s), Read(p, s)
        PROVE  <1>3!1 /\ <1>3!2
    <3>1. StatusOf(s) \in Statuses
      BY <1>1, <2>2, SubmissionType
    <3> QED
      BY <1>1, <2>2, <3>1 DEF Read, TypeOK
  <2> QED
    BY <2>1, <2>2
<1> QED
  BY <1>1, <1>2, <1>3 DEF HandlersTyped, Alone, TypeOK

LEMMA AnswerTyped ==
  ASSUME Inv, NEW p \in Requests, NEW o \in Outcomes, NEW s \in SubIds \cup {None},
         Answer(p, o, s)
  PROVE  /\ HandlersTyped'
         /\ Alone(p)
         /\ Located(p)'
         /\ pc'[p] = "idle"
<1>1. TypeOK
  BY DEF Inv
<1>2. [outcome |-> o, sub |-> s] \in Reply
  BY DEF Reply
<1>3. /\ pc' = [pc EXCEPT ![p] = "idle"]
      /\ reply' = [reply EXCEPT ![p] = [outcome |-> o, sub |-> s]]
      /\ seen' = [seen EXCEPT ![p] = None]
      /\ cmd' = cmd
  BY DEF Answer
<1>4. HandlersTyped'
  BY <1>1, <1>2, <1>3 DEF HandlersTyped, TypeOK, Labels
<1>5. pc'[p] = "idle" /\ Alone(p)
  BY <1>1, <1>3 DEF TypeOK, Alone
<1> QED
  BY <1>4, <1>5 DEF Located, Submitting, Reviewing, Publishing, Approved

LEMMA RefuseTyped ==
  ASSUME Inv, NEW p \in Requests, NEW o \in Outcomes, Refuse(p, o)
  PROVE  /\ HandlersTyped'
         /\ Alone(p)
         /\ Located(p)'
         /\ pc'[p] = "idle"
BY AnswerTyped DEF Refuse

\* What a handler knows when it runs a statement of a submission, a review or a
\* publication.
LEMMA Knows ==
  ASSUME Inv, NEW p \in Requests
  PROVE  /\ pc[p] \in Submitting => cmd[p] \in CreateCommand \cup ReviseCommand
         /\ pc[p] = "base" => cmd[p] \in ReviseCommand
         /\ pc[p] \in Submitting \ {"base"} /\ cmd[p] \in ReviseCommand
              => rules[cmd[p].target] # None
         /\ pc[p] \in Reviewing => cmd[p] \in ReviewCommand /\ cmd[p].sub \in SubIds
         /\ pc[p] \in Reviewing \ {"review_read"} => Stored(cmd[p].sub)
         /\ pc[p] \in Publishing => cmd[p] \in PublishCommand /\ cmd[p].sub \in SubIds
         /\ pc[p] \in Publishing \ {"guard", "publish_read"} => Stored(cmd[p].sub)
         /\ pc[p] = "publish_event" /\ seen[p] = "approved"
              => StatusOf(cmd[p].sub) = "approved"
         /\ pc[p] \in Approved => StatusOf(cmd[p].sub) = "approved"
BY DEF Inv, AllLocated, Located, ReviewCommand, PublishCommand

Moved(p) == HandlersTyped' /\ Alone(p) /\ Located(p)'

LEMMA SubmitMoves ==
  ASSUME Inv, NEW p \in Requests,
         \/ RevisionBase(p) \/ LookupPending(p) \/ ValidateCreate(p)
         \/ ValidateCreateUncounted(p) \/ InsertSubmission(p) \/ InsertCollides(p)
         \/ InsertFails(p) \/ InsertUnheard(p) \/ LookupWinner(p)
  PROVE  Moved(p)
<1> USE DEF At, Submitting, Reviewing, Publishing, Approved, Labels, Outcomes, Moved
<1>1. TypeOK
  BY DEF Inv
<1>2. CASE RevisionBase(p)
  <2>1. CASE \E o \in Outcomes : Refuse(p, o)
    BY <2>1, RefuseTyped
  <2>2. CASE rules[cmd[p].target] # None /\ Goto(p, "lookup") /\ UNCHANGED <<seen, rules>>
    <3>1. HandlersTyped' /\ Alone(p) /\ pc'[p] = "lookup" /\ cmd' = cmd
      BY <2>2, GotoTyped
    <3>2. cmd[p] \in ReviseCommand
      BY <1>2, Knows DEF RevisionBase
    <3> QED
      BY <2>2, <3>1, <3>2 DEF Located
  <2> QED
    BY <1>2, <2>1, <2>2 DEF RevisionBase, tables
<1>3. CASE LookupPending(p)
  <2>1. CASE \E s \in PendingWith(IntentOf(cmd[p])) : Answer(p, "replayed", s)
    BY <2>1, AnswerTyped DEF PendingWith
  <2>2. ASSUME NEW l \in Labels, l = IF cmd[p].op = "create" THEN "validate" ELSE "insert",
               Goto(p, l), UNCHANGED <<seen, rules>>
        PROVE  Moved(p)
    <3>1. HandlersTyped' /\ Alone(p) /\ pc'[p] = l /\ cmd' = cmd
      BY <2>2, GotoTyped
    <3>2. /\ cmd[p] \in CreateCommand \cup ReviseCommand
          /\ cmd[p] \in ReviseCommand => rules[cmd[p].target] # None
      BY <1>3, Knows DEF LookupPending
    <3> QED
      BY <2>2, <3>1, <3>2 DEF Located
  <2> QED
    BY <1>3, <2>1, <2>2 DEF LookupPending, tables
<1>4. CASE ValidateCreate(p) \/ ValidateCreateUncounted(p)
  <2>1. CASE \E o \in Outcomes : Refuse(p, o)
    BY <2>1, RefuseTyped
  <2>2. CASE Goto(p, "insert") /\ UNCHANGED <<seen, rules>>
    <3>1. HandlersTyped' /\ Alone(p) /\ pc'[p] = "insert" /\ cmd' = cmd
      BY <2>2, GotoTyped
    <3>2. /\ cmd[p] \in CreateCommand \cup ReviseCommand
          /\ cmd[p] \in ReviseCommand => rules[cmd[p].target] # None
      BY <1>4, Knows DEF ValidateCreate, ValidateCreateUncounted
    <3> QED
      BY <2>2, <3>1, <3>2 DEF Located
  <2> QED
    BY <1>4, <2>1, <2>2 DEF ValidateCreate, ValidateCreateUncounted, tables
<1>5. CASE InsertSubmission(p)
  BY <1>5, AnswerTyped DEF InsertSubmission
<1>6. CASE InsertCollides(p) \/ InsertFails(p) \/ InsertUnheard(p)
  <2>1. At(p, "insert") /\ Goto(p, "winner") /\ UNCHANGED <<seen, rules>>
    BY <1>6 DEF InsertCollides, InsertFails, InsertUnheard, StoreSubmission, tables
  <2>2. HandlersTyped' /\ Alone(p) /\ pc'[p] = "winner" /\ cmd' = cmd
    BY <2>1, GotoTyped
  <2>3. /\ cmd[p] \in CreateCommand \cup ReviseCommand
        /\ cmd[p] \in ReviseCommand => rules[cmd[p].target] # None
    BY <2>1, Knows
  <2> QED
    BY <2>1, <2>2, <2>3 DEF Located
<1>7. CASE LookupWinner(p)
  BY <1>7, AnswerTyped, RefuseTyped DEF LookupWinner, PendingWith
<1> QED
  BY <1>2, <1>3, <1>4, <1>5, <1>6, <1>7

LEMMA ReviewGoto ==
  ASSUME Inv, NEW p \in Requests, pc[p] \in Reviewing, Stored(cmd[p].sub),
         NEW l \in Reviewing, Goto(p, l), UNCHANGED submissions,
         UNCHANGED seen \/ Read(p, cmd[p].sub)
  PROVE  Moved(p)
<1>1. cmd[p] \in ReviewCommand /\ cmd[p].sub \in SubIds
  BY Knows
<1>2. HandlersTyped' /\ Alone(p) /\ pc'[p] = l /\ cmd' = cmd
  BY <1>1, GotoTyped DEF Labels, Reviewing
<1> QED
  BY <1>1, <1>2
  DEF Moved, Located, Stored, Submitting, Reviewing, Publishing, Approved

LEMMA ReviewMoves ==
  ASSUME Inv, NEW p \in Requests,
         \/ ReviewRead(p) \/ ReviewValidate(p) \/ ReviewCAS(p) \/ ReviewCommit(p)
         \/ ReviewReread(p) \/ ReviewResolve(p) \/ ReviewUnheard(p)
  PROVE  Moved(p)
<1> USE DEF At, Reviewing, Outcomes
<1>1. pc[p] \in Reviewing /\ cmd[p].sub \in SubIds
  BY Knows DEF ReviewRead, ReviewValidate, ReviewCAS, ReviewCommit, ReviewReread,
               ReviewResolve, ReviewUnheard, StoreReview
<1>2. pc[p] # "review_read" => Stored(cmd[p].sub)
  BY <1>1, Knows
<1>3. CASE \E o \in Outcomes, s \in SubIds \cup {None} : Answer(p, o, s)
  BY <1>3, AnswerTyped DEF Moved
<1>4. CASE ReviewRead(p)
  BY <1>4, <1>1, <1>3, ReviewGoto DEF ReviewRead, Refuse, tables
<1>5. CASE ReviewValidate(p)
  <2>1. CASE \E o \in Outcomes : Refuse(p, o)
    BY <2>1, <1>3 DEF Refuse
  <2>2. CASE Goto(p, "review_cas") /\ UNCHANGED seen
    BY <2>2, <1>1, <1>2, <1>5, ReviewGoto DEF ReviewValidate, tables
  <2> QED
    BY <1>5, <2>1, <2>2 DEF ReviewValidate
<1>6. CASE ReviewCAS(p)
  BY <1>6, <1>1, <1>2, ReviewGoto DEF ReviewCAS, tables
<1>7. CASE ReviewCommit(p)
  BY <1>7, <1>1, <1>3 DEF ReviewCommit
<1>8. CASE ReviewReread(p)
  BY <1>8, <1>1, <1>2, ReviewGoto DEF ReviewReread, tables
<1>9. CASE ReviewResolve(p)
  BY <1>9, <1>1, <1>3 DEF ReviewResolve, Refuse
<1>10. CASE ReviewUnheard(p)
  BY <1>10, <1>3 DEF ReviewUnheard, Refuse
<1> QED
  BY <1>4, <1>5, <1>6, <1>7, <1>8, <1>9, <1>10

LEMMA PublishGoto ==
  ASSUME Inv, NEW p \in Requests, pc[p] \in Publishing,
         NEW l \in Publishing, Goto(p, l), UNCHANGED submissions,
         UNCHANGED seen \/ Read(p, cmd[p].sub),
         l \notin {"guard", "publish_read"} => Stored(cmd[p].sub),
         Read(p, cmd[p].sub) => Stored(cmd[p].sub),
         l = "publish_event" => Read(p, cmd[p].sub),
         l \in Approved => StatusOf(cmd[p].sub) = "approved"
  PROVE  Moved(p)
<1>1. cmd[p] \in PublishCommand /\ cmd[p].sub \in SubIds
  BY Knows
<1>2. HandlersTyped' /\ Alone(p) /\ pc'[p] = l /\ cmd' = cmd
  BY <1>1, GotoTyped DEF Labels, Publishing
<1>3. Read(p, cmd[p].sub) => seen'[p] = StatusOf(cmd[p].sub)
  BY DEF Read, Inv, TypeOK
<1> QED
  BY <1>1, <1>2, <1>3
  DEF Moved, Located, Stored, StatusOf, Submitting, Reviewing, Publishing, Approved

LEMMA PublishMoves ==
  ASSUME Inv, NEW p \in Requests,
         \/ PublicationGuard(p) \/ PublishRead(p) \/ PublishLookupEvent(p)
         \/ PublishSource(p) \/ PublishValidate(p) \/ PublishRecheck(p)
         \/ PublishInsert(p) \/ PublishCommit(p) \/ PublishInsertFailed(p)
         \/ PublishResolve(p) \/ PublicationUnheard(p) \/ PublishInsertFails(p)
  PROVE  Moved(p)
<1> USE DEF At, Publishing, Approved, Outcomes
<1>1. pc[p] \in Publishing /\ cmd[p].sub \in SubIds
  BY Knows DEF PublicationGuard, PublishRead, PublishLookupEvent, PublishSource,
               PublishValidate, PublishRecheck, PublishInsert, PublishCommit,
               PublishInsertFailed, PublishResolve, PublicationUnheard,
               PublishInsertFails, StorePublication
<1>2. /\ pc[p] \notin {"guard", "publish_read"} => Stored(cmd[p].sub)
      /\ pc[p] = "publish_event" /\ seen[p] = "approved"
           => StatusOf(cmd[p].sub) = "approved"
      /\ pc[p] \in Approved => StatusOf(cmd[p].sub) = "approved"
  BY <1>1, Knows
<1>3. CASE \E o \in Outcomes, s \in SubIds \cup {None} : Answer(p, o, s)
  BY <1>3, AnswerTyped DEF Moved
<1>4. CASE PublicationGuard(p)
  <2>1. CASE Goto(p, "publish_read") /\ UNCHANGED seen
    <3>1. HandlersTyped' /\ Alone(p) /\ pc'[p] = "publish_read" /\ cmd' = cmd
      BY <2>1, GotoTyped DEF Labels
    <3>2. cmd[p] \in PublishCommand
      BY <1>1, Knows
    <3> QED
      BY <3>1, <3>2 DEF Moved, Located, Submitting, Reviewing
  <2> QED
    BY <1>4, <2>1, <1>3 DEF PublicationGuard, Refuse
<1>5. CASE PublishRead(p)
  BY <1>5, <1>1, <1>3, PublishGoto DEF PublishRead, Refuse, tables
<1>6. CASE PublishLookupEvent(p)
  BY <1>6, <1>1, <1>2, <1>3, PublishGoto DEF PublishLookupEvent, Refuse, tables
<1>7. CASE PublishSource(p)
  BY <1>7, <1>1, <1>2, <1>3, PublishGoto DEF PublishSource, Refuse, tables
<1>8. CASE PublishValidate(p)
  BY <1>8, <1>1, <1>2, PublishGoto DEF PublishValidate, tables
<1>9. CASE PublishRecheck(p)
  BY <1>9, <1>1, <1>2, <1>3, PublishGoto DEF PublishRecheck, tables
<1>10. CASE PublishInsert(p)
  BY <1>10, <1>1, <1>2, PublishGoto DEF PublishInsert, tables
<1>11. CASE PublishCommit(p)
  BY <1>11, <1>1, <1>3 DEF PublishCommit
<1>12. CASE PublishInsertFailed(p)
  BY <1>12, <1>1, <1>2, <1>3, PublishGoto DEF PublishInsertFailed, tables
<1>13. CASE PublishResolve(p)
  BY <1>13, <1>1, <1>3 DEF PublishResolve
<1>14. CASE PublicationUnheard(p)
  BY <1>14, <1>3 DEF PublicationUnheard, Refuse
<1>15. CASE PublishInsertFails(p)
  BY <1>15, <1>1, <1>2, PublishGoto DEF PublishInsertFails, tables
<1> QED
  BY <1>4, <1>5, <1>6, <1>7, <1>8, <1>9, <1>10, <1>11, <1>12, <1>13, <1>14, <1>15

LEMMA StepMoves ==
  ASSUME Inv, NEW p \in Requests, Step(p)
  PROVE  Moved(p)
<1>1. ASSUME NEW c \in Commands, Start(p, c)
      PROVE  Moved(p)
  <2>1. c \in Command
    BY ConstantsAssumption
  <2> DEFINE l == FirstLabel(c.op)
  <2>2. l \in {"lookup", "base", "review_read", "guard"}
    BY <2>1, CommandKinds DEF FirstLabel
  <2>3. /\ l = "lookup" => c \in CreateCommand
        /\ l = "base" => c \in ReviseCommand
        /\ l = "review_read" => c \in ReviewCommand
        /\ l = "guard" => c \in PublishCommand
    BY <2>1, CommandKinds DEF FirstLabel
  <2>4. /\ pc' = [pc EXCEPT ![p] = l]
        /\ cmd' = [cmd EXCEPT ![p] = c]
        /\ reply' = [reply EXCEPT ![p] = None]
        /\ UNCHANGED seen
    BY <1>1 DEF Start
  <2> HIDE DEF l
  <2>5. HandlersTyped' /\ Alone(p) /\ pc'[p] = l /\ cmd'[p] = c
    BY <2>1, <2>2, <2>4 DEF Inv, TypeOK, HandlersTyped, Alone, Labels
  <2>6. c \in CreateCommand => c \notin ReviseCommand
    BY DEF CreateCommand, ReviseCommand
  <2> QED
    BY <2>2, <2>3, <2>5, <2>6
    DEF Moved, Located, Submitting, Reviewing, Publishing, Approved
<1>2. CASE Fail(p)
  BY <1>2, RefuseTyped DEF Fail, Moved, Outcomes
<1>3. CASE Prompt(p)
  BY <1>3, SubmitMoves, ReviewMoves, PublishMoves DEF Prompt
<1>4. CASE Waiting(p)
  BY <1>4, SubmitMoves, ReviewMoves, PublishMoves DEF Waiting
<1>5. CASE Fault(p)
  BY <1>5, <1>2, SubmitMoves, ReviewMoves, PublishMoves DEF Fault
<1> QED
  BY <1>1, <1>3, <1>4, <1>5 DEF Step

-----------------------------------------------------------------------------
(***************************************************************************)
(* Locks.  A handler takes one on its way to a commit and gives it back    *)
(* when the transaction ends; no other statement touches them.             *)
(***************************************************************************)
CommitLabels == {"review_commit", "publish_commit"}

LeavesLocks(p) ==
  /\ UNCHANGED locks
  /\ pc[p] \notin CommitLabels
  /\ pc'[p] \notin CommitLabels

EndsTransaction(p) == Release(p) /\ pc'[p] = "idle"

LocksRow(p) ==
  /\ cmd[p] \in ReviewCommand
  /\ rowLock[cmd[p].sub] = None
  /\ StatusOf(cmd[p].sub) = "pending"
  /\ rowLock' = [rowLock EXCEPT ![cmd[p].sub] = p]
  /\ pc[p] \notin CommitLabels
  /\ pc'[p] = "review_commit"
  /\ UNCHANGED <<tables, codeLock, cmd>>

LocksCode(p) ==
  LET code == DraftOf(cmd[p].sub).code
  IN /\ cmd[p] \in PublishCommand
     /\ Stored(cmd[p].sub)
     /\ StatusOf(cmd[p].sub) = "approved"
     /\ codeLock[code] = None
     /\ ~CodeTaken(code)
     /\ codeLock' = [codeLock EXCEPT ![code] = p]
     /\ pc[p] \notin CommitLabels
     /\ pc'[p] = "publish_commit"
     /\ UNCHANGED <<tables, rowLock, cmd>>

LEMMA GoesTo ==
  ASSUME Inv, NEW p \in Requests
  PROVE  /\ \A l \in Labels : Goto(p, l) => pc'[p] = l
         /\ \A o \in Outcomes, s \in SubIds \cup {None} : Answer(p, o, s) => pc'[p] = "idle"
         /\ \A o \in Outcomes : Refuse(p, o) => pc'[p] = "idle"
BY DEF Goto, Answer, Refuse, Inv, TypeOK

LEMMA StepLocks ==
  ASSUME Inv, NEW p \in Requests, Step(p)
  PROVE  LeavesLocks(p) \/ EndsTransaction(p) \/ LocksRow(p) \/ LocksCode(p)
<1> DEFINE Quiet(a) ==
      /\ UNCHANGED locks
      /\ pc[p] = a
      /\ \/ \E l \in Labels \ CommitLabels : Goto(p, l)
         \/ \E o \in Outcomes, s \in SubIds \cup {None} : Answer(p, o, s)
<1>1. ASSUME NEW a \in Labels \ CommitLabels, Quiet(a)
      PROVE  LeavesLocks(p)
  BY <1>1, GoesTo DEF LeavesLocks, CommitLabels
<1> HIDE DEF LeavesLocks
<1> USE DEF At, Labels, CommitLabels, Outcomes
<1>2. CASE \E c \in Commands : Start(p, c)
  <2>1. PICK c \in Commands : Start(p, c)
    BY <1>2
  <2>2. FirstLabel(c.op) \in {"lookup", "base", "review_read", "guard"}
    BY CommandKinds, ConstantsAssumption DEF FirstLabel
  <2> QED
    BY <2>1, <2>2 DEF Start, LeavesLocks, Inv, TypeOK
<1>3. CASE RevisionBase(p)
  <2>1. Quiet("base")
    BY <1>3 DEF RevisionBase, Refuse
  <2> QED
    BY <2>1, <1>1
<1>4. CASE LookupPending(p)
  <2>1. Quiet("lookup")
    BY <1>4 DEF LookupPending, PendingWith
  <2> QED
    BY <2>1, <1>1
<1>5. CASE ValidateCreate(p) \/ ValidateCreateUncounted(p)
  <2>1. Quiet("validate")
    BY <1>5 DEF ValidateCreate, ValidateCreateUncounted, Refuse
  <2> QED
    BY <2>1, <1>1
<1>6. CASE InsertSubmission(p) \/ InsertCollides(p) \/ InsertFails(p) \/ InsertUnheard(p)
  <2>1. Quiet("insert")
    BY <1>6 DEF InsertSubmission, InsertCollides, InsertFails, InsertUnheard, StoreSubmission
  <2> QED
    BY <2>1, <1>1
<1>7. CASE LookupWinner(p)
  <2>1. Quiet("winner")
    BY <1>7 DEF LookupWinner, PendingWith, Refuse
  <2> QED
    BY <2>1, <1>1
<1>8. CASE ReviewRead(p) \/ ReviewValidate(p) \/ ReviewReread(p) \/ ReviewResolve(p)
  <2>1. cmd[p].sub \in SubIds
    BY <1>8, Knows DEF ReviewRead, ReviewValidate, ReviewReread, ReviewResolve, Reviewing
  <2>2. CASE ReviewRead(p)
    BY <2>2, <1>1 DEF ReviewRead, Refuse
  <2>3. CASE ReviewValidate(p)
    <3>1. Quiet("review_validate")
      BY <2>3 DEF ReviewValidate, Refuse
    <3> QED
      BY <3>1, <1>1
  <2>4. CASE ReviewReread(p)
    BY <2>4, <1>1 DEF ReviewReread
  <2>5. CASE ReviewResolve(p)
    BY <2>1, <2>5, <1>1 DEF ReviewResolve, Refuse
  <2> QED
    BY <1>8, <2>2, <2>3, <2>4, <2>5
<1>9. CASE ReviewCAS(p)
  <2>1. cmd[p] \in ReviewCommand
    BY <1>9, Knows DEF ReviewCAS, Reviewing
  <2>2. CASE Goto(p, "review_reread") /\ UNCHANGED rowLock
    BY <2>2, <1>1, <1>9 DEF ReviewCAS, locks
  <2>3. CASE Goto(p, "review_commit")
    BY <2>1, <2>3, <1>9, GoesTo DEF ReviewCAS, LocksRow, Goto
  <2> QED
    BY <1>9, <2>2, <2>3 DEF ReviewCAS
<1>10. CASE Fail(p)
  BY <1>10, GoesTo DEF Fail, EndsTransaction
<1>11. CASE ReviewCommit(p) \/ ReviewUnheard(p)
  <2>1. Release(p) /\ cmd[p].sub \in SubIds
    BY <1>11, Knows DEF ReviewCommit, ReviewUnheard, StoreReview, Reviewing
  <2> QED
    BY <2>1, <1>11, GoesTo DEF ReviewCommit, ReviewUnheard, EndsTransaction
<1>12. CASE PublishCommit(p) \/ PublicationUnheard(p)
  <2>1. Release(p) /\ cmd[p].sub \in SubIds
    BY <1>12, Knows DEF PublishCommit, PublicationUnheard, StorePublication, Publishing
  <2> QED
    BY <2>1, <1>12, GoesTo DEF PublishCommit, PublicationUnheard, EndsTransaction
<1>13. CASE PublicationGuard(p) \/ PublishRead(p)
  BY <1>13, <1>1 DEF PublicationGuard, PublishRead, Refuse
<1>14. CASE \/ PublishLookupEvent(p) \/ PublishSource(p) \/ PublishValidate(p)
            \/ PublishInsertFails(p)
  BY <1>14, <1>1
  DEF PublishLookupEvent, PublishSource, PublishValidate, PublishInsertFails, Refuse
<1>15. CASE PublishRecheck(p) \/ PublishInsertFailed(p) \/ PublishResolve(p)
  <2>1. cmd[p].sub \in SubIds
    BY <1>15, Knows DEF PublishRecheck, PublishInsertFailed, PublishResolve, Publishing
  <2> QED
    BY <2>1, <1>15, <1>1 DEF PublishRecheck, PublishInsertFailed, PublishResolve
<1>16. CASE PublishInsert(p)
  <2>1. /\ cmd[p] \in PublishCommand
        /\ Stored(cmd[p].sub)
        /\ StatusOf(cmd[p].sub) = "approved"
    BY <1>16, Knows DEF PublishInsert, Publishing, Approved
  <2>2. CASE Goto(p, "publish_failed") /\ UNCHANGED codeLock
    BY <2>2, <1>1, <1>16 DEF PublishInsert, locks
  <2>3. CASE Goto(p, "publish_commit")
    BY <2>1, <2>3, <1>16, GoesTo DEF PublishInsert, LocksCode, Goto
  <2> QED
    BY <1>16, <2>2, <2>3 DEF PublishInsert
<1> QED
  BY <1>2, <1>3, <1>4, <1>5, <1>6, <1>7, <1>8, <1>9, <1>10, <1>11, <1>12, <1>13,
     <1>14, <1>15, <1>16
  DEF Step, Prompt, Waiting, Fault

\* The two halves of LocksGuardCommits that say who holds a lock, and the two
\* that say what its holder may rely on.
RowLocks == \A s \in SubIds, q \in Requests :
  rowLock[s] = q <=> At(q, "review_commit") /\ cmd[q].sub = s

CodeLocks == \A c \in Codes, q \in Requests :
  codeLock[c] = q <=> At(q, "publish_commit") /\ DraftOf(cmd[q].sub).code = c

ReviewReady(q) ==
  /\ StatusOf(cmd[q].sub) = "pending"
  /\ ~ \E e \in reviewEvents : e.sub = cmd[q].sub

PublicationReady(q) ==
  /\ submissions[cmd[q].sub].intent.kind = "create"
  /\ \E e \in reviewEvents : ApprovesDraft(e, cmd[q].sub)
  /\ EventsOf(cmd[q].sub) = {}
  /\ ~CodeTaken(DraftOf(cmd[q].sub).code)

LEMMA LocksByParts ==
  LocksGuardCommits <=>
    /\ RowLocks
    /\ CodeLocks
    /\ \A q \in Requests : At(q, "review_commit") => ReviewReady(q)
    /\ \A q \in Requests : At(q, "publish_commit") => PublicationReady(q)
BY DEF LocksGuardCommits, RowLocks, CodeLocks, ReviewReady, PublicationReady

LEMMA RowLocksStep ==
  ASSUME Inv, NEW p \in Requests, Step(p)
  PROVE  RowLocks'
<1>1. RowLocks /\ rowLock \in [SubIds -> Requests \cup {None}]
  BY LocksByParts DEF Inv, TypeOK
<1>2. \A q \in Requests \ {p} : pc'[q] = pc[q] /\ cmd'[q] = cmd[q]
  BY StepMoves DEF Moved, Alone
<1>3. CASE LeavesLocks(p) \/ LocksCode(p)
  BY <1>1, <1>2, <1>3 DEF RowLocks, At, LeavesLocks, LocksCode, CommitLabels, locks
<1>4. CASE EndsTransaction(p)
  <2>1. \A s \in SubIds : rowLock'[s] = IF rowLock[s] = p THEN None ELSE rowLock[s]
    BY <1>4 DEF EndsTransaction, Release
  <2> QED
    BY <1>1, <1>2, <1>4, <2>1, NoneAssumption DEF RowLocks, At, EndsTransaction
<1>5. CASE LocksRow(p)
  <2>1. cmd[p].sub \in SubIds /\ cmd' = cmd
    BY <1>5 DEF LocksRow, ReviewCommand
  <2>2. rowLock'[cmd[p].sub] = p
    BY <1>1, <1>5, <2>1 DEF LocksRow
  <2>3. \A s \in SubIds \ {cmd[p].sub} : rowLock'[s] = rowLock[s]
    BY <1>1, <1>5, <2>1 DEF LocksRow
  <2>4. \A s \in SubIds : rowLock[s] # p
    BY <1>1, <1>5 DEF RowLocks, LocksRow, At, CommitLabels
  <2>5. \A q \in Requests \ {p} : ~(At(q, "review_commit") /\ cmd[q].sub = cmd[p].sub)
    BY <1>1, <1>5, <2>1, NoneAssumption DEF RowLocks, LocksRow
  <2>6. pc'[p] = "review_commit"
    BY <1>5 DEF LocksRow
  <2> QED
    BY <1>1, <1>2, <2>1, <2>2, <2>3, <2>4, <2>5, <2>6 DEF RowLocks, At
<1> QED
  BY <1>3, <1>4, <1>5, StepLocks

\* The draft of a submission somebody is publishing stays.
LEMMA PublishedDraftStays ==
  ASSUME Inv, NEW p \in Requests, Step(p), NEW q \in Requests, At(q, "publish_commit"),
         cmd'[q] = cmd[q]
  PROVE  /\ cmd[q].sub \in SubIds
         /\ submissions'[cmd'[q].sub].intent = submissions[cmd[q].sub].intent
         /\ DraftOf(cmd[q].sub)' = DraftOf(cmd[q].sub)
         /\ DraftOf(cmd[q].sub).code \in Codes
<1>1. cmd[q].sub \in SubIds /\ Stored(cmd[q].sub)
  BY Knows DEF At, Publishing
<1>2. submissions'[cmd[q].sub].intent = submissions[cmd[q].sub].intent
  BY <1>1, SubmissionSteps
<1> QED
  BY <1>1, <1>2, SubmissionType DEF DraftOf, Inv

LEMMA CodeLocksStep ==
  ASSUME Inv, NEW p \in Requests, Step(p)
  PROVE  CodeLocks'
<1>1. CodeLocks /\ codeLock \in [Codes -> Requests \cup {None}]
  BY LocksByParts DEF Inv, TypeOK
<1>2. \A q \in Requests \ {p} : pc'[q] = pc[q] /\ cmd'[q] = cmd[q]
  BY StepMoves DEF Moved, Alone
<1>3. \A q \in Requests \ {p} :
        At(q, "publish_commit") => DraftOf(cmd[q].sub)' = DraftOf(cmd[q].sub)
  BY <1>2, PublishedDraftStays
<1>4. CASE LeavesLocks(p) \/ LocksRow(p)
  BY <1>1, <1>2, <1>3, <1>4 DEF CodeLocks, At, LeavesLocks, LocksRow, CommitLabels, locks
<1>5. CASE EndsTransaction(p)
  <2>1. \A c \in Codes : codeLock'[c] = IF codeLock[c] = p THEN None ELSE codeLock[c]
    BY <1>5 DEF EndsTransaction, Release
  <2> QED
    BY <1>1, <1>2, <1>3, <1>5, <2>1, NoneAssumption DEF CodeLocks, At, EndsTransaction
<1>6. CASE LocksCode(p)
  <2> DEFINE code == DraftOf(cmd[p].sub).code
  <2>1. cmd[p].sub \in SubIds /\ Stored(cmd[p].sub) /\ cmd' = cmd
    BY <1>6 DEF LocksCode, PublishCommand
  <2>2. code \in Codes
    BY <2>1, SubmissionType DEF Inv
  <2>3. code' = code
    BY <1>6, <2>1 DEF LocksCode, tables, DraftOf
  <2>4. codeLock[code] = None /\ codeLock' = [codeLock EXCEPT ![code] = p]
    BY <1>6 DEF LocksCode
  <2>5. \A c \in Codes : codeLock[c] # p
    BY <1>1, <1>6 DEF CodeLocks, LocksCode, At, CommitLabels
  <2>6. \A q \in Requests \ {p} :
          ~(At(q, "publish_commit") /\ DraftOf(cmd[q].sub).code = code)
    BY <1>1, <2>2, <2>4, NoneAssumption DEF CodeLocks
  <2>7. pc'[p] = "publish_commit"
    BY <1>6 DEF LocksCode
  <2> HIDE DEF code
  <2>8. codeLock'[code] = p /\ \A c \in Codes \ {code} : codeLock'[c] = codeLock[c]
    BY <1>1, <2>2, <2>4
  <2>9. \A c \in Codes, q \in Requests \ {p} :
          codeLock'[c] = q <=> At(q, "publish_commit")' /\ DraftOf(cmd[q].sub)'.code = c
    BY <1>1, <1>2, <1>3, <2>2, <2>4, <2>6, <2>8, NoneAssumption DEF CodeLocks, At
  <2>10. \A c \in Codes :
          codeLock'[c] = p <=> At(p, "publish_commit")' /\ DraftOf(cmd[p].sub)'.code = c
    BY <2>2, <2>3, <2>5, <2>7, <2>8 DEF At, code
  <2> QED
    BY <2>9, <2>10 DEF CodeLocks
<1> QED
  BY <1>4, <1>5, <1>6, StepLocks

LEMMA ReviewReadyStep ==
  ASSUME Inv, NEW p \in Requests, Step(p), NEW q \in Requests, At(q, "review_commit")'
  PROVE  ReviewReady(q)'
<1>1. /\ \A r \in Requests : At(r, "review_commit") => ReviewReady(r)
      /\ RowLocks
  BY LocksByParts DEF Inv
<1>2. CASE q = p
  <2>1. LocksRow(p)
    BY <1>2, StepLocks DEF At, LeavesLocks, EndsTransaction, LocksCode, CommitLabels
  <2>2. /\ cmd[p].sub \in SubIds
        /\ StatusOf(cmd[p].sub) = "pending"
        /\ UNCHANGED <<submissions, reviewEvents, cmd>>
    BY <2>1 DEF LocksRow, ReviewCommand, tables
  <2>3. \A e \in reviewEvents : e.decision # "pending" /\ e.decision = StatusOf(e.sub)
    BY DEF Inv, TypeOK, ReviewEvent, Decisions, ReviewedExactlyOnce
  <2> QED
    BY <1>2, <2>2, <2>3 DEF ReviewReady, StatusOf
<1>3. CASE q # p
  <2>1. At(q, "review_commit") /\ cmd'[q] = cmd[q]
    BY <1>3, StepMoves DEF Moved, Alone, At
  <2>2. cmd[q].sub \in SubIds /\ Stored(cmd[q].sub) /\ ReviewReady(q)
    BY <1>1, <2>1, Knows DEF At, Reviewing
  <2>3. /\ submissions'[cmd[q].sub] = submissions[cmd[q].sub]
        /\ \A e \in reviewEvents' : e \in reviewEvents \/ e.sub # cmd[q].sub
    <3>1. CASE UNCHANGED tables
      BY <3>1 DEF tables
    <3>2. ASSUME NEW s \in SubIds, StoreSubmission(p, s)
          PROVE  /\ submissions'[cmd[q].sub] = submissions[cmd[q].sub]
                 /\ \A e \in reviewEvents' : e \in reviewEvents
      BY <2>2, <3>2, SubmissionRows
    <3>3. CASE StoreReview(p)
      <4>1. At(p, "review_commit")
        BY <3>3 DEF StoreReview
      <4>2. cmd[p].sub # cmd[q].sub
        BY <1>1, <1>3, <2>1, <2>2, <4>1 DEF RowLocks
      <4> QED
        BY <2>2, <3>3, <4>2, ReviewRows DEF CommittedReview
    <3>4. CASE StorePublication(p)
      BY <3>4 DEF StorePublication
    <3> QED
      BY <3>1, <3>2, <3>3, <3>4, StepStores DEF Stores
  <2> QED
    BY <2>1, <2>2, <2>3 DEF ReviewReady, StatusOf
<1> QED
  BY <1>2, <1>3

\* The code of an approved submission is free only when nobody has published it
\* and it is no revision.
LEMMA FreeCode ==
  ASSUME Inv, NEW s \in SubIds, Stored(s), StatusOf(s) = "approved",
         ~CodeTaken(DraftOf(s).code)
  PROVE  /\ submissions[s].intent.kind = "create"
         /\ \E e \in reviewEvents : ApprovesDraft(e, s)
         /\ EventsOf(s) = {}
<1>1. submissions[s].intent.kind = "create"
  <2>1. submissions[s].intent \in Intent
    BY SubmissionType DEF Inv
  <2>2. CASE submissions[s].intent \in RevisionIntent
    <3>1. /\ submissions[s].intent.target \in RuleIds
          /\ submissions[s].intent.kind = "revision"
      BY <2>2 DEF RevisionIntent
    <3> QED
      BY <3>1 DEF Inv, RevisionTargets, CodeTaken, DraftOf
  <2> QED
    BY <2>1, <2>2 DEF Intent, CreateIntent
<1>2. \E e \in reviewEvents : ApprovesDraft(e, s)
  BY DEF Inv, ReviewedExactlyOnce, ApprovesDraft
<1>3. EventsOf(s) = {}
  BY DEF Inv, TypeOK, PublicationEvent, PublicationsTraceable, EventsOf, CodeTaken
<1> QED
  BY <1>1, <1>2, <1>3

LEMMA PublicationReadyStep ==
  ASSUME Inv, NEW p \in Requests, Step(p), NEW q \in Requests, At(q, "publish_commit")'
  PROVE  PublicationReady(q)'
<1>1. /\ \A r \in Requests : At(r, "publish_commit") => PublicationReady(r)
      /\ CodeLocks
  BY LocksByParts DEF Inv
<1>2. CASE q = p
  <2>1. LocksCode(p)
    BY <1>2, StepLocks DEF At, LeavesLocks, EndsTransaction, LocksRow, CommitLabels
  <2>2. /\ cmd[p].sub \in SubIds
        /\ Stored(cmd[p].sub)
        /\ StatusOf(cmd[p].sub) = "approved"
        /\ ~CodeTaken(DraftOf(cmd[p].sub).code)
        /\ UNCHANGED <<tables, cmd>>
    BY <2>1 DEF LocksCode, PublishCommand
  <2>3. PublicationReady(p)
    BY <2>2, FreeCode DEF PublicationReady
  <2> QED
    BY <1>2, <2>2, <2>3
    DEF PublicationReady, tables, ApprovesDraft, EventsOf, CodeTaken, DraftOf
<1>3. CASE q # p
  <2>1. At(q, "publish_commit") /\ cmd'[q] = cmd[q]
    BY <1>3, StepMoves DEF Moved, Alone, At
  <2>2. PICK s \in SubIds : s = cmd[q].sub
    BY <2>1, PublishedDraftStays
  <2>3. /\ submissions'[s].intent = submissions[s].intent
        /\ DraftOf(s)' = DraftOf(s)
        /\ DraftOf(s).code \in Codes
        /\ cmd'[q].sub = s
    BY <2>1, <2>2, PublishedDraftStays DEF DraftOf
  <2>4. /\ submissions[s].intent.kind = "create"
        /\ \E e \in reviewEvents : ApprovesDraft(e, s)
        /\ EventsOf(s) = {}
        /\ ~CodeTaken(DraftOf(s).code)
    BY <1>1, <2>1, <2>2 DEF PublicationReady
  <2>5. \E e \in reviewEvents' : ApprovesDraft(e, s)'
    BY <2>3, <2>4, StepGrows DEF Grown, ApprovesDraft
  <2>6. EventsOf(s)' = {} /\ ~CodeTaken(DraftOf(s).code)'
    <3>1. CASE UNCHANGED <<publicationEvents, rules>>
      BY <2>3, <2>4, <3>1 DEF EventsOf, CodeTaken
    <3>2. CASE StorePublication(p)
      <4>1. At(p, "publish_commit")
        BY <3>2 DEF StorePublication
      <4>2. DraftOf(cmd[p].sub).code # DraftOf(s).code
        BY <1>1, <1>3, <2>1, <2>2, <2>3, <4>1 DEF CodeLocks
      <4>3. PICK r \in RuleIds, review \in reviewEvents :
              /\ \A x \in RuleIds \ {r} : rules'[x] = rules[x]
              /\ rules'[r].draft = DraftOf(cmd[p].sub)
              /\ publicationEvents' = publicationEvents \cup {NewEvent(cmd[p], review, r)}
        BY <3>2, PublicationRule
      <4>4. NewEvent(cmd[p], review, r).sub # s
        BY <4>2 DEF NewEvent
      <4>5. EventsOf(s)' = {}
        BY <2>4, <4>3, <4>4 DEF EventsOf
      <4>6. ~CodeTaken(DraftOf(s).code)'
        BY <2>3, <2>4, <4>2, <4>3 DEF CodeTaken
      <4> QED
        BY <4>5, <4>6
    <3> QED
      BY <3>1, <3>2, StepStores DEF Stores, StoreSubmission, StoreReview, tables
  <2> QED
    BY <2>3, <2>4, <2>5, <2>6 DEF PublicationReady, EventsOf, ApprovesDraft, DraftOf, CodeTaken
<1> QED
  BY <1>2, <1>3

-----------------------------------------------------------------------------
(***************************************************************************)
(* The invariant.                                                          *)
(***************************************************************************)

LEMMA LocatedStep ==
  ASSUME Inv, NEW p \in Requests, Step(p)
  PROVE  AllLocated'
<1>1. Located(p)'
  BY StepMoves DEF Moved
<1>2. ASSUME NEW q \in Requests \ {p}
      PROVE  Located(q)'
  <2>1. Located(q) /\ pc'[q] = pc[q] /\ cmd'[q] = cmd[q] /\ seen'[q] = seen[q]
    BY StepMoves DEF Moved, Alone, Inv, AllLocated
  <2>2. \A s \in SubIds : Stored(s) =>
          /\ Stored(s)'
          /\ StatusOf(s) = "approved" => submissions'[s].status = "approved"
    BY StepGrows DEF Grown, Stored, StatusOf
  <2>3. \A r \in RuleIds : rules[r] # None => rules'[r] # None
    BY StepGrows DEF Grown
  <2>4. /\ cmd[q] \in ReviseCommand => cmd[q].target \in RuleIds
        /\ cmd[q] \in ReviewCommand \cup PublishCommand => cmd[q].sub \in SubIds
    BY DEF ReviseCommand, ReviewCommand, PublishCommand
  <2> QED
    BY <2>1, <2>2, <2>3, <2>4
    DEF Located, Stored, StatusOf, Submitting, Reviewing, Publishing, Approved
<1> QED
  BY <1>1, <1>2 DEF AllLocated

LEMMA EventsTyped ==
  ASSUME Inv, NEW p \in Requests, Step(p)
  PROVE  /\ reviewEvents' \subseteq ReviewEvent
         /\ publicationEvents' \subseteq PublicationEvent
         /\ ruleVersions' \subseteq RiskRuleVersion
         /\ rules' \in [RuleIds -> RiskRule \cup {None}]
<1>1. TypeOK
  BY DEF Inv
<1>2. CASE UNCHANGED <<reviewEvents, publicationEvents, ruleVersions, rules>>
  BY <1>1, <1>2 DEF TypeOK
<1>3. CASE StoreReview(p)
  <2>1. /\ cmd[p] \in ReviewCommand
        /\ cmd[p].sub \in SubIds
        /\ Stored(cmd[p].sub)
        /\ reviewEvents' = reviewEvents \cup {CommittedReview(cmd[p])}
        /\ UNCHANGED <<publicationEvents, rules, ruleVersions>>
    BY <1>3, ReviewRows
  <2>2. DraftOf(cmd[p].sub) \in Draft
    BY <1>1, <2>1, SubmissionType
  <2>3. CommittedReview(cmd[p]) \in ReviewEvent
    BY <2>1, <2>2 DEF CommittedReview, ReviewEvent, ReviewCommand
  <2> QED
    BY <1>1, <2>1, <2>3 DEF TypeOK
<1>4. CASE StorePublication(p)
  <2>1. cmd[p] \in PublishCommand /\ cmd[p].sub \in SubIds /\ Stored(cmd[p].sub)
    BY <1>4, PublicationRows
  <2>2. cmd[p].by \in Publishers
    BY <2>1 DEF PublishCommand
  <2>3. DraftOf(cmd[p].sub) \in Draft /\ DraftOf(cmd[p].sub).code \in Codes
    BY <1>1, <2>1, SubmissionType
  <2>4. PICK r \in RuleIds, review \in reviewEvents :
          /\ rules' \in [RuleIds -> RiskRule \cup {None}]
          /\ publicationEvents' = publicationEvents \cup {NewEvent(cmd[p], review, r)}
          /\ ruleVersions' =
               ruleVersions \cup {NewVersion(r, NewEvent(cmd[p], review, r))}
    BY <1>4, PublicationRule
  <2>5. review \in ReviewEvent
    BY <1>1 DEF TypeOK
  <2>6. NewEvent(cmd[p], review, r) \in PublicationEvent
    BY <2>1, <2>2, <2>3, <2>5 DEF NewEvent, PublicationEvent
  <2>7. NewEvent(cmd[p], review, r).sub = cmd[p].sub
    BY DEF NewEvent
  <2> DEFINE e == NewEvent(cmd[p], review, r)
             d == PublishedDraft(DraftOf(e.sub))
  <2>8. e \in PublicationEvent /\ d \in Draft
    BY <2>3, <2>6, <2>7, PublishedIsApproved
  <2>9. NewVersion(r, e) = [rule |-> r, version |-> 1, draft |-> d,
                            source |-> "controlled_publication", event |-> e]
    BY DEF NewVersion
  <2> HIDE DEF e, d
  <2>10. NewVersion(r, e) \in RiskRuleVersion
    BY <2>8, <2>9 DEF RiskRuleVersion
  <2> QED
    BY <1>1, <1>4, <2>4, <2>8, <2>10 DEF TypeOK, StorePublication, e
<1> QED
  BY <1>2, <1>3, <1>4, StepStores DEF Stores, StoreSubmission, tables

LEMMA LocksTyped ==
  ASSUME Inv, NEW p \in Requests, Step(p)
  PROVE  /\ rowLock' \in [SubIds -> Requests \cup {None}]
         /\ codeLock' \in [Codes -> Requests \cup {None}]
<1>1. /\ rowLock \in [SubIds -> Requests \cup {None}]
      /\ codeLock \in [Codes -> Requests \cup {None}]
  BY DEF Inv, TypeOK
<1>2. CASE LeavesLocks(p)
  BY <1>1, <1>2 DEF LeavesLocks, locks
<1>3. CASE EndsTransaction(p)
  BY <1>1, <1>3 DEF EndsTransaction, Release
<1>4. CASE LocksRow(p)
  BY <1>1, <1>4 DEF LocksRow
<1>5. CASE LocksCode(p)
  BY <1>1, <1>5 DEF LocksCode
<1> QED
  BY <1>2, <1>3, <1>4, <1>5, StepLocks

LEMMA InitInv == Init => Inv
<1> SUFFICES ASSUME Init
             PROVE  Inv
  OBVIOUS
<1> USE DEF Init
<1>1. \A r \in DOMAIN SeedRules : r \in RuleIds /\ SeedRules[r] \in Draft
  BY ConstantsAssumption
<1>2. rules \in [RuleIds -> RiskRule \cup {None}]
  <2>1. ASSUME NEW r \in DOMAIN SeedRules
        PROVE  [draft |-> SeedRules[r], version |-> 1, source |-> None] \in RiskRule
    BY <1>1 DEF RiskRule
  <2> QED
    BY <2>1
<1>3. ruleVersions \subseteq RiskRuleVersion
  <2>1. ASSUME NEW r \in DOMAIN SeedRules
        PROVE  [rule |-> r, version |-> 1, draft |-> SeedRules[r],
                source |-> "legacy_baseline"] \in RiskRuleVersion
    BY <1>1 DEF RiskRuleVersion
  <2> QED
    BY <2>1
<1>4. TypeOK
  BY <1>2, <1>3 DEF TypeOK, Labels
<1>5. \A s \in SubIds : ~Stored(s)
  BY DEF Stored
<1>6. AllLocated /\ RevisionTargets /\ ReviewedExactlyOnce /\ OnePendingPerRequest
  BY <1>5 DEF AllLocated, Located, RevisionTargets, ReviewedExactlyOnce,
              OnePendingPerRequest, Submitting, Reviewing, Publishing, Approved
<1>7. \A r \in RuleIds : rules[r] # None =>
        /\ r \in DOMAIN SeedRules
        /\ rules[r].draft = SeedRules[r]
        /\ rules[r].source = None
  OBVIOUS
<1>8. OneRulePerCode
  BY <1>7, ConstantsAssumption DEF OneRulePerCode
<1>9. PublicationsTraceable
  BY <1>7 DEF PublicationsTraceable
<1>10. LocksGuardCommits
  BY NoneAssumption DEF LocksGuardCommits, At
<1> QED
  BY <1>4, <1>6, <1>8, <1>9, <1>10 DEF Inv

LEMMA StepInv ==
  ASSUME Inv, [Next]_vars
  PROVE  Inv'
<1>1. CASE UNCHANGED vars
  <2>1. UNCHANGED <<tables, locks, pc, cmd, seen, reply>>
    BY <1>1 DEF vars
  <2>2. TypeOK' /\ AllLocated' /\ RevisionTargets'
    BY <2>1 DEF Inv, tables, locks, TypeOK, AllLocated, Located, RevisionTargets,
                Stored, StatusOf
  <2>3. ReviewedExactlyOnce' /\ OnePendingPerRequest' /\ OneRulePerCode'
    BY <2>1 DEF Inv, tables, ReviewedExactlyOnce, OnePendingPerRequest,
                OneRulePerCode, Stored, StatusOf, DraftOf
  <2>4. PublicationsTraceable'
    BY <2>1 DEF Inv, tables, PublicationsTraceable, ApprovesDraft, DraftOf,
                LinkedVersion, MatchesVersion
  <2>5. LocksGuardCommits'
    BY <2>1 DEF Inv, tables, locks, LocksGuardCommits, At, StatusOf, DraftOf,
                ApprovesDraft, EventsOf, CodeTaken
  <2> QED
    BY <2>2, <2>3, <2>4, <2>5 DEF Inv
<1>2. ASSUME NEW p \in Requests, Step(p)
      PROVE  Inv'
  <2>1. TypeOK'
    BY <1>2, SubmissionSteps, EventsTyped, LocksTyped, StepMoves
    DEF TypeOK, Moved, HandlersTyped
  <2>2. LocksGuardCommits'
    <3>1. RowLocks' /\ CodeLocks'
      BY <1>2, RowLocksStep, CodeLocksStep
    <3>2. \A q \in Requests : At(q, "review_commit")' => ReviewReady(q)'
      BY <1>2, ReviewReadyStep
    <3>3. \A q \in Requests : At(q, "publish_commit")' => PublicationReady(q)'
      BY <1>2, PublicationReadyStep
    <3> QED
      BY <3>1, <3>2, <3>3
      DEF LocksGuardCommits, RowLocks, CodeLocks, ReviewReady, PublicationReady
  <2> QED
    BY <1>2, <2>1, <2>2, LocatedStep, RevisionTargetsStep, ReviewedExactlyOnceStep,
       OnePendingPerRequestStep, OneRulePerCodeStep, PublicationsTraceableStep
    DEF Inv
<1> QED
  BY <1>1, <1>2, NextStep

-----------------------------------------------------------------------------
(***************************************************************************)
(* The theorems.                                                           *)
(***************************************************************************)

\* Inv holds in every reachable state of the workflow.
THEOREM Invariance == Spec => []Inv
BY InitInv, StepInv, PTL DEF Spec

\* Every row, lock and handler stays in its type: no handler stores a draft, an
\* intent or an event that is not well formed.
THEOREM TypeCorrect == Spec => []TypeOK
<1>1. Inv => TypeOK
  BY DEF Inv
<1> QED
  BY <1>1, Invariance, PTL

\* The compare-and-set of a review and the code index of publications guard
\* their commits against every other handler.
THEOREM CommitsGuarded == Spec => []LocksGuardCommits
<1>1. Inv => LocksGuardCommits
  BY DEF Inv
<1> QED
  BY <1>1, Invariance, PTL

\* A submission is decided exactly when one review event records it.
THEOREM ReviewedOnce == Spec => []ReviewedExactlyOnce
<1>1. Inv => ReviewedExactlyOnce
  BY DEF Inv
<1> QED
  BY <1>1, Invariance, PTL

\* Identical submissions are never pending at the same time.
THEOREM PendingOnce == Spec => []OnePendingPerRequest
<1>1. Inv => OnePendingPerRequest
  BY DEF Inv
<1> QED
  BY <1>1, Invariance, PTL

\* Publications never give one code to two rules.
THEOREM CodesUnique == Spec => []OneRulePerCode
<1>1. Inv => OneRulePerCode
  BY DEF Inv
<1> QED
  BY <1>1, Invariance, PTL

\* Every executable rule that was not seeded is traced through one publication
\* event to the one approval of its draft.
THEOREM RulesTraceable == Spec => []PublicationsTraceable
<1>1. Inv => PublicationsTraceable
  BY DEF Inv
<1> QED
  BY <1>1, Invariance, PTL

\* No step rewrites audit rows, rules or the intent of a submission.
THEOREM HistoryStays == Spec => HistoryKept
<1>1. Inv /\ [Next]_vars =>
        [/\ reviewEvents \subseteq reviewEvents'
         /\ publicationEvents \subseteq publicationEvents'
         /\ ruleVersions \subseteq ruleVersions'
         /\ \A r \in RuleIds : rules[r] # None => rules'[r] = rules[r]
         /\ \A s \in SubIds : Stored(s) =>
              \/ submissions'[s] = submissions[s]
              \/ /\ StatusOf(s) = "pending"
                 /\ submissions'[s] # None
                 /\ submissions'[s].intent = submissions[s].intent
        ]_tables
  BY NextStep, StepGrows DEF Grown, vars
<1> QED
  BY <1>1, Invariance, PTL DEF Spec, HistoryKept
-----------------------------------------------------------------------------
(***************************************************************************)
(* The refinement of RuleLifecycle.  The tables determine what the life    *)
(* cycle remembers, and each of the three stores is one step of it.        *)
(***************************************************************************)

\* The proposal, the verdict, the publisher and the codes, row by row.
LEMMA BarsMean ==
  ASSUME Inv
  PROVE  /\ \A s \in SubIds : proposalBar[s] # None <=> Stored(s)
         /\ \A s \in SubIds : Stored(s) => proposalBar[s] = submissions[s].intent
         /\ \A s \in SubIds : verdictBar[s] = None <=> \A e \in reviewEvents : e.sub # s
         /\ \A e \in reviewEvents : e.sub \in SubIds /\ verdictBar[e.sub] = VerdictOf(e)
         /\ \A s \in SubIds : publisherBar[s] = None <=> EventsOf(s) = {}
<1>1. \A s \in SubIds : Stored(s) => submissions[s].intent \in Intent
  BY SubmissionType DEF Inv
<1>2. \A e \in reviewEvents : e.sub \in SubIds /\ VerdictOf(e) # None
  BY NoneAssumption DEF Inv, TypeOK, ReviewEvent, VerdictOf
<1>3. ASSUME NEW e \in reviewEvents
      PROVE  verdictBar[e.sub] = VerdictOf(e)
  <2>1. (CHOOSE f \in reviewEvents : f.sub = e.sub) = e
    BY <1>3 DEF Inv, ReviewedExactlyOnce
  <2> QED
    BY <1>2, <1>3, <2>1 DEF verdictBar
<1>4. ASSUME NEW s \in SubIds
      PROVE  verdictBar[s] = None <=> \A e \in reviewEvents : e.sub # s
  BY <1>2, <1>3, <1>4 DEF verdictBar
<1>5. ASSUME NEW s \in SubIds
      PROVE  publisherBar[s] = None <=> EventsOf(s) = {}
  <2>1. \A e \in EventsOf(s) : e.by # None
    BY NoneAssumption DEF Inv, TypeOK, PublicationEvent, EventsOf
  <2>2. EventsOf(s) # {} => (CHOOSE e \in EventsOf(s) : TRUE) \in EventsOf(s)
    OBVIOUS
  <2> QED
    BY <1>5, <2>1, <2>2 DEF publisherBar
<1> QED
  BY <1>1, <1>2, <1>3, <1>4, <1>5, NoneAssumption DEF proposalBar

\* A statement that leaves a table alone leaves what it determines alone.
LEMMA BarsStay ==
  /\ UNCHANGED submissions => proposalBar' = proposalBar
  /\ UNCHANGED reviewEvents => verdictBar' = verdictBar
  /\ UNCHANGED publicationEvents => publisherBar' = publisherBar
  /\ UNCHANGED rules => executableBar' = executableBar
<1>1. UNCHANGED submissions => proposalBar' = proposalBar
  BY DEF proposalBar, Stored
<1>2. UNCHANGED reviewEvents => verdictBar' = verdictBar
  BY DEF verdictBar, VerdictOf
<1>3. UNCHANGED publicationEvents => publisherBar' = publisherBar
  BY DEF publisherBar, EventsOf
<1>4. UNCHANGED rules => executableBar' = executableBar
  BY DEF executableBar, CodeTaken
<1> QED
  BY <1>1, <1>2, <1>3, <1>4

\* An unreviewed row is pending in the life cycle and in the table.
LEMMA PendingMaps ==
  ASSUME Inv, NEW s \in SubIds
  PROVE  Lifecycle!Pending(s) <=> Stored(s) /\ StatusOf(s) = "pending"
<1>1. Lifecycle!Pending(s) <=> Stored(s) /\ \A e \in reviewEvents : e.sub # s
  BY BarsMean DEF Lifecycle!Pending
<1>2. Stored(s) /\ StatusOf(s) # "pending" => \E e \in reviewEvents : e.sub = s
  BY DEF Inv, ReviewedExactlyOnce
<1>3. \A e \in reviewEvents : e.sub = s => StatusOf(s) \in Decisions
  BY DEF Inv, TypeOK, ReviewEvent, ReviewedExactlyOnce
<1> QED
  BY <1>1, <1>2, <1>3 DEF Decisions

LEMMA SubmissionMaps ==
  ASSUME Inv, NEW p \in Requests, NEW s \in SubIds, StoreSubmission(p, s)
  PROVE  Lifecycle!Submit(s)
<1> DEFINE i == IntentOf(cmd[p])
<1>1. /\ ~Stored(s)
      /\ PendingWith(i) = {}
      /\ submissions'[s] # None
      /\ submissions'[s].intent = i
      /\ \A t \in SubIds \ {s} : submissions'[t] = submissions[t]
      /\ UNCHANGED <<reviewEvents, publicationEvents, rules>>
  BY SubmissionRows
<1>2. i \in Intent
  BY IntentType DEF Inv, AllLocated, Located, StoreSubmission, At, Submitting
<1> HIDE DEF i
<1>3. proposalBar' = [proposalBar EXCEPT ![s] = i]
  BY <1>1 DEF proposalBar, Stored
<1>4. proposalBar[s] = None /\ proposalBar'[s] = i
  BY <1>1, <1>3 DEF proposalBar
<1>5. \A t \in SubIds : ~(Lifecycle!Pending(t) /\ proposalBar[t] = i)
  BY <1>1, PendingMaps, BarsMean DEF PendingWith
<1> QED
  BY <1>1, <1>2, <1>3, <1>4, <1>5, BarsStay DEF Lifecycle!Submit

LEMMA ReviewMaps ==
  ASSUME Inv, NEW p \in Requests, StoreReview(p)
  PROVE  Lifecycle!Decide(cmd[p].sub)
<1> DEFINE s == cmd[p].sub
           e == CommittedReview(cmd[p])
           v == VerdictOf(e)
<1>1. /\ cmd[p] \in ReviewCommand
      /\ s \in SubIds
      /\ Stored(s)
      /\ StatusOf(s) = "pending"
      /\ \A f \in reviewEvents : f.sub # s
      /\ \A t \in SubIds \ {s} : submissions'[t] = submissions[t]
      /\ submissions'[s] # None
      /\ submissions'[s].intent = submissions[s].intent
      /\ reviewEvents' = reviewEvents \cup {e}
      /\ UNCHANGED <<publicationEvents, rules>>
  BY ReviewRows
<1>2. e.sub = s /\ v \in [decision : Decisions, by : Reviewers]
  BY <1>1 DEF CommittedReview, VerdictOf, ReviewCommand
<1> HIDE DEF s, e
<1>3. proposalBar' = proposalBar
  BY <1>1 DEF proposalBar, Stored
<1>4. (CHOOSE f \in reviewEvents' : f.sub = s) = e
  BY <1>1, <1>2
<1>5. ASSUME NEW t \in SubIds \ {s}
      PROVE  verdictBar'[t] = verdictBar[t]
  <2>1. \A f : (f \in reviewEvents' /\ f.sub = t) <=> (f \in reviewEvents /\ f.sub = t)
    BY <1>1, <1>2, <1>5
  <2>2. (CHOOSE f : f \in reviewEvents' /\ f.sub = t) = CHOOSE f : f \in reviewEvents /\ f.sub = t
    BY <2>1
  <2>3. (CHOOSE f \in reviewEvents' : f.sub = t) = CHOOSE f \in reviewEvents : f.sub = t
    BY <2>2
  <2>4. (\E f \in reviewEvents' : f.sub = t) <=> \E f \in reviewEvents : f.sub = t
    BY <2>1
  <2> QED
    BY <1>5, <2>3, <2>4 DEF verdictBar, VerdictOf
<1>6. verdictBar'[s] = v
  BY <1>1, <1>2, <1>4 DEF verdictBar, VerdictOf
<1>7. verdictBar' = [verdictBar EXCEPT ![s] = v]
  <2>1. /\ verdictBar = [t \in SubIds |-> verdictBar[t]]
        /\ verdictBar' = [t \in SubIds |-> verdictBar'[t]]
    BY DEF verdictBar
  <2> QED
    BY <1>1, <1>5, <1>6, <2>1
<1>8. Lifecycle!Pending(s)
  BY <1>1, PendingMaps
<1> HIDE DEF v
<1> QED
  BY <1>1, <1>2, <1>3, <1>6, <1>7, <1>8, BarsStay DEF Lifecycle!Decide, s

LEMMA PublicationMaps ==
  ASSUME Inv, NEW p \in Requests, StorePublication(p)
  PROVE  Lifecycle!Publish(cmd[p].sub)
<1> DEFINE s == cmd[p].sub
           by == cmd[p].by
           code == DraftOf(s).code
<1>1. /\ cmd[p] \in PublishCommand
      /\ s \in SubIds
      /\ Stored(s)
      /\ submissions[s].intent.kind = "create"
      /\ EventsOf(s) = {}
      /\ ~CodeTaken(code)
      /\ UNCHANGED <<submissions, reviewEvents>>
  BY PublicationRows
<1>2. PICK r \in RuleIds, review \in reviewEvents :
        /\ rules[r] = None
        /\ ApprovesDraft(review, s)
        /\ \A q \in RuleIds \ {r} : rules'[q] = rules[q]
        /\ rules'[r] # None
        /\ rules'[r].draft = DraftOf(s)
        /\ publicationEvents' = publicationEvents \cup {NewEvent(cmd[p], review, r)}
  BY PublicationRule
<1> DEFINE e == NewEvent(cmd[p], review, r)
<1>3. e.sub = s /\ e.by = by /\ by \in Publishers
  BY <1>1 DEF NewEvent, PublishCommand
<1>4. code \in Codes
  BY <1>1, SubmissionType DEF Inv
<1>5. /\ proposalBar[s] # None
      /\ proposalBar[s].kind = "create"
      /\ proposalBar[s].draft.code = code
      /\ publisherBar[s] = None
  BY <1>1, BarsMean DEF DraftOf
<1>6. verdictBar[s] # None /\ verdictBar[s].decision = "approved"
  <2>1. review.sub = s /\ verdictBar[s] = VerdictOf(review) /\ verdictBar[s] # None
    BY <1>1, <1>2, BarsMean DEF ApprovesDraft
  <2> QED
    BY <1>2, <2>1 DEF ApprovesDraft, VerdictOf
<1>7. code \notin executableBar
  BY <1>1 DEF executableBar
<1> HIDE DEF s, by, code, e
<1>8. executableBar' = executableBar \cup {code}
  <2>1. ASSUME NEW c \in Codes
        PROVE  CodeTaken(c)' <=> CodeTaken(c) \/ c = code
    <3>1. CodeTaken(c)' <=> \E q \in RuleIds : rules'[q] # None /\ rules'[q].draft.code = c
      BY DEF CodeTaken
    <3>2. rules'[r].draft.code = code
      BY <1>2 DEF code
    <3> QED
      BY <1>2, <2>1, <3>1, <3>2 DEF CodeTaken
  <2> QED
    BY <1>4, <2>1 DEF executableBar
<1>9. publisherBar' = [publisherBar EXCEPT ![s] = by]
  <2>1. publicationEvents' = publicationEvents \cup {e}
    BY <1>2 DEF e
  <2> DEFINE Later(u) == {f \in publicationEvents' : f.sub = u}
  <2>2. Later(s) = {e}
    BY <1>1, <1>3, <2>1 DEF EventsOf
  <2>3. \A u \in SubIds \ {s} : Later(u) = EventsOf(u)
    BY <1>3, <2>1 DEF EventsOf
  <2>4. publisherBar' = [u \in SubIds |-> IF Later(u) # {}
                           THEN (CHOOSE f \in Later(u) : TRUE).by ELSE None]
    BY DEF publisherBar, EventsOf
  <2>5. (CHOOSE f \in {e} : TRUE) = e
    OBVIOUS
  <2> HIDE DEF Later
  <2>6. publisherBar'[s] = by
    BY <1>1, <1>3, <2>2, <2>4, <2>5
  <2>7. \A u \in SubIds \ {s} : publisherBar'[u] = publisherBar[u]
    BY <2>3, <2>4 DEF publisherBar
  <2>8. /\ publisherBar = [u \in SubIds |-> publisherBar[u]]
        /\ publisherBar' = [u \in SubIds |-> publisherBar'[u]]
    BY DEF publisherBar
  <2> QED
    BY <1>1, <2>6, <2>7, <2>8
<1>10. publisherBar'[s] = by
  BY <1>1, <1>9 DEF publisherBar
<1>11. proposalBar' = proposalBar /\ verdictBar' = verdictBar
  BY <1>1, BarsStay
<1> QED
  BY <1>3, <1>5, <1>6, <1>7, <1>8, <1>9, <1>10, <1>11 DEF Lifecycle!Publish, s

LEMMA LifecycleInit == Init => Lifecycle!Init
<1> SUFFICES ASSUME Init
             PROVE  Lifecycle!Init
  OBVIOUS
<1>1. proposalBar = [s \in SubIds |-> None]
  BY DEF Init, proposalBar, Stored
<1>2. verdictBar = [s \in SubIds |-> None]
  BY DEF Init, verdictBar
<1>3. publisherBar = [s \in SubIds |-> None]
  BY DEF Init, publisherBar, EventsOf
<1>4. executableBar = {SeedRules[r].code : r \in DOMAIN SeedRules}
  <2>1. \A r \in DOMAIN SeedRules : r \in RuleIds /\ SeedRules[r].code \in Codes
    BY ConstantsAssumption DEF Draft
  <2>2. \A r \in RuleIds : /\ rules[r] # None <=> r \in DOMAIN SeedRules
                           /\ r \in DOMAIN SeedRules => rules[r].draft = SeedRules[r]
    <3>1. \A r \in DOMAIN SeedRules :
            [draft |-> SeedRules[r], version |-> 1, source |-> None] \in RiskRule
      BY ConstantsAssumption DEF RiskRule
    <3> QED
      BY <2>1, <3>1, NoneAssumption DEF Init
  <2>3. \A c \in Codes : CodeTaken(c) <=> \E r \in DOMAIN SeedRules : SeedRules[r].code = c
    BY <2>1, <2>2 DEF CodeTaken
  <2> QED
    BY <2>1, <2>3 DEF executableBar
<1> QED
  BY <1>1, <1>2, <1>3, <1>4 DEF Lifecycle!Init

LEMMA LifecycleStep ==
  ASSUME Inv, [Next]_vars
  PROVE  [Lifecycle!Next]_Lifecycle!lifecycle
<1>1. CASE UNCHANGED tables
  BY <1>1, BarsStay DEF tables, Lifecycle!lifecycle
<1>2. ASSUME NEW p \in Requests, Stores(p)
      PROVE  Lifecycle!Next
  <2>1. cmd[p].sub \in SubIds \/ \E s \in SubIds : StoreSubmission(p, s)
    BY <1>2, ReviewRows, PublicationRows DEF Stores
  <2> QED
    BY <1>2, <2>1, SubmissionMaps, ReviewMaps, PublicationMaps, ReviewRows, PublicationRows
    DEF Stores, Lifecycle!Next
<1> QED
  BY <1>1, <1>2, NextStep, StepStores DEF vars

\* The handlers implement the life cycle: whatever they interleave, lose or
\* repeat, a proposal is submitted, decided once and published at most once,
\* each in one atomic step, and nothing else ever becomes executable.
THEOREM LifecycleImplemented == Spec => ImplementsLifecycle
<1>1. Inv /\ [Next]_vars => [Lifecycle!Next]_Lifecycle!lifecycle
  BY LifecycleStep
<1> QED
  BY LifecycleInit, Invariance, <1>1, PTL DEF Spec, ImplementsLifecycle, Lifecycle!Spec

-----------------------------------------------------------------------------
(***************************************************************************)
(* The answers.  Truth says what the tables hold after an answer; it is    *)
(* true when the answer is given, because of what the handler has read     *)
(* (Heard), and stays true because rows stay.                              *)
(***************************************************************************)

\* What an outcome o with the id s says of the command c.
Truth(c, o, s) ==
  /\ c.op \in {"create", "revise"} =>
       /\ o # "integrity"
       /\ o \in {"created", "replayed"} =>
            s \in SubIds /\ Stored(s) /\ submissions[s].intent = IntentOf(c)
  /\ c.op = "review" =>
       /\ o \notin {"integrity", "published"}
       /\ o \in {"reviewed", "review_replay"} => CommittedReview(c) \in reviewEvents
       /\ o = "conflict" => \E e \in reviewEvents : e.sub = c.sub /\ ~SameReview(e, c)
  /\ c.op = "publish" =>
       /\ o # "reviewed"
       /\ o \in {"published", "publication_replay"} =>
            \E e \in EventsOf(c.sub) : e.by = c.by
       /\ o = "conflict" => \E e \in EventsOf(c.sub) : e.by # c.by
       /\ o \in {"duplicate_code", "code_conflict"} =>
            /\ Stored(c.sub)
            /\ \E r \in RuleIds : /\ rules[r] # None
                                  /\ rules[r].draft.code = DraftOf(c.sub).code
                                  /\ rules[r].source # c.sub

Told(p) == pc[p] = "idle" /\ reply[p] # None =>
  cmd[p] \in Command /\ Truth(cmd[p], reply[p].outcome, reply[p].sub)

\* What a handler has found out about rows that stay as they are.
Heard(p) ==
  /\ pc[p] = "review_reread" => StatusOf(cmd[p].sub) # "pending"
  /\ pc[p] = "review_resolve" =>
       seen[p] # "pending" /\ seen[p] = StatusOf(cmd[p].sub)
  /\ pc[p] = "publish_recheck" =>
       \/ DraftOf(cmd[p].sub).content \in MalformedContents
       \/ CodeTaken(DraftOf(cmd[p].sub).code)

\* Every rule has the history row that its integrity check looks for.
RulesVersioned ==
  \A r \in RuleIds : rules[r] # None => \E v \in ruleVersions : MatchesVersion(r, v)

Honest ==
  /\ RulesVersioned
  /\ \A p \in Requests : Heard(p)
  /\ \A p \in Requests : Told(p)
  /\ OneFirstAnswer

LEMMA RulesVersionedStep ==
  ASSUME Inv, RulesVersioned, NEW p \in Requests, Step(p)
  PROVE  RulesVersioned'
<1> SUFFICES ASSUME NEW r \in RuleIds, rules'[r] # None
             PROVE  \E v \in ruleVersions' : /\ v.rule = r
                                             /\ v.version = rules'[r].version
                                             /\ v.draft = rules'[r].draft
  BY DEF RulesVersioned, MatchesVersion
<1>1. CASE rules[r] # None
  BY <1>1, StepGrows DEF Grown, RulesVersioned, MatchesVersion
<1>2. CASE rules[r] = None
  <2>1. StorePublication(p)
    BY <1>2, StepStores DEF Stores, StoreSubmission, StoreReview, tables
  <2>2. PICK q \in RuleIds, review \in reviewEvents :
          /\ \A x \in RuleIds \ {q} : rules'[x] = rules[x]
          /\ rules'[q].draft = DraftOf(cmd[p].sub)
          /\ rules'[q].version = 1
          /\ ruleVersions' = ruleVersions
               \cup {NewVersion(q, NewEvent(cmd[p], review, q))}
    BY <2>1, PublicationRule
  <2>3. q = r
    BY <1>2, <2>2
  <2> DEFINE v == NewVersion(q, NewEvent(cmd[p], review, q))
  <2>4. v.rule = q /\ v.version = 1 /\ v.draft = DraftOf(cmd[p].sub)
    BY PublishedIsApproved DEF NewVersion, NewEvent
  <2> HIDE DEF v
  <2>5. v \in ruleVersions'
    BY <2>2 DEF v
  <2> QED
    BY <2>2, <2>3, <2>4, <2>5
<1> QED
  BY <1>1, <1>2

\* What an answer has said of a command stays true.
LEMMA TruthStays ==
  ASSUME Inv, NEW p \in Requests, Step(p), NEW c \in Command, NEW o, NEW s,
         Truth(c, o, s)
  PROVE  Truth(c, o, s)'
<1>1. /\ \A t \in SubIds : Stored(t) =>
           Stored(t)' /\ submissions'[t].intent = submissions[t].intent
      /\ reviewEvents \subseteq reviewEvents'
      /\ publicationEvents \subseteq publicationEvents'
      /\ \A r \in RuleIds : rules[r] # None => rules'[r] = rules[r]
  BY StepGrows, SubmissionSteps DEF Grown
<1>2. ASSUME c.op \in {"create", "revise"}, o \in {"created", "replayed"}
      PROVE  Stored(s)' /\ submissions'[s].intent = IntentOf(c)'
  <2>1. s \in SubIds /\ Stored(s) /\ submissions[s].intent = IntentOf(c)
    BY <1>2 DEF Truth
  <2>2. CASE c.op = "create"
    BY <1>1, <2>1, <2>2 DEF IntentOf
  <2>3. CASE c.op = "revise"
    <3>1. c.target \in RuleIds
      BY <2>3, CommandKinds DEF ReviseCommand
    <3>2. rules[c.target] # None
      BY <2>1, <2>3 DEF IntentOf, Inv, RevisionTargets
    <3>3. rules'[c.target] = rules[c.target]
      BY <1>1, <3>1, <3>2
    <3> QED
      BY <1>1, <2>1, <2>3, <3>3 DEF IntentOf
  <2> QED
    BY <1>2, <2>2, <2>3
<1>3. ASSUME c.op = "review", o \in {"reviewed", "review_replay"}
      PROVE  (CommittedReview(c) \in reviewEvents)'
  <2>1. CommittedReview(c) \in reviewEvents
    BY <1>3 DEF Truth
  <2>2. c.sub \in SubIds /\ Stored(c.sub)
    BY <1>3, <2>1, CommandKinds
    DEF ReviewCommand, CommittedReview, Inv, ReviewedExactlyOnce
  <2>3. DraftOf(c.sub)' = DraftOf(c.sub)
    BY <1>1, <2>2 DEF DraftOf
  <2> QED
    BY <1>1, <2>1, <2>3 DEF CommittedReview
<1>4. ASSUME c.op = "publish", o \in {"duplicate_code", "code_conflict"}
      PROVE  /\ Stored(c.sub)'
             /\ \E r \in RuleIds : /\ rules'[r] # None
                                   /\ rules'[r].draft.code = DraftOf(c.sub)'.code
                                   /\ rules'[r].source # c.sub
  <2>1. /\ Stored(c.sub)
        /\ \E r \in RuleIds : /\ rules[r] # None
                              /\ rules[r].draft.code = DraftOf(c.sub).code
                              /\ rules[r].source # c.sub
    BY <1>4 DEF Truth
  <2>2. c.sub \in SubIds
    BY <1>4, CommandKinds DEF PublishCommand
  <2>3. Stored(c.sub)' /\ DraftOf(c.sub)' = DraftOf(c.sub)
    BY <1>1, <2>1, <2>2 DEF DraftOf
  <2> QED
    BY <1>1, <2>1, <2>3
<1>5. ASSUME c.op = "review"
      PROVE  /\ o \notin {"integrity", "published"}
             /\ o = "conflict" => \E e \in reviewEvents' : e.sub = c.sub /\ ~SameReview(e, c)
  BY <1>1, <1>5 DEF Truth, SameReview
<1>6. ASSUME c.op = "publish"
      PROVE  /\ o # "reviewed"
             /\ o \in {"published", "publication_replay"} =>
                  \E e \in publicationEvents' : e.sub = c.sub /\ e.by = c.by
             /\ o = "conflict" => \E e \in publicationEvents' : e.sub = c.sub /\ e.by # c.by
  BY <1>1, <1>6 DEF Truth, EventsOf
<1>7. c.op \in {"create", "revise"} => o # "integrity" /\ (o \in {"created", "replayed"} => s \in SubIds)
  BY DEF Truth
<1> QED
  BY <1>2, <1>3, <1>4, <1>5, <1>6, <1>7 DEF Truth, EventsOf, SameReview

\* A first answer is given where no row decides or publishes the submission.
First(c, o) ==
  /\ o = "reviewed" => \A e \in reviewEvents : e.sub # c.sub
  /\ o = "published" => EventsOf(c.sub) = {}

Replies(p) ==
  \E o \in Outcomes, s \in SubIds \cup {None} :
    Answer(p, o, s) /\ Truth(cmd[p], o, s)' /\ First(cmd[p], o)

Moves(p) == \E l \in Labels \ {"idle"} : Goto(p, l) /\ Heard(p)'

LEMMA MovesTo ==
  ASSUME Inv, NEW p \in Requests, NEW l \in Labels, Goto(p, l),
         l \notin {"idle", "review_reread", "review_resolve", "publish_recheck"}
  PROVE  Moves(p)
<1>1. pc'[p] = l
  BY GoesTo
<1> QED
  BY <1>1 DEF Moves, Heard

LEMMA RepliesWith ==
  ASSUME Inv, NEW p \in Requests, NEW o \in Outcomes, NEW s \in SubIds \cup {None},
         Answer(p, o, s), UNCHANGED tables, Truth(cmd[p], o, s), First(cmd[p], o)
  PROVE  Replies(p)
<1>1. /\ cmd' = cmd
      /\ submissions' = submissions
      /\ reviewEvents' = reviewEvents
      /\ publicationEvents' = publicationEvents
      /\ rules' = rules
  BY DEF Answer, tables
<1>2. Truth(cmd[p], o, s)'
  BY <1>1 DEF Truth, Stored, IntentOf, CommittedReview, DraftOf, SameReview, EventsOf
<1> QED
  BY <1>2 DEF Replies

\* A refusal that blames nobody says nothing of the tables.
LEMMA RepliesNothing ==
  ASSUME Inv, NEW p \in Requests, NEW o \in Outcomes, NEW s \in SubIds \cup {None},
         Answer(p, o, s),
         \/ o \in {"malformed", "stale_base", "not_found", "not_publishable", "db_error"}
         \/ o = "duplicate_code" /\ cmd[p].op # "publish"
         \/ o = "integrity" /\ cmd[p].op = "publish"
  PROVE  Replies(p)
<1>1. cmd' = cmd
  BY DEF Answer
<1>2. Truth(cmd[p], o, s)'
  BY <1>1 DEF Truth
<1> QED
  BY <1>2 DEF Replies, First

LEMMA SubmitReplies ==
  ASSUME Inv, RulesVersioned, NEW p \in Requests,
         \/ RevisionBase(p) \/ LookupPending(p) \/ ValidateCreate(p)
         \/ ValidateCreateUncounted(p) \/ InsertSubmission(p) \/ InsertCollides(p)
         \/ InsertFails(p) \/ InsertUnheard(p) \/ LookupWinner(p)
  PROVE  Moves(p) \/ Replies(p)
<1>1. cmd[p].op \in {"create", "revise"}
  <2>1. pc[p] \in Submitting
    BY Zenon DEF RevisionBase, LookupPending, ValidateCreate, ValidateCreateUncounted,
                 InsertSubmission, InsertCollides, InsertFails, InsertUnheard,
                 LookupWinner, StoreSubmission, At, Submitting
  <2> QED
    BY <2>1, Knows DEF CreateCommand, ReviseCommand
<1>2. CASE \E o \in {"malformed", "stale_base", "not_found", "duplicate_code", "db_error"} :
             Refuse(p, o)
  BY <1>1, <1>2, RepliesNothing DEF Refuse, Outcomes
<1>3. CASE \E l \in {"lookup", "validate", "insert", "winner"} : Goto(p, l)
  BY <1>3, MovesTo DEF Labels
<1>4. ASSUME NEW s \in PendingWith(IntentOf(cmd[p])), Answer(p, "replayed", s),
             UNCHANGED tables
      PROVE  Replies(p)
  <2>1. s \in SubIds /\ Stored(s) /\ submissions[s].intent = IntentOf(cmd[p])
    BY <1>4 DEF PendingWith
  <2>2. Truth(cmd[p], "replayed", s) /\ First(cmd[p], "replayed")
    BY <1>1, <2>1 DEF Truth, First
  <2> QED
    BY <1>4, <2>1, <2>2, RepliesWith DEF Outcomes
<1>5. CASE RevisionBase(p)
  <2>1. cmd[p] \in ReviseCommand
    BY <1>5, Knows DEF RevisionBase, At
  <2>2. rules[cmd[p].target] # None =>
          \E v \in ruleVersions : MatchesVersion(cmd[p].target, v)
    BY <2>1 DEF RulesVersioned, ReviseCommand
  <2>3. \/ Goto(p, "lookup")
        \/ \E o \in {"malformed", "stale_base", "not_found"} : Refuse(p, o)
    BY <1>5, <2>2 DEF RevisionBase
  <2> QED
    BY <2>3, <1>2, <1>3
<1>6. CASE LookupPending(p)
  BY <1>6, <1>3, <1>4 DEF LookupPending, tables
<1>7. CASE ValidateCreate(p)
  BY <1>7, <1>2, <1>3 DEF ValidateCreate
<1>8. CASE ValidateCreateUncounted(p)
  BY <1>8, <1>2, <1>3 DEF ValidateCreateUncounted
<1>9. ASSUME NEW s \in SubIds, StoreSubmission(p, s), Answer(p, "created", s)
      PROVE  Replies(p)
  <2>1. /\ submissions'[s] # None
        /\ submissions'[s].intent = IntentOf(cmd[p])
        /\ rules' = rules
    BY <1>9, SubmissionRows
  <2>2. cmd' = cmd
    BY <1>9 DEF Answer
  <2>3. Truth(cmd[p], "created", s)'
    BY <1>1, <2>1, <2>2 DEF Truth, Stored, IntentOf
  <2> QED
    BY <1>9, <2>3 DEF Replies, First, Outcomes
<1>10. CASE InsertSubmission(p)
  BY <1>10, <1>9 DEF InsertSubmission
<1>11. CASE InsertCollides(p) \/ InsertFails(p) \/ InsertUnheard(p)
  BY <1>11, <1>3 DEF InsertCollides, InsertFails, InsertUnheard
<1>12. CASE LookupWinner(p)
  BY <1>12, <1>2, <1>4 DEF LookupWinner, tables
<1> QED
  BY <1>5, <1>6, <1>7, <1>8, <1>10, <1>11, <1>12

LEMMA ValidateReplies ==
  ASSUME Inv, RulesVersioned, NEW p \in Requests, ReviewValidate(p)
  PROVE  Moves(p) \/ Replies(p)
<1> DEFINE i == submissions[cmd[p].sub].intent
<1>1. pc[p] = "review_validate"
  BY DEF ReviewValidate, At
<1>2. cmd[p] \in ReviewCommand /\ cmd[p].sub \in SubIds /\ Stored(cmd[p].sub)
  BY <1>1, Knows DEF Reviewing
<1>3. cmd[p].op = "review"
  BY <1>2 DEF ReviewCommand
<1>4. i \in Intent
  BY <1>2, SubmissionType DEF Inv
<1>5. i.kind # "create" => i.target \in RuleIds
  BY <1>4 DEF Intent, CreateIntent, RevisionIntent
<1>6. i.kind # "create" /\ ~StaleRevision(i) =>
        \E v \in ruleVersions : MatchesVersion(i.target, v)
  BY <1>5 DEF StaleRevision, RulesVersioned
<1>7. \/ Goto(p, "review_cas")
      \/ \E o \in {"malformed", "stale_base", "duplicate_code"} : Refuse(p, o)
  BY <1>6, Zenon DEF ReviewValidate
<1>8. CASE Goto(p, "review_cas")
  BY <1>8, MovesTo DEF Labels
<1>9. CASE \E o \in {"malformed", "stale_base", "duplicate_code"} : Refuse(p, o)
  BY <1>3, <1>9, RepliesNothing DEF Refuse, Outcomes
<1> QED
  BY <1>7, <1>8, <1>9

LEMMA ReviewReplies ==
  ASSUME Inv, RulesVersioned, NEW p \in Requests, Heard(p),
         \/ ReviewRead(p) \/ ReviewValidate(p) \/ ReviewCAS(p) \/ ReviewCommit(p)
         \/ ReviewReread(p) \/ ReviewResolve(p) \/ ReviewUnheard(p)
  PROVE  Moves(p) \/ Replies(p)
<1> DEFINE c == cmd[p]
           s == cmd[p].sub
<1>1. c \in ReviewCommand /\ s \in SubIds /\ c.op = "review"
  <2>1. pc[p] \in Reviewing
    BY Zenon DEF ReviewRead, ReviewValidate, ReviewCAS, ReviewCommit, ReviewReread,
                 ReviewResolve, ReviewUnheard, StoreReview, At, Reviewing
  <2>2. c \in ReviewCommand /\ s \in SubIds
    BY <2>1, Knows
  <2> QED
    BY <2>2 DEF ReviewCommand
<1>2. pc[p] \in Reviewing \ {"review_read"} => Stored(s)
  BY Knows
<1>3. CASE \E o \in {"malformed", "stale_base", "not_found", "duplicate_code", "db_error"} :
             Refuse(p, o)
  BY <1>1, <1>3, RepliesNothing DEF Refuse, Outcomes
<1>4. CASE \E l \in {"review_validate", "review_cas", "review_commit"} : Goto(p, l)
  BY <1>4, MovesTo DEF Labels
<1>5. ASSUME NEW l \in {"review_reread", "review_resolve"}, Goto(p, l), UNCHANGED submissions,
             StatusOf(s) # "pending",
             l = "review_resolve" => Read(p, s)
      PROVE  Moves(p)
  <2>1. pc'[p] = l
    BY <1>5, GoesTo DEF Labels
  <2>2. l = "review_resolve" => seen'[p] = StatusOf(s)
    BY <1>5 DEF Read, Inv, TypeOK
  <2>3. cmd' = cmd /\ submissions' = submissions
    BY <1>5 DEF Goto
  <2>4. Heard(p)'
    BY <1>5, <2>1, <2>2, <2>3 DEF Heard, StatusOf
  <2> QED
    BY <1>5, <2>4 DEF Moves, Labels
<1>6. CASE ReviewRead(p)
  BY <1>6, <1>3, <1>4, <1>5 DEF ReviewRead, tables
<1>7. CASE ReviewValidate(p)
  BY <1>7, ValidateReplies
<1>8. CASE ReviewCAS(p)
  BY <1>8, <1>4, <1>5 DEF ReviewCAS, tables
<1>9. CASE ReviewCommit(p)
  <2>1. /\ Stored(s)
        /\ \A e \in reviewEvents : e.sub # s
        /\ submissions'[s].intent = submissions[s].intent
        /\ reviewEvents' = reviewEvents \cup {CommittedReview(c)}
    BY <1>9, ReviewRows DEF ReviewCommit
  <2>2. Answer(p, "reviewed", s) /\ cmd' = cmd
    BY <1>9 DEF ReviewCommit, Answer
  <2>3. (CommittedReview(c) \in reviewEvents)'
    BY <2>1, <2>2 DEF CommittedReview, DraftOf
  <2>4. Truth(c, "reviewed", s)'
    BY <1>1, <2>2, <2>3 DEF Truth
  <2>5. First(c, "reviewed")
    BY <2>1 DEF First
  <2> QED
    BY <1>1, <2>2, <2>4, <2>5 DEF Replies, Outcomes
<1>10. CASE ReviewReread(p)
  <2>1. StatusOf(s) # "pending"
    BY <1>10 DEF ReviewReread, At, Heard
  <2> QED
    BY <1>10, <2>1, <1>5 DEF ReviewReread, tables
<1>11. CASE ReviewResolve(p)
  <2> DEFINE es == {e \in reviewEvents : e.sub = s}
  <2>1. seen[p] # "pending" /\ seen[p] = StatusOf(s) /\ Stored(s)
    BY <1>2, <1>11 DEF ReviewResolve, At, Heard, Reviewing
  <2>2. es # {} /\ \A e \in es : e.decision = seen[p] /\ e.draft = DraftOf(s)
    BY <1>1, <2>1 DEF Inv, ReviewedExactlyOnce
  <2>3. PICK e \in es :
          IF SameReview(e, c) /\ e.decision = seen[p]
          THEN Answer(p, "review_replay", s)
          ELSE Refuse(p, "conflict")
    BY <1>11, <2>1, <2>2 DEF ReviewResolve
  <2>4. UNCHANGED tables
    BY <1>11 DEF ReviewResolve, tables
  <2>5. CASE SameReview(e, c)
    <3>1. e = CommittedReview(c)
      BY <2>2, <2>5 DEF CommittedReview, SameReview, Inv, TypeOK, ReviewEvent
    <3>2. Truth(c, "review_replay", s) /\ First(c, "review_replay")
      BY <1>1, <3>1 DEF Truth, First
    <3>3. Answer(p, "review_replay", s)
      BY <2>2, <2>3, <2>5
    <3> QED
      BY <1>1, <2>4, <3>2, <3>3, RepliesWith DEF Outcomes
  <2>6. CASE ~SameReview(e, c)
    <3>1. Truth(c, "conflict", None) /\ First(c, "conflict")
      BY <1>1, <2>6 DEF Truth, First
    <3>2. Answer(p, "conflict", None)
      BY <2>3, <2>6 DEF Refuse
    <3> QED
      BY <2>4, <3>1, <3>2, RepliesWith DEF Outcomes
  <2> QED
    BY <2>5, <2>6
<1>12. CASE ReviewUnheard(p)
  BY <1>12, <1>3 DEF ReviewUnheard
<1> QED
  BY <1>6, <1>7, <1>8, <1>9, <1>10, <1>11, <1>12

LEMMA PublishReplies ==
  ASSUME Inv, NEW p \in Requests, Heard(p),
         \/ PublicationGuard(p) \/ PublishRead(p) \/ PublishLookupEvent(p)
         \/ PublishSource(p) \/ PublishValidate(p) \/ PublishRecheck(p)
         \/ PublishInsert(p) \/ PublishCommit(p) \/ PublishInsertFailed(p)
         \/ PublishResolve(p) \/ PublicationUnheard(p) \/ PublishInsertFails(p)
  PROVE  Moves(p) \/ Replies(p)
<1> DEFINE c == cmd[p]
           s == cmd[p].sub
<1>1. c \in PublishCommand /\ s \in SubIds /\ c.op = "publish"
  <2>1. pc[p] \in Publishing
    BY Zenon DEF PublicationGuard, PublishRead, PublishLookupEvent, PublishSource,
                 PublishValidate, PublishRecheck, PublishInsert, PublishCommit,
                 PublishInsertFailed, PublishResolve, PublicationUnheard,
                 PublishInsertFails, StorePublication, At, Publishing
  <2>2. c \in PublishCommand /\ s \in SubIds
    BY <2>1, Knows
  <2> QED
    BY <2>2 DEF PublishCommand
<1>2. pc[p] \in Publishing \ {"guard", "publish_read"} => Stored(s)
  BY Knows
<1>3. CASE \E o \in {"malformed", "not_found", "not_publishable", "integrity", "db_error"} :
             \E t \in {s, None} : Answer(p, o, t)
  BY <1>1, <1>3, RepliesNothing DEF Outcomes
<1>4. CASE \E l \in {"publish_read", "publish_event", "publish_source", "publish_validate",
                     "publish_insert", "publish_commit", "publish_failed"} : Goto(p, l)
  BY <1>4, MovesTo DEF Labels
<1>5. CASE Goto(p, "publish_resolve")
  <2>1. pc'[p] = "publish_resolve"
    BY <1>5, GoesTo DEF Labels
  <2> QED
    BY <1>5, <2>1 DEF Moves, Heard, Labels
<1>6. ASSUME NEW o \in {"duplicate_code", "code_conflict"}, Answer(p, o, s),
             UNCHANGED tables, Stored(s), EventsOf(s) = {}, CodeTaken(DraftOf(s).code)
      PROVE  Replies(p)
  <2>1. PICK r \in RuleIds : rules[r] # None /\ rules[r].draft.code = DraftOf(s).code
    BY <1>6 DEF CodeTaken
  <2>2. rules[r].source # s
    <3>1. CASE rules[r].source = None
      BY <1>1, <3>1, NoneAssumption
    <3>2. CASE \E e \in publicationEvents : e.rule = r
      BY <1>6, <3>2 DEF EventsOf, Inv, PublicationsTraceable
    <3> QED
      BY <2>1, <3>1, <3>2 DEF Inv, PublicationsTraceable
  <2>3. Truth(c, o, s) /\ First(c, o)
    BY <1>1, <1>6, <2>1, <2>2 DEF Truth, First
  <2> QED
    BY <1>1, <1>6, <2>3, RepliesWith DEF Outcomes
<1>7. CASE PublicationGuard(p)
  BY <1>7, <1>3, <1>4 DEF PublicationGuard, Refuse
<1>8. CASE PublishRead(p)
  BY <1>8, <1>3, <1>4 DEF PublishRead, Refuse
<1>9. CASE PublishLookupEvent(p)
  BY <1>9, <1>3, <1>4, <1>5 DEF PublishLookupEvent, Refuse
<1>10. CASE PublishSource(p)
  BY <1>10, <1>3, <1>4 DEF PublishSource, Refuse
<1>11. CASE PublishValidate(p)
  <2>1. CASE Goto(p, "publish_insert")
    BY <2>1, <1>4
  <2>2. CASE /\ Goto(p, "publish_recheck")
             /\ ~(DraftOf(s).content \notin MalformedContents /\ ~CodeTaken(DraftOf(s).code))
    <3>1. pc'[p] = "publish_recheck" /\ cmd' = cmd /\ submissions' = submissions /\ rules' = rules
      BY <1>11, <2>2, GoesTo DEF Labels, Goto, PublishValidate, tables
    <3>2. Heard(p)'
      BY <2>2, <3>1 DEF Heard, DraftOf, CodeTaken
    <3> QED
      BY <2>2, <3>2 DEF Moves, Labels
  <2> QED
    BY <1>11, <2>1, <2>2 DEF PublishValidate
<1>12. CASE PublishRecheck(p)
  <2>1. Stored(s) /\ (DraftOf(s).content \in MalformedContents \/ CodeTaken(DraftOf(s).code))
    BY <1>2, <1>12 DEF PublishRecheck, At, Heard, Publishing
  <2> QED
    BY <1>12, <2>1, <1>3, <1>5, <1>6 DEF PublishRecheck, tables
<1>13. CASE PublishInsert(p)
  BY <1>13, <1>4 DEF PublishInsert
<1>14. CASE PublishCommit(p)
  <2>1. /\ EventsOf(s) = {}
        /\ \E r \in RuleIds, review \in reviewEvents :
             publicationEvents' = publicationEvents \cup {NewEvent(c, review, r)}
    BY <1>14, PublicationRows, PublicationRule DEF PublishCommit
  <2>2. Answer(p, "published", s) /\ cmd' = cmd
    BY <1>14 DEF PublishCommit, Answer
  <2>3. \E e \in publicationEvents' : e.sub = s /\ e.by = c.by
    <3>1. PICK r \in RuleIds, review \in reviewEvents :
            publicationEvents' = publicationEvents \cup {NewEvent(c, review, r)}
      BY <2>1
    <3>2. NewEvent(c, review, r).sub = s /\ NewEvent(c, review, r).by = c.by
      BY DEF NewEvent
    <3> QED
      BY <3>1, <3>2
  <2>4. Truth(c, "published", s)'
    BY <1>1, <2>2, <2>3 DEF Truth, EventsOf
  <2> QED
    BY <1>1, <2>1, <2>2, <2>4 DEF Replies, First, Outcomes
<1>15. CASE PublishInsertFailed(p)
  <2>1. Stored(s)
    BY <1>2, <1>15 DEF PublishInsertFailed, At, Publishing
  <2> QED
    BY <1>15, <2>1, <1>3, <1>5, <1>6 DEF PublishInsertFailed, tables
<1>16. CASE PublishResolve(p)
  <2>1. PICK e \in EventsOf(s) :
          \/ Answer(p, "integrity", s)
          \/ e.by # c.by /\ Answer(p, "conflict", s)
          \/ e.by = c.by /\ Answer(p, "publication_replay", s)
    BY <1>16 DEF PublishResolve
  <2>2. UNCHANGED tables
    BY <1>16 DEF PublishResolve, tables
  <2>3. CASE e.by # c.by /\ Answer(p, "conflict", s)
    <3>1. Truth(c, "conflict", s) /\ First(c, "conflict")
      BY <1>1, <2>3 DEF Truth, First
    <3> QED
      BY <1>1, <2>2, <2>3, <3>1, RepliesWith DEF Outcomes
  <2>4. CASE e.by = c.by /\ Answer(p, "publication_replay", s)
    <3>1. Truth(c, "publication_replay", s) /\ First(c, "publication_replay")
      BY <1>1, <2>4 DEF Truth, First
    <3> QED
      BY <1>1, <2>2, <2>4, <3>1, RepliesWith DEF Outcomes
  <2> QED
    BY <2>1, <2>3, <2>4, <1>3
<1>17. CASE PublicationUnheard(p)
  BY <1>17, <1>3 DEF PublicationUnheard, Refuse
<1>18. CASE PublishInsertFails(p)
  BY <1>18, <1>4 DEF PublishInsertFails
<1> QED
  BY <1>7, <1>8, <1>9, <1>10, <1>11, <1>12, <1>13, <1>14, <1>15, <1>16, <1>17, <1>18

\* Whatever a handler does, it starts, moves on or answers truly.
LEMMA StepReplies ==
  ASSUME Inv, Honest, NEW p \in Requests, Step(p)
  PROVE  (\E c \in Commands : Start(p, c)) \/ Moves(p) \/ Replies(p)
<1>1. RulesVersioned /\ Heard(p)
  BY DEF Honest
<1>2. CASE Prompt(p)
  BY <1>1, <1>2, SubmitReplies, ReviewReplies, PublishReplies DEF Prompt
<1>3. CASE Waiting(p)
  BY <1>1, <1>3, SubmitReplies, ReviewReplies, PublishReplies DEF Waiting
<1>4. CASE Fail(p)
  BY <1>4, RepliesNothing DEF Fail, Refuse, Outcomes
<1>5. CASE Fault(p)
  BY <1>1, <1>4, <1>5, SubmitReplies, ReviewReplies, PublishReplies DEF Fault
<1> QED
  BY <1>2, <1>3, <1>5 DEF Step

\* The other handlers keep their answers.
LEMMA RepliesAlone ==
  ASSUME Inv, Honest, NEW p \in Requests, Step(p), NEW q \in Requests \ {p}
  PROVE  reply'[q] = reply[q]
<1>1. reply \in [Requests -> Reply \cup {None}]
  BY DEF Inv, TypeOK
<1>2. CASE \E c \in Commands : Start(p, c)
  BY <1>1, <1>2 DEF Start
<1>3. CASE Moves(p)
  BY <1>3 DEF Moves, Goto
<1>4. CASE Replies(p)
  BY <1>1, <1>4 DEF Replies, Answer
<1> QED
  BY <1>2, <1>3, <1>4, StepReplies

LEMMA HeardStep ==
  ASSUME Inv, Honest, NEW p \in Requests, Step(p), NEW q \in Requests
  PROVE  Heard(q)'
<1>1. CASE q = p
  <2>1. CASE \E c \in Commands : Start(p, c)
    <3>1. PICK c \in Commands : Start(p, c)
      BY <2>1
    <3>2. FirstLabel(c.op) \in {"lookup", "base", "review_read", "guard"}
      BY CommandKinds, ConstantsAssumption DEF FirstLabel
    <3>3. pc'[p] = FirstLabel(c.op)
      BY <3>1 DEF Start, Inv, TypeOK
    <3> QED
      BY <1>1, <3>2, <3>3 DEF Heard
  <2>2. CASE Moves(p)
    BY <1>1, <2>2 DEF Moves
  <2>3. CASE Replies(p)
    <3>1. pc'[p] = "idle"
      BY <2>3, GoesTo DEF Replies
    <3> QED
      BY <1>1, <3>1 DEF Heard
  <2> QED
    BY <2>1, <2>2, <2>3, StepReplies
<1>2. CASE q # p
  <2>1. /\ pc'[q] = pc[q]
        /\ cmd'[q] = cmd[q]
        /\ seen'[q] = seen[q]
    BY <1>2, StepMoves DEF Moved, Alone
  <2>2. Heard(q)
    BY DEF Honest
  <2>3. pc[q] \in {"review_reread", "review_resolve", "publish_recheck"} =>
          cmd[q].sub \in SubIds /\ Stored(cmd[q].sub)
    BY Knows DEF Reviewing, Publishing
  <2>4. \A s \in SubIds : Stored(s) =>
          /\ submissions'[s].intent = submissions[s].intent
          /\ submissions[s].status # "pending" => submissions'[s] = submissions[s]
    BY StepGrows, SubmissionSteps DEF Grown, StatusOf
  <2>5. \A c : CodeTaken(c) =>
          \E r \in RuleIds : rules'[r] # None /\ rules'[r].draft.code = c
    BY StepGrows DEF Grown, CodeTaken
  <2>6. ASSUME pc[q] \in {"review_reread", "review_resolve"}
        PROVE  submissions'[cmd[q].sub].status = submissions[cmd[q].sub].status
    BY <2>2, <2>3, <2>4, <2>6 DEF Heard, StatusOf
  <2>7. ASSUME pc[q] = "publish_recheck"
        PROVE  submissions'[cmd[q].sub].intent = submissions[cmd[q].sub].intent
    BY <2>3, <2>4, <2>7
  <2> QED
    BY <2>1, <2>2, <2>5, <2>6, <2>7 DEF Heard, StatusOf, DraftOf, CodeTaken
<1> QED
  BY <1>1, <1>2

\* A handler that runs a statement executes a command.
LEMMA Busy ==
  ASSUME Inv, NEW p \in Requests, Prompt(p) \/ Waiting(p) \/ Fault(p)
  PROVE  cmd[p] \in Command
<1>1. pc[p] # "idle"
  <2>1. CASE Prompt(p)
    BY <2>1, Zenon
    DEF Prompt, RevisionBase, LookupPending, ValidateCreate, LookupWinner, ReviewRead,
        ReviewValidate, ReviewCommit, StoreReview, ReviewReread, ReviewResolve,
        PublicationGuard, PublishRead, PublishLookupEvent, PublishSource, PublishValidate,
        PublishRecheck, PublishCommit, StorePublication, PublishInsertFailed,
        PublishResolve, At
  <2>2. CASE Waiting(p)
    BY <2>2, Zenon
    DEF Waiting, InsertSubmission, StoreSubmission, InsertCollides, ReviewCAS,
        PublishInsert, At
  <2>3. CASE Fault(p)
    BY <2>3, Zenon
    DEF Fault, Fail, InsertFails, PublishInsertFails, InsertUnheard, StoreSubmission,
        ReviewUnheard, StoreReview, PublicationUnheard, StorePublication,
        ValidateCreateUncounted, At
  <2> QED
    BY <2>1, <2>2, <2>3
<1>2. pc[p] \in Submitting \cup Reviewing \cup Publishing
  BY <1>1 DEF Inv, TypeOK, Labels, Submitting, Reviewing, Publishing
<1> QED
  BY <1>2, Knows DEF Command

LEMMA ToldStep ==
  ASSUME Inv, Honest, NEW p \in Requests, Step(p), NEW q \in Requests
  PROVE  Told(q)'
<1> SUFFICES ASSUME pc'[q] = "idle", reply'[q] # None
             PROVE  /\ cmd'[q] \in Command
                    /\ Truth(cmd[q], reply[q].outcome, reply[q].sub)'
  BY DEF Told
<1>1. CASE q = p
  <2>1. CASE \E c \in Commands : Start(p, c)
    BY <1>1, <2>1 DEF Start, Inv, TypeOK
  <2>2. CASE Moves(p)
    BY <1>1, <2>2, GoesTo DEF Moves
  <2>3. CASE Replies(p)
    <3>1. PICK o \in Outcomes, s \in SubIds \cup {None} :
            Answer(p, o, s) /\ Truth(cmd[p], o, s)'
      BY <2>3 DEF Replies
    <3>2. reply'[p] = [outcome |-> o, sub |-> s] /\ cmd' = cmd
      BY <3>1 DEF Answer, Inv, TypeOK
    <3>3. cmd[p] \in Command
      <4>1. ~ \E c \in Commands : Start(p, c)
        BY <1>1 DEF Start, Inv, TypeOK
      <4> QED
        BY <4>1, Busy DEF Step
    <3> QED
      BY <1>1, <3>1, <3>2, <3>3
  <2> QED
    BY <2>1, <2>2, <2>3, StepReplies
<1>2. CASE q # p
  <2>1. /\ pc'[q] = pc[q]
        /\ cmd'[q] = cmd[q]
        /\ reply'[q] = reply[q]
    BY <1>2, StepMoves, RepliesAlone DEF Moved, Alone
  <2>2. Told(q)
    BY DEF Honest
  <2>3. PICK c, o, s : c = cmd[q] /\ o = reply[q].outcome /\ s = reply[q].sub
    OBVIOUS
  <2>4. c \in Command /\ Truth(c, o, s)
    BY <2>1, <2>2, <2>3 DEF Told
  <2>5. Truth(c, o, s)'
    BY <2>4, TruthStays
  <2>6. c = cmd'[q] /\ o = reply'[q].outcome /\ s = reply'[q].sub
    BY <2>1, <2>3
  <2> QED
    BY <2>4, <2>5, <2>6
<1> QED
  BY <1>1, <1>2

\* Whoever is told to be the first has found no event, whoever was told has left
\* one behind.
LEMMA FirstStep ==
  ASSUME Inv, Honest, NEW p \in Requests, Step(p)
  PROVE  OneFirstAnswer'
<1> DEFINE first == {"reviewed", "published"}
           Says(x, op) == /\ pc'[x] = "idle"
                          /\ reply'[x] # None
                          /\ cmd'[x].op = op
                          /\ reply'[x].outcome \in first
<1>1. ASSUME NEW op \in {"review", "publish"}, NEW y \in Requests \ {p},
             Says(p, op), Says(y, op), cmd'[p].sub = cmd'[y].sub
      PROVE  FALSE
  <2>1. /\ pc'[y] = pc[y]
        /\ cmd'[y] = cmd[y]
        /\ reply'[y] = reply[y]
    BY StepMoves, RepliesAlone DEF Moved, Alone
  <2>2. Truth(cmd[y], reply[y].outcome, reply[y].sub)
    BY <1>1, <2>1 DEF Honest, Told
  <2>3. Replies(p)
    <3>1. ~ \E c \in Commands : Start(p, c)
      BY <1>1 DEF Start, Inv, TypeOK
    <3>2. ~Moves(p)
      BY <1>1, GoesTo DEF Moves
    <3> QED
      BY <3>1, <3>2, StepReplies
  <2>4. PICK o \in Outcomes, s \in SubIds \cup {None} :
          Answer(p, o, s) /\ Truth(cmd[p], o, s)' /\ First(cmd[p], o)
    BY <2>3 DEF Replies
  <2>5. reply'[p].outcome = o /\ cmd'[p] = cmd[p]
    BY <2>4 DEF Answer, Inv, TypeOK
  <2>6. CASE op = "review"
    <3>1. o = "reviewed"
      BY <1>1, <2>4, <2>5, <2>6 DEF Truth
    <3>2. CommittedReview(cmd[y]) \in reviewEvents
      BY <1>1, <2>1, <2>2, <2>6 DEF Truth
    <3>3. CommittedReview(cmd[y]).sub = cmd[p].sub
      BY <1>1, <2>1, <2>5 DEF CommittedReview
    <3> QED
      BY <2>4, <3>1, <3>2, <3>3 DEF First
  <2>7. CASE op = "publish"
    <3>1. o = "published"
      BY <1>1, <2>4, <2>5, <2>7 DEF Truth
    <3>2. EventsOf(cmd[y].sub) # {}
      BY <1>1, <2>1, <2>2, <2>7 DEF Truth
    <3> QED
      BY <1>1, <2>1, <2>4, <2>5, <3>1, <3>2 DEF First
  <2> QED
    BY <1>1, <2>6, <2>7
<1>2. ASSUME NEW op \in {"review", "publish"}, NEW x \in Requests \ {p},
             NEW y \in Requests \ {p}, Says(x, op), Says(y, op), cmd'[x].sub = cmd'[y].sub
      PROVE  x = y
  <2>1. \A q \in {x, y} : pc'[q] = pc[q] /\ cmd'[q] = cmd[q] /\ reply'[q] = reply[q]
    BY StepMoves, RepliesAlone DEF Moved, Alone
  <2> QED
    BY <1>2, <2>1 DEF Honest, OneFirstAnswer, Answered, At
<1> HIDE DEF Says
<1>3. \A x, y \in Requests, op \in {"review", "publish"} :
        Says(x, op) /\ Says(y, op) /\ cmd'[x].sub = cmd'[y].sub => x = y
  BY <1>1, <1>2
<1> QED
  BY <1>3 DEF OneFirstAnswer, Answered, At, Says

LEMMA HonestInit == Init => Honest
<1> SUFFICES ASSUME Init
             PROVE  Honest
  OBVIOUS
<1>1. RulesVersioned
  <2> SUFFICES ASSUME NEW r \in RuleIds, rules[r] # None
               PROVE  \E v \in ruleVersions : MatchesVersion(r, v)
    BY DEF RulesVersioned
  <2>1. r \in DOMAIN SeedRules
    BY DEF Init
  <2>2. /\ rules[r] = [draft |-> SeedRules[r], version |-> 1, source |-> None]
        /\ [rule |-> r, version |-> 1, draft |-> SeedRules[r],
            source |-> "legacy_baseline"] \in ruleVersions
    BY <2>1 DEF Init
  <2> QED
    BY <2>2 DEF MatchesVersion
<1>2. \A p \in Requests : pc[p] = "idle" /\ reply[p] = None
  BY DEF Init
<1> QED
  BY <1>1, <1>2 DEF Honest, Heard, Told, OneFirstAnswer, Answered

LEMMA HonestStep ==
  ASSUME Inv, Honest, [Next]_vars
  PROVE  Honest'
<1>1. CASE UNCHANGED vars
  BY <1>1
  DEF vars, tables, Honest, RulesVersioned, MatchesVersion, Heard, Told, Truth, Stored,
      StatusOf, IntentOf, CommittedReview, DraftOf, SameReview, EventsOf, CodeTaken,
      OneFirstAnswer, Answered, At
<1>2. ASSUME NEW p \in Requests, Step(p)
      PROVE  Honest'
  <2>1. RulesVersioned'
    BY <1>2, RulesVersionedStep DEF Honest
  <2> QED
    BY <1>2, <2>1, HeardStep, ToldStep, FirstStep DEF Honest
<1> QED
  BY <1>1, <1>2, NextStep

\* Answers are honest in every reachable state.
THEOREM Honesty == Spec => []Honest
BY HonestInit, HonestStep, Invariance, PTL DEF Spec

\* What a client has been told is true of the tables from then on: a replay is
\* a replay, a conflict is with somebody else, a taken code is another rule's.
THEOREM AnswersStayTrue == Spec => []AnswersTrue
<1>1. Inv /\ Honest => AnswersTrue
  <2> SUFFICES ASSUME Inv, Honest, NEW p \in Requests, At(p, "idle"), reply[p] # None
               PROVE  LET c == cmd[p]
                          o == reply[p].outcome
                          s == reply[p].sub
                      IN /\ c.op \in {"create", "revise"} /\ o \in {"created", "replayed"} =>
                              submissions[s] # None /\ submissions[s].intent = IntentOf(c)
                         /\ c.op = "review" /\ o \in {"reviewed", "review_replay"} =>
                              CommittedReview(c) \in reviewEvents
                         /\ c.op = "review" /\ o = "conflict" =>
                              /\ CommittedReview(c) \notin reviewEvents
                              /\ \E e \in reviewEvents : e.sub = c.sub
                         /\ c.op = "publish" /\ o \in {"published", "publication_replay"} =>
                              \E e \in EventsOf(c.sub) : e.by = c.by
                         /\ c.op = "publish" /\ o = "conflict" =>
                              \E e \in EventsOf(c.sub) : e.by # c.by
                         /\ c.op = "publish" /\ o \in {"duplicate_code", "code_conflict"} =>
                              \E r \in RuleIds : /\ rules[r] # None
                                                 /\ rules[r].draft.code = DraftOf(c.sub).code
                                                 /\ rules[r].source # c.sub
    BY Zenon DEF AnswersTrue, Answered
  <2>1. Truth(cmd[p], reply[p].outcome, reply[p].sub)
    BY DEF Honest, Told, At
  <2>2. ASSUME NEW e \in reviewEvents, e.sub = cmd[p].sub, ~SameReview(e, cmd[p])
        PROVE  CommittedReview(cmd[p]) \notin reviewEvents
    <3>1. CommittedReview(cmd[p]) \in reviewEvents => e = CommittedReview(cmd[p])
      BY <2>2 DEF CommittedReview, Inv, ReviewedExactlyOnce
    <3> QED
      BY <2>2, <3>1 DEF CommittedReview, SameReview
  <2> QED
    BY <2>1, <2>2 DEF Truth, Stored
<1> QED
  BY <1>1, Invariance, Honesty, PTL

\* Of the handlers that decide or publish one submission, one is the first.
THEOREM FirstAnswerOnce == Spec => []OneFirstAnswer
<1>1. Honest => OneFirstAnswer
  BY DEF Honest
<1> QED
  BY <1>1, Honesty, PTL

\* The answer to a create, a revision or a review never is that the stored rows
\* contradict each other: a handler that has lost the compare-and-set of a
\* submission sees the winner's rows when it reads again.
THEOREM NobodyAlarmed == Spec => []NoFalseAlarm
<1>1. Honest => NoFalseAlarm
  BY DEF Honest, Told, Truth, NoFalseAlarm, Answered, At
<1> QED
  BY <1>1, Honesty, PTL
=============================================================================
