---------------------------- MODULE RuleWorkflow ----------------------------
(***************************************************************************)
(* The rule contribution workflow of backend/internal/modules/rule: create *)
(* and revision submissions, maintainer review and controlled publication, *)
(* executed by concurrent HTTP handlers against one SQL database.          *)
(*                                                                         *)
(* Every handler is a process that runs its statements one at a time at    *)
(* the READ COMMITTED level the PostgreSQL deployment uses: a statement    *)
(* sees what has been committed when it runs, and what a transaction has   *)
(* written becomes visible at its commit.  The two statements that can     *)
(* wait for another transaction take a lock: the compare-and-set of a      *)
(* review (the submission's row) and the insert of a rule (its code in the *)
(* unique index).                                                          *)
(*                                                                         *)
(* Digests are injective on what they are computed from: a draft digest is *)
(* the draft, a request digest the whole intent.  Rows of submissions,     *)
(* events and versions are never rewritten, so the checks of a stored      *)
(* digest against its own row, which no step can make fail, are left out.  *)
(***************************************************************************)
EXTENDS Naturals, FiniteSets

CONSTANTS
  Requests,          \* the handlers that run at the same time
  SubIds,            \* primary keys of rule_submissions (bounds their number)
  RuleIds,           \* primary keys of risk_rules (bounds their number)
  Codes,             \* rule codes
  Contents,          \* everything of a draft except its code
  MalformedContents, \* contents validateDraftFields refuses
  EnabledTwin,       \* a content with its enabled flag set to true
  SeedRules,         \* seeded rules: a function from some RuleIds to drafts
  Reviewers,         \* (actor label, normalised reason) of a review command
  Publishers,        \* actor labels of publication commands
  Commands,          \* the commands clients send
  None               \* no row, no command, nobody

Draft == [code : Codes, content : Contents]

CreateIntent   == [kind : {"create"}, draft : Draft]
RevisionIntent == [kind : {"revision"}, draft : Draft,
                   target : RuleIds, base : Nat]
Intent == CreateIntent \cup RevisionIntent

Decisions == {"approved", "rejected"}
Statuses  == {"pending"} \cup Decisions

RuleSubmission == [status : Statuses, intent : Intent]
RiskRule       == [draft : Draft, version : Nat, source : SubIds \cup {None}]
ReviewEvent    == [sub : SubIds, decision : Decisions, by : Reviewers,
                   draft : Draft]
PublicationEvent == [sub : SubIds, review : ReviewEvent, rule : RuleIds,
                     code : Codes, by : Publishers, draft : Draft]
RiskRuleVersion ==
       [rule : RuleIds, version : Nat, draft : Draft,
        source : {"legacy_baseline"}]
  \cup [rule : RuleIds, version : Nat, draft : Draft,
        source : {"controlled_publication"}, event : PublicationEvent]

CreateCommand  == [op : {"create"}, draft : Draft]
ReviseCommand  == [op : {"revise"}, target : RuleIds, base : Nat,
                   content : Contents]
ReviewCommand  == [op : {"review"}, sub : SubIds, decision : Decisions,
                   by : Reviewers]
PublishCommand == [op : {"publish"}, sub : SubIds, by : Publishers]
Command == CreateCommand \cup ReviseCommand \cup ReviewCommand
             \cup PublishCommand

ASSUME ConstantsAssumption ==
  /\ IsFiniteSet(SubIds)
  /\ MalformedContents \subseteq Contents
  /\ EnabledTwin \in [Contents -> Contents]
  /\ DOMAIN SeedRules \subseteq RuleIds
  /\ \A r \in DOMAIN SeedRules : SeedRules[r] \in Draft
  /\ \A r1, r2 \in DOMAIN SeedRules :
       SeedRules[r1].code = SeedRules[r2].code => r1 = r2
  /\ Commands \subseteq Command

ASSUME NoneAssumption ==
  /\ None \notin Requests
  /\ None \notin SubIds
  /\ None \notin Command
  /\ None \notin RuleSubmission
  /\ None \notin RiskRule
  /\ None \notin Statuses
  /\ None \notin Intent
  /\ None \notin [decision : Decisions, by : Reviewers]
  /\ None \notin Publishers

VARIABLES
  submissions,        \* rule_submissions
  reviewEvents,       \* rule_submission_review_events
  publicationEvents,  \* rule_submission_publication_events
  rules,              \* risk_rules
  ruleVersions,       \* risk_rule_versions
  rowLock,            \* the transaction that has updated a submission's row
  codeLock,           \* the transaction that has inserted a rule of a code
  pc,                 \* the next statement of each handler
  cmd,                \* the command each handler executes or answered last
  seen,               \* the submission status its transaction has read
  reply               \* the last answer of each handler

tables == <<submissions, reviewEvents, publicationEvents, rules, ruleVersions>>
locks  == <<rowLock, codeLock>>
vars   == <<tables, locks, pc, cmd, seen, reply>>

Labels == {"idle", "base", "lookup", "validate", "insert", "winner",
           "review_read", "review_validate", "review_cas", "review_commit",
           "review_reread", "review_resolve",
           "guard", "publish_read", "publish_event", "publish_source",
           "publish_validate", "publish_recheck", "publish_insert",
           "publish_commit", "publish_failed", "publish_resolve"}

Outcomes == {"created", "replayed", "reviewed", "review_replay", "published",
             "publication_replay", "malformed", "duplicate_code",
             "stale_base", "not_found", "not_publishable", "conflict",
             "code_conflict", "integrity", "db_error"}

Reply == [outcome : Outcomes, sub : SubIds \cup {None}]

TypeOK ==
  /\ submissions \in [SubIds -> RuleSubmission \cup {None}]
  /\ reviewEvents \subseteq ReviewEvent
  /\ publicationEvents \subseteq PublicationEvent
  /\ rules \in [RuleIds -> RiskRule \cup {None}]
  /\ ruleVersions \subseteq RiskRuleVersion
  /\ rowLock \in [SubIds -> Requests \cup {None}]
  /\ codeLock \in [Codes -> Requests \cup {None}]
  /\ pc \in [Requests -> Labels]
  /\ cmd \in [Requests -> Command \cup {None}]
  /\ seen \in [Requests -> Statuses \cup {None}]
  /\ reply \in [Requests -> Reply \cup {None}]

(***************************************************************************)
(* What the statements read.                                               *)
(***************************************************************************)
Stored(s)   == submissions[s] # None
StatusOf(s) == submissions[s].status
DraftOf(s)  == submissions[s].intent.draft

\* Mutant: revisions get no request digest, so the index ignores them.
PendingCreateWith(i) ==
  {s \in SubIds : i.kind = "create" /\ Stored(s) /\ StatusOf(s) = "pending"
                                    /\ submissions[s].intent = i}

\* getPendingSubmissionByRequestDigest; also the partial unique index on
\* (request_digest) WHERE status = 'pending'.
PendingWith(i) ==
  {s \in SubIds : Stored(s) /\ StatusOf(s) = "pending"
                            /\ submissions[s].intent = i}

\* The duplicate-code count of ValidateDraft and the unique index on
\* risk_rules.code.
CodeTaken(c) == \E r \in RuleIds : rules[r] # None /\ rules[r].draft.code = c

\* A history row that VerifyRiskRuleMatchesVersion accepts for a rule.
MatchesVersion(r, v) ==
  /\ v.rule = r
  /\ v.version = rules[r].version
  /\ v.draft = rules[r].draft

\* Mutant: the base version of a revision is not stored.
UnversionedIntent(c) ==
  IF c.op = "create"
  THEN [kind |-> "create", draft |-> c.draft]
  ELSE [kind |-> "revision",
        draft |-> [code |-> rules[c.target].draft.code, content |-> c.content],
        target |-> c.target]

\* The intent a create or revise command asks to store.  A revision takes the
\* code of its target, whatever the client sent.
IntentOf(c) ==
  IF c.op = "create"
  THEN [kind |-> "create", draft |-> c.draft]
  ELSE [kind |-> "revision",
        draft |-> [code |-> rules[c.target].draft.code, content |-> c.content],
        target |-> c.target, base |-> c.base]

\* resolveExistingSubmissionReview: a stored event is the event of the command.
SameReview(e, c) == e.decision = c.decision /\ e.by = c.by

\* verifyPublicationSourceIntegrity: the event is the approval of this draft.
ApprovesDraft(e, s) == e.sub = s /\ e.decision = "approved"
                                 /\ e.draft = DraftOf(s)

(***************************************************************************)
(* Moving a handler on, answering, and giving locks back.                  *)
(***************************************************************************)
At(p, label) == pc[p] = label

Goto(p, label) ==
  /\ pc' = [pc EXCEPT ![p] = label]
  /\ UNCHANGED <<cmd, reply>>

Answer(p, outcome, s) ==
  /\ pc' = [pc EXCEPT ![p] = "idle"]
  /\ reply' = [reply EXCEPT ![p] = [outcome |-> outcome, sub |-> s]]
  /\ seen' = [seen EXCEPT ![p] = None]
  /\ UNCHANGED cmd

Refuse(p, outcome) == Answer(p, outcome, None)

Read(p, s)   == seen' = [seen EXCEPT ![p] = StatusOf(s)]
Release(p) ==
  /\ rowLock'  = [s \in SubIds |-> IF rowLock[s] = p THEN None ELSE rowLock[s]]
  /\ codeLock' = [c \in Codes |-> IF codeLock[c] = p THEN None ELSE codeLock[c]]

FirstLabel(op) ==
  CASE op = "create"  -> "lookup"
    [] op = "revise"  -> "base"
    [] op = "review"  -> "review_read"
    [] op = "publish" -> "guard"

\* Submissions that are stored or that a handler may still store: the bound
\* SubIds puts on the create and revise commands.
Claimed == Cardinality({s \in SubIds : Stored(s)})
             + Cardinality({p \in Requests : ~At(p, "idle") /\ cmd[p].op \in {"create", "revise"}})

\* The router hands a request to a handler.
Start(p, c) ==
  /\ At(p, "idle")
  /\ c.op \in {"create", "revise"} => Claimed < Cardinality(SubIds)
  /\ pc' = [pc EXCEPT ![p] = FirstLabel(c.op)]
  /\ cmd' = [cmd EXCEPT ![p] = c]
  /\ reply' = [reply EXCEPT ![p] = None]
  /\ UNCHANGED <<tables, locks, seen>>

(***************************************************************************)
(* CreateOrReplayPendingSubmission and                                     *)
(* CreateOrReplayPendingRevisionSubmission: separate statements, no        *)
(* transaction.  A create looks for the pending twin first and validates   *)
(* then; a revision validates its target first.                            *)
(***************************************************************************)

\* loadTrustedRevisionBase and ValidateRevisionDraft.  Their reads are one
\* step: a rule and its versions are committed together and then stay.  A
\* category count whose error is ignored refuses any draft.
RevisionBase(p) ==
  /\ At(p, "base")
  /\ LET c == cmd[p]
         r == c.target
     IN \/ rules[r] = None /\ Refuse(p, "not_found")
        \/ /\ rules[r] # None
           /\ rules[r].version # c.base
           /\ Refuse(p, "stale_base")
        \/ /\ rules[r] # None
           /\ rules[r].version = c.base
           /\ ~ \E v \in ruleVersions : MatchesVersion(r, v)
           /\ Refuse(p, "integrity")
        \/ /\ rules[r] # None
           /\ rules[r].version = c.base
           /\ \E v \in ruleVersions : MatchesVersion(r, v)
           /\ \/ Refuse(p, "malformed")
              \/ /\ c.content \notin MalformedContents \cup {rules[r].draft.content}
                 /\ Goto(p, "lookup")
                 /\ UNCHANGED seen
  /\ UNCHANGED <<tables, locks>>

LookupPending(p) ==
  /\ At(p, "lookup")
  /\ \/ \E s \in PendingWith(IntentOf(cmd[p])) : Answer(p, "replayed", s)
     \/ /\ PendingWith(IntentOf(cmd[p])) = {}
        /\ Goto(p, IF cmd[p].op = "create" THEN "validate" ELSE "insert")
        /\ UNCHANGED seen
  /\ UNCHANGED <<tables, locks>>

\* ValidateDraft of a create.
ValidateCreate(p) ==
  /\ At(p, "validate")
  /\ LET d == cmd[p].draft
     IN \/ d.content \in MalformedContents /\ Refuse(p, "malformed")
        \/ /\ d.content \notin MalformedContents
           /\ CodeTaken(d.code)
           /\ Refuse(p, "duplicate_code")
        \/ /\ d.content \notin MalformedContents
           /\ ~CodeTaken(d.code)
           /\ Goto(p, "insert")
           /\ UNCHANGED seen
  /\ UNCHANGED <<tables, locks>>

\* The counting queries of ValidateDraft ignore their errors: a lost category
\* count refuses the draft, a lost code count lets a duplicate through.  Inside
\* the transactions of a review or a publication the next statement fails too,
\* which is Fail.
ValidateCreateUncounted(p) ==
  /\ At(p, "validate")
  /\ \/ Refuse(p, "malformed")
     \/ /\ cmd[p].draft.content \notin MalformedContents
        /\ Goto(p, "insert")
        /\ UNCHANGED seen
  /\ UNCHANGED <<tables, locks>>

StoreSubmission(p, s) ==
  /\ At(p, "insert")
  /\ PendingWith(IntentOf(cmd[p])) = {}
  /\ ~Stored(s)
  /\ submissions' = [submissions EXCEPT
       ![s] = [status |-> "pending", intent |-> IntentOf(cmd[p])]]
  /\ UNCHANGED <<reviewEvents, publicationEvents, rules, ruleVersions, locks>>

InsertSubmission(p) ==
  \E s \in SubIds : StoreSubmission(p, s) /\ Answer(p, "created", s)

\* The unique index refuses the row, once no transaction is about to move the
\* pending twin out of the index.
InsertCollides(p) ==
  /\ At(p, "insert")
  /\ \E s \in PendingWith(IntentOf(cmd[p])) : rowLock[s] = None
  /\ Goto(p, "winner")
  /\ UNCHANGED <<tables, locks, seen>>

\* After a failed insert: a pending twin is the winner.
LookupWinner(p) ==
  /\ At(p, "winner")
  /\ \/ \E s \in PendingWith(IntentOf(cmd[p])) : Answer(p, "replayed", s)
     \/ PendingWith(IntentOf(cmd[p])) = {} /\ Refuse(p, "db_error")
  /\ UNCHANGED <<tables, locks>>

(***************************************************************************)
(* ReviewPendingSubmission: one transaction up to the commit, then, when   *)
(* the compare-and-set was lost, a look at the winner outside it.          *)
(***************************************************************************)
ReviewRead(p) ==
  /\ At(p, "review_read")
  /\ LET c == cmd[p]
     IN \/ ~Stored(c.sub) /\ Refuse(p, "not_found")
        \/ /\ Stored(c.sub)
           /\ Read(p, c.sub)
           /\ Goto(p, IF StatusOf(c.sub) # "pending" THEN "review_resolve"
                      ELSE IF c.decision = "approved" THEN "review_validate"
                      ELSE "review_cas")
  /\ UNCHANGED <<tables, locks>>

\* validateSubmissionForApproval: ValidateDraft again for a create, the base
\* and ValidateRevisionDraft again for a revision.
StaleRevision(i) ==
  rules[i.target] = None \/ rules[i.target].version # i.base

ReviewValidate(p) ==
  /\ At(p, "review_validate")
  /\ LET i == submissions[cmd[p].sub].intent
         create == i.kind = "create"
     IN \/ /\ \/ i.draft.content \in MalformedContents
              \/ /\ ~create
                 /\ ~StaleRevision(i)
                 /\ rules[i.target].draft = i.draft
           /\ Refuse(p, "malformed")
        \/ create /\ CodeTaken(i.draft.code) /\ Refuse(p, "duplicate_code")
        \/ ~create /\ StaleRevision(i) /\ Refuse(p, "stale_base")
        \/ /\ ~create
           /\ ~StaleRevision(i)
           /\ ~ \E v \in ruleVersions : MatchesVersion(i.target, v)
           /\ Refuse(p, "integrity")
        \/ /\ i.draft.content \notin MalformedContents
           /\ create => ~CodeTaken(i.draft.code)
           /\ ~create => /\ ~StaleRevision(i)
                         /\ \E v \in ruleVersions : MatchesVersion(i.target, v)
                         /\ rules[i.target].draft # i.draft
           /\ Goto(p, "review_cas")
           /\ UNCHANGED seen
  /\ UNCHANGED <<tables, locks>>

\* Mutant: the update has no status predicate.
UnconditionalUpdate(p) ==
  /\ At(p, "review_cas")
  /\ rowLock[cmd[p].sub] = None
  /\ rowLock' = [rowLock EXCEPT ![cmd[p].sub] = p]
  /\ Goto(p, "review_commit")
  /\ UNCHANGED <<tables, codeLock, seen>>

\* UPDATE ... WHERE id = ? AND status = 'pending'.  It waits for the
\* transaction that has updated the row, then counts the rows it matches.
ReviewCAS(p) ==
  /\ At(p, "review_cas")
  /\ LET s == cmd[p].sub
     IN /\ rowLock[s] = None
        /\ \/ /\ StatusOf(s) = "pending"
              /\ rowLock' = [rowLock EXCEPT ![s] = p]
              /\ Goto(p, "review_commit")
           \/ /\ StatusOf(s) # "pending"
              /\ Goto(p, "review_reread")
              /\ UNCHANGED rowLock
  /\ UNCHANGED <<tables, codeLock, seen>>

\* Mutant: the update decides every submission.
DecidedAll(c) ==
  [s \in SubIds |-> IF Stored(s) THEN [submissions[s] EXCEPT !.status = c.decision]
                    ELSE None]

\* The rows the commit of a review makes visible.
Decided(c) ==
  [submissions EXCEPT ![c.sub] = [status |-> c.decision, intent |-> @.intent]]

CommittedReview(c) == [sub |-> c.sub, decision |-> c.decision, by |-> c.by,
                       draft |-> DraftOf(c.sub)]

\* Mutant: the status is committed and the event is not.
StoreStatusOnly(p) ==
  /\ At(p, "review_commit")
  /\ submissions' = Decided(cmd[p])
  /\ UNCHANGED <<reviewEvents, publicationEvents, rules, ruleVersions>>
  /\ Release(p)

\* The review event is inserted and the transaction commits.  The first guard
\* is the unique index on submission_id; LocksGuardCommits says that it never
\* refuses.
StoreReview(p) ==
  /\ At(p, "review_commit")
  /\ ~ \E e \in reviewEvents : e.sub = cmd[p].sub
  /\ submissions' = Decided(cmd[p])
  /\ reviewEvents' = reviewEvents \cup {CommittedReview(cmd[p])}
  /\ UNCHANGED <<publicationEvents, rules, ruleVersions>>
  /\ Release(p)

ReviewCommit(p) == StoreReview(p) /\ Answer(p, "reviewed", cmd[p].sub)

\* Mutant: an update of no row is taken for a success.
UncountedUpdate(p) ==
  /\ At(p, "review_reread")
  /\ Answer(p, "reviewed", cmd[p].sub)
  /\ UNCHANGED <<tables, locks>>

\* Mutant: the winner's event is compared with the status read before the wait.
StaleReread(p) ==
  /\ At(p, "review_reread")
  /\ Goto(p, "review_resolve")
  /\ UNCHANGED <<tables, locks, seen>>

\* resolveSubmissionReviewAfterCASLoss
ReviewReread(p) ==
  /\ At(p, "review_reread")
  /\ Read(p, cmd[p].sub)
  /\ Goto(p, "review_resolve")
  /\ UNCHANGED <<tables, locks>>

\* resolveExistingSubmissionReview, with the status read before the event.
ReviewResolve(p) ==
  /\ At(p, "review_resolve")
  /\ LET c  == cmd[p]
         es == {e \in reviewEvents : e.sub = c.sub}
     IN \/ (seen[p] = "pending" \/ es = {}) /\ Refuse(p, "integrity")
        \/ /\ seen[p] # "pending"
           /\ \E e \in es :
                IF SameReview(e, c) /\ e.decision = seen[p]
                THEN Answer(p, "review_replay", c.sub)
                ELSE Refuse(p, "conflict")
  /\ UNCHANGED <<tables, locks>>

(***************************************************************************)
(* RevisionPublicationI2Guard and PublishApprovedSubmission.               *)
(***************************************************************************)

\* The middleware looks at the kind before the handler runs; a submission that
\* does not exist yet is left to the handler.
PublicationGuard(p) ==
  /\ At(p, "guard")
  /\ LET s == cmd[p].sub
         revision == Stored(s) /\ submissions[s].intent.kind = "revision"
     IN \/ revision /\ Refuse(p, "not_publishable")
        \/ ~revision /\ Goto(p, "publish_read") /\ UNCHANGED seen
  /\ UNCHANGED <<tables, locks>>

PublishRead(p) ==
  /\ At(p, "publish_read")
  /\ \/ ~Stored(cmd[p].sub) /\ Refuse(p, "not_found")
     \/ Stored(cmd[p].sub) /\ Read(p, cmd[p].sub) /\ Goto(p, "publish_event")
  /\ UNCHANGED <<tables, locks>>

EventsOf(s) == {e \in publicationEvents : e.sub = s}

PublishLookupEvent(p) ==
  /\ At(p, "publish_event")
  /\ LET s == cmd[p].sub
     IN \/ /\ EventsOf(s) # {}
           /\ Goto(p, "publish_resolve")
           /\ UNCHANGED seen
        \/ /\ EventsOf(s) = {}
           /\ seen[p] = "approved"
           /\ Goto(p, "publish_source")
           /\ UNCHANGED seen
        \/ /\ EventsOf(s) = {}
           /\ seen[p] # "approved"
           /\ Refuse(p, "not_publishable")
  /\ UNCHANGED <<tables, locks>>

\* loadApprovedPublicationSource
PublishSource(p) ==
  /\ At(p, "publish_source")
  /\ LET approved == \E e \in reviewEvents : ApprovesDraft(e, cmd[p].sub)
     IN \/ approved /\ Goto(p, "publish_validate") /\ UNCHANGED seen
        \/ ~approved /\ Refuse(p, "integrity")
  /\ UNCHANGED <<tables, locks>>

\* ValidateDraft of the approved snapshot: the code must still be free.
PublishValidate(p) ==
  /\ At(p, "publish_validate")
  /\ LET d == DraftOf(cmd[p].sub)
         valid == d.content \notin MalformedContents /\ ~CodeTaken(d.code)
     IN Goto(p, IF valid THEN "publish_insert" ELSE "publish_recheck")
  /\ UNCHANGED <<tables, locks, seen>>

\* Mutant: a draft that has become invalid is refused at once.
RefuseInvalid(p) ==
  /\ At(p, "publish_recheck")
  /\ Answer(p, IF DraftOf(cmd[p].sub).content \in MalformedContents
               THEN "malformed" ELSE "duplicate_code", cmd[p].sub)
  /\ UNCHANGED <<tables, locks>>

\* An invalid draft may be invalid because a concurrent publisher of the same
\* submission has committed its rule.
PublishRecheck(p) ==
  /\ At(p, "publish_recheck")
  /\ LET s == cmd[p].sub
     IN \/ /\ EventsOf(s) # {}
           /\ Goto(p, "publish_resolve")
           /\ UNCHANGED seen
        \/ /\ EventsOf(s) = {}
           /\ Answer(p, IF DraftOf(s).content \in MalformedContents
                        THEN "malformed" ELSE "duplicate_code", s)
  /\ UNCHANGED <<tables, locks>>

\* Mutant: no unique index on the code.
UnindexedInsert(p) ==
  /\ At(p, "publish_insert")
  /\ codeLock' = [codeLock EXCEPT ![DraftOf(cmd[p].sub).code] = p]
  /\ Goto(p, "publish_commit")
  /\ UNCHANGED <<tables, rowLock, seen>>

\* The insert of the rule waits for the transaction that has inserted the same
\* code, then succeeds or violates the unique index.
PublishInsert(p) ==
  /\ At(p, "publish_insert")
  /\ LET c == DraftOf(cmd[p].sub).code
     IN /\ codeLock[c] = None
        /\ \/ /\ ~CodeTaken(c)
              /\ codeLock' = [codeLock EXCEPT ![c] = p]
              /\ Goto(p, "publish_commit")
           \/ /\ CodeTaken(c)
              /\ Goto(p, "publish_failed")
              /\ UNCHANGED codeLock
  /\ UNCHANGED <<tables, rowLock, seen>>

\* GORM writes enabled = true over a false value on insert; the transaction
\* restores the approved value before it commits.
InsertedDraft(d)   == [d EXCEPT !.content = EnabledTwin[d.content]]
UnrestoredDraft(d) == InsertedDraft(d) \* mutant: the flag is not restored
PublishedDraft(d) == IF InsertedDraft(d) # d THEN d ELSE InsertedDraft(d)

\* The rows the commit makes visible: rule, event and version 1.  The unique
\* indexes on them are guards of StorePublication; LocksGuardCommits says that
\* they never refuse.
NewRule(s) == [draft |-> PublishedDraft(DraftOf(s)), version |-> 1, source |-> s]

NewEvent(c, review, r) ==
  [sub |-> c.sub, review |-> review, rule |-> r, code |-> DraftOf(c.sub).code,
   by |-> c.by, draft |-> DraftOf(c.sub)]

NewVersion(r, event) ==
  [rule |-> r, version |-> 1, draft |-> PublishedDraft(DraftOf(event.sub)),
   source |-> "controlled_publication", event |-> event]

StorePublication(p) ==
  /\ At(p, "publish_commit")
  /\ EventsOf(cmd[p].sub) = {}
  /\ \E r \in RuleIds, review \in reviewEvents :
       LET event == NewEvent(cmd[p], review, r)
       IN /\ rules[r] = None
          /\ ApprovesDraft(review, cmd[p].sub)
          /\ rules' = [rules EXCEPT ![r] = NewRule(cmd[p].sub)]
          /\ publicationEvents' = publicationEvents \cup {event}
          /\ ruleVersions' = ruleVersions \cup {NewVersion(r, event)}
  /\ UNCHANGED <<submissions, reviewEvents>>
  /\ Release(p)

PublishCommit(p) == StorePublication(p) /\ Answer(p, "published", cmd[p].sub)

\* resolveSubmissionPublicationAfterRiskRuleInsertFailure.  Its reads are one
\* step: the submission is approved for good and a rule is never deleted.
PublishInsertFailed(p) ==
  /\ At(p, "publish_failed")
  /\ LET s == cmd[p].sub
     IN \/ EventsOf(s) # {} /\ Read(p, s) /\ Goto(p, "publish_resolve")
        \/ /\ EventsOf(s) = {}
           /\ Answer(p, IF CodeTaken(DraftOf(s).code)
                        THEN "code_conflict" ELSE "db_error", s)
  /\ UNCHANGED <<tables, locks>>

\* The version row a publication event must be linked to.
LinkedVersion(e, v) ==
  /\ v.source = "controlled_publication"
  /\ v.event = e
  /\ v.rule = e.rule
  /\ v.draft = DraftOf(e.sub)

\* resolveExistingSubmissionPublication, with the status read before the event.
PublishResolve(p) ==
  /\ At(p, "publish_resolve")
  /\ \E e \in EventsOf(cmd[p].sub) :
       LET s == cmd[p].sub
           sound == /\ seen[p] = "approved"
                    /\ ApprovesDraft(e.review, s)
                    /\ e.draft = DraftOf(s)
                    /\ e.code = DraftOf(s).code
           linked == \E v \in ruleVersions : LinkedVersion(e, v)
       IN \/ ~sound /\ Answer(p, "integrity", s)
          \/ sound /\ e.by # cmd[p].by /\ Answer(p, "conflict", s)
          \/ sound /\ e.by = cmd[p].by /\ ~linked /\ Answer(p, "integrity", s)
          \/ sound /\ e.by = cmd[p].by /\ linked
                   /\ Answer(p, "publication_replay", s)
  /\ UNCHANGED <<tables, locks>>

(***************************************************************************)
(* Faults: a statement fails, the client goes away or the server dies, and *)
(* the transaction rolls back; or the outcome of a commit is lost.         *)
(***************************************************************************)

\* Mutant: the failed handler keeps its transaction open.
FailHolding(p) ==
  /\ ~At(p, "idle")
  /\ Refuse(p, "db_error")
  /\ UNCHANGED <<tables, locks>>

\* Mutant: the rule of a failed publication stays, as without a transaction.
FailKeepingRule(p) ==
  /\ ~At(p, "idle")
  /\ IF At(p, "publish_commit")
     THEN \E r \in RuleIds : /\ rules[r] = None
                             /\ rules' = [rules EXCEPT ![r] = NewRule(cmd[p].sub)]
     ELSE UNCHANGED rules
  /\ Release(p)
  /\ Refuse(p, "db_error")
  /\ UNCHANGED <<submissions, reviewEvents, publicationEvents, ruleVersions>>

Fail(p) ==
  /\ ~At(p, "idle")
  /\ Release(p)
  /\ Refuse(p, "db_error")
  /\ UNCHANGED tables

InsertFails(p) ==
  /\ At(p, "insert")
  /\ Goto(p, "winner")
  /\ UNCHANGED <<tables, locks, seen>>

PublishInsertFails(p) ==
  /\ At(p, "publish_insert")
  /\ Goto(p, "publish_failed")
  /\ UNCHANGED <<tables, locks, seen>>

InsertUnheard(p) ==
  \E s \in SubIds : StoreSubmission(p, s) /\ Goto(p, "winner") /\ UNCHANGED seen

ReviewUnheard(p)      == StoreReview(p) /\ Refuse(p, "db_error")
PublicationUnheard(p) == StorePublication(p) /\ Refuse(p, "db_error")

Fault(p) ==
  \/ Fail(p)
  \/ InsertFails(p)
  \/ PublishInsertFails(p)
  \/ InsertUnheard(p)
  \/ ReviewUnheard(p)
  \/ PublicationUnheard(p)
  \/ ValidateCreateUncounted(p)

(***************************************************************************)
(* The specification.                                                      *)
(***************************************************************************)
Init ==
  /\ submissions = [s \in SubIds |-> None]
  /\ reviewEvents = {}
  /\ publicationEvents = {}
  /\ rules = [r \in RuleIds |->
                IF r \in DOMAIN SeedRules
                THEN [draft |-> SeedRules[r], version |-> 1, source |-> None]
                ELSE None]
  /\ ruleVersions = {[rule |-> r, version |-> 1, draft |-> SeedRules[r],
                      source |-> "legacy_baseline"] : r \in DOMAIN SeedRules}
  /\ rowLock = [s \in SubIds |-> None]
  /\ codeLock = [c \in Codes |-> None]
  /\ pc = [p \in Requests |-> "idle"]
  /\ cmd = [p \in Requests |-> None]
  /\ seen = [p \in Requests |-> None]
  /\ reply = [p \in Requests |-> None]

\* Statements that run as soon as they are reached.
Prompt(p) ==
  \/ RevisionBase(p)
  \/ LookupPending(p)
  \/ ValidateCreate(p)
  \/ LookupWinner(p)
  \/ ReviewRead(p)
  \/ ReviewValidate(p)
  \/ ReviewCommit(p)
  \/ ReviewReread(p)
  \/ ReviewResolve(p)
  \/ PublicationGuard(p)
  \/ PublishRead(p)
  \/ PublishLookupEvent(p)
  \/ PublishSource(p)
  \/ PublishValidate(p)
  \/ PublishRecheck(p)
  \/ PublishCommit(p)
  \/ PublishInsertFailed(p)
  \/ PublishResolve(p)

\* Statements that may wait for another transaction.
Waiting(p) ==
  \/ InsertSubmission(p)
  \/ InsertCollides(p)
  \/ ReviewCAS(p)
  \/ PublishInsert(p)

Next ==
  \E p \in Requests :
    \/ \E c \in Commands : Start(p, c)
    \/ Prompt(p)
    \/ Waiting(p)
    \/ Fault(p)

Spec == Init /\ [][Next]_vars

\* The server runs every handler and the database grants a lock in the order
\* of the waiters, so no handler waits for one for ever.
Fairness == \A p \in Requests : WF_vars(Prompt(p)) /\ SF_vars(Waiting(p))

FairSpec == Spec /\ Fairness

-----------------------------------------------------------------------------
(***************************************************************************)
(* What the workflow promises of its tables.                               *)
(***************************************************************************)

\* A submission has left "pending" exactly when one review event says so, and
\* that event has its decision and its draft: the compare-and-set and the
\* event insert of ReviewPendingSubmission are one transaction.
ReviewedExactlyOnce ==
  /\ \A s \in SubIds : Stored(s) /\ StatusOf(s) # "pending" =>
       \E e \in reviewEvents : e.sub = s
  /\ \A e \in reviewEvents :
       /\ Stored(e.sub)
       /\ e.decision = StatusOf(e.sub)
       /\ e.draft = DraftOf(e.sub)
  /\ \A e1, e2 \in reviewEvents : e1.sub = e2.sub => e1 = e2

\* Every publication event cites the approval of a create submission, its rule
\* is the approved snapshot and its version row cites it back; no submission
\* has two events.  Every rule that was not seeded has such an event.
PublicationsTraceable ==
  /\ \A e \in publicationEvents :
       /\ e.review \in reviewEvents
       /\ ApprovesDraft(e.review, e.sub)
       /\ submissions[e.sub].intent.kind = "create"
       /\ rules[e.rule] # None
       /\ rules[e.rule].source = e.sub
       /\ rules[e.rule].draft = DraftOf(e.sub)
       /\ \E v \in ruleVersions : LinkedVersion(e, v) /\ MatchesVersion(e.rule, v)
  /\ \A e1, e2 \in publicationEvents : e1.sub = e2.sub => e1 = e2
  /\ \A r \in RuleIds : rules[r] # None =>
       \/ rules[r].source = None
       \/ \E e \in publicationEvents : e.rule = r

\* No two rules have one code, although ValidateDraft and the insert of the
\* rule are separate statements of concurrent publishers.
OneRulePerCode ==
  \A x, y \in RuleIds :
    /\ rules[x] # None
    /\ rules[y] # None
    /\ rules[x].draft.code = rules[y].draft.code
    => x = y

\* Two pending submissions never ask for the same thing: the partial unique
\* index holds against concurrent identical submissions and reviews.
OnePendingPerRequest ==
  \A s, t \in SubIds :
    /\ Stored(s)
    /\ Stored(t)
    /\ StatusOf(s) = "pending"
    /\ StatusOf(t) = "pending"
    /\ submissions[s].intent = submissions[t].intent
    => s = t

\* A handler about to commit holds its lock, what it has checked still holds,
\* and no unique index is left that could refuse its rows: the row lock of the
\* compare-and-set and the entry in the code index keep everyone else out.
LocksGuardCommits ==
  /\ \A s \in SubIds, p \in Requests :
       rowLock[s] = p <=> At(p, "review_commit") /\ cmd[p].sub = s
  /\ \A c \in Codes, p \in Requests :
       codeLock[c] = p <=> At(p, "publish_commit") /\ DraftOf(cmd[p].sub).code = c
  /\ \A p \in Requests : At(p, "review_commit") =>
       /\ StatusOf(cmd[p].sub) = "pending"
       /\ ~ \E e \in reviewEvents : e.sub = cmd[p].sub
  /\ \A p \in Requests : At(p, "publish_commit") =>
       /\ submissions[cmd[p].sub].intent.kind = "create"
       /\ \E e \in reviewEvents : ApprovesDraft(e, cmd[p].sub)
       /\ EventsOf(cmd[p].sub) = {}
       /\ ~CodeTaken(DraftOf(cmd[p].sub).code)

(***************************************************************************)
(* What its answers promise.                                               *)
(***************************************************************************)
Answered(p, op, outcomes) ==
  At(p, "idle") /\ reply[p] # None /\ cmd[p].op = op /\ reply[p].outcome \in outcomes

\* An answer is never contradicted by the tables, then or later: a success or
\* a replay names what is stored for that very command, a conflict is with
\* somebody else's decision or publication, and a publisher is told that the
\* code is taken only when its rule does not come from this very submission.
AnswersTrue ==
  \A p \in Requests :
    /\ \A op \in {"create", "revise"} : Answered(p, op, {"created", "replayed"}) =>
         submissions[reply[p].sub] # None /\ submissions[reply[p].sub].intent = IntentOf(cmd[p])
    /\ Answered(p, "review", {"reviewed", "review_replay"}) =>
         CommittedReview(cmd[p]) \in reviewEvents
    /\ Answered(p, "review", {"conflict"}) =>
         /\ CommittedReview(cmd[p]) \notin reviewEvents
         /\ \E e \in reviewEvents : e.sub = cmd[p].sub
    /\ Answered(p, "publish", {"published", "publication_replay"}) =>
         \E e \in EventsOf(cmd[p].sub) : e.by = cmd[p].by
    /\ Answered(p, "publish", {"conflict"}) =>
         \E e \in EventsOf(cmd[p].sub) : e.by # cmd[p].by
    /\ Answered(p, "publish", {"duplicate_code", "code_conflict"}) =>
         \E r \in RuleIds : /\ rules[r] # None
                            /\ rules[r].draft.code = DraftOf(cmd[p].sub).code
                            /\ rules[r].source # cmd[p].sub

\* Only one of the handlers that decide or publish a submission is told that
\* it was the first.
OneFirstAnswer ==
  \A p, q \in Requests, op \in {"review", "publish"} :
    LET first == {"reviewed", "published"}
    IN Answered(p, op, first) /\ Answered(q, op, first) /\ cmd[p].sub = cmd[q].sub
         => p = q

\* Submitters and reviewers are never told that the tables contradict
\* themselves: after a lost compare-and-set the winner's rows are visible.
NoFalseAlarm ==
  \A p \in Requests, op \in {"create", "revise", "review"} :
    ~Answered(p, op, {"integrity"})

\* Audit rows stay, a rule row stays as it is, and a submission changes only
\* by losing the status "pending".
HistoryKept ==
  [][/\ reviewEvents \subseteq reviewEvents'
     /\ publicationEvents \subseteq publicationEvents'
     /\ ruleVersions \subseteq ruleVersions'
     /\ \A r \in RuleIds : rules[r] # None => rules'[r] = rules[r]
     /\ \A s \in SubIds : Stored(s) =>
          \/ submissions'[s] = submissions[s]
          \/ /\ StatusOf(s) = "pending"
             /\ submissions'[s] # None
             /\ submissions'[s].intent = submissions[s].intent
    ]_tables

\* Every request is answered: no wait for a lock is for ever.
EveryRequestAnswered ==
  \A p \in Requests : ~At(p, "idle") ~> At(p, "idle")

(***************************************************************************)
(* The workflow implements the abstract life cycle: the tables determine   *)
(* the proposal, the verdict and the publisher of every submission and the *)
(* executable codes.                                                       *)
(***************************************************************************)
VerdictOf(e) == [decision |-> e.decision, by |-> e.by]

proposalBar == [s \in SubIds |-> IF Stored(s) THEN submissions[s].intent ELSE None]
verdictBar ==
  [s \in SubIds |-> IF \E e \in reviewEvents : e.sub = s
                    THEN VerdictOf(CHOOSE e \in reviewEvents : e.sub = s)
                    ELSE None]
publisherBar ==
  [s \in SubIds |-> IF EventsOf(s) # {} THEN (CHOOSE e \in EventsOf(s) : TRUE).by
                    ELSE None]
executableBar == {c \in Codes : CodeTaken(c)}

Lifecycle == INSTANCE RuleLifecycle WITH
  Proposals   <- Intent,
  Verdicts    <- [decision : Decisions, by : Reviewers],
  SeededCodes <- {SeedRules[r].code : r \in DOMAIN SeedRules},
  Nothing     <- None,
  proposal    <- proposalBar,
  verdict     <- verdictBar,
  publisher   <- publisherBar,
  executable  <- executableBar

\* The concurrent, fallible handlers do nothing that the atomic life cycle
\* does not do: every commit is a step of it, everything else is a stutter.
ImplementsLifecycle == Lifecycle!Spec

(***************************************************************************)
(* Expectations of the repository's documents that the code does not meet. *)
(***************************************************************************)

\* docs/rule-submission-publication-design.md:590-594: of concurrent identical
\* publications all but the first resolve to the committed one as a replay.
\* So none is told that the approved source is inconsistent.
PublicationNeverAlarms ==
  \A p \in Requests : ~Answered(p, "publish", {"integrity"})

\* docs/rule-submission-review-audit-design.md:323-325: the exact retry of a
\* committed approval is a replay.  So it is not refused for a code that only
\* the rule published from this very submission has.
ApprovalRetryReplays ==
  \A p \in Requests : Answered(p, "review", {"duplicate_code"}) =>
    ~ \E e \in reviewEvents, r \in RuleIds :
        /\ e.sub = cmd[p].sub
        /\ SameReview(e, cmd[p])
        /\ rules[r] # None
        /\ rules[r].source = cmd[p].sub
=============================================================================
