# Verification of AntiFraud-KnowledgeHub

TLA+ models of the parts of AntiFraud-KnowledgeHub (AFKH) that keep state and
that several actors change at the same time, TLC runs that check them on small
instances, and TLAPS proofs, for every size, of every safety property, action property
and refinement those runs check: of the rule workflow, the idempotency upgrade, the start
of the server, the browser sessions, the rate limits, the extension, the analysis page
and the analysis routes.
Paths such as
`rule/review.go` are relative to `backend/internal/modules/` or, with
`internal/`, to `backend/`.

## 1. The system

| Component | Code | State it keeps | Operations | Talks to |
|---|---|---|---|---|
| Rule workflow | `rule/submission.go`, `review.go`, `publication.go`, `revision*.go`, `validation.go` and their handlers | `rule_submissions`, review events, publication events, `risk_rules`, `risk_rule_versions` | create and revision submission with replay, approval and rejection, controlled publication | SQL database; behind bearer authorization and the submission rate limit |
| Submission idempotency upgrade | `internal/database/submission_idempotency.go` | the digests of stored submissions, the partial unique index on pending requests | `PrepareRuleSubmissionIdempotency`, run by every process that starts | the same table the workflow writes meanwhile |
| Startup: version history and seed data | `internal/database/rule_version_history.go`, `seed.go`, `database.go`, `cmd/server/main.go` | the version history of rules, categories, cases | `PrepareRiskRuleVersionHistory` before and after `ImportIfEmpty` | the tables the workflow publishes into |
| Browser sessions | `internal/browserauth/session.go`, `http.go`, `authorization.go`, `grant_registry.go` | session records in Redis, the grant registry of each process | exchange, status, validation, CSRF check, logout | Redis, the assisted analysis route |
| Rate limits | `internal/browserauth/rate_limit.go`, `browser_assisted_rate.go`, `internal/middleware/*rate*` | two counters with expiry per call in Redis | four Lua scripts | Redis, the routes behind them |
| Browser extension | `browser-extension/service-worker.mjs`, `core.mjs`, `popup.mjs` | one stored state, one badge | one analysis per click | the analysis API, `chrome.storage.session` |
| Analysis page | `frontend/src/views/AnalysisView.vue` | text, result, session, profiles, consent, supplemental result | analyze, unlock, restore, logout, assisted analysis | the analysis and browser session APIs |
| LLM assistance | `internal/llmassist/`, `analysis/assisted_handler.go`, `browser_assisted_handler.go` | the profile registry, each request on its way | `Assist` with a timeout, three provider adapters | third-party providers, rate limits, browser sessions |
| Rule-based analysis | `analysis/handler.go`, `internal/riskengine/` | `analysis_records` | preview, analysis with a record; matching, scoring, levels | `risk_rules`, to which publications add |
| Configuration gates | `internal/config/`, `cmd/server/main.go`, `cmd/server/*_runtime.go` | none after the start | which environments start, which routes exist | all routes |
| Bearer authorization | `internal/middleware/*_authorization.go` | none | which token opens which role's routes | configuration gates |
| Read-only modules, views, CLI | `category/`, `caseitem/`, `health/`, other views, `cmd/afkh-cli` | none | stateless | - |

Where the components meet: the five workflow tables are written by handlers of
every process, by the two preparations of every process that starts, and by the
seed import. Redis is shared by all processes; each of them has a registry and a
clock of its own. The extension and the page are event loops: between two awaits
they run alone, across an await they meet whatever other events have done.

What is hard, and what makes each component correct:

- *Rule workflow.* Handlers read, validate, and write in separate statements.
  Correctness rests on one partial unique index, one compare-and-set, one unique
  code and the transactions around them. Answers must stay true when a commit is
  executed and its answer lost, when the loser of a race looks for the winner, and
  when a command is repeated. The audit rows must explain every rule.
- *Idempotency upgrade.* It works on rows loaded at its beginning, writes rows one
  by one, drops one index and builds another, while other processes do the same,
  serve, or stop. It must not rewrite audit evidence, must finish, and must not
  leave a moment at which a serving process can store twins.
- *Startup.* The history of legacy rules is derived from what events prove. It must
  be recorded once, must agree with the rules, must never be recomputed, and a
  process must not serve tables that disagree. The seed import has no transaction.
- *Browser sessions.* A session is valid only by the record in Redis, its time and
  the registry of the instance asked. What ended must stay ended on all instances.
- *Rate limits.* Two counters with windows of their own must bound what is admitted
  in any window, and must end although refused calls keep coming.
- *Extension.* Analyses overlap and end in any order; results, texts, the loading
  state and the badge must belong together; the worker may die. The popup asks for the
  stored state and is told of changes meanwhile; it must end up with the latest.
- *Analysis page.* Six functions with awaits share the refs of the page, the cookie of the
  browser and the sessions of the server; the page may be left and mounted again while
  answers that set a cookie are still on their way.
- *Assisted analysis.* A text may be told to a third party only after everything that
  can refuse the request, once, and while somebody waits. The timeout, the client and
  the provider race; whatever wins, the verdict of the rules must be answered, must be
  that of one moment although rules are published meanwhile, and must not be changed by
  the provider.
- *Configuration.* Three validators look at one configuration in turn: those of `main`,
  those of the router, and those of the parts the router builds. What the first let
  through must not make the others panic, and tokens of four roles, each behind a flag of
  its own, must not open each other's routes.

## 2. Modules

| Module | What it is | Extends or instantiates |
|---|---|---|
| `RuleLifecycle` | abstract specification: submitted, decided once, published at most once | - |
| `RuleWorkflow` | the handlers, statement by statement | instance of `RuleLifecycle` under a refinement mapping |
| `RuleWorkflowProofs` | the inductive invariant and the theorems | `RuleWorkflow`, `TLAPS` |
| `SubmissionMigration` | the idempotency upgrade | - |
| `SubmissionMigrationProofs` | its invariants for any servers and legacy table | `SubmissionMigration`, `TLAPS` |
| `Startup` | version history and seed import | - |
| `StartupProofs` | histories, refusals and imports for any number of processes | `Startup`, `TLAPS` |
| `BrowserSession` | sessions over Redis and registries | - |
| `BrowserSessionProofs` | that what is over is not accepted, for every instance | `BrowserSession`, `TLAPS` |
| `RateLimit` | the four Redis limiters | - |
| `RateLimitProofs` | the budget and the sliding bound for any subjects, limits and windows | `RateLimit`, `TLAPS` |
| `ExtensionWorker` | the service worker and the popup | - |
| `ExtensionWorkerProofs` | the worker and the popup for any number of clicks | `ExtensionWorker`, `TLAPS` |
| `AnalysisView` | the analysis page over the browser's cookie and the server's sessions | - |
| `AnalysisViewProofs` | the page for any number of calls, texts, profiles and sessions | `AnalysisView`, `TLAPS` |
| `RiskEngine` | matching, scoring and advice as operators | - |
| `ProviderAnswers` | what the three adapters and the service make of an answer | - |
| `ConfigGates` | the reading, the gates and the router of a configuration; bearer tokens | - |
| `AnalysisContract` | abstract specification: judged once, told once, always answered | - |
| `AssistedAnalysis` | the analysis routes from the start of the server to the answer | extends `ConfigGates`, `ProviderAnswers`, `RiskEngine`; instance of `AnalysisContract` under a refinement mapping |
| `AssistedAnalysisProofs` | the invariant, the refinement and what the engine computes, for every instance | `AssistedAnalysis`, `TLAPS` |
| `MC...` | instances, symmetry and commands for TLC | the module they are named after |

### RuleWorkflow

A handler is a process `p` of `Requests`; `pc[p]` names the statement it runs
next, `cmd[p]` its command, `seen[p]` the submission status its transaction has
read, `reply[p]` its last answer. The five tables are `submissions`,
`reviewEvents`, `publicationEvents`, `rules` and `ruleVersions`; `rowLock` and
`codeLock` are the two locks a statement can wait for at READ COMMITTED: the row
of a compare-and-set and the entry of an inserted code in the unique index.

| Actions | Code |
|---|---|
| `RevisionBase`, `LookupPending`, `ValidateCreate`, `InsertSubmission`, `InsertCollides`, `LookupWinner` | `CreateOrReplayPendingSubmission`, `CreateOrReplayPendingRevisionSubmission` |
| `ReviewRead`, `ReviewValidate`, `ReviewCAS`, `ReviewCommit`, `ReviewReread`, `ReviewResolve` | `ReviewPendingSubmission`, `resolveSubmissionReviewAfterCASLoss`, `resolveExistingSubmissionReview` |
| `PublicationGuard` | `RevisionPublicationI2Guard` |
| `PublishRead`, `PublishLookupEvent`, `PublishSource`, `PublishValidate`, `PublishRecheck`, `PublishInsert`, `PublishCommit`, `PublishInsertFailed`, `PublishResolve` | `PublishApprovedSubmission` and what it calls |
| `Fail`, `InsertFails`, `PublishInsertFails`, `InsertUnheard`, `ReviewUnheard`, `PublicationUnheard`, `ValidateCreateUncounted` | a statement fails, the client or the server goes away, a commit is executed and its answer is lost, an ignored query error |

What a transaction writes becomes visible at its commit, so the inserts of event
and version are part of the commit step; the unique indexes on them are guards
there, and `LocksGuardCommits` says that those guards never refuse. Reads that a
transaction makes of rows nothing changes any more are one step with their
neighbour; the comment of each such action says why. Digests are taken to be
injective. Drafts are a code and a content; all field rules together are the set
`MalformedContents`. The default of the `enabled` column, which overwrites an
approved `false` on insert, and its repair are `InsertedDraft` and
`PublishedDraft`.

The abstract `RuleLifecycle` has no handlers: `Submit`, `Decide` and `Publish`.
`ImplementsLifecycle` maps the tables to it (`proposalBar`, `verdictBar`,
`publisherBar`, `executableBar`).

### SubmissionMigration

A server is `down`, runs one transaction (`drop`, `scan`, `index`), or serves.
`snapshot` is what `Load` has read; `at` is the row the loop has reached; `wrote`
are digests written and not committed, which are also its row locks.
`TableFree`, `NoWriter`, `RowFree` and `KeyFree` are PostgreSQL's table, row and
index-key waits. `RefuseRow` and the failing branch of `Commit` are the errors
the code returns for stored data; `Deadlock` is the database's choice of a
victim. Serving processes create and review meanwhile. The initial table is any
table of a release without digests or of the one that had draft digests.

### Startup

A process is `down`, prepares the history (`backfill`, `baseline`, each with
`insert`), counts categories, imports seed items (`lookup`, `create`), prepares
once more, and serves. `wrote` are uncommitted versions, `loaded` the rules read
after the backfill. `Coherent` says when rules, events and versions bear each
other out. `Edit` is a change by hand, `Publish` a publication of a serving
process. The variables `known`, `doomed`, `raced`, `flawed` and `disturbed` are
history: no action reads them in a guard except `Edit`, which happens once.

### BrowserSession

`sessions` is Redis, `registry[i]` what instance `i` has loaded, `issued` and
`loggedOut` remember what was drawn and what was confirmed as logged out. A
request goes through `Validate`, `CheckCSRF`, and `Delete` or `Act`. `Deploy`
replaces an instance; generations never go back on an instance. `Expire` may come
any time after the session's own time is over, so the check of `ExpiresUnix`
matters. Clocks of instances are taken to agree.

### RateLimit

One module for the four scripts: `countsRefused` tells those that count every
call from the one that counts only what it admits. `Unheard` is a script whose
answer comes too late: the call is refused and has been counted. `spent` and
`recent` are history: what was let through since the window of a key began, and, per key
and age `a`, what was let through in the last `a` ticks and this one.

### ExtensionWorker

Every click is an analysis `a` with its own `pc`; a write to storage takes effect
when it is called, what follows runs later. `Rejected` and `WorkerEnds` are
rejected browser calls and the end of the worker. Scores are in tenths so that
rounding can be seen.

`popup` is the popup: it listens from the moment it is opened (`Listens`), its question
is answered by `ReadForPopup` and rendered by `RenderSnapshot`, and `RenderChange` renders
the changes that are `behind`, in their order. What it shows is kept as its age: `shown`
and `snapshot` are the latest stored state, an older one, or nothing. Every `Store` of the
worker makes what was the latest older. `outrun` says that a change was rendered before
the answer to the question, which may then be older.

### AnalysisView

`text`, `result`, `supplement`, `bridge`, `session`, `active` and `optIn` are the
refs of the page; a result is the text it is about, and `session` is the session
whose CSRF token and metadata the page holds, which the code sets and clears
together. `call` are the calls under way with what they were sent with; `Serve` is
the server's verdict, `Lose` a lost or late answer, and one `...Arrives` action per
function is what follows its await. `SetUp` is `applySession` with the beginning of
`loadProfiles`, whose call follows at once. The guards of the user's actions are the
conditions of the template: a button is disabled while its own call is under way, the
unlock form is not. `cookie`, `live` and `offered` stand for the browser and for what
`BrowserSession` models in detail. `SessionEnds` and `CookieExpires` happen by time and
tell the page nothing; the cookie's lifetime is the session's and begins later, so the
cookie goes last.

`Leave` is the router's change to another view: the refs go, and of the calls under way
only those that set or clear the cookie still matter. They are `stray` until
`StrayArrives` gives their cookie to the browser. `Mount` is a new page with its own
restore.

### RiskEngine, ProviderAnswers, ConfigGates

Operators without state. In `RiskEngine` a text is the sequence of the terms that
occur in it and a rule has the terms of its pattern; `Evidence` is `matchEvidence`
with its five kinds of rules, `Analyze` is the verdict. `SaysOf` in
`AssistedAnalysis` is the reference it is compared with: it says as a set what the
engine computes in order.

In `ProviderAnswers` an answer says whether it came, was finished, was refused, has
the shape asked for, and which texts it has. `ReadOpenAI`, `ReadGemini` and
`ReadDeepSeek` differ where the adapters do: OpenAI passes over blank texts and items
that are not messages, the other two ask for exactly one part or choice. `Whole` is
what an assistance must rest on, whichever adapter has read it.

In `ConfigGates` an environment is a record of raw values; `Load` is how they are read
(a number that does not parse becomes one the gates refuse), `Accepted` are the gates
of `main`, `Builds` the validators the router runs again, `Router` what is served.

### AssistedAnalysis

`phase` and `router` are the process, `rules` the enabled rules. A request `q` goes
through the steps of its route:

| Actions | Code |
|---|---|
| `Start`, `Crash` | `main`, `newRouter` with its panics |
| `Publish` | a publication of the rule workflow |
| `Receive`, `Route`, `Authorize`, `RequireSession`, `Admit`, `TurnAway`, `Decode` | the chain of the four routes: bearer token, origin and session with CSRF, rate limit, body, profile |
| `LoadRules`, `LoadFails`, `Store`, `AnswerPlain` | the rules query, the verdict and the record of the plain routes, which ignore errors |
| `CallProvider`, `SkipProvider`, `Answered`, `Cancelled`, `DeadlineFires`, `ClientLeaves`, `Conclude` | `Service.Assist` and the answer of the explicit routes |

What a session check and a limiter decide is either answer here; `BrowserSession` and
`RateLimit` say which. `before` and `blind` are history. The abstract
`AnalysisContract` knows no steps, no provider and no rules: a request is open, cleared,
judged; its text is disclosed once; help comes from a whole answer while its time is not
over. `ImplementsContract` maps the steps to it.

## 3. Runs

| Run | Module and cfg | Specification | Shows |
|---|---|---|---|
| `workflow` | `MCRuleWorkflow` | `Spec` | the table invariants, the truth of answers, `HistoryKept`, `ImplementsLifecycle` |
| `workflow_live` | `MCRuleWorkflow`, `MCRuleWorkflowLive.cfg` | `FairSpec` | `EveryRequestAnswered` |
| `publication_alarm` | `MCPublicationAlarm.cfg` | `Spec` | finding: a racing publisher is told of an integrity error |
| `approval_retry` | `MCApprovalRetry.cfg` | `Spec` | finding: the retry of a committed approval is refused |
| `migration` | `MCSubmissionMigration` | `FairSpec` | the upgrade with two servers |
| `legacy_twins` | `MCLegacyTwins.cfg` | `Spec` | finding: legacy duplicates can refuse a later start |
| `startup` | `MCStartup` | `Spec` | version history and seed import with two processes |
| `browser_session` | `MCBrowserSession` | `Spec` | sessions over two instances |
| `rate_limit` | `MCRateLimit` | `FairSpec` | both kinds of limiters |
| `extension` | `MCExtensionWorker` | `Spec` | three overlapping analyses |
| `analysis_view` | `MCAnalysisView` | `Spec` | the page with two calls under way at a time |
| `assisted` | `MCAssistedAnalysis` | `FairSpec` | every environment, the four analysis routes, the contract |

### Bounds and why they are enough

- `workflow`: two handlers, two submissions, three rule ids, one seeded and one
  free code, contents enabled, disabled and malformed, two reviewers, two
  publishers. A race of the workflow is between two handlers on one submission, one
  request or one code; two handlers meet in all three, two submissions of one code
  compete for it, and the tables remember earlier handlers, so longer histories need
  no third handler. Handlers, submissions, publishers and free rule ids are
  interchangeable. The two findings that need a third handler have runs with three
  and one submission.
- `workflow_live`: one reviewer and fewer commands, no symmetry.
- `migration`: two servers, two drafts, up to two legacy rows and one created later:
  a legacy twin, its original and a row served meanwhile. `legacy_twins` needs one
  server only.
- `startup`: two processes, two legacy rules, three rule identifiers, two events,
  two texts, one item per seed file. A rule can have an event, a baseline, a
  drifted version, or evidence that disagrees; the third identifier is the seed rule
  or a publication.
- `browser_session`: two instances, one principal, two tokens, two requests, two
  generations, one tick of life.
- `rate_limit`: two subjects with a limit of two, three for all, windows of three
  ticks, so that windows of different keys lie across each other; counters saturate
  at four, above both limits.
- `extension`: three clicks, so that two overlap and a third follows them; two texts;
  a score inside the range, on a half, and one above it; one popup, opened and closed
  any number of times, with every change of three clicks (`2 * MaxClicks`) behind.
- `analysis_view`: two calls under way, two texts, two profiles, two session tokens,
  so that any two functions of the page overlap, each with its own text, profile or
  session. The page is left and mounted any number of times; a stray call takes one of
  the two places, so it overlaps any one function of the new page.
- `assisted`: some thousands of environments in three families, each of which varies
  what one group of gates looks at: the four roles switched on or off with every
  combination of equal, missing and malformed tokens; what assistance needs, for every
  provider, model, key set and timeout; the limits of every route. Three rules whose
  weights add up to more than the cap, of three kinds; two are seeded and one is
  published at any moment. One request at a time: handlers share only `rules` and
  `router`, which no handler writes, so two requests never meet; that the contract holds
  for any number of them is proved.

`CHECK_DEADLOCK FALSE` is set only for the extension, which stops when the bound on
clicks is reached. The other systems always have a step.

### Fairness

- `RuleWorkflow`: weak fairness for statements that run at once, because the server
  runs every handler; strong fairness for statements that wait for a lock, because
  PostgreSQL queues the waiters and grants the lock to one after the other. Starts of
  requests and faults have none.
- `SubmissionMigration`: strong fairness of the preparation's statements, for the
  same reason; starts, stops and requests have none. A deadlock is resolved by the
  database, which is part of the preparation's steps.
- `RateLimit`: time passes.
- `AssistedAnalysis`: weak fairness of what a handler does by itself (the server runs it,
  Redis and the database answer or fail within their own timeouts) and of the timeout of
  `Service.Assist`. The provider and the client have none: they may keep silent for ever.
- Other specifications state no fairness and check safety only.

### Properties

*RuleWorkflow.* `ReviewedExactlyOnce`: status and review event move together, once.
`PublicationsTraceable`: rule, event and version cite each other and an approval of
exactly that draft. `OneRulePerCode`, `OnePendingPerRequest`: although validation and
insert are separate statements. `LocksGuardCommits`: what a handler has checked still
holds when it commits. `AnswersTrue`, `OneFirstAnswer`: what clients are told is so,
then and later. `NoFalseAlarm`: a create, a revision or a review is never answered that
the stored rows contradict each other; a publication can be (`publication_alarm`), and
the property says nothing of other refusals. `HistoryKept`: audit rows and rules are
never changed. `ImplementsLifecycle`: refinement of the abstract life
cycle. `EveryRequestAnswered`: no wait for ever.

*SubmissionMigration.* `OnlyServedTwinsRefused`: stored data refuses a start only if
there were legacy twins and the upgrade has been committed before.
`ServedRequestsUnique`, `UpdatesFindTheirRow`, `DigestsNeverRewritten`,
`PreparationComplete`, `StartsEnd`.

*Startup.* `HistoryHonest`: gapless numbers, one version per event, controlled
versions say what was published. `HistoryStable`: a repeated or concurrent preparation
adds nothing to a history. `FailsClosed`: tables that disagree are not served.
`OnlyFlawedRefused`: nothing the system does by itself keeps it from starting, except
while another preparation is running (`raced`): what remains is a rule left with the old
number by a crash. `SeedIntact`: an undisturbed import is complete, without doubles, and
has its history. Two imports at once do leave a case twice, and one that ends half-way is
not taken up again; the property excepts both (`disturbed`) and says nothing of them.

*BrowserSession.* `NoLateAcceptance`: what is over before a request begins is not
accepted on any instance. `SessionsEndForAReason`: nothing but its own logout, its
expiry or a redeployment ends a session.

*RateLimit.* `SlidingBound`: fewer than twice the limit in any window, which is the
tight bound of fixed windows. `BudgetSpentOnce`: counters cover what was admitted.
`WindowsEnd`: no subject is shut out for ever.

*AnalysisView.* `SupplementFits`: a supplemental result belongs to the rule result
beside it, to the text in the box and to an unlocked session. The code does not rule out
that an assisted answer arrives beside another analysis, after an edit or after the end
of the session; each of the three (`crossed`) is an exception to its own part and to no
other. `SessionIsTheCookies`: the page has no timer, so its session may be over, but then
the cookie is gone as well; while the cookie is there it is that of the session.
`ConsentIsForWhatIsSent`: a consent was ticked for the text in the box, always, and
beside the disclosure of the active profile. `mixed` is the exception to these two (in
the second to the profile only): a second session is set up while the first one is (the
form is shown while the session is restored, and the enter key sends another grant), or
an unlock or logout of a page that was left replaces or clears, with its late answer, the
cookie of the session the new page holds.

*ExtensionWorker.* `ResultBelongsToText`. `LoadingIsWorkedOn`: a loading state is that of
an analysis under way or of one that was lost; that of one which ended with the worker
stays, for nothing takes it up again. `LatestUnlessOvertaken`: what is true of "only the
latest result" (`docs/browser-extension-prototype-design.md:269`). Of overlapping clicks
the last one has the last word, whatever the others wrote before; answers may arrive in
the other order, and then the older one stays (`overtaken`). `PopupFollows`: an open popup
ends up with the stored state, whatever changed while it was opened and asked; it names
the one case the code does not rule out, an answer rendered after a change that is newer.

*AssistedAnalysis.* `VerdictFromOneSnapshot`: a verdict is that of all rules at one moment
after its query began, on the explicit routes always, on the plain ones unless their query
failed. `ImplementsContract`: refinement of the contract. `ValidatedConfigurationsStart`:
what `main` accepts, the router can build. `OneRolePerToken`. `NoRequestHangs`.

Only the run `workflow` lists a type invariant; `TypeOK` of the other modules is there for
the reader, and proved of `RateLimit`, `AnalysisView` and `AssistedAnalysis`.

Every property has a mutant in `PROJECT.json`: a plausible bug (a dropped guard, a
missing repair, a swapped order) under which TLC finds it violated. The mutated
operators stand before the definitions they replace and are used nowhere else.

### Findings

1. `PublicationNeverAlarms`. `PublishApprovedSubmission` reads the submission and then
   its event in two statements. When approval and publication commit between them, the
   publisher sees a pending submission with an event and reports broken source
   integrity, where the design document promises the replay of the committed
   publication.
2. `ApprovalRetryReplays`. An approval that read the submission as pending validates
   the code after the winner's approval was published, and answers with a duplicate
   code, where the design document promises that the exact retry is a replay.
3. `TwinsNeverRefused`. The upgrade leaves the later of two identical pending legacy
   requests without a request digest. When the first has been reviewed and the request
   submitted again, the next start gives the old row its digest, which the unique
   index refuses: the server does not start.

## 4. Proofs

`RuleWorkflowProofs` proves for any number of handlers, submissions, rules, codes,
contents and commands, from `ConstantsAssumption` and `NoneAssumption` only (finite
submissions, seeded rules with distinct codes, `None` outside of the other sets):

| Theorem | States |
|---|---|
| `TypeCorrect` | `Spec => []TypeOK` |
| `CommitsGuarded` | `Spec => []LocksGuardCommits` |
| `ReviewedOnce` | `Spec => []ReviewedExactlyOnce` |
| `PendingOnce` | `Spec => []OnePendingPerRequest` |
| `CodesUnique` | `Spec => []OneRulePerCode` |
| `RulesTraceable` | `Spec => []PublicationsTraceable` |
| `HistoryStays` | `Spec => HistoryKept` |
| `LifecycleImplemented` | `Spec => ImplementsLifecycle` |
| `AnswersStayTrue` | `Spec => []AnswersTrue` |
| `FirstAnswerOnce` | `Spec => []OneFirstAnswer` |
| `NobodyAlarmed` | `Spec => []NoFalseAlarm` |

None of the table invariants is inductive alone. A review commit is safe because the
handler that runs it holds the row lock since it saw the submission pending, a
publication commit because the handler holds the code since it found it free and the
approval is for good. So the inductive invariant `Inv` joins the table invariants with
`LocksGuardCommits` and with two facts no run needs: `Located` (what a handler knows at
each of its statements: the kind of its command, that its submission is stored, that it
is approved from `publish_source` on) and `RevisionTargets` (a stored revision has the
code of a rule that exists). `Init => Inv` is `InitInv`. `Inv /\ Next => Inv'` is
`StepInv`, from one lemma per conjunct; these rest on lemmas that say, action by action,
which tables a step changes (`StepStores`), where a handler goes (`StepMoves`), which
locks it takes and gives back (`StepLocks`), and that tables only grow (`StepGrows`).

`LifecycleImplemented` maps, under `Inv`, an insert to `Submit`, a review commit to
`Decide`, a publication commit to `Publish`, and every other statement to a stutter. What
clients are told needs a second invariant, `Honest`: every rule has its history row
(`RulesVersioned`), a handler that lost a race has seen what it will answer by (`Heard`),
and every answer given is borne out by the tables (`Truth`), which by `StepGrows` it then
stays.

`AssistedAnalysisProofs` proves for every environment, every set of rules and any number
of requests at a time, from `AnalysisAssumption` (rules have their own codes, weights that are
numbers, and terms where they are joined, as `validation.go` demands; texts are
sequences; `None` is not a router) and `RegistryAssumption` (`None` is not a registry of
profiles):

| Theorem | States |
|---|---|
| `ConfigurationsStart` | `Spec => []ValidatedConfigurationsStart` |
| `TokensApart` | `Spec => []OneRolePerToken` |
| `ContractKept` | `Spec => ImplementsContract` |
| `TypeCorrect` | `Spec => []TypeOK` |
| `OneSnapshot` | `Spec => []VerdictFromOneSnapshot` |

The first two rest on `Served`: what is served is the router of an accepted
configuration. `AcceptedBuilds` follows the three validators through one configuration
(`GateBuildsProfiles` says that what `LLMGate` accepts gives a registry), `TokensDiffer`
the pairwise comparisons of the gates through every pair of roles.

`ContractKept` is a refinement: `ContractInit`, and one lemma per action that its step is
a step of the contract or a stutter. The contract alone does not see why help is
legitimate, so the invariant `Inv` adds to `Served` and to the shape of the functions
(`Shaped`) what each statement of a handler knows (`Located`): on the way to a provider
the route is explicit and a provider is configured (`Equipped`, from `ServedEquips`), the
text has been told only from there on, and an outcome with an assistance comes from an
answer that is whole. The last part needs `GoodIsWhole`: for each adapter, what it reads
from an answer that is not whole does not pass `validateAssistance`.

`OneSnapshot` has two halves. `AnalyzeSays` is about the engine alone: for every text and
every set of rules, whatever order they are loaded in, the score, the level, the matches
and the advice of `Analyze` are those that `SaysOf` states of the set. The loops of the
engine are folds, and the library's induction rules take an operator, so the section
"Counting, folds and sequences" has what replaces them: `Counting`, the induction over the
numbers for a set of them, from their well-ordering; `FoldExists`, that the function a
fold is defined by exists; and `TotalGrows`, that a total of weights does not depend on
their order. From these, `MatchesFound` (each rule with evidence once), `AdviceGiven`
(each recommendation once), `WeightOfMatches` and `EvidenceFound` follow the loops of
`matcher.go` and `scoring.go` step by step. The other half is `JudgingInv`: the rules that
were enabled when a query began are still enabled when it ends, and a verdict, once
given, stays that of a set of enabled rules although others are published.

`SubmissionMigrationProofs` proves for any number of servers, drafts and rows, from
`BoundsAssumption` only (the legacy rows fit below the bound on rows):

| Theorem | States |
|---|---|
| `ServedUnique` | `Spec => []ServedRequestsUnique` |
| `UpdatesFind` | `Spec => []UpdatesFindTheirRow` |
| `DigestsStay` | `Spec => DigestsNeverRewritten` |
| `CommitsComplete` | `Spec => PreparationComplete` |
| `OnlyTwinsRefused` | `Spec => []OnlyServedTwinsRefused` |

`RowsKept` says what any step leaves of the rows. On it rests `Working`: the snapshot of
an open preparation still agrees with the rows, because a commit waits for every other
transaction that writes the table (`NoWriter`), and what the preparation has written is
exactly what the rows up to `at` lacked. Uniqueness needs more than the committed rows:
`Guarded` says that no two pending rows *claim* one request, by a stored digest or by one
a server has written and not committed. Claims survive a preparation for three reasons
(`PreparedClaim`): the index refuses a request of a committed row, its lock makes a
preparation wait for one of another transaction, and one of its own would have made the
row a twin. That stored rows refuse a preparation only after legacy twins rests on
`Accepts`: without twins in the table or in any snapshot, every row of a committed
upgrade has its request digest, and before the first commit none has.

`StartupProofs` proves for any number of processes, rules, events and texts, with
crashes at every statement, from `StartupAssumption` and `NoneAssumption` (bounds are
numbers, the legacy codes are not that of the seed rule; `None` is outside of the other
sets):

| Theorem | States |
|---|---|
| `HistoriesHonest` | `Spec => []HistoryHonest` |
| `HistoriesStable` | `Spec => HistoryStable` |
| `OnlyFlawsRefuse` | `Spec => []OnlyFlawedRefused` |
| `StartFailsClosed` | `Spec => []FailsClosed` |
| `SeedWhole` | `Spec => []SeedIntact` |

All rest on `Recorded` (`HistoriesRecorded`). Its core is `Histories`: the versions of a
rule that are stored, that a process has written, and that it is about to insert are each
a history of the rule, one version for its event or a baseline, and perhaps one more for
what the rule has become. Two processes may write the same history; `Apart` says that
only one of them can insert it (the unique key of a version makes the other wait or
fail), `Owed` that a preparation has met every event without a history, and `LoadedKept`
that what it has loaded is still stored. Commits are then the only steps that add to the
stored histories, each from nothing, which is `HistoriesStable`.

The refusals need more. `Agreed` says that numbers and latest versions follow each other
and that tables which came sound stay `Plain` (they bear each other out); `Unraced` that,
while no other preparation commits, what a process has read is what is stored.
`Refusals` concludes that an evidence error means flawed tables or a race. `Closes` is
the other direction: `Seen` says of every rule a process has passed that it has a history
and matches it, so that a process that serves has seen `Plain` tables. `Seeded` follows
an import that nothing disturbs from item to item (`Progress`), up to `Whole`.

`BrowserSessionProofs` proves for any number of instances, principals, tokens and
requests, from `SessionAssumption` and `NoneAssumption` (lifetimes and generations are
positive; `None` is neither a session nor a request):

| Theorem | States |
|---|---|
| `EndedStaysEnded` | `Spec => []NoLateAcceptance` |
| `EndsForAReason` | `Spec => SessionsEndForAReason` |

A request that began with a session that was over is still refused later, so being over
must last: `Doomed` says for which of the three reasons the session is over at the
instance the request is at, and that no step ends that reason (`Stored`: Redis holds what
was issued or nothing, and nothing of what was logged out).

`RateLimitProofs` proves `BudgetKept`, `Spec => []BudgetSpentOnce`, and `SlidingBounded`,
`Spec => []SlidingBound`, for any subjects, limits and windows from `LimitsAssumption`. The
saturation of the counters does not matter because a script that admits a call has read
counters below it (`AdmittedCounts`). The sliding bound rests on `Slides`: a stretch of
one window's length meets at most one window before the current one, of which it has
fewer calls than the limit, because the first call of that window is too old for it.

`ExtensionWorkerProofs` proves for any number of clicks, any texts and any scores, from
`ExtensionAssumption` (bounds are numbers, `None` is not a text):

| Theorem | States |
|---|---|
| `ResultsBelong` | `Spec => []ResultBelongsToText` |
| `LoadingIsWorked` | `Spec => []LoadingIsWorkedOn` |
| `LatestStands` | `Spec => []LatestUnlessOvertaken` |
| `PopupFollowsState` | `Spec => []PopupFollows` |

Each has an invariant of its own. `Worked` knows which analysis stands behind a loading
state and which behind a loading badge, because the two are set in different turns of
the event loop. `Stands` says what the last click has stored and is about to show, from
the moment it concludes.
`Following` says that something old is shown only while a change is on its way that will
replace it, or after an answer was outrun.

`AnalysisViewProofs` proves for any number of calls under way, any texts, profiles and
session tokens, from `NoneAssumption` (`None` is outside of the other sets):

| Theorem | States |
|---|---|
| `TypeCorrect` | `Spec => []TypeOK` |
| `SupplementAlwaysFits` | `Spec => []SupplementFits` |
| `SessionKept` | `Spec => []SessionIsTheCookies` |
| `ConsentStays` | `Spec => []ConsentIsForWhatIsSent` |

`Fits` says that nothing supplemental is shown while an assisted call is under way, that
such a call is about the text in the box unless it met an edit, and that no plain analysis
is under way beside a supplement unless it met one. `OneSession` says, unless sessions
were mixed, that one call at a time sets up a session, before the page has one, and that a
session the page has or restores is `Held`: the cookie is its own, or both are gone.
`Holds` is why that stays so: sessions and cookies only end, and a session that has ended
is not issued again while the page or a call remembers it. `ConsentedText` needs neither.

Only model-checked: liveness (`EveryRequestAnswered`, `StartsEnd`, `WindowsEnd`,
`NoRequestHangs`), which needs `ENABLED` of the fair actions and is out of the prover's
reach, and what the violation runs show. The proofs are about what the modules say; that
the bounds of the runs leave nothing out is not their subject, and they need none of these
bounds except where a bound is part of a guard (`MaxRows`, `MaxRules`, `MaxEvents`,
`MaxCount`, `MaxClicks`), for every value of it.

## 5. Not modelled

- Statements about text: field limits, regular expressions, JSON decoding, digests
  byte by byte. The workflow sees "malformed or not"; digests are injective.
- SQLite deployments, which have one writer at a time.
- Stored history rows that were tampered with, and digests that do not fit their row:
  the code refuses them, and no step of the system makes one.
- `AutoMigrate`; lookups no handler calls (`GetSubmissionReviewState`, the lists of
  `publication.go`); origin checks, proxy headers and read-only queries, which keep no
  state. Of the attributes of the session cookie only its lifetime does (`CookieExpires`).
  The time a token comparison takes.
- Other tabs of the browser that share the cookie of the analysis page, and a user who
  deletes it by hand.
- The validation dialog of `RulesView.vue`, whose answer may come after the draft
  was edited; it keeps nothing, and the server validates what it stores.
- The texts of prompts, requests to providers and summaries; the two statistics of
  `analysis/handler.go`, which only count; retries of a provider call, which the
  code does not make.
- `AssistedAnalysis` takes the answers of session checks and limiters as they come
  instead of extending `BrowserSession` and `RateLimit`: a request asks each of them once
  and holds nothing of theirs afterwards.
- A principal that is disabled and enabled again at one generation gets its unexpired
  sessions back: the records stay in Redis and the registry has no memory.
  `docs/authenticated-browser-assisted-analysis-design.md:106` says that disabling
  invalidates issued sessions, and while it lasts it does (`NoLateAcceptance`); operators
  who enable a principal again must advance its generation.

## 6. Plan

Done: `RuleLifecycle`, `RuleWorkflow`, `RuleWorkflowProofs`; `SubmissionMigration` and
`Startup`, what happens to the same tables before they are served; `BrowserSession`,
`RateLimit`, `ExtensionWorker`, `AnalysisView`; `RiskEngine`, `ProviderAnswers`,
`ConfigGates`, `AnalysisContract`, `AssistedAnalysis`; the proof modules of all of them,
with a theorem for every invariant, action property and refinement the runs check.

Theorems planned: the type invariants of the modules that have none yet; facts
about the composition that no run states yet, such as that tables a start has accepted
(`Startup`) are tables `RuleWorkflow` may begin with.
