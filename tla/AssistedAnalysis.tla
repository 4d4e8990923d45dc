-------------------------- MODULE AssistedAnalysis --------------------------
(***************************************************************************)
(* The analysis routes from the start of the server to the answer:         *)
(* /analysis/preview and /analysis/text, which only use the rules, and the *)
(* two explicit routes, of operators and of pages, which also ask a        *)
(* provider.  Requests pass a chain of refusals, load the enabled rules,   *)
(* which publications add to meanwhile, get their verdict and, when they   *)
(* are explicit, wait for the provider until it answers, the timeout       *)
(* fires or the client leaves.  What a session check and a limiter decide  *)
(* is any of their answers here; BrowserSession and RateLimit say which.   *)
(***************************************************************************)
EXTENDS ConfigGates, ProviderAnswers, RiskEngine

CONSTANTS
  Requests,      \* requests under way at the same time
  Environments,  \* environments the server is started with
  Asks,          \* what clients send
  RuleTable,     \* by code, the rules that can be enabled
  SeededCodes    \* rules that are enabled from the start

\* Rules have their codes, weights that are numbers (validation.go) and, when
\* their pattern is joined by "+", terms; a router is not None.
ASSUME AnalysisAssumption ==
  /\ SeededCodes \subseteq DOMAIN RuleTable
  /\ IsFiniteSet(DOMAIN RuleTable)
  /\ \A code \in DOMAIN RuleTable :
       LET rule == RuleTable[code]
       IN  /\ rule.code = code /\ rule.weight \in Nat
           /\ rule.terms \in Seq(ToSet(rule.terms))
           /\ rule.joined => rule.terms # <<>>
  /\ \A a \in Asks : a.text \in Seq(ToSet(a.text))
  /\ \A env \in Environments : Router(LoadBrowserSession(Load(env))) # None

VARIABLES
  phase,    \* of the server: down, serving, panicked
  router,   \* what is served, None when the server is down
  rules,    \* codes of the enabled rules
  pc,       \* the next step of a handler
  ask,      \* the request it handles
  before,   \* rules that were enabled when its rules query began
  blind,    \* its rules query failed and it went on
  verdict,  \* what the rules say of its text
  sent,     \* its provider was called
  outcome,  \* what the provider's adapter has returned
  whole,    \* the provider gave a whole answer
  gone,     \* its client has left
  fired,    \* its timeout has fired
  record,   \* the stored verdict
  reply     \* how the last request ended

server == <<phase, router, rules>>
call == <<sent, outcome, whole, gone, fired>>
vars == <<phase, router, rules, pc, ask, before, blind, verdict,
          sent, outcome, whole, gone, fired, record, reply>>

ExplicitKinds == {"operator", "browser"}
Kinds == ExplicitKinds \cup {"text", "preview"}

Judged == {"store", "answer", "assist", "await", "conclude"}
Steps == {"idle", "route", "bearer", "session", "rate", "body", "rules"} \cup Judged
Endings == {"nothing", "refused", "lost", "plain", "available", "unavailable"}

\* What the engine can say of a text.
Verdicts(text) ==
  [score : 0..ScoreCap, level : {"critical", "high", "medium", "low"},
   matched : Seq([code : DOMAIN RuleTable, evidence : Seq(ToSet(text)) \ {<<>>}]),
   advice : Seq({DefaultAdvice} \cup {RuleTable[code].advice : code \in DOMAIN RuleTable})]

TypeOK ==
  /\ phase \in {"down", "serving", "panicked"}
  /\ (router = None) = (phase # "serving")
  /\ rules \subseteq DOMAIN RuleTable
  /\ pc \in [Requests -> Steps]
  /\ ask \in [Requests -> Asks \cup {None}]
  /\ before \in [Requests -> SUBSET DOMAIN RuleTable]
  /\ blind \in [Requests -> BOOLEAN]
  /\ sent \in [Requests -> BOOLEAN]
  /\ outcome \in [Requests -> Texts \cup {NoText, None}]
  /\ whole \in [Requests -> BOOLEAN]
  /\ gone \in [Requests -> BOOLEAN]
  /\ fired \in [Requests -> BOOLEAN]
  /\ reply \in [Requests -> Endings]
  /\ \A q \in Requests :
       /\ pc[q] \in Judged => verdict[q] \in Verdicts(ask[q].text)
       /\ record[q] \in {None, verdict[q]}

Explicit(q) == ask[q] # None /\ ask[q].kind \in ExplicitKinds

(***************************************************************************)
(* The process.                                                            *)
(***************************************************************************)
Start(env) ==
  LET c == LoadBrowserSession(Load(env))
  IN  /\ phase = "down"
      /\ Accepted(c)
      /\ IF Builds(c)
         THEN phase' = "serving" /\ router' = Router(c)
         ELSE phase' = "panicked" /\ router' = None
      /\ UNCHANGED <<rules, pc, ask, before, blind, verdict, call, record, reply>>

\* A request ends: its client hears how, if at all.
Close(qs, ending) ==
  /\ pc' = [q \in Requests |-> IF q \in qs THEN "idle" ELSE pc[q]]
  /\ ask' = [q \in Requests |-> IF q \in qs THEN None ELSE ask[q]]
  /\ before' = [q \in Requests |-> IF q \in qs THEN {} ELSE before[q]]
  /\ blind' = [q \in Requests |-> blind[q] /\ q \notin qs]
  /\ sent' = [q \in Requests |-> sent[q] /\ q \notin qs]
  /\ outcome' = [q \in Requests |-> IF q \in qs THEN None ELSE outcome[q]]
  /\ whole' = [q \in Requests |-> whole[q] /\ q \notin qs]
  /\ gone' = [q \in Requests |-> gone[q] /\ q \notin qs]
  /\ fired' = [q \in Requests |-> fired[q] /\ q \notin qs]
  /\ reply' = [q \in Requests |-> IF q \in qs THEN ending ELSE reply[q]]
  /\ UNCHANGED <<verdict, record>>

Crash ==
  /\ phase = "serving"
  /\ phase' = "down" /\ router' = None
  /\ Close({q \in Requests : pc[q] # "idle"}, "lost")
  /\ UNCHANGED rules

\* A controlled publication: a new rule, which is enabled.
Publish(code) ==
  /\ code \notin rules
  /\ rules' = rules \cup {code}
  /\ UNCHANGED <<phase, router, pc, ask, before, blind, verdict, call, record, reply>>

(***************************************************************************)
(* The chain in front of the handlers.                                     *)
(***************************************************************************)
Receive(q, a) ==
  /\ phase = "serving" /\ pc[q] = "idle"
  /\ pc' = [pc EXCEPT ![q] = "route"]
  /\ ask' = [ask EXCEPT ![q] = a]
  /\ verdict' = [verdict EXCEPT ![q] = None]
  /\ record' = [record EXCEPT ![q] = None]
  /\ reply' = [reply EXCEPT ![q] = "nothing"]
  /\ UNCHANGED <<server, before, blind, call>>

Refuse(q) == Close({q}, "refused") /\ UNCHANGED server

Pass(q, step) ==
  /\ pc' = [pc EXCEPT ![q] = step]
  /\ UNCHANGED <<server, ask, before, blind, verdict, call, record, reply>>

Route(q) ==
  /\ pc[q] = "route"
  /\ CASE ask[q].kind = "operator" /\ router.expects.assisted # None -> Pass(q, "bearer")
       [] ask[q].kind = "browser" /\ router.browser -> Pass(q, "session")
       [] ask[q].kind \in {"text", "preview"} -> Pass(q, "body")
       [] OTHER -> Refuse(q)

Authorize(q) ==
  /\ pc[q] = "bearer"
  /\ IF BearerAccepts(router.expects.assisted, ask[q].token)
     THEN Pass(q, "rate") ELSE Refuse(q)

\* Origin, cookie, record of the session and CSRF token.
RequireSession(q) ==
  /\ pc[q] = "session"
  /\ IF ask[q].session THEN Pass(q, "rate") ELSE Refuse(q)

Admit(q) == pc[q] = "rate" /\ Pass(q, "body")

\* Over the limit, or Redis is not available in time.
TurnAway(q) == pc[q] \in {"session", "rate"} /\ Refuse(q)

\* A body is "broken" when it is not the one JSON object that is asked for.
\* Only the explicit routes refuse a "blank" text and one over 12 KiB; a
\* "dense" text is below that and not when it is rendered for a provider.
BodyOK(a) ==
  /\ a.body # "broken"
  /\ a.kind \in ExplicitKinds => a.body \notin {"blank", "large"}
  /\ a.kind = "browser" => Resolves(router.profiles, a.profile)

\* What follows begins the query for the rules.
Decode(q) ==
  /\ pc[q] = "body"
  /\ IF BodyOK(ask[q])
     THEN /\ pc' = [pc EXCEPT ![q] = "rules"]
          /\ before' = [before EXCEPT ![q] = rules]
          /\ UNCHANGED <<server, ask, blind, verdict, call, record, reply>>
     ELSE Refuse(q)

(***************************************************************************)
(* The verdict.                                                            *)
(***************************************************************************)
RulesOf(codes) == [i \in DOMAIN codes |-> RuleTable[codes[i]]]

Judge(q, loaded) ==
  /\ verdict' = [verdict EXCEPT ![q] = Analyze(ask[q].text, RulesOf(loaded))]
  /\ pc' = [pc EXCEPT ![q] = CASE Explicit(q) -> "assist"
                               [] ask[q].kind = "text" -> "store"
                               [] OTHER -> "answer"]
  /\ UNCHANGED <<server, ask, before, call, record, reply>>

\* Mutant: a rules query that fails leaves the explicit routes without rules.
LoadFailsOpen(q) ==
  /\ pc[q] = "rules"
  /\ \E partial \in SUBSET rules : \E loaded \in SetToSeqs(partial) :
       Judge(q, loaded) /\ blind' = [blind EXCEPT ![q] = ~Explicit(q)]

\* The query has no ORDER BY; that of the explicit routes ends with the client.
LoadRules(q) ==
  /\ pc[q] = "rules"
  /\ ~gone[q]
  /\ \E loaded \in SetToSeqs(rules) : Judge(q, loaded)
  /\ UNCHANGED blind

\* The plain routes ignore the error and judge by the rows there are.
LoadFails(q) ==
  /\ pc[q] = "rules"
  /\ IF Explicit(q) THEN Refuse(q)
     ELSE \E partial \in SUBSET rules : \E loaded \in SetToSeqs(partial) :
            Judge(q, loaded) /\ blind' = [blind EXCEPT ![q] = TRUE]

\* The error of Create is ignored, too.
Store(q) ==
  /\ pc[q] = "store"
  /\ pc' = [pc EXCEPT ![q] = "answer"]
  /\ \E stored \in {verdict[q], None} : record' = [record EXCEPT ![q] = stored]
  /\ UNCHANGED <<server, ask, before, blind, verdict, call, reply>>

AnswerPlain(q) ==
  pc[q] = "answer" /\ Close({q}, "plain") /\ UNCHANGED server

(***************************************************************************)
(* Assist.                                                                 *)
(***************************************************************************)
Provider(q) == router.profiles["default"].provider

CallProvider(q) ==
  /\ pc[q] = "assist"
  /\ ~gone[q] /\ ask[q].body # "dense"
  /\ pc' = [pc EXCEPT ![q] = "await"]
  /\ sent' = [sent EXCEPT ![q] = TRUE]
  /\ UNCHANGED <<server, ask, before, blind, verdict, outcome, whole, gone,
                 fired, record, reply>>

Return(q, text) ==
  /\ pc' = [pc EXCEPT ![q] = "conclude"]
  /\ outcome' = [outcome EXCEPT ![q] = text]
  /\ UNCHANGED <<server, ask, before, blind, verdict, sent, gone, fired, record, reply>>

\* The client is gone, or the rendered input is too large.
SkipProvider(q) ==
  /\ pc[q] = "assist"
  /\ gone[q] \/ ask[q].body = "dense"
  /\ Return(q, NoText) /\ UNCHANGED whole

\* An answer may still be read while the context ends.
Answered(q, a) ==
  /\ pc[q] = "await"
  /\ Return(q, Read(Provider(q), a))
  /\ whole' = [whole EXCEPT ![q] = Whole(a)]

\* Mutant: the call has the context of the client only.
CancelledByClient(q) ==
  pc[q] = "await" /\ gone[q] /\ Return(q, NoText) /\ UNCHANGED whole

Cancelled(q) ==
  /\ pc[q] = "await"
  /\ gone[q] \/ fired[q]
  /\ Return(q, NoText) /\ UNCHANGED whole

\* The context of the call ends while its answer is awaited or looked at.
DeadlineFires(q) ==
  /\ pc[q] \in {"await", "conclude"} /\ ~fired[q]
  /\ fired' = [fired EXCEPT ![q] = TRUE]
  /\ UNCHANGED <<server, pc, ask, before, blind, verdict, sent, outcome, whole,
                 gone, record, reply>>

ClientLeaves(q) ==
  /\ pc[q] # "idle" /\ Explicit(q) /\ ~gone[q]
  /\ gone' = [gone EXCEPT ![q] = TRUE]
  /\ UNCHANGED <<server, pc, ask, before, blind, verdict, sent, outcome, whole,
                 fired, record, reply>>

\* Mutant: an answer is used whenever it comes.
HelpfulLate(q) == ValidAssistance(outcome[q])

\* Whether the context has ended is looked at once more, after the answer.
Helpful(q) == ~gone[q] /\ ~fired[q] /\ ValidAssistance(outcome[q])

Conclude(q) ==
  /\ pc[q] = "conclude"
  /\ Close({q}, IF Helpful(q) THEN "available" ELSE "unavailable")
  /\ UNCHANGED server

(***************************************************************************)
(* Specification.                                                          *)
(***************************************************************************)
Init ==
  /\ phase = "down" /\ router = None
  /\ rules = SeededCodes
  /\ pc = [q \in Requests |-> "idle"]
  /\ ask = [q \in Requests |-> None]
  /\ before = [q \in Requests |-> {}]
  /\ blind = [q \in Requests |-> FALSE]
  /\ verdict = [q \in Requests |-> None]
  /\ sent = [q \in Requests |-> FALSE]
  /\ outcome = [q \in Requests |-> None]
  /\ whole = [q \in Requests |-> FALSE]
  /\ gone = [q \in Requests |-> FALSE]
  /\ fired = [q \in Requests |-> FALSE]
  /\ record = [q \in Requests |-> None]
  /\ reply = [q \in Requests |-> "nothing"]

\* What the server does by itself once it has a request.
Handle(q) ==
  \/ Route(q) \/ Authorize(q) \/ RequireSession(q) \/ Admit(q) \/ TurnAway(q)
  \/ Decode(q) \/ LoadRules(q) \/ LoadFails(q) \/ Store(q) \/ AnswerPlain(q)
  \/ CallProvider(q) \/ SkipProvider(q) \/ Cancelled(q) \/ Conclude(q)

Next ==
  \/ \E env \in Environments : Start(env)
  \/ Crash
  \/ \E code \in DOMAIN RuleTable : Publish(code)
  \/ \E q \in Requests :
       \/ \E a \in Asks : Receive(q, a)
       \/ Handle(q)
       \/ DeadlineFires(q)
       \/ ClientLeaves(q)
       \/ pc[q] = "await" /\ \E a \in AnswersOf(Provider(q)) : Answered(q, a)

Spec == Init /\ [][Next]_vars

\* Handlers run, Redis and the database answer, and a timeout fires.
FairSpec ==
  Spec /\ \A q \in Requests : WF_vars(Handle(q)) /\ WF_vars(DeadlineFires(q))

(***************************************************************************)
(* Properties.                                                             *)
(***************************************************************************)
\* The terms by which a rule matches a text.
Matches(rule, text) ==
  LET terms == ToSet(rule.terms) \ (IF rule.kind = "regex" THEN {} ELSE {Blank})
  IN  /\ rule.kind \in TermKinds \cup {"regex"}
      /\ IF rule.kind = "pattern" /\ rule.joined
         THEN Blank \notin ToSet(rule.terms) /\ terms \subseteq ToSet(text)
         ELSE terms \cap ToSet(text) # {}

WeightOf(codes) == FoldFunction(+, 0, [code \in codes |-> RuleTable[code].weight])

\* The verdict v is what exactly the rules S say of a text.
SaysOf(S, text, v) ==
  LET hits   == {code \in S : Matches(RuleTable[code], text)}
      advice == {RuleTable[code].advice : code \in hits} \ {NoAdvice}
  IN  /\ v.score = IF WeightOf(hits) > ScoreCap THEN ScoreCap ELSE WeightOf(hits)
      /\ {m.code : m \in ToSet(v.matched)} = hits
      /\ Len(v.matched) = Cardinality(hits)
      /\ \A m \in ToSet(v.matched) :
           m.evidence # <<>> /\ ToSet(m.evidence) \subseteq ToSet(text)
      /\ ToSet(v.advice) = IF advice = {} THEN {DefaultAdvice} ELSE advice
      /\ IsInjective(v.advice)

\* Whatever is published while a request is under way, and in whatever order
\* its rules are found, its verdict is that of the rules at one moment after
\* its query began: all of them, nothing else, and an explicit verdict always.
\* Only a plain verdict after a failed query may know fewer rules
\* (analysis/handler.go, assisted_handler.go, riskengine).
VerdictFromOneSnapshot ==
  \A q \in Requests : pc[q] \in Judged =>
    \E S \in SUBSET rules :
      /\ SaysOf(S, ask[q].text, verdict[q])
      /\ before[q] \subseteq S \/ (blind[q] /\ ~Explicit(q))

\* A configuration that main accepts is one the router can be built from: the
\* panics of cmd/server are never reached.
ValidatedConfigurationsStart == phase # "panicked"

\* A bearer token that opens the routes of one role opens those of no other
\* (the comparisons of Validate, although each gate sees a part of them).
OneRolePerToken ==
  phase = "serving" =>
    \A token \in Tokens \cup {Short, Spaced, None} :
      Cardinality({role \in Roles : BearerAccepts(router.expects[role], token)}) <= 1

\* Every request ends: a provider that never answers, a client that leaves and
\* a limiter that fails all lead to an answer (Service.Assist and the handlers).
NoRequestHangs == \A q \in Requests : pc[q] # "idle" ~> pc[q] = "idle"

StageOf(step) ==
  IF step = "idle" THEN "none"
  ELSE IF step = "rules" THEN "cleared"
  ELSE IF step \in Judged THEN "judged"
  ELSE "open"

stageBar == [q \in Requests |-> StageOf(pc[q])]
explicitBar == [q \in Requests |-> Explicit(q)]
overBar == [q \in Requests |-> gone[q] \/ fired[q]]

\* The routes keep the contract: the text of an explicit request is told to a
\* provider once, after the verdict; help comes from a whole answer in time;
\* the verdict is never changed, and it is answered whatever the provider does.
Contract == INSTANCE AnalysisContract WITH
  stage <- stageBar,
  explicit <- explicitBar,
  disclosed <- sent,
  helped <- whole,
  over <- overBar,
  recorded <- record,
  said <- reply

ImplementsContract == Contract!Spec

=============================================================================
