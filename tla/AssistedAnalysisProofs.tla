----------------------- MODULE AssistedAnalysisProofs -----------------------
(***************************************************************************)
(* AssistedAnalysis for any environments, rules and number of requests:    *)
(* what main accepts can be built, tokens of one role open no routes of    *)
(* another, the routes keep AnalysisContract, and every verdict is what    *)
(* the rules of one moment say.  The contract rests on an invariant of     *)
(* what each step of a handler implies about its request (Located) and     *)
(* about the provider it may call (Equipped); the verdicts rest on what    *)
(* the engine computes of any text and any rules (AnalyzeSays).            *)
(***************************************************************************)
EXTENDS AssistedAnalysis, FiniteSetTheorems, WellFoundedInduction, TLAPS

-----------------------------------------------------------------------------
(***************************************************************************)
(* Configurations.                                                         *)
(***************************************************************************)

\* What DefaultProfiles makes its registry of.
DefaultProfile(c) ==
  [id |-> "default", shown |-> ValidModel(c.model),
   provider |-> c.provider, model |-> c.model,
   key |-> TRUE, timeout |-> c.timeout, enabled |-> TRUE]

\* The registry of one profile.
LEMMA OneProfile ==
  ASSUME NEW p, p.shown, ValidModel(p.model),
         Creates(p.provider, p.model, p.key), p.timeout >= 1
  PROVE  ProfileRegistry(<<p>>) =
           [id \in {p.id} |-> [provider |-> p.provider, enabled |-> p.enabled]]
<1> DEFINE ps == <<p>>
           at(id) == CHOOSE i \in DOMAIN ps : ps[i].id = id
           entry(id) == [provider |-> ps[at(id)].provider, enabled |-> ps[at(id)].enabled]
           ids == {ps[i].id : i \in DOMAIN ps}
<1>1. DOMAIN ps = {1} /\ ps[1] = p /\ Len(ps) = 1
  OBVIOUS
<1> HIDE DEF ps
<1>2. ids = {p.id}
  BY <1>1
<1>3. at(p.id) = 1
  BY <1>1
<1>4. ProfileRegistry(ps) = [id \in ids |-> entry(id)]
  BY <1>1 DEF ProfileRegistry, MaxProfiles
<1>5. entry(p.id) = [provider |-> p.provider, enabled |-> p.enabled]
  BY <1>1, <1>3
<1> HIDE DEF at, entry, ids
<1>6. ProfileRegistry(ps) = [id \in {p.id} |-> entry(p.id)]
  BY <1>2, <1>4
<1> QED
  BY <1>5, <1>6 DEF ps

\* A registry that is built has the one profile, of a known provider.
LEMMA BuiltProfiles ==
  ASSUME NEW c, DefaultProfiles(c) # None
  PROVE  /\ c.provider \in Providers
         /\ DefaultProfiles(c) =
              [id \in {"default"} |-> [provider |-> c.provider, enabled |-> TRUE]]
<1> DEFINE p == DefaultProfile(c)
           ps == <<p>>
<1>1. HasCredential(c) /\ DefaultProfiles(c) = ProfileRegistry(ps)
  BY DEF DefaultProfiles, DefaultProfile
<1>2. DOMAIN ps = {1} /\ ps[1] = p
  OBVIOUS
<1>3. /\ p.id = "default" /\ p.provider = c.provider /\ p.enabled
      /\ p.enabled = TRUE
  BY DEF DefaultProfile
<1> HIDE DEF ps, p
<1>4. \A i \in DOMAIN ps :
        /\ ps[i].shown /\ ValidModel(ps[i].model)
        /\ ps[i].enabled => /\ Creates(ps[i].provider, ps[i].model, ps[i].key)
                            /\ ps[i].timeout >= 1
  BY <1>1 DEF ProfileRegistry
<1>5. /\ p.shown /\ ValidModel(p.model)
      /\ Creates(p.provider, p.model, p.key) /\ p.timeout >= 1
  BY <1>2, <1>3, <1>4
<1>6. ProfileRegistry(<<p>>) =
        [id \in {p.id} |-> [provider |-> p.provider, enabled |-> p.enabled]]
  BY <1>5, OneProfile
<1> QED
  BY <1>1, <1>3, <1>6 DEF HasCredential, ps

\* What the gate of LLM assistance demands is all that a registry needs.
LEMMA GateBuildsProfiles ==
  ASSUME NEW c, c.llm, LLMGate(c)
  PROVE  DefaultProfiles(c) # None
<1> DEFINE p == DefaultProfile(c)
           registry == [id \in {"default"} |-> [provider |-> c.provider, enabled |-> TRUE]]
<1>1. /\ c.timeout >= 1 /\ ValidModel(c.model) /\ HasCredential(c)
      /\ Creates(c.provider, c.model, HasCredential(c))
  BY DEF LLMGate
<1>2. DefaultProfiles(c) = ProfileRegistry(<<p>>)
  BY <1>1 DEF DefaultProfiles, DefaultProfile
<1>3. /\ p.shown /\ ValidModel(p.model)
      /\ Creates(p.provider, p.model, p.key) /\ p.timeout >= 1
      /\ p.id = "default" /\ p.provider = c.provider /\ p.enabled = TRUE
  BY <1>1 DEF DefaultProfile, Creates
<1> HIDE DEF p
<1>4. ProfileRegistry(<<p>>) = registry
  <2>1. /\ p.shown /\ ValidModel(p.model)
        /\ Creates(p.provider, p.model, p.key) /\ p.timeout >= 1
    BY <1>3
  <2>2. ProfileRegistry(<<p>>) =
          [id \in {p.id} |-> [provider |-> p.provider, enabled |-> p.enabled]]
    BY <2>1, OneProfile
  <2> QED
    BY <1>3, <2>2
<1>5. registry \in [{"default"} -> [provider : Providers, enabled : BOOLEAN]]
  BY <1>1 DEF HasCredential
<1> QED
  BY <1>2, <1>4, <1>5, RegistryAssumption

LEMMA DefaultResolves ==
  ASSUME NEW c, DefaultProfiles(c) # None
  PROVE  Resolves(DefaultProfiles(c), "default")
<1>1. DefaultProfiles(c) =
        [id \in {"default"} |-> [provider |-> c.provider, enabled |-> TRUE]]
  BY BuiltProfiles
<1> QED
  BY <1>1 DEF Resolves

\* The router can be built from every configuration main accepts.
LEMMA AcceptedBuilds ==
  ASSUME NEW c, Accepted(c)
  PROVE  Builds(c)
<1>1. /\ LLMGate(c) /\ AssistedGate(c) /\ BrowserGate(c) /\ AssistedPrerequisites(c)
  BY DEF Accepted, Validates
<1>2. BuildsSessions(c)
  BY <1>1 DEF BrowserGate, BuildsSessions
<1>3. BuildsBrowserAssisted(c)
  BY <1>1, GateBuildsProfiles DEF BrowserGate, AssistedPrerequisites, BuildsBrowserAssisted
<1>4. BuildsAssisted(c)
  BY <1>1, GateBuildsProfiles, DefaultResolves DEF AssistedGate, BuildsAssisted
<1> QED
  BY <1>2, <1>3, <1>4 DEF Builds

-----------------------------------------------------------------------------
(***************************************************************************)
(* The server.                                                             *)
(***************************************************************************)

\* What serves was built from an environment main accepts.
Served ==
  phase = "serving" =>
    \E env \in Environments :
      LET c == LoadBrowserSession(Load(env))
      IN  Accepted(c) /\ Builds(c) /\ router = Router(c)

\* Only a start and a crash change the server.
LEMMA ServerMoves ==
  ASSUME [Next]_vars
  PROVE  \/ \E env \in Environments : Start(env)
         \/ Crash
         \/ UNCHANGED <<phase, router>>
<1>1. CASE UNCHANGED vars
  BY <1>1 DEF vars
<1>2. ASSUME NEW code \in DOMAIN RuleTable, Publish(code)
      PROVE  UNCHANGED <<phase, router>>
  BY <1>2 DEF Publish
<1>3. ASSUME NEW q \in Requests, Handle(q)
      PROVE  UNCHANGED <<phase, router>>
  BY <1>3 DEF Handle, Route, Authorize, RequireSession, Admit, TurnAway, Decode,
              LoadRules, LoadFails, Judge, Store, AnswerPlain, CallProvider,
              SkipProvider, Return, Cancelled, Conclude, Pass, Refuse, server
<1>4. ASSUME NEW q \in Requests,
             \/ \E a \in Asks : Receive(q, a)
             \/ DeadlineFires(q)
             \/ ClientLeaves(q)
             \/ \E a \in AnswersOf(Provider(q)) : Answered(q, a)
      PROVE  UNCHANGED <<phase, router>>
  BY <1>4 DEF Receive, DeadlineFires, ClientLeaves, Answered, Return, server
<1> QED
  BY <1>1, <1>2, <1>3, <1>4 DEF Next

LEMMA ServedInv == Spec => []Served
<1>1. Init => Served
  BY DEF Init, Served
<1>2. Served /\ [Next]_vars => Served'
  <2> SUFFICES ASSUME Served, [Next]_vars PROVE Served'
    OBVIOUS
  <2>1. ASSUME NEW env \in Environments, Start(env) PROVE Served'
    <3> DEFINE c == LoadBrowserSession(Load(env))
    <3>1. /\ Accepted(c)
          /\ phase' = "serving" => Builds(c) /\ router' = Router(c)
      BY <2>1 DEF Start
    <3> HIDE DEF c
    <3>2. phase' = "serving" => Accepted(c) /\ Builds(c) /\ router' = Router(c)
      BY <3>1
    <3> QED
      BY <3>2 DEF Served, c
  <2>2. CASE Crash
    BY <2>2 DEF Crash, Served
  <2>3. CASE UNCHANGED <<phase, router>>
    BY <2>3 DEF Served
  <2> QED
    BY <2>1, <2>2, <2>3, ServerMoves
<1> QED
  BY <1>1, <1>2, PTL DEF Spec

\* Every configuration main accepts is one the router can be built from, for
\* every environment: the panics of cmd/server are not reached.
THEOREM ConfigurationsStart == Spec => []ValidatedConfigurationsStart
<1>1. Init => ValidatedConfigurationsStart
  BY DEF Init, ValidatedConfigurationsStart
<1>2. ValidatedConfigurationsStart /\ [Next]_vars => ValidatedConfigurationsStart'
  <2> SUFFICES ASSUME ValidatedConfigurationsStart, [Next]_vars
               PROVE  ValidatedConfigurationsStart'
    OBVIOUS
  <2>1. ASSUME NEW env \in Environments, Start(env)
        PROVE  ValidatedConfigurationsStart'
    BY <2>1, AcceptedBuilds DEF Start, ValidatedConfigurationsStart
  <2>2. CASE Crash
    BY <2>2 DEF Crash, ValidatedConfigurationsStart
  <2>3. CASE UNCHANGED <<phase, router>>
    BY <2>3 DEF ValidatedConfigurationsStart
  <2> QED
    BY <2>1, <2>2, <2>3, ServerMoves
<1> QED
  BY <1>1, <1>2, PTL DEF Spec

\* Two roles that are served and expect one token are one role.
LEMMA TokensDiffer ==
  ASSUME NEW c, Validates(c), NEW r1 \in Roles, NEW r2 \in Roles,
         c.on[r1], c.on[r2], c.token[r1] # None, c.token[r1] = c.token[r2]
  PROVE  r1 = r2
<1>1. c.on["assisted"] => \A r \in Roles \ {"assisted"} : DiffersFrom(c, "assisted", r)
  BY DEF Validates, AssistedGate
<1>2. c.on["review"] => DiffersFrom(c, "review", "write")
  BY DEF Validates, ReviewGate
<1>3. c.on["publish"] => DiffersFrom(c, "publish", "write") /\ DiffersFrom(c, "publish", "review")
  BY DEF Validates, PublicationGate
<1> QED
  BY <1>1, <1>2, <1>3 DEF DiffersFrom, Roles

\* A token that opens the routes of one role opens those of no other, for every
\* environment: the comparisons of Validate cover every pair of roles, although
\* each gate runs only when its own feature is on.
THEOREM TokensApart == Spec => []OneRolePerToken
<1>1. ASSUME Served PROVE OneRolePerToken
  <2> SUFFICES ASSUME phase = "serving", NEW token
               PROVE  LET R == {role \in Roles : BearerAccepts(router.expects[role], token)}
                      IN  Cardinality(R) <= 1
    BY DEF OneRolePerToken
  <2> DEFINE R == {role \in Roles : BearerAccepts(router.expects[role], token)}
  <2>1. PICK env \in Environments :
          LET c == LoadBrowserSession(Load(env))
          IN  Accepted(c) /\ router = Router(c)
    BY <1>1 DEF Served
  <2> DEFINE c == LoadBrowserSession(Load(env))
  <2>2. Validates(c) /\ router = Router(c)
    BY <2>1 DEF Accepted
  <2> HIDE DEF c
  <2>3. \A role \in Roles :
          router.expects[role] = IF c.on[role] THEN c.token[role] ELSE None
    BY <2>2 DEF Router
  <2>4. ASSUME NEW r1 \in R, NEW r2 \in R PROVE r1 = r2
    <3>1. /\ c.on[r1] /\ c.on[r2]
          /\ c.token[r1] = token /\ c.token[r2] = token /\ token # None
      BY <2>3 DEF BearerAccepts
    <3> QED
      BY <2>2, <3>1, TokensDiffer
  <2>5. CASE R = {}
    BY <2>5, FS_EmptySet
  <2>6. ASSUME NEW r \in R PROVE Cardinality(R) = 1
    <3>1. R = {r}
      BY <2>4
    <3> QED
      BY <3>1, FS_Singleton
  <2> QED
    BY <2>5, <2>6
<1> QED
  BY <1>1, ServedInv, PTL

-----------------------------------------------------------------------------
(***************************************************************************)
(* Requests.                                                               *)
(***************************************************************************)

Shaped ==
  /\ phase \in {"down", "serving", "panicked"}
  /\ pc \in [Requests -> Steps]
  /\ ask = [q \in Requests |-> ask[q]]
  /\ verdict = [q \in Requests |-> verdict[q]]
  /\ sent \in [Requests -> BOOLEAN]
  /\ outcome = [q \in Requests |-> outcome[q]]
  /\ whole \in [Requests -> BOOLEAN]
  /\ gone \in [Requests -> BOOLEAN]
  /\ fired \in [Requests -> BOOLEAN]
  /\ record = [q \in Requests |-> record[q]]
  /\ reply = [q \in Requests |-> reply[q]]

\* The provider that explicit requests are sent to is one with an adapter.
Equipped == router.profiles["default"].provider \in Providers

\* What the step a request is at says about it.
Located(q) ==
  /\ pc[q] = "idle" => ~Explicit(q) /\ ~sent[q] /\ ~whole[q] /\ ~gone[q] /\ ~fired[q]
  /\ pc[q] # "idle" => phase = "serving"
  /\ pc[q] \in {"store", "answer"} => ~Explicit(q)
  /\ pc[q] \in {"assist", "await", "conclude"} => Explicit(q)
  /\ pc[q] \notin {"idle", "route"} /\ Explicit(q) => Equipped
  /\ pc[q] \notin {"idle", "answer"} => record[q] = None
  /\ pc[q] = "await" => sent[q]
  /\ sent[q] => pc[q] \in {"await", "conclude"}
  /\ whole[q] => pc[q] = "conclude"
  /\ fired[q] => pc[q] \in {"await", "conclude"}
  /\ pc[q] = "conclude" /\ ValidAssistance(outcome[q]) => sent[q] /\ whole[q]

Inv == Served /\ Shaped /\ \A q \in Requests : Located(q)

\* A configuration that serves explicit requests has a provider.
LEMMA ServedEquips ==
  ASSUME Served, phase = "serving",
         router.expects["assisted"] # None \/ router.browser
  PROVE  Equipped
<1>1. PICK env \in Environments :
        LET c == LoadBrowserSession(Load(env))
        IN  Builds(c) /\ router = Router(c)
  BY DEF Served
<1> DEFINE c == LoadBrowserSession(Load(env))
<1>2. Builds(c) /\ router = Router(c)
  BY <1>1
<1> HIDE DEF c
<1>3. /\ router.expects["assisted"] = IF c.on["assisted"] THEN c.token["assisted"] ELSE None
      /\ router.browser = (c.browser /\ c.analysis)
      /\ router.profiles = IF c.on["assisted"] \/ (c.browser /\ c.analysis)
                           THEN DefaultProfiles(c) ELSE None
  BY <1>2 DEF Router, Roles
<1>4. c.on["assisted"] \/ (c.browser /\ c.analysis)
  BY <1>3
<1>5. DefaultProfiles(c) # None
  BY <1>2, <1>4 DEF Builds, BuildsAssisted, BuildsBrowserAssisted
<1> QED
  BY <1>3, <1>4, <1>5, BuiltProfiles DEF Equipped

\* The texts of an answer are a sequence.
LEMMA AnswerTexts ==
  ASSUME NEW a \in Answer
  PROVE  \E n \in Nat : a.texts \in [1..n -> Texts]
<1>1. a.texts \in BoundedSeq(Texts, 2)
  BY DEF Answer
<1>2. BoundedSeq(Texts, 2) = UNION {[1..m -> Texts] : m \in 0..2}
  BY Zenon DEF BoundedSeq, SeqOf
<1>3. PICK m \in 0..2 : a.texts \in [1..m -> Texts]
  BY <1>1, <1>2
<1>4. m \in Nat
  OBVIOUS
<1> QED
  BY <1>3, <1>4

\* An adapter that returns a good text has read a whole answer.
LEMMA GoodIsWhole ==
  ASSUME NEW provider \in Providers, NEW a \in AnswersOf(provider),
         ValidAssistance(Read(provider, a))
  PROVE  Whole(a)
<1> DEFINE found == NonBlank(a.texts)
<1>1. \A t : Decoded(t) = "good" => t = "good"
  BY DEF Decoded, NoText
<1>2. Read(provider, a) = "good" /\ a \in Answer
  BY DEF ValidAssistance, AnswersOf
<1>3. IsFiniteSet(found) /\ found \subseteq DOMAIN a.texts
  <2>1. PICK n \in Nat : DOMAIN a.texts = 1..n
    BY <1>2, AnswerTexts
  <2>2. IsFiniteSet(1..n)
    <3>1. 1 \in Int /\ n \in Int
      OBVIOUS
    <3> QED
      BY <3>1, FS_Interval
  <2>3. found \in SUBSET (1..n)
    BY <2>1 DEF NonBlank
  <2> QED
    BY <2>1, <2>2, <2>3, FS_Subset
<1> HIDE DEF found
<1>4. CASE provider = "openai"
  <2>1. /\ a.came /\ a.finished /\ ~a.refused
        /\ Cardinality(found) = 1 /\ Decoded(a.texts[CHOOSE i \in found : TRUE]) = "good"
    BY <1>2, <1>4 DEF Read, ReadOpenAI, NoText, found
  <2>2. PICK i : found = {i}
    BY <1>3, <2>1, FS_Singleton
  <2>3. a.texts[i] = "good" /\ i \in DOMAIN a.texts
    BY <1>1, <1>3, <2>1, <2>2
  <2> QED
    BY <2>1, <2>2, <2>3 DEF Whole, found
<1>5. CASE provider = "gemini"
  <2>1. /\ a.came /\ a.finished /\ ~a.refused
        /\ found = {1} /\ Decoded(a.texts[1]) = "good"
    BY <1>2, <1>5 DEF Read, ReadGemini, NoText, found
  <2> QED
    BY <1>1, <1>3, <2>1 DEF Whole, found
<1>6. CASE provider = "deepseek"
  <2>1. /\ a.came /\ a.finished
        /\ found = {1} /\ Decoded(a.texts[1]) = "good"
    BY <1>2, <1>6 DEF Read, ReadDeepSeek, NoText, found
  <2>2. ~a.refused
    <3>1. Len(a.texts) <= 1 /\ (a.refused => ~a.finished)
      BY <1>6 DEF AnswersOf
    <3> QED
      BY <2>1, <3>1
  <2> QED
    BY <1>1, <1>3, <2>1, <2>2 DEF Whole, found
<1> QED
  BY <1>4, <1>5, <1>6 DEF Providers

\* What an adapter returns is a text or an error.
LEMMA ReadTyped ==
  ASSUME NEW provider \in Providers, NEW a \in AnswersOf(provider)
  PROVE  Read(provider, a) \in Texts \cup {NoText}
<1>1. \A t \in Texts : Decoded(t) \in Texts \cup {NoText}
  BY DEF Decoded
<1>2. a \in Answer
  BY DEF AnswersOf
<1>3. PICK n \in Nat : a.texts \in [1..n -> Texts]
  BY <1>2, AnswerTexts
<1> DEFINE found == NonBlank(a.texts)
<1>4. \A i \in found : a.texts[i] \in Texts
  BY <1>3 DEF NonBlank
<1> HIDE DEF found
<1>5. CASE provider = "openai"
  <2>1. IsFiniteSet(found)
    <3>1. 1 \in Int /\ n \in Int
      OBVIOUS
    <3>2. found \in SUBSET (1..n)
      BY <1>3 DEF NonBlank, found
    <3> QED
      BY <3>1, <3>2, FS_Interval, FS_Subset
  <2>2. Cardinality(found) = 1 => a.texts[CHOOSE i \in found : TRUE] \in Texts
    BY <1>4, <2>1, FS_Singleton
  <2> QED
    BY <1>1, <1>5, <2>2 DEF Read, ReadOpenAI, found
<1>6. CASE provider = "gemini"
  BY <1>1, <1>4, <1>6 DEF Read, ReadGemini, found
<1>7. CASE provider = "deepseek"
  BY <1>1, <1>4, <1>7 DEF Read, ReadDeepSeek, found
<1> QED
  BY <1>5, <1>6, <1>7 DEF Providers

LEMMA InitInv == Init => Inv
  BY DEF Init, Inv, Served, Shaped, Located, Explicit, Steps, Judged, ValidAssistance

\* A step keeps functions functions.
LEMMA ShapedStep ==
  ASSUME Shaped, [Next]_vars
  PROVE  Shaped'
<1>1. CASE UNCHANGED vars
  BY <1>1 DEF vars, Shaped
<1>2. ASSUME NEW env \in Environments, Start(env) PROVE Shaped'
  <2>1. phase' \in {"serving", "panicked"}
    BY <1>2 DEF Start
  <2> QED
    BY <1>2, <2>1 DEF Start, call, Shaped
<1>3. ASSUME NEW qs, NEW ending, Close(qs, ending), phase' \in {"down", "serving", "panicked"}
      PROVE  Shaped'
  BY <1>3 DEF Close, Shaped, Steps
<1>4. CASE Crash
  BY <1>3, <1>4 DEF Crash
<1>5. ASSUME NEW code \in DOMAIN RuleTable, Publish(code) PROVE Shaped'
  BY <1>5 DEF Publish, call, Shaped
<1>6. ASSUME NEW q \in Requests, NEW a \in Asks, Receive(q, a) PROVE Shaped'
  BY <1>6 DEF Receive, server, call, Shaped, Steps
<1>7. ASSUME NEW q \in Requests, Refuse(q) \/ AnswerPlain(q) \/ Conclude(q) PROVE Shaped'
  <2>1. /\ \E ending : Close({q}, ending)
        /\ phase' = phase
    BY <1>7 DEF Refuse, AnswerPlain, Conclude, server
  <2> QED
    BY <1>3, <2>1 DEF Shaped
<1>8. ASSUME NEW q \in Requests, NEW step \in Steps, Pass(q, step) PROVE Shaped'
  BY <1>8 DEF Pass, server, call, Shaped
<1>9. ASSUME NEW q \in Requests, Route(q) \/ Authorize(q) \/ RequireSession(q) \/ Admit(q) \/ TurnAway(q)
      PROVE  Shaped'
  BY <1>7, <1>8, <1>9 DEF Route, Authorize, RequireSession, Admit, TurnAway, Steps
<1>10. ASSUME NEW q \in Requests, Decode(q) PROVE Shaped'
  <2>1. CASE BodyOK(ask[q])
    BY <1>10, <2>1 DEF Decode, server, call, Shaped, Steps
  <2> QED
    BY <1>7, <1>10, <2>1 DEF Decode
<1>11. ASSUME NEW q \in Requests, NEW loaded, Judge(q, loaded) PROVE Shaped'
  BY <1>11 DEF Judge, server, call, Shaped, Steps, Judged
<1>12. ASSUME NEW q \in Requests, LoadRules(q) \/ LoadFails(q) PROVE Shaped'
  BY <1>7, <1>11, <1>12 DEF LoadRules, LoadFails
<1>13. ASSUME NEW q \in Requests, Store(q) PROVE Shaped'
  BY <1>13 DEF Store, server, call, Shaped, Steps, Judged
<1>14. ASSUME NEW q \in Requests, CallProvider(q) PROVE Shaped'
  BY <1>14 DEF CallProvider, server, Shaped, Steps, Judged
<1>15. ASSUME NEW q \in Requests, NEW text, Return(q, text), whole' \in [Requests -> BOOLEAN]
       PROVE  Shaped'
  BY <1>15 DEF Return, server, Shaped, Steps, Judged
<1>16. ASSUME NEW q \in Requests, SkipProvider(q) \/ Cancelled(q) PROVE Shaped'
  BY <1>15, <1>16 DEF SkipProvider, Cancelled, Shaped
<1>17. ASSUME NEW q \in Requests, NEW a \in Answer, Answered(q, a) PROVE Shaped'
  <2>1. whole' = [whole EXCEPT ![q] = Whole(a)] /\ Whole(a) \in BOOLEAN
    BY <1>17 DEF Answered, Whole, Answer
  <2>2. whole' \in [Requests -> BOOLEAN]
    BY <2>1 DEF Shaped
  <2> QED
    BY <1>15, <1>17, <2>2 DEF Answered
<1>18. ASSUME NEW q \in Requests, DeadlineFires(q) \/ ClientLeaves(q) PROVE Shaped'
  BY <1>18 DEF DeadlineFires, ClientLeaves, server, Shaped
<1> QED
  BY <1>1, <1>2, <1>4, <1>5, <1>6, <1>7, <1>9, <1>10, <1>12, <1>13, <1>14, <1>16,
     <1>17, <1>18 DEF Next, Handle, AnswersOf

\* A step of a request leaves the others where they are.
LEMMA LocatedFrame ==
  ASSUME NEW r \in Requests, Located(r), phase' = phase, router' = router,
         pc'[r] = pc[r], ask'[r] = ask[r], sent'[r] = sent[r],
         outcome'[r] = outcome[r], whole'[r] = whole[r], gone'[r] = gone[r],
         fired'[r] = fired[r], record'[r] = record[r]
  PROVE  Located(r)'
BY DEF Located, Explicit, Equipped, ValidAssistance

\* A request that has ended.
LEMMA LocatedClose ==
  ASSUME Shaped, NEW qs, NEW ending, Close(qs, ending), NEW r \in Requests,
         Located(r), r \notin qs => phase' = phase /\ router' = router
  PROVE  Located(r)'
<1>1. CASE r \in qs
  BY <1>1 DEF Close, Located, Explicit
<1>2. CASE r \notin qs
  BY <1>2, LocatedFrame DEF Close, Shaped
<1> QED
  BY <1>1, <1>2

\* A request whose step is all that changes.
LEMMA LocatedPass ==
  ASSUME Served, Shaped, NEW q \in Requests, NEW step \in {"bearer", "session", "rate", "body"},
         Pass(q, step), NEW r \in Requests, Located(r),
         pc[q] # "idle",
         pc[q] \notin {"answer", "await", "conclude"},
         pc[q] = "route" /\ Explicit(q) => Equipped
  PROVE  Located(r)'
<1>1. CASE r = q
  BY <1>1 DEF Pass, server, call, Shaped, Located, Explicit, Equipped
<1>2. CASE r # q
  BY <1>2, LocatedFrame DEF Pass, server, call, Shaped
<1> QED
  BY <1>1, <1>2

LEMMA LocatedStep ==
  ASSUME Inv, [Next]_vars, NEW r \in Requests
  PROVE  Located(r)'
<1> USE DEF Inv
<1>1. CASE UNCHANGED vars
  BY <1>1, LocatedFrame DEF vars
<1>2. ASSUME NEW env \in Environments, Start(env) PROVE Located(r)'
  <2>1. pc[r] = "idle"
    BY <1>2 DEF Start, Located
  <2> QED
    BY <1>2, <2>1 DEF Start, call, Located, Explicit
<1>3. CASE Crash
  <2>1. pc[r] = "idle" => Located(r)'
    BY <1>3 DEF Crash, Close, Shaped, Located, Explicit
  <2>2. pc[r] # "idle" => r \in {q \in Requests : pc[q] # "idle"}
    OBVIOUS
  <2> QED
    BY <1>3, <2>1, <2>2, LocatedClose DEF Crash
<1>4. ASSUME NEW code \in DOMAIN RuleTable, Publish(code) PROVE Located(r)'
  BY <1>4, LocatedFrame DEF Publish, call
<1>5. ASSUME NEW q \in Requests, Refuse(q) \/ AnswerPlain(q) \/ Conclude(q)
      PROVE  Located(r)'
  <2>1. /\ \E ending : Close({q}, ending)
        /\ phase' = phase /\ router' = router
    BY <1>5 DEF Refuse, AnswerPlain, Conclude, server
  <2> QED
    BY <2>1, LocatedClose
<1>6. ASSUME NEW q \in Requests, NEW a \in Asks, Receive(q, a) PROVE Located(r)'
  <2>1. CASE r = q
    BY <1>6, <2>1 DEF Receive, server, call, Shaped, Located
  <2>2. CASE r # q
    BY <1>6, <2>2, LocatedFrame DEF Receive, server, call, Shaped
  <2> QED
    BY <2>1, <2>2
<1>7. ASSUME NEW q \in Requests, Route(q) PROVE Located(r)'
  <2>1. CASE ask[q].kind = "operator" /\ router.expects.assisted # None
    <3>1. Equipped
      BY <1>7, <2>1, ServedEquips DEF Route, Located
    <3> QED
      BY <1>5, <1>7, <2>1, <3>1, LocatedPass DEF Route
  <2>2. CASE ask[q].kind = "browser" /\ router.browser
    <3>1. Equipped
      BY <1>7, <2>2, ServedEquips DEF Route, Located
    <3> QED
      BY <1>5, <1>7, <2>2, <3>1, LocatedPass DEF Route
  <2>3. CASE ask[q].kind \in {"text", "preview"}
    <3>1. ~Explicit(q)
      BY <2>3 DEF Explicit, ExplicitKinds
    <3> QED
      BY <1>5, <1>7, <2>3, <3>1, LocatedPass DEF Route
  <2>4. CASE /\ ~(ask[q].kind = "operator" /\ router.expects.assisted # None)
             /\ ~(ask[q].kind = "browser" /\ router.browser)
             /\ ask[q].kind \notin {"text", "preview"}
    BY <1>5, <1>7, <2>4 DEF Route
  <2> QED
    BY <2>1, <2>2, <2>3, <2>4
<1>8. ASSUME NEW q \in Requests,
             Authorize(q) \/ RequireSession(q) \/ Admit(q) \/ TurnAway(q)
      PROVE  Located(r)'
  BY <1>5, <1>8, LocatedPass DEF Authorize, RequireSession, Admit, TurnAway
<1>9. ASSUME NEW q \in Requests, Decode(q) PROVE Located(r)'
  <2>1. CASE BodyOK(ask[q]) /\ r = q
    BY <1>9, <2>1 DEF Decode, server, call, Shaped, Located, Explicit, Equipped
  <2>2. CASE BodyOK(ask[q]) /\ r # q
    BY <1>9, <2>2, LocatedFrame DEF Decode, server, call, Shaped
  <2> QED
    BY <1>5, <1>9, <2>1, <2>2 DEF Decode
<1>10. ASSUME NEW q \in Requests, NEW loaded, Judge(q, loaded), pc[q] = "rules"
       PROVE  Located(r)'
  <2>1. CASE r = q
    <3>1. /\ pc'[q] \in {"assist", "store", "answer"}
          /\ Explicit(q) <=> pc'[q] = "assist"
      BY <1>10 DEF Judge, Explicit, ExplicitKinds, Shaped
    <3> QED
      BY <1>10, <2>1, <3>1 DEF Judge, server, call, Shaped, Located, Explicit, Equipped
  <2>2. CASE r # q
    BY <1>10, <2>2, LocatedFrame DEF Judge, server, call, Shaped
  <2> QED
    BY <2>1, <2>2
<1>11. ASSUME NEW q \in Requests, LoadRules(q) \/ LoadFails(q) PROVE Located(r)'
  BY <1>5, <1>10, <1>11 DEF LoadRules, LoadFails
<1>12. ASSUME NEW q \in Requests, Store(q) PROVE Located(r)'
  <2>1. CASE r = q
    BY <1>12, <2>1 DEF Store, server, call, Shaped, Located, Explicit
  <2>2. CASE r # q
    BY <1>12, <2>2, LocatedFrame DEF Store, server, call, Shaped
  <2> QED
    BY <2>1, <2>2
<1>13. ASSUME NEW q \in Requests, CallProvider(q) PROVE Located(r)'
  <2>1. CASE r = q
    BY <1>13, <2>1 DEF CallProvider, server, Shaped, Located, Explicit, Equipped
  <2>2. CASE r # q
    BY <1>13, <2>2, LocatedFrame DEF CallProvider, server, Shaped
  <2> QED
    BY <2>1, <2>2
<1>14. ASSUME NEW q \in Requests, SkipProvider(q) \/ Cancelled(q) PROVE Located(r)'
  <2>1. Return(q, NoText) /\ whole' = whole /\ pc[q] \in {"assist", "await"}
    BY <1>14 DEF SkipProvider, Cancelled
  <2>2. CASE r = q
    BY <2>1, <2>2 DEF Return, server, Shaped, Located, Explicit, Equipped,
                      ValidAssistance, NoText
  <2>3. CASE r # q
    BY <2>1, <2>3, LocatedFrame DEF Return, server, Shaped
  <2> QED
    BY <2>2, <2>3
<1>15. ASSUME NEW q \in Requests, NEW a \in AnswersOf(Provider(q)), Answered(q, a)
       PROVE  Located(r)'
  <2>1. /\ pc[q] = "await"
        /\ Return(q, Read(Provider(q), a))
        /\ whole' = [whole EXCEPT ![q] = Whole(a)]
    BY <1>15 DEF Answered
  <2>2. CASE r = q
    <3>1. Provider(q) \in Providers
      BY <2>1 DEF Located, Equipped, Provider
    <3>2. ValidAssistance(outcome'[q]) => whole'[q]
      BY <2>1, <3>1, GoodIsWhole DEF Return, Shaped
    <3> QED
      BY <2>1, <2>2, <3>2 DEF Return, server, Shaped, Located, Explicit, Equipped
  <2>3. CASE r # q
    BY <2>1, <2>3, LocatedFrame DEF Return, server, Shaped
  <2> QED
    BY <2>2, <2>3
<1>16. ASSUME NEW q \in Requests, DeadlineFires(q) \/ ClientLeaves(q) PROVE Located(r)'
  <2>1. CASE r = q
    BY <1>16, <2>1 DEF DeadlineFires, ClientLeaves, server, Shaped, Located, Explicit,
                       Equipped, ValidAssistance
  <2>2. CASE r # q
    BY <1>16, <2>2, LocatedFrame DEF DeadlineFires, ClientLeaves, server, Shaped
  <2> QED
    BY <2>1, <2>2
<1> QED
  BY <1>1, <1>2, <1>3, <1>4, <1>5, <1>6, <1>7, <1>8, <1>9, <1>11, <1>12, <1>13,
     <1>14, <1>15, <1>16 DEF Next, Handle

LEMMA Invariant == Spec => []Inv
<1>1. Inv /\ [Next]_vars => Shaped' /\ \A r \in Requests : Located(r)'
  BY ShapedStep, LocatedStep DEF Inv
<1> DEFINE Rest == Shaped /\ \A r \in Requests : Located(r)
<1>2. Init => Rest
  BY InitInv DEF Inv
<1>3. Served /\ Rest /\ [Next]_vars => Rest'
  BY <1>1 DEF Inv
<1>4. Served /\ Rest => Inv
  BY DEF Inv
<1> HIDE DEF Rest
<1> QED
  BY <1>2, <1>3, <1>4, ServedInv, PTL DEF Spec

-----------------------------------------------------------------------------
(***************************************************************************)
(* The contract.                                                           *)
(***************************************************************************)

\* The stages of AnalysisContract change with the step of one request.
LEMMA StageMoves ==
  ASSUME Shaped, NEW q \in Requests, NEW step, pc' = [pc EXCEPT ![q] = step]
  PROVE  stageBar' = [stageBar EXCEPT ![q] = StageOf(step)]
BY DEF stageBar, Shaped

LEMMA StageStays ==
  ASSUME Shaped, NEW q \in Requests, NEW step, pc' = [pc EXCEPT ![q] = step],
         StageOf(step) = StageOf(pc[q])
  PROVE  stageBar' = stageBar
BY DEF stageBar, Shaped

LEMMA BarsStay ==
  /\ pc' = pc => stageBar' = stageBar
  /\ ask' = ask => explicitBar' = explicitBar
  /\ gone' = gone /\ fired' = fired => overBar' = overBar
BY DEF stageBar, explicitBar, overBar, Explicit

LEMMA StageValues ==
  ASSUME NEW q \in Requests
  PROVE  /\ stageBar[q] = StageOf(pc[q])
         /\ explicitBar[q] = Explicit(q)
         /\ overBar[q] = (gone[q] \/ fired[q])
         /\ pc[q] = "idle" <=> stageBar[q] = "none"
         /\ pc[q] = "rules" <=> stageBar[q] = "cleared"
         /\ pc[q] \in Judged <=> stageBar[q] = "judged"
         /\ pc[q] \notin {"idle", "rules"} \cup Judged <=> stageBar[q] = "open"
BY DEF stageBar, explicitBar, overBar, StageOf, Judged

\* A request ends for the contract when it ends.
LEMMA CloseMaps ==
  ASSUME Shaped, NEW qs \in SUBSET Requests, NEW ending, Close(qs, ending)
  PROVE  Contract!Close(qs, ending)
<1>1. stageBar' = [q \in Requests |-> IF q \in qs THEN "none" ELSE stageBar[q]]
  BY DEF Close, stageBar, StageOf
<1>2. explicitBar' = [q \in Requests |-> explicitBar[q] /\ q \notin qs]
  <2>1. ASSUME NEW q \in Requests PROVE Explicit(q)' <=> Explicit(q) /\ q \notin qs
    BY DEF Close, Explicit
  <2> QED
    BY <2>1 DEF explicitBar, Explicit
<1>3. overBar' = [q \in Requests |-> overBar[q] /\ q \notin qs]
  <2>1. ASSUME NEW q \in Requests
        PROVE  (gone'[q] \/ fired'[q]) <=> ((gone[q] \/ fired[q]) /\ q \notin qs)
    BY DEF Close, Shaped
  <2> QED
    BY <2>1 DEF overBar
<1>4. /\ sent' = [q \in Requests |-> sent[q] /\ q \notin qs]
      /\ whole' = [q \in Requests |-> whole[q] /\ q \notin qs]
      /\ reply' = [q \in Requests |-> IF q \in qs THEN ending ELSE reply[q]]
      /\ UNCHANGED <<verdict, record>>
  BY DEF Close
<1> QED
  BY <1>1, <1>2, <1>3, <1>4 DEF Contract!Close

LEMMA ContractInit == Init => Contract!Init
BY DEF Init, Contract!Init, stageBar, explicitBar, overBar, StageOf, Explicit

\* Every step of the routes is a step of the contract or none.
LEMMA ContractStep ==
  ASSUME Inv, [Next]_vars
  PROVE  Contract!Next \/ UNCHANGED Contract!vars
<1> USE DEF Inv
<1>1. CASE UNCHANGED vars
  BY <1>1, BarsStay DEF vars, Contract!vars
<1>2. ASSUME NEW env \in Environments, Start(env) PROVE UNCHANGED Contract!vars
  BY <1>2, BarsStay DEF Start, call, Contract!vars
<1>3. CASE Crash
  <2>1. {q \in Requests : pc[q] # "idle"} = {q \in Requests : stageBar[q] # "none"}
    BY StageValues
  <2>2. Contract!Lose
    BY <1>3, <2>1, CloseMaps DEF Crash, Contract!Lose
  <2> QED
    BY <2>2 DEF Contract!Next
<1>4. ASSUME NEW code \in DOMAIN RuleTable, Publish(code) PROVE UNCHANGED Contract!vars
  BY <1>4, BarsStay DEF Publish, call, Contract!vars
<1>5. ASSUME NEW q \in Requests, NEW a \in Asks, Receive(q, a) PROVE Contract!Open(q)
  <2>1. stageBar[q] = "none" /\ stageBar' = [stageBar EXCEPT ![q] = "open"]
    <3>1. pc[q] = "idle" /\ pc' = [pc EXCEPT ![q] = "route"] /\ StageOf("route") = "open"
      BY <1>5 DEF Receive, StageOf, Judged
    <3>2. stageBar[q] = "none"
      BY <3>1, StageValues
    <3>3. stageBar' = [stageBar EXCEPT ![q] = StageOf("route")]
      BY <3>1, StageMoves
    <3> QED
      BY <3>1, <3>2, <3>3
  <2>2. /\ explicitBar'[q] \in BOOLEAN
        /\ explicitBar' = [explicitBar EXCEPT ![q] = explicitBar'[q]]
    BY <1>5 DEF Receive, explicitBar, Explicit, Shaped
  <2> QED
    BY <1>5, <2>1, <2>2, BarsStay DEF Receive, call, Contract!Open
<1>6. ASSUME NEW q \in Requests, Refuse(q), pc[q] \notin {"idle"} \cup Judged
      PROVE  Contract!Refuse(q)
  BY <1>6, CloseMaps, StageValues DEF Refuse, Contract!Refuse
<1>7. ASSUME NEW q \in Requests, NEW step \in {"bearer", "session", "rate", "body"},
             pc[q] \notin {"idle", "rules"} \cup Judged, Pass(q, step)
      PROVE  UNCHANGED Contract!vars
  <2>1. stageBar' = stageBar
    BY <1>7, StageStays DEF Pass, StageOf, Judged
  <2> QED
    BY <1>7, <2>1, BarsStay DEF Pass, call, Contract!vars
<1>8. ASSUME NEW q \in Requests,
             Route(q) \/ Authorize(q) \/ RequireSession(q) \/ Admit(q) \/ TurnAway(q)
      PROVE  Contract!Refuse(q) \/ UNCHANGED Contract!vars
  <2>1. \/ Refuse(q)
        \/ \E step \in {"bearer", "session", "rate", "body"} : Pass(q, step)
    BY <1>8 DEF Route, Authorize, RequireSession, Admit, TurnAway
  <2>2. pc[q] \notin {"idle", "rules"} \cup Judged
    BY <1>8 DEF Route, Authorize, RequireSession, Admit, TurnAway, Judged
  <2> QED
    BY <1>6, <1>7, <2>1, <2>2
<1>9. ASSUME NEW q \in Requests, Decode(q) PROVE Contract!Clear(q) \/ Contract!Refuse(q)
  <2>1. CASE BodyOK(ask[q])
    <3>1. stageBar[q] = "open" /\ stageBar' = [stageBar EXCEPT ![q] = "cleared"]
      BY <1>9, <2>1, StageMoves, StageValues DEF Decode, StageOf, Judged
    <3> QED
      BY <1>9, <2>1, <3>1, BarsStay DEF Decode, call, Contract!Clear
  <2>2. CASE ~BodyOK(ask[q])
    BY <1>6, <1>9, <2>2 DEF Decode, Judged
  <2> QED
    BY <2>1, <2>2
<1>10. ASSUME NEW q \in Requests, NEW loaded, Judge(q, loaded), pc[q] = "rules"
       PROVE  Contract!Judge(q)
  <2>1. \E step \in {"assist", "store", "answer"} : pc' = [pc EXCEPT ![q] = step]
    <3> DEFINE step == CASE Explicit(q) -> "assist"
                         [] ask[q].kind = "text" -> "store"
                         [] OTHER -> "answer"
    <3>1. step \in {"assist", "store", "answer"}
      OBVIOUS
    <3>2. pc' = [pc EXCEPT ![q] = step]
      BY <1>10 DEF Judge
    <3> QED
      BY <3>1, <3>2
  <2>2. stageBar[q] = "cleared" /\ stageBar' = [stageBar EXCEPT ![q] = "judged"]
    BY <1>10, <2>1, StageMoves, StageValues DEF StageOf, Judged
  <2>3. verdict' = [verdict EXCEPT ![q] = verdict'[q]]
    BY <1>10 DEF Judge, Shaped
  <2> QED
    BY <1>10, <2>2, <2>3, BarsStay DEF Judge, call, Contract!Judge
<1>11. ASSUME NEW q \in Requests, LoadRules(q) \/ LoadFails(q)
       PROVE  Contract!Judge(q) \/ Contract!Refuse(q)
  BY <1>6, <1>10, <1>11 DEF LoadRules, LoadFails, Judged
<1>12. ASSUME NEW q \in Requests, Store(q)
       PROVE  Contract!Record(q) \/ UNCHANGED Contract!vars
  <2>1. stageBar' = stageBar
    BY <1>12, StageStays DEF Store, StageOf, Judged
  <2>2. stageBar[q] = "judged" /\ ~explicitBar[q] /\ record[q] = None
    BY <1>12, StageValues DEF Store, Located, Judged
  <2>3. \E stored \in {verdict[q], None} : record' = [record EXCEPT ![q] = stored]
    BY <1>12 DEF Store
  <2>4. \/ record' = [record EXCEPT ![q] = verdict[q]]
        \/ record' = record
    BY <2>2, <2>3 DEF Shaped
  <2> QED
    BY <1>12, <2>1, <2>2, <2>4, BarsStay DEF Store, call, Contract!Record, Contract!vars
<1>13. ASSUME NEW q \in Requests, AnswerPlain(q) PROVE Contract!AnswerPlain(q)
  BY <1>13, CloseMaps, StageValues DEF AnswerPlain, Contract!AnswerPlain, Located, Judged
<1>14. ASSUME NEW q \in Requests, CallProvider(q) PROVE Contract!Disclose(q)
  <2>1. stageBar' = stageBar
    BY <1>14, StageStays DEF CallProvider, StageOf, Judged
  <2>2. stageBar[q] = "judged" /\ explicitBar[q] /\ ~sent[q] /\ ~overBar[q]
    BY <1>14, StageValues DEF CallProvider, Located, Judged
  <2> QED
    BY <1>14, <2>1, <2>2, BarsStay DEF CallProvider, Contract!Disclose
<1>15. ASSUME NEW q \in Requests, SkipProvider(q) \/ Cancelled(q)
       PROVE  UNCHANGED Contract!vars
  <2>1. Return(q, NoText) /\ whole' = whole /\ pc[q] \in Judged
    BY <1>15 DEF SkipProvider, Cancelled, Judged
  <2>2. stageBar' = stageBar
    BY <2>1, StageStays DEF Return, StageOf, Judged
  <2> QED
    BY <2>1, <2>2, BarsStay DEF Return, Contract!vars
<1>16. ASSUME NEW q \in Requests, NEW a \in AnswersOf(Provider(q)), Answered(q, a)
       PROVE  Contract!Help(q) \/ UNCHANGED Contract!vars
  <2>1. /\ stageBar' = stageBar /\ explicitBar' = explicitBar /\ overBar' = overBar
    BY <1>16, StageStays, BarsStay DEF Answered, Return, StageOf, Judged
  <2>2. sent[q] /\ ~whole[q]
    BY <1>16 DEF Answered, Located
  <2>3. Whole(a) \in BOOLEAN
    BY DEF Whole, AnswersOf, Answer
  <2>4. whole' = [whole EXCEPT ![q] = TRUE] \/ whole' = whole
    BY <1>16, <2>2, <2>3 DEF Answered, Shaped
  <2> QED
    BY <1>16, <2>1, <2>2, <2>4 DEF Answered, Return, Contract!Help, Contract!vars
<1>17. ASSUME NEW q \in Requests, DeadlineFires(q) \/ ClientLeaves(q)
       PROVE  Contract!Expire(q) \/ UNCHANGED Contract!vars
  <2>1. stageBar' = stageBar /\ explicitBar' = explicitBar /\ stageBar[q] # "none"
    BY <1>17, BarsStay, StageValues DEF DeadlineFires, ClientLeaves
  <2>2. overBar' = [overBar EXCEPT ![q] = TRUE]
    BY <1>17 DEF DeadlineFires, ClientLeaves, overBar, Shaped
  <2>3. ~overBar[q] \/ overBar' = overBar
    BY <2>2 DEF overBar
  <2> QED
    BY <1>17, <2>1, <2>2, <2>3
    DEF DeadlineFires, ClientLeaves, Contract!Expire, Contract!vars
<1>18. ASSUME NEW q \in Requests, Conclude(q)
       PROVE  Contract!AnswerAvailable(q) \/ Contract!AnswerUnavailable(q)
  <2>1. stageBar[q] = "judged" /\ explicitBar[q]
    BY <1>18, StageValues DEF Conclude, Located, Judged
  <2>2. CASE Helpful(q)
    <3>1. sent[q] /\ whole[q] /\ ~overBar[q]
      BY <1>18, <2>2, StageValues DEF Conclude, Helpful, Located
    <3> QED
      BY <1>18, <2>1, <2>2, <3>1, CloseMaps DEF Conclude, Contract!AnswerAvailable
  <2>3. CASE ~Helpful(q)
    BY <1>18, <2>1, <2>3, CloseMaps DEF Conclude, Contract!AnswerUnavailable
  <2> QED
    BY <2>2, <2>3
<1> QED
  BY <1>1, <1>2, <1>3, <1>4, <1>5, <1>8, <1>9, <1>11, <1>12, <1>13, <1>14, <1>15,
     <1>16, <1>17, <1>18 DEF Next, Handle, Contract!Next

\* The routes keep the contract for any number of requests at a time: a text is
\* told to a provider once, after the verdict and while somebody waits; help
\* comes from a whole answer in time; and the verdict is answered unchanged.
THEOREM ContractKept == Spec => ImplementsContract
<1>1. Inv /\ [Next]_vars => [Contract!Next]_Contract!vars
  BY ContractStep
<1> QED
  BY ContractInit, Invariant, <1>1, PTL DEF Spec, ImplementsContract, Contract!Spec

-----------------------------------------------------------------------------
(***************************************************************************)
(* Counting, folds and sequences.  tlapm has no induction over an operator; *)
(* Counting is that over the numbers for a set, from their well-ordering, and *)
(* FoldExists makes a function of the definition of a fold.                *)
(***************************************************************************)

\* The numbers are well ordered.
LEMMA LeastNumber ==
  ASSUME NEW T \in SUBSET Nat, T # {}
  PROVE  \E x \in T : \A y \in T : x <= y
<1> DEFINE less == {xy \in Nat \X Nat : xy[1] < xy[2]}
<1>1. IsWellFoundedOn(OpToRel(<, Nat), Nat)
  BY NatLessThanWellFounded, Zenon
<1>2. IsWellFoundedOn(less, Nat)
  BY <1>1, Zenon DEF OpToRel
<1> HIDE DEF less
<1>3. PICK x \in T : \A y \in T : <<y, x>> \notin less
  BY <1>2, WFMin, Zenon
<1>4. ASSUME NEW y \in T PROVE x <= y
  <2>1. <<y, x>> \in Nat \X Nat /\ ~(y < x)
    BY <1>3 DEF less
  <2>2. x \in Nat /\ y \in Nat
    OBVIOUS
  <2> QED
    BY <2>1, <2>2
<1> QED
  BY <1>4

\* Induction over the numbers, for a set of them.
LEMMA Counting ==
  ASSUME NEW T \in SUBSET Nat, 0 \in T, \A n \in T : n + 1 \in T
  PROVE  T = Nat
<1>1. ASSUME Nat \ T # {} PROVE FALSE
  <2>1. PICK x \in Nat \ T : \A y \in Nat \ T : x <= y
    BY <1>1, LeastNumber
  <2>2. x # 0 /\ x - 1 \in Nat /\ x - 1 \notin Nat \ T
    BY <2>1
  <2>3. x - 1 \in T /\ (x - 1) + 1 = x
    BY <2>1, <2>2
  <2> QED
    BY <2>1, <2>3
<1> QED
  BY <1>1

\* A fold over a finite set, which takes what pick says from it.
IsFold(g, D, V, base, pick, op) ==
  /\ g \in [SUBSET D -> V]
  /\ \A s \in SUBSET D :
       g[s] = IF s = {} THEN base ELSE op[pick[s]][g[s \ {pick[s]}]]

\* A fold over the subsets of a finite set exists.
LEMMA FoldExists ==
  ASSUME NEW D, IsFiniteSet(D), NEW V, NEW base \in V,
         NEW pick, \A s \in SUBSET D : s # {} => pick[s] \in s,
         NEW op \in [D -> [V -> V]]
  PROVE  \E g : IsFold(g, D, V, base, pick, op)
<1> DEFINE small(n) == {s \in SUBSET D : Cardinality(s) <= n}
           value(f, s) == IF s = {} THEN base ELSE op[pick[s]][f[s \ {pick[s]}]]
           T == {n \in Nat : \E f \in [small(n) -> V] : \A s \in small(n) : f[s] = value(f, s)}
<1>0. \A s \in SUBSET D : IsFiniteSet(s) /\ Cardinality(s) \in Nat
                          /\ Cardinality(s) <= Cardinality(D)
                          /\ (Cardinality(s) = 0 <=> s = {})
  BY FS_Subset, FS_CardinalityType, FS_EmptySet
<1>1. 0 \in T
  <2> DEFINE f == [s \in small(0) |-> base]
  <2>1. \A s \in small(0) : s = {}
    BY <1>0
  <2>2. f \in [small(0) -> V] /\ \A s \in small(0) : f[s] = value(f, s)
    BY <2>1
  <2> QED
    BY <2>2
<1>2. ASSUME NEW n \in T PROVE n + 1 \in T
  <2>1. PICK f \in [small(n) -> V] : \A s \in small(n) : f[s] = value(f, s)
    OBVIOUS
  <2> DEFINE g == [s \in small(n + 1) |-> value(f, s)]
  <2>2. ASSUME NEW s \in small(n + 1), s # {} PROVE s \ {pick[s]} \in small(n) /\ pick[s] \in D
    <3>1. s \in SUBSET D /\ Cardinality(s) <= n + 1 /\ pick[s] \in s
      BY <2>2
    <3>2. Cardinality(s \ {pick[s]}) = Cardinality(s) - 1
      BY <1>0, <3>1, FS_RemoveElement
    <3> QED
      BY <1>0, <3>1, <3>2
  <2>3. ASSUME NEW s \in small(n + 1) PROVE value(f, s) \in V
    BY <2>2
  <2>4. g \in [small(n + 1) -> V]
    BY <2>3
  <2>5. ASSUME NEW s \in small(n) PROVE s \in small(n + 1) /\ g[s] = f[s]
    <3>1. s \in small(n + 1)
      BY <1>0
    <3> QED
      BY <2>1, <3>1
  <2>6. ASSUME NEW s \in small(n + 1) PROVE g[s] = value(g, s)
    <3>1. g[s] = value(f, s)
      OBVIOUS
    <3>2. s # {} => g[s \ {pick[s]}] = f[s \ {pick[s]}]
      BY <2>2, <2>5
    <3> HIDE DEF g
    <3> QED
      BY <3>1, <3>2
  <2>7. \E h \in [small(n + 1) -> V] : \A s \in small(n + 1) : h[s] = value(h, s)
    <3> HIDE DEF g
    <3> QED
      BY <2>4, <2>6
  <2>8. n + 1 \in Nat
    OBVIOUS
  <2> HIDE DEF g, small, value
  <2> QED
    BY <2>7, <2>8
<1>3. Cardinality(D) \in T
  <2> HIDE DEF T
  <2>1. T \subseteq Nat
    BY DEF T
  <2>2. T = Nat
    BY <1>1, <1>2, <2>1, Counting
  <2> QED
    BY <1>0, <2>2
<1>4. small(Cardinality(D)) = SUBSET D
  BY <1>0
<1> QED
  BY <1>3, <1>4 DEF IsFold

\* A prefix of a sequence is folded from its last element.
LEMMA FromTheEnd ==
  ASSUME NEW n \in Nat
  PROVE  /\ IsFiniteSet(1..n) /\ 1..0 = {}
         /\ \A s \in SUBSET (1..n) : s # {} => Max(s) \in s
         /\ \A k \in 1..n : /\ 1..k # {} /\ 1..k \in SUBSET (1..n)
                           /\ Max(1..k) = k /\ (1..k) \ {k} = 1..(k - 1)
<1>1. IsFiniteSet(1..n)
  <2>1. 1 \in Int /\ n \in Int
    OBVIOUS
  <2> QED
    BY <2>1, FS_Interval
<1>2. ASSUME NEW s \in SUBSET (1..n), s # {} PROVE \E x \in s : \A y \in s : x >= y
  <2> DEFINE T == {n - x : x \in s}
  <2>1. T \in SUBSET Nat /\ T # {}
    <3>1. ASSUME NEW x \in s PROVE n - x \in Nat
      <4>1. x \in 1..n
        OBVIOUS
      <4> QED
        BY <4>1
    <3> QED
      BY <1>2, <3>1
  <2>2. PICK t \in T : \A y \in T : t <= y
    BY <2>1, LeastNumber
  <2>3. PICK x \in s : t = n - x
    BY <2>2
  <2>4. ASSUME NEW y \in s PROVE x >= y
    <3>1. n - y \in T /\ x \in Int /\ y \in Int
      OBVIOUS
    <3>2. n - x <= n - y
      BY <2>2, <2>3, <3>1
    <3> QED
      BY <3>1, <3>2
  <2> QED
    BY <2>4
<1>3. ASSUME NEW s \in SUBSET (1..n), s # {} PROVE Max(s) \in s
  BY <1>2, <1>3 DEF Max
<1>4. ASSUME NEW k \in 1..n PROVE Max(1..k) = k
  <2>1. k \in 1..k /\ \A y \in 1..k : k >= y
    OBVIOUS
  <2>2. \A x \in 1..k : (\A y \in 1..k : x >= y) => x = k
    BY <2>1
  <2> QED
    BY <2>1, <2>2 DEF Max
<1>5. ASSUME NEW k \in 1..n
      PROVE  1..k # {} /\ 1..k \in SUBSET (1..n) /\ (1..k) \ {k} = 1..(k - 1)
  OBVIOUS
<1>6. 1..0 = {}
  OBVIOUS
<1> QED
  BY <1>1, <1>3, <1>4, <1>5, <1>6

\* A fold over a sequence of n elements, from the last one.
IsLoop(g, n, V, base, op) ==
  /\ g \in [SUBSET (1..n) -> V]
  /\ \A s \in SUBSET (1..n) :
       /\ s = {} => g[s] = base
       /\ s # {} => /\ Max(s) \in 1..n /\ g[s \ {Max(s)}] \in V
                   /\ g[s] = op[Max(s)][g[s \ {Max(s)}]]

LEMMA LoopExists ==
  ASSUME NEW n \in Nat, NEW V, NEW base \in V, NEW op \in [1..n -> [V -> V]]
  PROVE  \E g : IsLoop(g, n, V, base, op)
<1> DEFINE pick == [s \in SUBSET (1..n) |-> Max(s)]
<1>1. IsFiniteSet(1..n) /\ \A s \in SUBSET (1..n) : s # {} => pick[s] \in s
  BY FromTheEnd
<1>2. \A s \in SUBSET (1..n) : pick[s] = Max(s)
  OBVIOUS
<1> HIDE DEF pick
<1>3. PICK g : IsFold(g, 1..n, V, base, pick, op)
  BY <1>1, FoldExists, Zenon
<1>4. ASSUME NEW s \in SUBSET (1..n), s # {}
      PROVE  /\ Max(s) \in 1..n /\ g[s \ {Max(s)}] \in V
             /\ g[s] = op[Max(s)][g[s \ {Max(s)}]]
  BY <1>1, <1>2, <1>3, <1>4 DEF IsFold
<1> QED
  BY <1>3, <1>4 DEF IsFold, IsLoop

\* A total of weights does not depend on the order in which they are taken.
IsTotal(total, D, w, pick) ==
  /\ IsFiniteSet(D) /\ w \in [D -> Nat] /\ total \in [SUBSET D -> Nat]
  /\ total[{}] = 0
  /\ \A s \in SUBSET D : s # {} => pick[s] \in s
  /\ \A s \in SUBSET D : s # {} => total[s] = w[pick[s]] + total[s \ {pick[s]}]

Additive(total, D, w) ==
  /\ total \in [SUBSET D -> Nat] /\ total[{}] = 0
  /\ \A s \in SUBSET D, x \in D : x \in s => total[s] = total[s \ {x}] + w[x]

LEMMA TotalGrows ==
  ASSUME NEW D, NEW w, NEW total, NEW pick, IsTotal(total, D, w, pick)
  PROVE  Additive(total, D, w)
<1> DEFINE good(r) == \A y \in r : total[r] = total[r \ {y}] + w[y]
           T == {n \in Nat : \A r \in SUBSET D : Cardinality(r) = n => good(r)}
<1>1. \A r \in SUBSET D : IsFiniteSet(r) /\ Cardinality(r) \in Nat
                          /\ (Cardinality(r) = 0 <=> r = {})
  BY FS_Subset, FS_CardinalityType, FS_EmptySet DEF IsTotal
<1>a. /\ IsFiniteSet(D) /\ w \in [D -> Nat] /\ total \in [SUBSET D -> Nat]
      /\ \A r \in SUBSET D : r # {} => /\ pick[r] \in r
                                       /\ total[r] = w[pick[r]] + total[r \ {pick[r]}]
  BY DEF IsTotal
<1>2. 0 \in T
  BY <1>1
<1>3. ASSUME NEW n \in T PROVE n + 1 \in T
  <2>1. ASSUME NEW r \in SUBSET D, Cardinality(r) = n + 1, NEW y \in r
        PROVE  total[r] = total[r \ {y}] + w[y]
    <3> DEFINE p == pick[r]
               both == (r \ {p}) \ {y}
    <3>1. p \in r /\ total[r] = w[p] + total[r \ {p}]
      BY <1>a
    <3> HIDE DEF p
    <3>2. /\ n \in Nat
          /\ Cardinality(r \ {p}) = n /\ Cardinality(r \ {y}) = n
      <4>1. /\ Cardinality(r \ {p}) = Cardinality(r) - 1
            /\ Cardinality(r \ {y}) = Cardinality(r) - 1
        BY <1>1, <2>1, <3>1, FS_RemoveElement
      <4>2. n \in Nat
        OBVIOUS
      <4> QED
        BY <2>1, <4>1, <4>2
    <3>3. good(r \ {p}) /\ good(r \ {y})
      BY <3>2
    <3>4. CASE y = p
      <4>1. total[r \ {p}] \in Nat /\ w[p] \in Nat
        BY <1>a, <3>1
      <4> QED
        BY <3>1, <3>4, <4>1
    <3>5. CASE y # p
      <4>1. (r \ {y}) \ {p} = both
        OBVIOUS
      <4>2. total[r \ {p}] = total[both] + w[y] /\ total[r \ {y}] = total[both] + w[p]
        BY <3>1, <3>3, <3>5, <4>1
      <4>3. both \in SUBSET D /\ y \in D /\ p \in D
        BY <3>1
      <4>4. total[both] \in Nat /\ w[y] \in Nat /\ w[p] \in Nat
        BY <1>a, <4>3
      <4> HIDE DEF both
      <4> QED
        BY <3>1, <4>2, <4>4
    <3> QED
      BY <3>4, <3>5
  <2>2. n + 1 \in Nat
    OBVIOUS
  <2> QED
    BY <2>1, <2>2
<1> HIDE DEF T
<1>4. T = Nat
  <2>1. T \in SUBSET Nat
    BY DEF T
  <2> QED
    BY <1>2, <1>3, <2>1, Counting
<1>5. \A s \in SUBSET D : Cardinality(s) \in T
  BY <1>1, <1>4
<1> QED
  BY <1>5 DEF T, IsTotal, Additive

\* A sequence without doubles, with one element more.
LEMMA AppendNew ==
  ASSUME NEW A, NEW h \in Seq(A), IsInjective(h), NEW x \in A, x \notin ToSet(h)
  PROVE  /\ Append(h, x) \in Seq(A) /\ IsInjective(Append(h, x))
         /\ ToSet(Append(h, x)) = ToSet(h) \cup {x}
<1> DEFINE n == Len(h)
           g == Append(h, x)
<1>1. /\ n \in Nat /\ DOMAIN h = 1..n /\ g \in Seq(A)
      /\ DOMAIN g = 1..(n + 1) /\ g[n + 1] = x
      /\ \A i \in 1..n : g[i] = h[i]
  OBVIOUS
<1>2. 1..(n + 1) = (1..n) \cup {n + 1}
  BY <1>1
<1> HIDE DEF g, n
<1>3. ToSet(g) = ToSet(h) \cup {x}
  BY <1>1, <1>2 DEF ToSet
<1>4. \A i \in 1..n : g[i] # x
  BY <1>1 DEF ToSet
<1>5. IsInjective(g)
  <2>1. ASSUME NEW i \in DOMAIN g, NEW j \in DOMAIN g, g[i] = g[j] PROVE i = j
    <3>1. CASE i \in 1..n /\ j \in 1..n
      BY <1>1, <2>1, <3>1 DEF IsInjective
    <3>2. CASE i = n + 1 \/ j = n + 1
      BY <1>1, <1>2, <1>4, <2>1, <3>2
    <3> QED
      BY <1>1, <1>2, <3>1, <3>2
  <2> QED
    BY <2>1 DEF IsInjective
<1> QED
  BY <1>1, <1>3, <1>5 DEF g

\* A finite set in some order.
LEMMA Ordered ==
  ASSUME NEW D, IsFiniteSet(D), NEW S \in SUBSET D, NEW s \in SetToSeqs(S)
  PROVE  s \in Seq(D) /\ IsInjective(s) /\ ToSet(s) = S
<1>1. IsFiniteSet(S)
  BY FS_Subset
<1>2. PICK n \in Nat : n = Cardinality(S)
  BY <1>1, FS_CardinalityType
<1>3. s \in [1..n -> S] /\ IsInjective(s)
  BY <1>2 DEF SetToSeqs, IsInjective
<1>4. s \in Injection(1..n, S)
  BY <1>3 DEF Injection
<1>5. IsFiniteSet(1..n) /\ Cardinality(1..n) = n
  <2>1. 1 \in Int /\ n \in Int
    OBVIOUS
  <2>2. IsFiniteSet(1..n) /\ Cardinality(1..n) = IF 1 > n THEN 0 ELSE n - 1 + 1
    BY <2>1, FS_Interval
  <2> QED
    BY <2>2
<1>6. s \in Surjection(1..n, S)
  BY <1>1, <1>2, <1>4, <1>5, FS_Injection
<1>7. ToSet(s) = S
  BY <1>3, <1>6 DEF Surjection, ToSet
<1>8. s \in Seq(D)
  BY <1>3
<1> QED
  BY <1>3, <1>7, <1>8

\* A sequence without doubles is as long as the set of its elements is large.
LEMMA NoDoubles ==
  ASSUME NEW A, NEW h \in Seq(A), IsInjective(h)
  PROVE  Len(h) = Cardinality(ToSet(h))
<1>1. PICK n \in Nat : n = Len(h)
  OBVIOUS
<1>2. h \in [1..n -> ToSet(h)]
  BY <1>1 DEF ToSet
<1>3. h \in Bijection(1..n, ToSet(h))
  BY <1>1, <1>2 DEF Bijection, Injection, Surjection, ToSet
<1>4. IsFiniteSet(1..n) /\ Cardinality(1..n) = n
  <2>1. 1 \in Int /\ n \in Int
    OBVIOUS
  <2>2. IsFiniteSet(1..n) /\ Cardinality(1..n) = IF 1 > n THEN 0 ELSE n - 1 + 1
    BY <2>1, FS_Interval
  <2> QED
    BY <2>2
<1>5. ExistsBijection(1..n, ToSet(h))
  BY <1>3 DEF ExistsBijection
<1> QED
  BY <1>1, <1>4, <1>5, FS_Bijection

-----------------------------------------------------------------------------
(***************************************************************************)
(* The engine.                                                             *)
(***************************************************************************)

\* What a loop over the matches adds up.
LEMMA TotalSteps ==
  ASSUME NEW R, NEW m \in Seq(R), \A i \in 1..Len(m) : m[i].weight \in Nat
  PROVE  \E f :
           /\ f[1..0] = 0
           /\ \A k \in 1..Len(m) : f[1..k] = f[1..(k - 1)] + m[k].weight
           /\ TotalWeight(m) = f[1..Len(m)]
<1> DEFINE n == Len(m)
           op == [i \in 1..n |-> [v \in Nat |-> v + m[i].weight]]
<1>1. n \in Nat /\ DOMAIN m = 1..n /\ 0 \in Nat
  OBVIOUS
<1>2. op \in [1..n -> [Nat -> Nat]]
  OBVIOUS
<1>3. \A i \in 1..n, v \in Nat : op[i][v] = v + m[i].weight
  OBVIOUS
<1> HIDE DEF op, n
<1>4. PICK g : IsLoop(g, n, Nat, 0, op)
  BY <1>1, <1>2, LoopExists, Zenon
<1>5. g = [s \in SUBSET (1..n) |-> IF s = {} THEN 0
                                  ELSE g[s \ {Max(s)}] + m[Max(s)].weight]
  BY <1>3, <1>4 DEF IsLoop
<1>6. PICK f : /\ f = [s \in SUBSET (1..n) |-> IF s = {} THEN 0
                        ELSE LET x == Max(s) IN f[s \ {x}] + m[x].weight]
               /\ TotalWeight(m) = f[1..n]
  BY <1>1, <1>5, Zenon DEF TotalWeight, FoldLeft, MapThenFoldSet
<1>7. f[1..0] = 0
  BY <1>1, <1>6, FromTheEnd
<1>8. ASSUME NEW k \in 1..n PROVE f[1..k] = f[1..(k - 1)] + m[k].weight
  <2>1. 1..k # {} /\ 1..k \in SUBSET (1..n) /\ Max(1..k) = k /\ (1..k) \ {k} = 1..(k - 1)
    BY <1>1, FromTheEnd
  <2> QED
    BY <1>6, <2>1
<1> QED
  BY <1>6, <1>7, <1>8 DEF n

\* The weights of rules, and their total as a function of the set of rules.
Weights == [code \in DOMAIN RuleTable |-> RuleTable[code].weight]

LEMMA TotalExists ==
  \E total : /\ Additive(total, DOMAIN RuleTable, Weights)
            /\ \A s \in SUBSET DOMAIN RuleTable : WeightOf(s) = total[s]
<1> DEFINE D == DOMAIN RuleTable
<1>0. IsFiniteSet(D) /\ Weights \in [D -> Nat]
  BY AnalysisAssumption DEF Weights
<1>a. \A code \in D : Weights[code] = RuleTable[code].weight
  BY DEF Weights
<1> HIDE DEF D
<1>3. PICK pick : \A s \in SUBSET D : pick[s] = CHOOSE x \in s : TRUE
  <2>1. \A s \in SUBSET D :
          [r \in SUBSET D |-> CHOOSE x \in r : TRUE][s] = CHOOSE x \in s : TRUE
    OBVIOUS
  <2> QED
    BY <2>1
<1>2. PICK op \in [D -> [Nat -> Nat]] : \A c \in D, v \in Nat : op[c][v] = Weights[c] + v
  <2> DEFINE f == [c \in D |-> [v \in Nat |-> Weights[c] + v]]
  <2>1. f \in [D -> [Nat -> Nat]] /\ \A c \in D, v \in Nat : f[c][v] = Weights[c] + v
    BY <1>0
  <2> QED
    BY <2>1
<1>1. \A s \in SUBSET D : s # {} => pick[s] \in s
  BY <1>3
<1>4. 0 \in Nat
  OBVIOUS
<1>5. PICK total : IsFold(total, D, Nat, 0, pick, op)
  BY <1>0, <1>1, <1>2, <1>4, FoldExists, Zenon
<1>6. total \in [SUBSET D -> Nat] /\ total[{}] = 0
  BY <1>5 DEF IsFold
<1>7. ASSUME NEW s \in SUBSET D, s # {} PROVE total[s] = Weights[pick[s]] + total[s \ {pick[s]}]
  BY <1>1, <1>2, <1>5, <1>7 DEF IsFold
<1>8. Additive(total, D, Weights)
  <2>1. \A s \in SUBSET D : s # {} => total[s] = Weights[pick[s]] + total[s \ {pick[s]}]
    BY <1>7
  <2>2. IsTotal(total, D, Weights, pick)
    BY <1>0, <1>1, <1>6, <2>1 DEF IsTotal
  <2> QED
    BY <2>2, TotalGrows
<1>9. ASSUME NEW H \in SUBSET D PROVE WeightOf(H) = total[H]
  <2> DEFINE u == [c \in H |-> RuleTable[c].weight]
             g == [s \in SUBSET H |-> total[s]]
  <2>1. g = [s \in SUBSET H |-> IF s = {} THEN 0
                              ELSE LET x == CHOOSE x \in s : TRUE IN u[x] + g[s \ {x}]]
    <3>1. ASSUME NEW s \in SUBSET H, s # {}
          PROVE  LET x == CHOOSE x \in s : TRUE IN g[s] = u[x] + g[s \ {x}]
      <4>1. (CHOOSE x \in s : TRUE) = pick[s] /\ pick[s] \in s
        BY <1>1, <1>3, <3>1
      <4> QED
        BY <1>7, <1>a, <3>1, <4>1
    <3>2. g[{}] = 0
      BY <1>6
    <3> QED
      BY <3>1, <3>2
  <2>2. DOMAIN u = H
    OBVIOUS
  <2> HIDE DEF u, g
  <2>a. g = [s \in SUBSET DOMAIN u |-> IF s = {} THEN 0
                              ELSE LET x == CHOOSE x \in s : TRUE IN u[x] + g[s \ {x}]]
    BY <2>1, <2>2
  <2>b. \E f : /\ f = [s \in SUBSET DOMAIN u |-> IF s = {} THEN 0
                          ELSE LET x == CHOOSE x \in s : TRUE IN u[x] + f[s \ {x}]]
                 /\ FoldFunction(+, 0, u) = f[DOMAIN u]
    BY <2>a, Zenon DEF FoldFunction, FoldFunctionOnSet, MapThenFoldSet
  <2>3. PICK f : /\ f = [s \in SUBSET H |-> IF s = {} THEN 0
                          ELSE LET x == CHOOSE x \in s : TRUE IN u[x] + f[s \ {x}]]
                 /\ WeightOf(H) = f[H]
    <3>1. WeightOf(H) = FoldFunction(+, 0, u)
      BY Zenon DEF WeightOf, u
    <3> QED
      BY <2>2, <2>b, <3>1
  <2> DEFINE T == {n \in Nat : \A r \in SUBSET H : Cardinality(r) = n => f[r] = total[r]}
  <2>4. \A r \in SUBSET H : IsFiniteSet(r) /\ Cardinality(r) \in Nat
                            /\ (Cardinality(r) = 0 <=> r = {})
    BY <1>0, FS_Subset, FS_CardinalityType, FS_EmptySet
  <2>5. 0 \in T
    BY <1>6, <2>3, <2>4
  <2>6. ASSUME NEW n \in T PROVE n + 1 \in T
    <3>1. ASSUME NEW r \in SUBSET H, Cardinality(r) = n + 1 PROVE f[r] = total[r]
      <4>1. n \in Nat /\ r # {}
        BY <2>4, <3>1
      <4>2. PICK x : x = pick[r] /\ x = (CHOOSE y \in r : TRUE) /\ x \in r
        BY <1>1, <1>3, <4>1
      <4>3. f[r] = u[x] + f[r \ {x}]
        BY <2>3, <4>1, <4>2
      <4>4. Cardinality(r \ {x}) = n
        <5>1. Cardinality(r \ {x}) = Cardinality(r) - 1
          BY <2>4, <4>2, FS_RemoveElement
        <5> QED
          BY <3>1, <4>1, <5>1
      <4>5. f[r \ {x}] = total[r \ {x}]
        BY <4>4
      <4>6. u[x] = Weights[x]
        BY <1>a, <4>2 DEF u
      <4>7. total[r] = Weights[x] + total[r \ {x}]
        BY <1>7, <4>1, <4>2
      <4> QED
        BY <4>3, <4>5, <4>6, <4>7
    <3>2. n + 1 \in Nat
      OBVIOUS
    <3> QED
      BY <3>1, <3>2
  <2> HIDE DEF T
  <2>7. T = Nat
    <3>1. T \in SUBSET Nat
      BY DEF T
    <3> QED
      BY <2>5, <2>6, <3>1, Counting
  <2>8. f[H] = total[H]
    <3>1. Cardinality(H) \in T
      BY <2>4, <2>7
    <3> QED
      BY <3>1 DEF T
  <2> QED
    BY <2>3, <2>8 DEF u
<1> QED
  BY <1>6, <1>8, <1>9 DEF D

\* What a loop over the rules finds.
LEMMA MatchSteps ==
  ASSUME NEW R, NEW text, NEW rs \in Seq(R)
  PROVE  \E f :
           /\ f[1..0] = <<>>
           /\ \A k \in 1..Len(rs) :
                f[1..k] = IF Evidence(text, rs[k]) = <<>> THEN f[1..(k - 1)]
                          ELSE Append(f[1..(k - 1)], rs[k])
           /\ MatchRules(text, rs) = f[1..Len(rs)]
<1> DEFINE n == Len(rs)
           op == [i \in 1..n |-> [v \in Seq(R) |->
                    IF Evidence(text, rs[i]) = <<>> THEN v ELSE Append(v, rs[i])]]
<1>1. n \in Nat /\ DOMAIN rs = 1..n /\ <<>> \in Seq(R)
  OBVIOUS
<1>2. op \in [1..n -> [Seq(R) -> Seq(R)]]
  OBVIOUS
<1>3. \A i \in 1..n, v \in Seq(R) :
        op[i][v] = IF Evidence(text, rs[i]) = <<>> THEN v ELSE Append(v, rs[i])
  OBVIOUS
<1> HIDE DEF op, n
<1>4. PICK g : IsLoop(g, n, Seq(R), <<>>, op)
  BY <1>1, <1>2, LoopExists, Zenon
<1>5. g = [s \in SUBSET (1..n) |-> IF s = {} THEN <<>>
             ELSE IF Evidence(text, rs[Max(s)]) = <<>> THEN g[s \ {Max(s)}]
             ELSE Append(g[s \ {Max(s)}], rs[Max(s)])]
  BY <1>3, <1>4 DEF IsLoop
<1>6. PICK f : /\ f = [s \in SUBSET (1..n) |-> IF s = {} THEN <<>>
                        ELSE LET x == Max(s)
                             IN  IF Evidence(text, rs[x]) = <<>> THEN f[s \ {x}]
                                 ELSE Append(f[s \ {x}], rs[x])]
               /\ MatchRules(text, rs) = f[1..n]
  BY <1>1, <1>5, Zenon DEF MatchRules, FoldLeft, MapThenFoldSet
<1>7. f[1..0] = <<>>
  BY <1>1, <1>6, FromTheEnd
<1>8. ASSUME NEW k \in 1..n
      PROVE  f[1..k] = IF Evidence(text, rs[k]) = <<>> THEN f[1..(k - 1)]
                       ELSE Append(f[1..(k - 1)], rs[k])
  <2>1. 1..k # {} /\ 1..k \in SUBSET (1..n) /\ Max(1..k) = k /\ (1..k) \ {k} = 1..(k - 1)
    BY <1>1, FromTheEnd
  <2> QED
    BY <1>6, <2>1
<1> QED
  BY <1>6, <1>7, <1>8 DEF n

\* What a loop over the matches recommends.
LEMMA GivenSteps ==
  ASSUME NEW R, NEW A, NEW m \in Seq(R), \A i \in 1..Len(m) : m[i].advice \in A
  PROVE  \E f :
           /\ f[1..0] = <<>>
           /\ \A k \in 1..Len(m) :
                f[1..k] = IF m[k].advice = NoAdvice \/ Contains(f[1..(k - 1)], m[k].advice)
                          THEN f[1..(k - 1)]
                          ELSE Append(f[1..(k - 1)], m[k].advice)
           /\ Given(m) = f[1..Len(m)]
<1> DEFINE n == Len(m)
           op == [i \in 1..n |-> [v \in Seq(A) |->
                    IF m[i].advice = NoAdvice \/ Contains(v, m[i].advice) THEN v
                    ELSE Append(v, m[i].advice)]]
<1>1. n \in Nat /\ DOMAIN m = 1..n /\ <<>> \in Seq(A)
  OBVIOUS
<1>2. op \in [1..n -> [Seq(A) -> Seq(A)]]
  OBVIOUS
<1>3. \A i \in 1..n, v \in Seq(A) :
        op[i][v] = IF m[i].advice = NoAdvice \/ Contains(v, m[i].advice) THEN v
                   ELSE Append(v, m[i].advice)
  OBVIOUS
<1> HIDE DEF op, n
<1>4. PICK g : IsLoop(g, n, Seq(A), <<>>, op)
  BY <1>1, <1>2, LoopExists, Zenon
<1>5. g = [s \in SUBSET (1..n) |-> IF s = {} THEN <<>>
             ELSE IF m[Max(s)].advice = NoAdvice \/ Contains(g[s \ {Max(s)}], m[Max(s)].advice)
             THEN g[s \ {Max(s)}]
             ELSE Append(g[s \ {Max(s)}], m[Max(s)].advice)]
  BY <1>3, <1>4 DEF IsLoop
<1>6. PICK f : /\ f = [s \in SUBSET (1..n) |-> IF s = {} THEN <<>>
                        ELSE LET x == Max(s)
                             IN  IF m[x].advice = NoAdvice \/ Contains(f[s \ {x}], m[x].advice)
                                 THEN f[s \ {x}]
                                 ELSE Append(f[s \ {x}], m[x].advice)]
               /\ Given(m) = f[1..n]
  BY <1>1, <1>5, Zenon DEF Given, FoldLeft, MapThenFoldSet
<1>7. f[1..0] = <<>>
  BY <1>1, <1>6, FromTheEnd
<1>8. ASSUME NEW k \in 1..n
      PROVE  f[1..k] = IF m[k].advice = NoAdvice \/ Contains(f[1..(k - 1)], m[k].advice)
                       THEN f[1..(k - 1)]
                       ELSE Append(f[1..(k - 1)], m[k].advice)
  <2>1. 1..k # {} /\ 1..k \in SUBSET (1..n) /\ Max(1..k) = k /\ (1..k) \ {k} = 1..(k - 1)
    BY <1>1, FromTheEnd
  <2> QED
    BY <1>6, <2>1
<1> QED
  BY <1>6, <1>7, <1>8 DEF n

\* Rules by their codes.
LEMMA RulesOfCodes ==
  ASSUME NEW h \in Seq(DOMAIN RuleTable)
  PROVE  /\ RulesOf(h) \in Seq({RuleTable[c] : c \in DOMAIN RuleTable})
         /\ Len(RulesOf(h)) = Len(h) /\ Len(h) \in Nat /\ DOMAIN h = 1..Len(h)
         /\ \A i \in 1..Len(h) : /\ h[i] \in DOMAIN RuleTable
                                /\ RulesOf(h)[i] = RuleTable[h[i]]
                                /\ RuleTable[h[i]].weight \in Nat
                                /\ RuleTable[h[i]].code = h[i]
<1>1. Len(h) \in Nat /\ DOMAIN h = 1..Len(h) /\ \A i \in 1..Len(h) : h[i] \in DOMAIN RuleTable
  OBVIOUS
<1>2. RulesOf(h) = [i \in 1..Len(h) |-> RuleTable[h[i]]]
  BY <1>1 DEF RulesOf
<1>3. /\ RulesOf(h) \in Seq({RuleTable[c] : c \in DOMAIN RuleTable})
      /\ Len(RulesOf(h)) = Len(h)
  BY <1>1, <1>2
<1>4. \A c \in DOMAIN RuleTable : RuleTable[c].weight \in Nat /\ RuleTable[c].code = c
  BY AnalysisAssumption
<1> QED
  BY <1>1, <1>2, <1>3, <1>4

\* The weight of matches is that of the set of their rules.
LEMMA WeightOfMatches ==
  ASSUME NEW h \in Seq(DOMAIN RuleTable), IsInjective(h)
  PROVE  TotalWeight(RulesOf(h)) = WeightOf(ToSet(h)) /\ WeightOf(ToSet(h)) \in Nat
<1> DEFINE n == Len(h)
<1>1. PICK m : m = RulesOf(h)
  OBVIOUS
<1>2. PICK f : /\ f[1..0] = 0
               /\ \A k \in 1..n : f[1..k] = f[1..(k - 1)] + RuleTable[h[k]].weight
               /\ TotalWeight(m) = f[1..n]
  <2>1. /\ m \in Seq({RuleTable[c] : c \in DOMAIN RuleTable})
        /\ Len(m) = n
        /\ \A i \in 1..n : m[i] = RuleTable[h[i]] /\ m[i].weight \in Nat
    BY <1>1, RulesOfCodes
  <2>3. PICK f : /\ f[1..0] = 0
                 /\ \A k \in 1..Len(m) : f[1..k] = f[1..(k - 1)] + m[k].weight
                 /\ TotalWeight(m) = f[1..Len(m)]
    <3>1. m \in Seq({RuleTable[c] : c \in DOMAIN RuleTable})
      BY <2>1
    <3>2. \A i \in 1..Len(m) : m[i].weight \in Nat
      BY <2>1
    <3> HIDE DEF n
    <3> QED
      BY <3>1, <3>2, TotalSteps, Zenon
  <2> HIDE DEF n
  <2>4. \A k \in 1..n : f[1..k] = f[1..(k - 1)] + RuleTable[h[k]].weight
    BY <2>1, <2>3
  <2>5. TotalWeight(m) = f[1..n]
    BY <2>1, <2>3
  <2> QED
    BY <2>3, <2>4, <2>5
<1>3. PICK total : /\ Additive(total, DOMAIN RuleTable, Weights)
                   /\ \A s \in SUBSET DOMAIN RuleTable : WeightOf(s) = total[s]
  BY TotalExists
<1>4. n \in Nat /\ DOMAIN h = 1..n /\ \A i \in 1..n : h[i] \in DOMAIN RuleTable
  BY RulesOfCodes
<1> HIDE DEF n
<1> DEFINE codes(k) == {h[i] : i \in 1..k}
           T == {k \in Nat : k <= n => f[1..k] = total[codes(k)]}
<1>5. 0 \in T
  <2>1. codes(0) = {}
    OBVIOUS
  <2> QED
    BY <1>2, <1>3, <2>1 DEF Additive
<1>6. ASSUME NEW k \in T PROVE k + 1 \in T
  <2>1. k \in Nat /\ k + 1 \in Nat /\ (k + 1) - 1 = k
    OBVIOUS
  <2>2. ASSUME k + 1 <= n PROVE f[1..(k + 1)] = total[codes(k + 1)]
    <3>1. k + 1 \in 1..n /\ k <= n /\ \A i \in 1..(k + 1) : i \in 1..n
      BY <1>4, <2>1, <2>2
    <3>2. f[1..(k + 1)] = total[codes(k)] + RuleTable[h[k + 1]].weight
      BY <1>2, <2>1, <3>1
    <3>3. codes(k + 1) \in SUBSET DOMAIN RuleTable /\ h[k + 1] \in codes(k + 1)
      BY <1>4, <2>1, <3>1
    <3>4. codes(k + 1) \ {h[k + 1]} = codes(k)
      <4>1. \A i \in 1..k : h[i] # h[k + 1]
        BY <1>4, <2>1, <3>1 DEF IsInjective
      <4>2. 1..(k + 1) = (1..k) \cup {k + 1}
        BY <2>1
      <4>3. codes(k + 1) = codes(k) \cup {h[k + 1]}
        BY <4>2
      <4> QED
        BY <4>1, <4>3
    <3>5. total[codes(k + 1)] = total[codes(k)] + Weights[h[k + 1]]
      <4> HIDE DEF codes
      <4> QED
        BY <1>3, <1>4, <3>1, <3>3, <3>4 DEF Additive
    <3>6. Weights[h[k + 1]] = RuleTable[h[k + 1]].weight
      BY <1>4, <3>1 DEF Weights
    <3> QED
      BY <3>2, <3>5, <3>6
  <2> HIDE DEF codes
  <2> QED
    BY <2>1, <2>2
<1> HIDE DEF T
<1>7. n \in T
  <2>1. T \in SUBSET Nat
    BY DEF T
  <2> QED
    BY <1>4, <1>5, <1>6, <2>1, Counting
<1>8. codes(n) = ToSet(h) /\ ToSet(h) \in SUBSET DOMAIN RuleTable
  BY <1>4 DEF ToSet
<1>9. TotalWeight(m) = total[ToSet(h)]
  <2>1. f[1..n] = total[codes(n)]
    BY <1>4, <1>7 DEF T
  <2> HIDE DEF codes
  <2> QED
    BY <1>2, <1>8, <2>1
<1>10. total[ToSet(h)] \in Nat /\ WeightOf(ToSet(h)) = total[ToSet(h)]
  BY <1>3, <1>8 DEF Additive
<1> QED
  BY <1>1, <1>9, <1>10

\* The matches are the rules that have evidence, each once.
LEMMA MatchesFound ==
  ASSUME NEW text, NEW loaded \in Seq(DOMAIN RuleTable), IsInjective(loaded)
  PROVE  \E h \in Seq(DOMAIN RuleTable) :
           /\ IsInjective(h)
           /\ ToSet(h) = {c \in ToSet(loaded) : Evidence(text, RuleTable[c]) # <<>>}
           /\ MatchRules(text, RulesOf(loaded)) = RulesOf(h)
<1> DEFINE n == Len(loaded)
           D == DOMAIN RuleTable
           found(c) == Evidence(text, RuleTable[c]) # <<>>
           hits(k) == {c \in {loaded[i] : i \in 1..k} : found(c)}
<1>1. PICK rs : rs = RulesOf(loaded)
  OBVIOUS
<1>2. /\ rs \in Seq({RuleTable[c] : c \in D}) /\ Len(rs) = n /\ n \in Nat
      /\ DOMAIN loaded = 1..n
      /\ \A i \in 1..n : loaded[i] \in D /\ rs[i] = RuleTable[loaded[i]]
  BY <1>1, RulesOfCodes
<1>3. PICK f : /\ f[1..0] = <<>>
               /\ \A k \in 1..n :
                    f[1..k] = IF found(loaded[k]) THEN Append(f[1..(k - 1)], RuleTable[loaded[k]])
                              ELSE f[1..(k - 1)]
               /\ MatchRules(text, rs) = f[1..n]
  <2> HIDE DEF n, D
  <2>1. PICK f : /\ f[1..0] = <<>>
                 /\ \A k \in 1..Len(rs) :
                      f[1..k] = IF Evidence(text, rs[k]) = <<>> THEN f[1..(k - 1)]
                                ELSE Append(f[1..(k - 1)], rs[k])
                 /\ MatchRules(text, rs) = f[1..Len(rs)]
    <3>1. PICK R : rs \in Seq(R)
      BY <1>2
    <3> QED
      BY <3>1, MatchSteps
  <2>2. \A k \in 1..n :
          f[1..k] = IF found(loaded[k]) THEN Append(f[1..(k - 1)], RuleTable[loaded[k]])
                    ELSE f[1..(k - 1)]
    BY <1>2, <2>1
  <2>3. MatchRules(text, rs) = f[1..n]
    BY <1>2, <2>1
  <2> QED
    BY <2>1, <2>2, <2>3
<1> HIDE DEF n, D, found
<1> DEFINE good(k, h) == /\ h \in Seq(D) /\ IsInjective(h)
                         /\ ToSet(h) = hits(k) /\ f[1..k] = RulesOf(h)
           T == {k \in Nat : k <= n => \E h : good(k, h)}
<1>4. 0 \in T
  <2> DEFINE e == <<>>
  <2>1. e \in Seq(D) /\ DOMAIN e = {} /\ hits(0) = {}
    OBVIOUS
  <2>2. RulesOf(e) = e
    BY DEF RulesOf
  <2>3. IsInjective(e) /\ ToSet(e) = {}
    BY <2>1 DEF IsInjective, ToSet
  <2>4. f[1..0] = e
    BY <1>3
  <2> HIDE DEF e, hits
  <2>5. good(0, e)
    BY <2>1, <2>2, <2>3, <2>4
  <2> QED
    BY <2>5
<1>5. ASSUME NEW k \in T PROVE k + 1 \in T
  <2>1. k \in Nat /\ k + 1 \in Nat /\ (k + 1) - 1 = k
    OBVIOUS
  <2>2. ASSUME k + 1 <= n PROVE \E h : good(k + 1, h)
    <3>1. k + 1 \in 1..n /\ k <= n
      BY <1>2, <2>1, <2>2
    <3>2. PICK h : good(k, h)
      BY <3>1
    <3>3. PICK c : c = loaded[k + 1]
      OBVIOUS
    <3>4. /\ c \in D
          /\ f[1..(k + 1)] = IF found(c) THEN Append(f[1..k], RuleTable[c]) ELSE f[1..k]
      BY <1>2, <1>3, <2>1, <3>1, <3>3
    <3>5. 1..(k + 1) = (1..k) \cup {k + 1}
      BY <2>1
    <3>6. hits(k + 1) = IF found(c) THEN hits(k) \cup {c} ELSE hits(k)
      BY <3>3, <3>5
    <3>7. c \notin hits(k)
      <4>1. \A i \in 1..k : i \in 1..n /\ i # k + 1
        BY <1>2, <2>1, <3>1
      <4> QED
        BY <1>2, <3>1, <3>3, <4>1 DEF IsInjective
    <3> HIDE DEF hits
    <3>8. CASE found(c)
      <4>1. /\ Append(h, c) \in Seq(D) /\ IsInjective(Append(h, c))
            /\ ToSet(Append(h, c)) = hits(k + 1)
        <5>1. h \in Seq(D) /\ IsInjective(h) /\ ToSet(h) = hits(k)
          BY <3>2
        <5>2. c \in D /\ c \notin ToSet(h)
          BY <3>4, <3>7, <5>1
        <5>3. /\ Append(h, c) \in Seq(D) /\ IsInjective(Append(h, c))
              /\ ToSet(Append(h, c)) = ToSet(h) \cup {c}
          <6> HIDE DEF good
          <6> QED
            BY <5>1, <5>2, AppendNew, Zenon
        <5> QED
          BY <3>6, <3>8, <5>1, <5>3
      <4>2. RulesOf(Append(h, c)) = Append(RulesOf(h), RuleTable[c])
        <5>1. PICK m \in Nat : m = Len(h) /\ DOMAIN h = 1..m
          BY <3>2
        <5>2. /\ DOMAIN Append(h, c) = 1..(m + 1) /\ Append(h, c)[m + 1] = c
              /\ \A i \in 1..m : Append(h, c)[i] = h[i]
          BY <3>2, <3>4, <5>1
        <5>3. RulesOf(h) = [i \in 1..m |-> RuleTable[h[i]]]
          BY <5>1 DEF RulesOf
        <5>4. RulesOf(Append(h, c)) = [i \in 1..(m + 1) |-> RuleTable[Append(h, c)[i]]]
          BY <5>2 DEF RulesOf
        <5>5. RulesOf(h) \in Seq({RuleTable[d] : d \in D}) /\ Len(RulesOf(h)) = m
          BY <3>2, <5>1, RulesOfCodes DEF D
        <5>6. Append(RulesOf(h), RuleTable[c])
                = [i \in 1..(m + 1) |-> IF i = m + 1 THEN RuleTable[c] ELSE RulesOf(h)[i]]
          BY <3>4, <5>5
        <5>7. \A i \in 1..(m + 1) : RuleTable[Append(h, c)[i]]
                = IF i = m + 1 THEN RuleTable[c] ELSE RulesOf(h)[i]
          <6>1. \A i \in 1..(m + 1) : i = m + 1 \/ i \in 1..m
            BY <5>1
          <6>2. \A i \in 1..m : RulesOf(h)[i] = RuleTable[h[i]] /\ i # m + 1
            BY <5>1, <5>3
          <6> QED
            BY <5>2, <6>1, <6>2
        <5> QED
          BY <5>4, <5>6, <5>7
      <4>3. f[1..(k + 1)] = RulesOf(Append(h, c))
        BY <3>2, <3>4, <3>8, <4>2
      <4> QED
        BY <4>1, <4>3
    <3>9. CASE ~found(c)
      BY <3>2, <3>4, <3>6, <3>9
    <3> QED
      BY <3>8, <3>9
  <2> HIDE DEF good
  <2> QED
    BY <2>1, <2>2
<1> HIDE DEF T
<1>6. n \in T
  <2>1. T \in SUBSET Nat
    BY DEF T
  <2> QED
    BY <1>2, <1>4, <1>5, <2>1, Counting
<1>7. PICK h : good(n, h)
  BY <1>2, <1>6 DEF T
<1>8. hits(n) = {c \in ToSet(loaded) : found(c)}
  BY <1>2 DEF ToSet
<1> HIDE DEF hits
<1>9. ToSet(h) = {c \in ToSet(loaded) : found(c)} /\ MatchRules(text, rs) = RulesOf(h)
  BY <1>3, <1>7, <1>8
<1> QED
  BY <1>1, <1>7, <1>9 DEF D, found

\* The recommendations of matches are those of their rules, each once.
LEMMA AdviceGiven ==
  ASSUME NEW h \in Seq(DOMAIN RuleTable)
  PROVE  /\ Given(RulesOf(h)) \in Seq({RuleTable[c].advice : c \in DOMAIN RuleTable})
         /\ IsInjective(Given(RulesOf(h)))
         /\ ToSet(Given(RulesOf(h))) = {RuleTable[c].advice : c \in ToSet(h)} \ {NoAdvice}
<1> DEFINE n == Len(h)
           A == {RuleTable[c].advice : c \in DOMAIN RuleTable}
           said(k) == {RuleTable[h[i]].advice : i \in 1..k} \ {NoAdvice}
<1>1. PICK m : m = RulesOf(h)
  OBVIOUS
<1>2. /\ n \in Nat /\ DOMAIN h = 1..n /\ Len(m) = n
      /\ \A i \in 1..n : /\ h[i] \in DOMAIN RuleTable /\ m[i] = RuleTable[h[i]]
                         /\ m[i].advice \in A
  BY <1>1, RulesOfCodes
<1>3. PICK f : /\ f[1..0] = <<>>
               /\ \A k \in 1..n :
                    f[1..k] = IF m[k].advice = NoAdvice \/ Contains(f[1..(k - 1)], m[k].advice)
                              THEN f[1..(k - 1)]
                              ELSE Append(f[1..(k - 1)], m[k].advice)
               /\ Given(m) = f[1..n]
  <2>1. PICK R : m \in Seq(R)
    BY <1>1, RulesOfCodes
  <2>2. \A i \in 1..Len(m) : m[i].advice \in A
    BY <1>2
  <2> HIDE DEF A, n
  <2>3. \E f :
           /\ f[1..0] = <<>>
           /\ \A k \in 1..Len(m) :
                f[1..k] = IF m[k].advice = NoAdvice \/ Contains(f[1..(k - 1)], m[k].advice)
                          THEN f[1..(k - 1)]
                          ELSE Append(f[1..(k - 1)], m[k].advice)
           /\ Given(m) = f[1..Len(m)]
    BY <2>1, <2>2, GivenSteps
  <2> QED
    BY <1>2, <2>3
<1> HIDE DEF n, A
<1> DEFINE good(k) == /\ f[1..k] \in Seq(A) /\ IsInjective(f[1..k])
                      /\ ToSet(f[1..k]) = said(k)
           T == {k \in Nat : k <= n => good(k)}
<1>4. 0 \in T
  <2> DEFINE e == <<>>
  <2>1. e \in Seq(A) /\ DOMAIN e = {} /\ said(0) = {}
    OBVIOUS
  <2>2. IsInjective(e) /\ ToSet(e) = {}
    BY <2>1 DEF IsInjective, ToSet
  <2>3. f[1..0] = e
    BY <1>3
  <2> HIDE DEF e, said
  <2> QED
    BY <2>1, <2>2, <2>3
<1>5. ASSUME NEW k \in T PROVE k + 1 \in T
  <2>1. k \in Nat /\ k + 1 \in Nat /\ (k + 1) - 1 = k
    OBVIOUS
  <2>2. ASSUME k + 1 <= n PROVE good(k + 1)
    <3>1. k + 1 \in 1..n /\ k <= n
      BY <1>2, <2>1, <2>2
    <3>2. PICK g : g = f[1..k]
      OBVIOUS
    <3>3. g \in Seq(A) /\ IsInjective(g) /\ ToSet(g) = said(k)
      BY <3>1, <3>2
    <3>4. PICK a \in A : a = RuleTable[h[k + 1]].advice
      BY <1>2, <3>1
    <3>5. Contains(g, a) <=> a \in said(k)
      <4>1. Contains(g, a) <=> a \in ToSet(g)
        BY <3>3 DEF Contains, ToSet
      <4> QED
        BY <3>3, <4>1
    <3>6. f[1..(k + 1)] = IF a = NoAdvice \/ Contains(g, a) THEN g ELSE Append(g, a)
      BY <1>2, <1>3, <2>1, <3>1, <3>2, <3>4
    <3>7. said(k + 1) = (said(k) \cup {a}) \ {NoAdvice} /\ NoAdvice \notin said(k)
      <4>1. 1..(k + 1) = (1..k) \cup {k + 1}
        BY <2>1
      <4> QED
        BY <3>4, <4>1
    <3> HIDE DEF said
    <3>8. CASE a = NoAdvice \/ a \in said(k)
      <4>1. f[1..(k + 1)] = g
        BY <3>5, <3>6, <3>8
      <4>2. said(k + 1) = said(k)
        BY <3>7, <3>8
      <4> QED
        BY <3>3, <4>1, <4>2
    <3>9. CASE a # NoAdvice /\ a \notin said(k)
      <4>1. f[1..(k + 1)] = Append(g, a)
        BY <3>5, <3>6, <3>9
      <4>2. a \notin ToSet(g)
        BY <3>3, <3>9
      <4>3. /\ Append(g, a) \in Seq(A) /\ IsInjective(Append(g, a))
            /\ ToSet(Append(g, a)) = ToSet(g) \cup {a}
        <5>1. g \in Seq(A) /\ IsInjective(g)
          BY <3>3
        <5> HIDE DEF good
        <5> QED
          BY <4>2, <5>1, AppendNew
      <4>4. said(k + 1) = said(k) \cup {a}
        BY <3>7, <3>9
      <4> QED
        BY <3>3, <4>1, <4>3, <4>4
    <3> QED
      BY <3>8, <3>9
  <2> HIDE DEF good
  <2> QED
    BY <2>1, <2>2
<1> HIDE DEF T
<1>6. n \in T
  <2>1. T \in SUBSET Nat
    BY DEF T
  <2> QED
    BY <1>2, <1>4, <1>5, <2>1, Counting
<1>7. good(n)
  BY <1>2, <1>6 DEF T
<1>8. said(n) = {RuleTable[c].advice : c \in ToSet(h)} \ {NoAdvice}
  BY <1>2 DEF ToSet
<1> HIDE DEF said
<1>9. Given(RulesOf(h)) = f[1..n]
  BY <1>1, <1>3
<1> QED
  BY <1>7, <1>8, <1>9 DEF A

\* The first element of a sequence that is in a set.
LEMMA FirstFound ==
  ASSUME NEW A, NEW seq \in Seq(A), NEW S
  PROVE  /\ FirstIn(seq, S) \in Seq(ToSet(seq) \cap S)
         /\ FirstIn(seq, S) # <<>> <=> ToSet(seq) \cap S # {}
<1>1. PICK I : I = {i \in 1..Len(seq) : seq[i] \in S}
  OBVIOUS
<1>2. PICK i : i = (IF I # {} THEN Min(I) ELSE 0)
  OBVIOUS
<1>3. FirstIn(seq, S) = IF i = 0 THEN <<>> ELSE <<seq[i]>>
  BY <1>1, <1>2, Zenon DEF FirstIn, SelectInSeq
<1>4. Len(seq) \in Nat /\ DOMAIN seq = 1..Len(seq)
  OBVIOUS
<1>5. CASE I = {}
  <2>1. i = 0 /\ ToSet(seq) \cap S = {}
    BY <1>1, <1>2, <1>4, <1>5 DEF ToSet
  <2>2. FirstIn(seq, S) = <<>>
    BY <1>3, <2>1
  <2> QED
    BY <2>1, <2>2
<1>6. CASE I # {}
  <2>1. I \in SUBSET Nat
    BY <1>1
  <2>2. \E x \in I : \A y \in I : x <= y
    BY <1>6, <2>1, LeastNumber
  <2>3. Min(I) \in I
    BY <2>2, Zenon DEF Min
  <2>4. i \in I /\ i # 0
    BY <1>1, <1>2, <1>4, <1>6, <2>3
  <2>5. PICK e \in ToSet(seq) \cap S : e = seq[i]
    BY <1>1, <1>4, <2>4 DEF ToSet
  <2>6. FirstIn(seq, S) = <<e>>
    BY <1>3, <2>4, <2>5
  <2>7. <<e>> # <<>> /\ <<e>> \in Seq(ToSet(seq) \cap S)
    OBVIOUS
  <2> QED
    BY <2>6, <2>7
<1> QED
  BY <1>5, <1>6

\* Evidence is found exactly when the terms of a rule match, and in the text.
LEMMA EvidenceFound ==
  ASSUME NEW text, text \in Seq(ToSet(text)), NEW c \in DOMAIN RuleTable
  PROVE  /\ Evidence(text, RuleTable[c]) \in Seq(ToSet(text))
         /\ Evidence(text, RuleTable[c]) # <<>> <=> Matches(RuleTable[c], text)
<1>1. PICK rule : rule = RuleTable[c]
  OBVIOUS
<1>2. /\ rule.terms \in Seq(ToSet(rule.terms))
      /\ rule.joined => rule.terms # <<>>
  BY <1>1, AnalysisAssumption
<1>3. PICK terms : terms = rule.terms
  OBVIOUS
<1>t. PICK T : T = ToSet(text)
  OBVIOUS
<1>u. PICK U : U = ToSet(terms)
  OBVIOUS
<1>e. PICK evidence : evidence = Evidence(text, rule)
  OBVIOUS
<1>w. text \in Seq(T) /\ terms \in Seq(U) /\ (rule.joined => terms # <<>>)
  BY <1>2, <1>3, <1>t, <1>u
<1>4. CASE rule.kind = "pattern" /\ rule.joined
  <2>1. evidence = IF \A term \in U : Holds(text, term) THEN terms ELSE <<>>
    BY <1>3, <1>4, <1>e, <1>u, Zenon DEF Evidence
  <2>2. \A term : Holds(text, term) <=> term # Blank /\ term \in T
    <3>1. \A term : Contains(text, term) <=> term \in T
      BY <1>t, <1>w DEF Contains, ToSet
    <3> QED
      BY <3>1 DEF Holds
  <2>3. Matches(rule, text) <=> Blank \notin U /\ U \subseteq T
    <3>1. Matches(rule, text) <=> Blank \notin U /\ U \ {Blank} \subseteq T
      BY <1>3, <1>4, <1>t, <1>u DEF Matches, TermKinds
    <3> QED
      BY <3>1
  <2>4. (\A term \in U : Holds(text, term)) <=> Matches(rule, text)
    BY <2>2, <2>3
  <2>5. U \subseteq T => terms \in Seq(T)
    BY <1>w
  <2> QED
    BY <1>1, <1>4, <1>e, <1>t, <1>w, <2>1, <2>3, <2>4, <2>5
<1>5. CASE rule.kind \in TermKinds /\ ~(rule.kind = "pattern" /\ rule.joined)
  <2>1. evidence = FirstIn(terms, T \ {Blank})
    <3>1. rule.kind # "regex"
      BY <1>5 DEF TermKinds
    <3> DEFINE first == FirstIn(terms, T \ {Blank})
               all == IF \A term \in U : Holds(text, term) THEN terms ELSE <<>>
               joins == rule.kind = "pattern" /\ rule.joined
               other == FirstIn(text, U)
    <3>2. evidence = CASE joins -> all
                       [] rule.kind \in TermKinds /\ ~joins -> first
                       [] rule.kind = "regex" -> other
                       [] OTHER -> <<>>
      BY <1>3, <1>e, <1>t, <1>u, Zenon DEF Evidence
    <3>3. ~joins /\ rule.kind \in TermKinds
      BY <1>5
    <3> HIDE DEF first, all, joins, other
    <3>4. evidence = first
      BY <3>1, <3>2, <3>3, Zenon
    <3> QED
      BY <3>4 DEF first
  <2>2. Matches(rule, text) <=> U \cap (T \ {Blank}) # {}
    <3>1. rule.kind # "regex"
      BY <1>5 DEF TermKinds
    <3>2. Matches(rule, text) <=> (U \ {Blank}) \cap T # {}
      BY <1>3, <1>5, <1>t, <1>u, <3>1 DEF Matches
    <3> QED
      BY <3>2
  <2>3. evidence \in Seq(U \cap (T \ {Blank})) /\ (evidence # <<>> <=> U \cap (T \ {Blank}) # {})
    BY <1>u, <1>w, <2>1, FirstFound
  <2>4. evidence \in Seq(T)
    BY <2>3
  <2> QED
    BY <1>1, <1>e, <1>t, <2>2, <2>3, <2>4
<1>6. CASE rule.kind = "regex"
  <2>1. evidence = FirstIn(text, U)
    <3>1. rule.kind # "pattern" /\ rule.kind \notin TermKinds
      BY <1>6 DEF TermKinds
    <3> QED
      BY <1>3, <1>6, <1>e, <1>u, <3>1, Zenon DEF Evidence
  <2>2. Matches(rule, text) <=> U \cap T # {}
    BY <1>3, <1>6, <1>t, <1>u DEF Matches
  <2>3. evidence \in Seq(T \cap U) /\ (evidence # <<>> <=> T \cap U # {})
    BY <1>t, <1>w, <2>1, FirstFound
  <2>4. evidence \in Seq(T)
    BY <2>3
  <2> QED
    BY <1>1, <1>e, <1>t, <2>2, <2>3, <2>4
<1>7. CASE rule.kind \notin TermKinds \cup {"regex"}
  <2>1. evidence = <<>>
    <3>1. rule.kind # "pattern" /\ rule.kind # "regex" /\ rule.kind \notin TermKinds
      BY <1>7 DEF TermKinds
    <3> QED
      BY <1>e, <3>1, Zenon DEF Evidence
  <2>2. ~Matches(rule, text)
    BY <1>7 DEF Matches
  <2> QED
    BY <1>1, <1>e, <1>t, <2>1, <2>2
<1> QED
  BY <1>4, <1>5, <1>6, <1>7

\* Whatever order the rules are found in, the engine says of a text what
\* exactly these rules say of it.
LEMMA AnalyzeSays ==
  ASSUME NEW text, text \in Seq(ToSet(text)),
         NEW S \in SUBSET DOMAIN RuleTable, NEW loaded \in SetToSeqs(S)
  PROVE  /\ SaysOf(S, text, Analyze(text, RulesOf(loaded)))
         /\ Analyze(text, RulesOf(loaded)) \in Verdicts(text)
<1> DEFINE D == DOMAIN RuleTable
           v == Analyze(text, RulesOf(loaded))
           Row == [code : D, evidence : Seq(ToSet(text)) \ {<<>>}]
<1>1. PICK H : H = {code \in S : Matches(RuleTable[code], text)}
  OBVIOUS
<1>2. PICK h \in Seq(D) :
        /\ IsInjective(h) /\ ToSet(h) = H
        /\ MatchRules(text, RulesOf(loaded)) = RulesOf(h)
  <2>1. loaded \in Seq(D) /\ IsInjective(loaded) /\ ToSet(loaded) = S
    BY AnalysisAssumption, Ordered
  <2>2. PICK h \in Seq(D) :
           /\ IsInjective(h)
           /\ ToSet(h) = {c \in ToSet(loaded) : Evidence(text, RuleTable[c]) # <<>>}
           /\ MatchRules(text, RulesOf(loaded)) = RulesOf(h)
    BY <2>1, MatchesFound
  <2>3. \A c \in S : Evidence(text, RuleTable[c]) # <<>> <=> Matches(RuleTable[c], text)
    BY EvidenceFound
  <2>4. ToSet(h) = H
    BY <1>1, <2>1, <2>2, <2>3
  <2> QED
    BY <2>2, <2>4
<1>3. PICK m : m = RulesOf(h)
  OBVIOUS
<1>4. PICK n \in Nat :
        /\ n = Len(h) /\ DOMAIN h = 1..n /\ DOMAIN m = 1..n
        /\ \A i \in 1..n : h[i] \in D /\ m[i] = RuleTable[h[i]] /\ m[i].code = h[i]
  BY <1>3, RulesOfCodes DEF RulesOf
<1>5. PICK matched : matched = [i \in 1..n |->
                       [code |-> h[i], evidence |-> Evidence(text, RuleTable[h[i]])]]
  OBVIOUS
<1>6. /\ v.score = Score(m) /\ v.level = Level(Score(m)) /\ v.advice = Recommendations(m)
      /\ v = [score |-> v.score, level |-> v.level, matched |-> v.matched, advice |-> v.advice]
      /\ v.matched = [i \in DOMAIN m |-> [code |-> m[i].code, evidence |-> Evidence(text, m[i])]]
  BY <1>2, <1>3 DEF Analyze
<1>7. v.matched = matched
  BY <1>4, <1>5, <1>6
<1> HIDE DEF v
<1>8. /\ v.score = IF WeightOf(H) > ScoreCap THEN ScoreCap ELSE WeightOf(H)
      /\ v.score \in 0..ScoreCap
  <2>1. TotalWeight(m) = WeightOf(H) /\ WeightOf(H) \in Nat
    BY <1>2, <1>3, WeightOfMatches
  <2>2. PICK w \in Nat : w = WeightOf(H) /\ TotalWeight(m) = w
    BY <2>1
  <2>3. v.score = IF w > 100 THEN 100 ELSE w
    <3>1. v.score = Score(m)
      BY <1>6, Zenon
    <3> QED
      BY <2>2, <3>1 DEF Score, ScoreCap
  <2>4. v.score \in 0..100
    BY <2>3
  <2> QED
    BY <2>2, <2>3, <2>4 DEF ScoreCap
<1>9. v.level \in {"critical", "high", "medium", "low"}
  <2>1. \A x : Level(x) \in {"critical", "high", "medium", "low"}
    BY Zenon DEF Level
  <2> QED
    BY <1>6, <2>1
<1>10. \A i \in 1..n :
         /\ matched[i].code = h[i]
         /\ matched[i].evidence = Evidence(text, RuleTable[h[i]])
         /\ matched[i] \in Row
  <2>1. ASSUME NEW i \in 1..n
        PROVE  /\ Evidence(text, RuleTable[h[i]]) \in Seq(ToSet(text))
               /\ Evidence(text, RuleTable[h[i]]) # <<>>
    <3>1. h[i] \in D /\ h[i] \in H
      BY <1>2, <1>4 DEF ToSet
    <3> QED
      BY <1>1, <3>1, EvidenceFound
  <2> QED
    BY <1>4, <1>5, <2>1
<1>11. matched \in Seq(Row) /\ Len(matched) = n /\ ToSet(matched) = {matched[i] : i \in 1..n}
  <2> HIDE DEF Row
  <2>1. matched \in [1..n -> Row]
    <3>1. DOMAIN matched = 1..n /\ matched = [i \in 1..n |-> matched[i]]
      BY <1>5
    <3> QED
      BY <1>10, <3>1
  <2> QED
    BY <2>1 DEF ToSet
<1>12. {x.code : x \in ToSet(matched)} = H
  <2>1. H = {h[i] : i \in 1..n}
    BY <1>2, <1>4 DEF ToSet
  <2>2. \A x : x \in ToSet(matched) <=> \E i \in 1..n : x = matched[i]
    BY <1>11
  <2>3. ASSUME NEW i \in 1..n PROVE \E x \in ToSet(matched) : x.code = h[i]
    BY <1>10, <2>2
  <2>4. ASSUME NEW x \in ToSet(matched) PROVE \E i \in 1..n : x.code = h[i]
    BY <1>10, <2>2
  <2> QED
    BY <2>1, <2>3, <2>4
<1>13. Len(matched) = Cardinality(H)
  BY <1>2, <1>4, <1>11, NoDoubles
<1>14. \A x \in ToSet(matched) : x.evidence # <<>> /\ ToSet(x.evidence) \subseteq ToSet(text)
  <2>1. \A e \in Seq(ToSet(text)) : ToSet(e) \subseteq ToSet(text)
    BY DEF ToSet
  <2> QED
    BY <1>10, <1>11, <2>1
<1>15. PICK advice : advice = {RuleTable[code].advice : code \in H} \ {NoAdvice}
  OBVIOUS
<1>16. /\ ToSet(v.advice) = IF advice = {} THEN {DefaultAdvice} ELSE advice
       /\ IsInjective(v.advice)
       /\ v.advice \in Seq({DefaultAdvice} \cup {RuleTable[code].advice : code \in D})
  <2>1. PICK A : A = {RuleTable[code].advice : code \in D}
    OBVIOUS
  <2>2. PICK given : given = Given(m)
    OBVIOUS
  <2>3. given \in Seq(A) /\ IsInjective(given) /\ ToSet(given) = advice
    BY <1>2, <1>3, <1>15, <2>1, <2>2, AdviceGiven
  <2>4. v.advice = IF given = <<>> THEN <<DefaultAdvice>> ELSE given
    BY <1>6, <2>2 DEF Recommendations
  <2>5. given = <<>> <=> advice = {}
    <3>1. PICK l \in Nat : l = Len(given) /\ DOMAIN given = 1..l
      BY <2>3
    <3>2. given = <<>> <=> l = 0
      BY <2>3, <3>1
    <3>3. l = 0 <=> 1..l = {}
      BY <3>1
    <3>4. advice = {given[i] : i \in 1..l}
      BY <2>3, <3>1 DEF ToSet
    <3> QED
      BY <3>2, <3>3, <3>4
  <2>6. CASE given = <<>>
    <3>1. /\ ToSet(<<DefaultAdvice>>) = {DefaultAdvice} /\ IsInjective(<<DefaultAdvice>>)
          /\ <<DefaultAdvice>> \in Seq({DefaultAdvice} \cup A)
      BY DEF ToSet, IsInjective
    <3> QED
      BY <2>1, <2>4, <2>5, <2>6, <3>1
  <2>7. CASE given # <<>>
    <3>1. given \in Seq({DefaultAdvice} \cup A)
      BY <2>3
    <3> QED
      BY <2>1, <2>3, <2>4, <2>5, <2>7, <3>1
  <2> QED
    BY <2>6, <2>7
<1>17. SaysOf(S, text, v)
  <2>1. SaysOf(S, text, v) <=>
          /\ v.score = IF WeightOf(H) > ScoreCap THEN ScoreCap ELSE WeightOf(H)
          /\ {x.code : x \in ToSet(v.matched)} = H
          /\ Len(v.matched) = Cardinality(H)
          /\ \A x \in ToSet(v.matched) :
               x.evidence # <<>> /\ ToSet(x.evidence) \subseteq ToSet(text)
          /\ ToSet(v.advice) = IF advice = {} THEN {DefaultAdvice} ELSE advice
          /\ IsInjective(v.advice)
    BY <1>1, <1>15, Zenon DEF SaysOf
  <2> QED
    BY <1>7, <1>8, <1>12, <1>13, <1>14, <1>16, <2>1
<1>18. v \in Verdicts(text)
  BY <1>6, <1>7, <1>8, <1>9, <1>11, <1>16 DEF Verdicts
<1> QED
  BY <1>17, <1>18 DEF v

-----------------------------------------------------------------------------
(***************************************************************************)
(* Verdicts.                                                               *)
(***************************************************************************)

\* The parts of the state that Shaped says nothing of.
Typed ==
  /\ (router = None) = (phase # "serving")
  /\ rules \subseteq DOMAIN RuleTable
  /\ ask \in [Requests -> Asks \cup {None}]
  /\ before \in [Requests -> SUBSET DOMAIN RuleTable]
  /\ blind \in [Requests -> BOOLEAN]
  /\ outcome \in [Requests -> Texts \cup {NoText, None}]
  /\ reply \in [Requests -> Endings]

\* The verdict of a request is what rules say that were enabled at one moment
\* after its query began.
Snapshot(q) ==
  \E S \in SUBSET rules :
    /\ SaysOf(S, ask[q].text, verdict[q])
    /\ before[q] \subseteq S \/ (blind[q] /\ ~Explicit(q))

\* What is known of the rules and the verdict of a request at each step.
Judging(q) ==
  /\ pc[q] # "idle" => ask[q] \in Asks
  /\ pc[q] = "rules" => before[q] \subseteq rules
  /\ pc[q] \in Judged => verdict[q] \in Verdicts(ask[q].text) /\ Snapshot(q)
  /\ record[q] \in {None, verdict[q]}

JudgingInv == Inv /\ Typed /\ \A q \in Requests : Judging(q)

LEMMA JudgingInit == Init => Typed /\ \A q \in Requests : Judging(q)
<1> SUFFICES ASSUME Init PROVE Typed /\ \A q \in Requests : Judging(q)
  OBVIOUS
<1>1. Typed
  BY AnalysisAssumption DEF Init, Typed, Endings
<1>2. \A q \in Requests : Judging(q)
  BY DEF Init, Judging, Judged
<1> QED
  BY <1>1, <1>2

\* A step keeps the types.
LEMMA TypedStep ==
  ASSUME Inv, Typed, [Next]_vars
  PROVE  Typed'
<1>1. CASE UNCHANGED vars
  BY <1>1 DEF vars, Typed
<1>2. ASSUME NEW env \in Environments, Start(env) PROVE Typed'
  <2>1. Router(LoadBrowserSession(Load(env))) # None
    BY AnalysisAssumption
  <2>2. (router' = None) = (phase' # "serving")
    BY <1>2, <2>1 DEF Start
  <2> QED
    BY <1>2, <2>2 DEF Start, call, Typed
<1>3. ASSUME NEW qs, NEW ending \in Endings, Close(qs, ending), UNCHANGED rules,
             (router' = None) = (phase' # "serving")
      PROVE  Typed'
  BY <1>3 DEF Close, Typed
<1>4. CASE Crash
  BY <1>3, <1>4 DEF Crash, Endings
<1>5. ASSUME NEW code \in DOMAIN RuleTable, Publish(code) PROVE Typed'
  BY <1>5 DEF Publish, call, Typed
<1>6. ASSUME NEW q \in Requests, NEW a \in Asks, Receive(q, a) PROVE Typed'
  BY <1>6 DEF Receive, server, call, Typed, Endings
<1>7. ASSUME NEW q \in Requests, Refuse(q) \/ AnswerPlain(q) \/ Conclude(q) PROVE Typed'
  <2>1. /\ \E ending \in Endings : Close({q}, ending)
        /\ UNCHANGED server
    BY <1>7 DEF Refuse, AnswerPlain, Conclude, Endings
  <2> QED
    BY <1>3, <2>1 DEF server, Typed
<1>8. ASSUME UNCHANGED <<server, ask, before, blind, outcome, reply>> PROVE Typed'
  BY <1>8 DEF server, Typed
<1>9. ASSUME NEW q \in Requests, Route(q) \/ Authorize(q) \/ RequireSession(q) \/ Admit(q) \/ TurnAway(q)
      PROVE  Typed'
  <2>1. Refuse(q) \/ \E step : Pass(q, step)
    BY <1>9 DEF Route, Authorize, RequireSession, Admit, TurnAway
  <2> QED
    BY <1>7, <1>8, <2>1 DEF Pass, call
<1>10. ASSUME NEW q \in Requests, Decode(q) PROVE Typed'
  <2>1. CASE BodyOK(ask[q])
    BY <1>10, <2>1 DEF Decode, server, call, Typed
  <2> QED
    BY <1>7, <1>10, <2>1 DEF Decode
<1>11. ASSUME NEW q \in Requests, NEW loaded, Judge(q, loaded), blind' \in [Requests -> BOOLEAN]
       PROVE  Typed'
  BY <1>11 DEF Judge, server, call, Typed
<1>12. ASSUME NEW q \in Requests, LoadRules(q) \/ LoadFails(q) PROVE Typed'
  <2>1. \/ Refuse(q)
        \/ \E loaded : Judge(q, loaded) /\ (blind' = blind \/ blind' = [blind EXCEPT ![q] = TRUE])
    BY <1>12 DEF LoadRules, LoadFails
  <2>2. blind' = blind \/ blind' = [blind EXCEPT ![q] = TRUE] => blind' \in [Requests -> BOOLEAN]
    BY DEF Typed
  <2> QED
    BY <1>7, <1>11, <2>1, <2>2
<1>13. ASSUME NEW q \in Requests, Store(q) \/ CallProvider(q) PROVE Typed'
  BY <1>8, <1>13 DEF Store, CallProvider, call
<1>14. ASSUME NEW q \in Requests, NEW text \in Texts \cup {NoText}, Return(q, text)
       PROVE  Typed'
  BY <1>14 DEF Return, server, Typed
<1>15. ASSUME NEW q \in Requests, SkipProvider(q) \/ Cancelled(q) PROVE Typed'
  BY <1>14, <1>15 DEF SkipProvider, Cancelled
<1>16. ASSUME NEW q \in Requests, NEW a \in AnswersOf(Provider(q)), Answered(q, a) PROVE Typed'
  <2>1. Provider(q) \in Providers
    BY <1>16 DEF Answered, Inv, Located, Equipped, Provider
  <2> QED
    BY <1>14, <1>16, <2>1, ReadTyped DEF Answered
<1>17. ASSUME NEW q \in Requests, DeadlineFires(q) \/ ClientLeaves(q) PROVE Typed'
  BY <1>8, <1>17 DEF DeadlineFires, ClientLeaves
<1> QED
  BY <1>1, <1>2, <1>4, <1>5, <1>6, <1>7, <1>9, <1>10, <1>12, <1>13, <1>15,
     <1>16, <1>17 DEF Next, Handle

\* Rules that are published meanwhile change nothing of a request, and neither
\* does a step of another request.
LEMMA JudgingFrame ==
  ASSUME NEW r \in Requests, Judging(r), rules \subseteq rules',
         pc'[r] = pc[r] \/ (pc[r] \in Judged /\ pc'[r] \in Judged),
         ask'[r] = ask[r], before'[r] = before[r],
         blind'[r] = blind[r], verdict'[r] = verdict[r],
         record'[r] \in {record[r], verdict[r], None}
  PROVE  Judging(r)'
<1>1. Explicit(r)' <=> Explicit(r)
  BY DEF Explicit
<1>2. Snapshot(r) => Snapshot(r)'
  BY <1>1 DEF Snapshot
<1>3. pc'[r] # "idle" => ask'[r] \in Asks
  BY DEF Judging, Judged
<1>4. pc'[r] = "rules" => before'[r] \subseteq rules'
  BY DEF Judging, Judged
<1>5. pc'[r] \in Judged => verdict'[r] \in Verdicts(ask'[r].text) /\ Snapshot(r)'
  BY <1>2 DEF Judging
<1>6. record'[r] \in {None, verdict'[r]}
  BY DEF Judging
<1> QED
  BY <1>3, <1>4, <1>5, <1>6 DEF Judging

\* A request that has ended.
LEMMA JudgingClose ==
  ASSUME Shaped, Typed, NEW qs, NEW ending, Close(qs, ending), rules' = rules,
         NEW r \in Requests, Judging(r)
  PROVE  Judging(r)'
<1>1. CASE r \in qs
  <2>1. pc'[r] = "idle" /\ record'[r] = record[r] /\ verdict'[r] = verdict[r]
    BY <1>1 DEF Close
  <2> QED
    BY <2>1 DEF Judging, Judged
<1>2. CASE r \notin qs
  <2>1. /\ pc'[r] = pc[r] /\ ask'[r] = ask[r] /\ before'[r] = before[r]
        /\ blind'[r] = blind[r] /\ verdict'[r] = verdict[r] /\ record'[r] = record[r]
    BY <1>2 DEF Close, Typed
  <2> QED
    BY <2>1, JudgingFrame
<1> QED
  BY <1>1, <1>2

\* A verdict, from rules that were enabled when they were loaded.
LEMMA JudgingJudge ==
  ASSUME Shaped, Typed, NEW q \in Requests, Judging(q), pc[q] = "rules", record[q] = None,
         NEW S \in SUBSET rules, NEW loaded \in SetToSeqs(S), Judge(q, loaded),
         blind'[q] \in BOOLEAN,
         S = rules \/ (blind'[q] /\ ~Explicit(q))
  PROVE  Judging(q)'
<1>1. /\ pc'[q] \in Judged /\ pc'[q] # "idle" /\ pc'[q] # "rules"
      /\ ask' = ask /\ before' = before /\ rules' = rules /\ record' = record
      /\ verdict'[q] = Analyze(ask[q].text, RulesOf(loaded))
  BY DEF Judge, Judged, server, Shaped
<1>2. ask[q] \in Asks /\ before[q] \subseteq rules
  BY DEF Judging
<1>3. ask[q].text \in Seq(ToSet(ask[q].text)) /\ S \in SUBSET DOMAIN RuleTable
  BY <1>2, AnalysisAssumption DEF Typed
<1>4. /\ SaysOf(S, ask[q].text, verdict'[q])
      /\ verdict'[q] \in Verdicts(ask[q].text)
  BY <1>1, <1>3, AnalyzeSays
<1>5. Explicit(q)' <=> Explicit(q)
  BY <1>1 DEF Explicit
<1>6. Snapshot(q)'
  BY <1>1, <1>2, <1>4, <1>5 DEF Snapshot
<1> QED
  BY <1>1, <1>2, <1>4, <1>6 DEF Judging

LEMMA JudgingStep ==
  ASSUME JudgingInv, [Next]_vars, NEW r \in Requests
  PROVE  Judging(r)'
<1> USE DEF JudgingInv, Inv
<1>1. CASE UNCHANGED vars
  BY <1>1, JudgingFrame DEF vars
<1>2. ASSUME NEW env \in Environments, Start(env) PROVE Judging(r)'
  BY <1>2, JudgingFrame DEF Start
<1>3. CASE Crash
  BY <1>3, JudgingClose DEF Crash
<1>4. ASSUME NEW code \in DOMAIN RuleTable, Publish(code) PROVE Judging(r)'
  BY <1>4, JudgingFrame DEF Publish
<1>5. ASSUME NEW q \in Requests, Refuse(q) \/ AnswerPlain(q) \/ Conclude(q)
      PROVE  Judging(r)'
  <2>1. (\E ending : Close({q}, ending)) /\ rules' = rules
    BY <1>5 DEF Refuse, AnswerPlain, Conclude, server
  <2> QED
    BY <2>1, JudgingClose
<1>6. ASSUME NEW q \in Requests, NEW a \in Asks, Receive(q, a) PROVE Judging(r)'
  <2>1. CASE r = q
    <3>1. /\ pc'[r] = "route" /\ ask'[r] = a /\ verdict'[r] = None /\ record'[r] = None
      BY <1>6, <2>1 DEF Receive, Shaped
    <3> QED
      BY <3>1 DEF Judging, Judged
  <2>2. CASE r # q
    <3>1. /\ pc'[r] = pc[r] /\ ask'[r] = ask[r] /\ before'[r] = before[r] /\ rules' = rules
          /\ blind'[r] = blind[r] /\ verdict'[r] = verdict[r] /\ record'[r] = record[r]
      BY <1>6, <2>2 DEF Receive, Shaped, server
    <3> QED
      BY <3>1, JudgingFrame
  <2> QED
    BY <2>1, <2>2
<1>7. ASSUME NEW q \in Requests, NEW step \in {"bearer", "session", "rate", "body"},
             pc[q] \in {"route", "bearer", "session", "rate"}, Pass(q, step)
      PROVE  Judging(r)'
  <2>1. /\ ask' = ask /\ before' = before /\ rules' = rules /\ blind' = blind
        /\ verdict' = verdict /\ record' = record
        /\ pc' = [pc EXCEPT ![q] = step]
    BY <1>7 DEF Pass, server
  <2>2. CASE r = q
    <3>1. pc'[r] = step /\ pc[r] # "idle"
      BY <1>7, <2>1, <2>2 DEF Shaped
    <3> QED
      BY <2>1, <3>1 DEF Judging, Judged
  <2>3. CASE r # q
    <3>1. pc'[r] = pc[r]
      BY <2>1, <2>3
    <3> QED
      BY <2>1, <3>1, JudgingFrame
  <2> QED
    BY <2>2, <2>3
<1>8. ASSUME NEW q \in Requests,
             Route(q) \/ Authorize(q) \/ RequireSession(q) \/ Admit(q) \/ TurnAway(q)
      PROVE  Judging(r)'
  <2>1. /\ \/ Refuse(q)
           \/ \E step \in {"bearer", "session", "rate", "body"} : Pass(q, step)
        /\ pc[q] \in {"route", "bearer", "session", "rate"}
    BY <1>8 DEF Route, Authorize, RequireSession, Admit, TurnAway
  <2> QED
    BY <1>5, <1>7, <2>1
<1>9. ASSUME NEW q \in Requests, Decode(q) PROVE Judging(r)'
  <2>1. CASE BodyOK(ask[q])
    <3>1. /\ pc' = [pc EXCEPT ![q] = "rules"] /\ before' = [before EXCEPT ![q] = rules]
          /\ ask' = ask /\ rules' = rules /\ blind' = blind
          /\ verdict' = verdict /\ record' = record /\ pc[q] = "body"
      BY <1>9, <2>1 DEF Decode, server
    <3>2. CASE r = q
      <4>1. pc'[r] = "rules" /\ before'[r] = rules /\ pc[r] # "idle"
        BY <3>1, <3>2 DEF Shaped, Typed
      <4> QED
        BY <3>1, <4>1 DEF Judging, Judged
    <3>3. CASE r # q
      <4>1. pc'[r] = pc[r] /\ before'[r] = before[r]
        BY <3>1, <3>3
      <4> QED
        BY <3>1, <4>1, JudgingFrame
    <3> QED
      BY <3>2, <3>3
  <2> QED
    BY <1>5, <1>9, <2>1 DEF Decode
<1>10. ASSUME NEW q \in Requests, LoadRules(q) \/ LoadFails(q) PROVE Judging(r)'
  <2>1. \/ Refuse(q)
        \/ /\ pc[q] = "rules"
           /\ \E S \in SUBSET rules : \E loaded \in SetToSeqs(S) :
                /\ Judge(q, loaded)
                /\ \/ S = rules /\ blind' = blind
                   \/ ~Explicit(q) /\ blind' = [blind EXCEPT ![q] = TRUE]
    BY <1>10 DEF LoadRules, LoadFails
  <2>2. ASSUME pc[q] = "rules", NEW S \in SUBSET rules, NEW loaded \in SetToSeqs(S),
               Judge(q, loaded),
               \/ S = rules /\ blind' = blind
               \/ ~Explicit(q) /\ blind' = [blind EXCEPT ![q] = TRUE]
        PROVE  Judging(r)'
    <3>1. CASE r = q
      <4>1. blind'[q] \in BOOLEAN /\ (S = rules \/ (blind'[q] /\ ~Explicit(q)))
        BY <2>2 DEF Typed
      <4>2. record[q] = None
        BY <2>2 DEF Located
      <4> QED
        BY <2>2, <3>1, <4>1, <4>2, JudgingJudge
    <3>2. CASE r # q
      <4>1. /\ pc'[r] = pc[r] /\ ask' = ask /\ before' = before /\ rules' = rules
            /\ blind'[r] = blind[r] /\ verdict'[r] = verdict[r] /\ record' = record
        BY <2>2, <3>2 DEF Judge, server, Shaped, Typed
      <4> QED
        BY <4>1, JudgingFrame
    <3> QED
      BY <3>1, <3>2
  <2> QED
    BY <1>5, <2>1, <2>2
<1>11. ASSUME NEW q \in Requests, NEW step \in Judged, pc[q] \in Judged,
              pc' = [pc EXCEPT ![q] = step],
              UNCHANGED <<rules, ask, before, blind, verdict>>,
              record'[r] \in {record[r], verdict[r], None}
       PROVE  Judging(r)'
  <2>1. pc'[r] = pc[r] \/ (pc[r] \in Judged /\ pc'[r] \in Judged)
    BY <1>11 DEF Shaped
  <2> QED
    BY <1>11, <2>1, JudgingFrame
<1>12. ASSUME NEW q \in Requests, Store(q) PROVE Judging(r)'
  <2>1. /\ pc[q] \in Judged /\ pc' = [pc EXCEPT ![q] = "answer"]
        /\ UNCHANGED <<rules, ask, before, blind, verdict>>
        /\ \E stored \in {verdict[q], None} : record' = [record EXCEPT ![q] = stored]
    BY <1>12 DEF Store, server, Judged
  <2>2. record'[r] \in {record[r], verdict[r], None}
    BY <2>1 DEF Shaped
  <2> QED
    BY <1>11, <2>1, <2>2 DEF Judged
<1>13. ASSUME NEW q \in Requests, CallProvider(q) PROVE Judging(r)'
  BY <1>11, <1>13 DEF CallProvider, server, Judged
<1>14. ASSUME NEW q \in Requests, NEW text, pc[q] \in Judged, Return(q, text)
       PROVE  Judging(r)'
  BY <1>11, <1>14 DEF Return, server, Judged
<1>15. ASSUME NEW q \in Requests,
             \/ SkipProvider(q) \/ Cancelled(q)
             \/ \E a \in AnswersOf(Provider(q)) : Answered(q, a)
       PROVE  Judging(r)'
  BY <1>14, <1>15 DEF SkipProvider, Cancelled, Answered, Judged
<1>16. ASSUME NEW q \in Requests, DeadlineFires(q) \/ ClientLeaves(q) PROVE Judging(r)'
  BY <1>16, JudgingFrame DEF DeadlineFires, ClientLeaves, server
<1> QED
  BY <1>1, <1>2, <1>3, <1>4, <1>5, <1>6, <1>8, <1>9, <1>10, <1>12, <1>13,
     <1>15, <1>16 DEF Next, Handle

LEMMA JudgingInvariant == Spec => []JudgingInv
<1> DEFINE Rest == Typed /\ \A q \in Requests : Judging(q)
<1>1. Init => Rest
  BY JudgingInit
<1>2. Inv /\ Rest /\ [Next]_vars => Rest'
  BY TypedStep, JudgingStep DEF JudgingInv
<1>3. Inv /\ Rest => JudgingInv
  BY DEF JudgingInv
<1> HIDE DEF Rest
<1> QED
  BY <1>1, <1>2, <1>3, Invariant, PTL DEF Spec

\* Every variable has its type at every moment; the verdict of a request that
\* is judged is one the engine can give on its text, and what is stored is it.
THEOREM TypeCorrect == Spec => []TypeOK
<1>1. JudgingInv => TypeOK
  BY DEF JudgingInv, Inv, Shaped, Typed, Judging, TypeOK
<1> QED
  BY <1>1, JudgingInvariant, PTL

\* For any rules, texts and requests, a verdict is what all rules of one moment
\* after its query began say of the text, in whatever order they are found and
\* whatever is published meanwhile; only a plain verdict after a failed query
\* knows fewer rules.
THEOREM OneSnapshot == Spec => []VerdictFromOneSnapshot
<1>1. JudgingInv => VerdictFromOneSnapshot
  BY DEF JudgingInv, Judging, Snapshot, VerdictFromOneSnapshot
<1> QED
  BY <1>1, JudgingInvariant, PTL

=============================================================================
