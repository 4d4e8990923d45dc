------------------------------ MODULE Startup ------------------------------
(***************************************************************************)
(* What a process does to the database before it serves: database.Connect  *)
(* prepares the rule version history (PrepareRiskRuleVersionHistory, one   *)
(* transaction), ImportIfEmpty loads the seed data statement by statement  *)
(* when there is no category, and the history is prepared once more.       *)
(* Processes may start together, start while another serves and publishes, *)
(* and end at any point; with -seed-only they end where others serve.      *)
(*                                                                         *)
(* At READ COMMITTED every statement sees what is committed when it runs.  *)
(* An insert waits while another transaction has its unique key in hand    *)
(* and fails once the key is committed.  A publication is one step here;   *)
(* RuleWorkflow has its statements.                                        *)
(***************************************************************************)
EXTENDS Naturals, Sequences, FiniteSets

CONSTANTS
  Servers,      \* processes
  SeedCode,     \* the code of the seed rule
  LegacyCodes,  \* the codes of the rules stored before versioning, by identifier
  Texts,        \* everything of a rule but its code
  MaxRules,     \* bound on the identifiers of rules
  MaxEvents,    \* bound on publication events
  None          \* no rule, no source, no failure

ASSUME StartupAssumption ==
  /\ MaxRules \in Nat
  /\ MaxEvents \in Nat
  /\ Len(LegacyCodes) <= MaxRules
  /\ \A i \in DOMAIN LegacyCodes : LegacyCodes[i] # SeedCode

RuleIds  == 1..MaxRules
EventIds == 1..MaxEvents
Codes    == {SeedCode} \cup {LegacyCodes[i] : i \in DOMAIN LegacyCodes}
Content  == [code : Codes, text : Texts]

\* The submission an event publishes has the event's identifier: both are
\* unique in the table of events.
Rule  == [content : Content, version : 1..2, source : EventIds \cup {None}]
Event == [rule : RuleIds, draft : Content, sound : BOOLEAN]
Version == [rule : RuleIds, version : 1..2, content : Content,
            event : EventIds \cup {None}]

VARIABLES
  rules,       \* risk_rules
  events,      \* rule_submission_publication_events; sound when the approved
               \* submission and its review bear the event out
  versions,    \* risk_rule_versions
  categories,  \* the seed category is stored
  cases,       \* how often the seed case is stored
  pc,          \* the next statement of each process
  importing,   \* it has found no category
  unlinked,    \* events its preparation has found without a version
  loaded,      \* the rules its preparation has loaded
  at,          \* the rule or the seed item it looks at
  insert,      \* the versions it is about to insert
  wrote,       \* the versions it has inserted and not committed
  failure,     \* why it was refused: for what it has read, or by the database
  known,       \* history: the rules stored when it started
  doomed,      \* history: the tables disagreed when it started
  raced,       \* history: another preparation has committed meanwhile
  flawed,      \* history: the tables disagreed, or were edited by hand
  disturbed    \* history: the seed data is not the work of one whole import

tables  == <<rules, events, versions, categories, cases>>
process == <<pc, importing, unlinked, loaded, at, insert, wrote, failure>>
history == <<known, doomed, raced, flawed, disturbed>>
vars    == <<tables, process, history>>

Seeds    == <<"category", "rule", "case">>
Failures == {"evidence", "database"}

ASSUME NoneAssumption ==
  /\ None \notin EventIds
  /\ None \notin Failures
  /\ None \notin Rule
  /\ None \notin [RuleIds -> Rule \cup {None}]

Labels   == {"down", "backfill", "insert", "baseline",
             "count", "lookup", "create", "serving"}

TypeOK ==
  /\ rules \in [RuleIds -> Rule \cup {None}]
  /\ events \in Seq(Event) /\ Len(events) <= MaxEvents
  /\ versions \subseteq Version
  /\ categories \in BOOLEAN
  /\ cases \in 0..Cardinality(Servers)
  /\ pc \in [Servers -> Labels]
  /\ importing \in [Servers -> BOOLEAN]
  /\ unlinked \in [Servers -> SUBSET EventIds]
  /\ loaded \in [Servers -> [RuleIds -> Rule \cup {None}] \cup {None}]
  /\ at \in [Servers -> 1..(MaxRules + 1) \cup 1..(Len(Seeds) + 1)]
  /\ insert \in [Servers -> SUBSET Version]
  /\ wrote \in [Servers -> SUBSET Version]
  /\ failure \in [Servers -> Failures \cup {None}]
  /\ known \in [Servers -> SUBSET RuleIds]
  /\ doomed \in [Servers -> BOOLEAN]
  /\ raced \in [Servers -> BOOLEAN]
  /\ flawed \in BOOLEAN
  /\ disturbed \in BOOLEAN

(***************************************************************************)
(* Rules, events and versions.                                             *)
(***************************************************************************)
Of(vs, r)      == {v \in vs : v.rule = r}
EventsOf(r)    == {e \in DOMAIN events : events[e].rule = r}
Stored(code)   == \E r \in RuleIds : rules[r] # None /\ rules[r].content.code = code
Used(r)        == rules[r] # None \/ EventsOf(r) # {} \/ Of(versions, r) # {}
FreeRule(r)    == ~Used(r) /\ \A s \in 1..(r - 1) : Used(s)
Linked(vs, e)  == \E v \in vs : v.event = e

\* VerifyRiskRuleMatchesVersion, for the latest of the versions vs.
MatchesLatest(rule, vs) ==
  \E v \in vs : /\ \A w \in vs : w.version <= v.version
                /\ rule.version = v.version
                /\ rule.content = v.content

\* validateControlledVersionAgainstEvent.
SoundVersion(v) ==
  v.event # None =>
    /\ events[v.event].sound
    /\ events[v.event].rule = v.rule
    /\ events[v.event].draft = v.content

\* The rules, the events and the versions bear each other out: what a
\* preparation may start from.
Coherent ==
  /\ \A e \in DOMAIN events : events[e].sound
  /\ \A v \in versions : SoundVersion(v)
  /\ \A r \in RuleIds :
       LET vs == Of(versions, r)
           es == {e \in EventsOf(r) : ~Linked(vs, e)}
       IN  /\ vs # {} => es = {}
           /\ Cardinality(es) <= 1
           /\ rules[r] # None =>
                IF vs = {}
                THEN es = IF rules[r].source = None THEN {} ELSE {rules[r].source}
                ELSE MatchesLatest(rules[r], vs)

(***************************************************************************)
(* Transactions.                                                           *)
(***************************************************************************)
Open(p)      == pc[p] \in {"backfill", "insert", "baseline"}
Importing(p) == importing[p] /\ pc[p] \notin {"down", "serving"}
Keys(vs)     == {<<v.rule, v.version>> : v \in vs}
WaitsFor(p, q) ==
  p # q /\ pc[p] = "insert" /\ Keys(insert[p]) \cap Keys(wrote[q]) # {}

Goto(p, label) == pc' = [pc EXCEPT ![p] = label]

\* The process leaves its transaction, or the database.
Leave(p, next, why) ==
  /\ Goto(p, next)
  /\ failure' = [failure EXCEPT ![p] = why]
  /\ unlinked' = [unlinked EXCEPT ![p] = {}]
  /\ loaded' = [loaded EXCEPT ![p] = None]
  /\ at' = [at EXCEPT ![p] = 1]
  /\ insert' = [insert EXCEPT ![p] = {}]
  /\ wrote' = [wrote EXCEPT ![p] = {}]

End(p, why) ==
  /\ Leave(p, "down", why)
  /\ importing' = [importing EXCEPT ![p] = FALSE]
  /\ disturbed' = (disturbed \/ Importing(p))
  /\ known' = [known EXCEPT ![p] = {}]
  /\ doomed' = [doomed EXCEPT ![p] = FALSE]
  /\ raced' = [raced EXCEPT ![p] = @ /\ why = "evidence"]
  /\ UNCHANGED <<tables, flawed>>

(***************************************************************************)
(* PrepareRiskRuleVersionHistory.                                          *)
(***************************************************************************)
\* Every event's version is looked up.  The stored versions are validated
\* too, but nothing in this model makes one unsound.
Prepare(p) ==
  /\ known' = [known EXCEPT ![p] = {r \in RuleIds : rules[r] # None}]
  /\ doomed' = [doomed EXCEPT ![p] = @ \/ ~Coherent]
  /\ raced' = [raced EXCEPT ![p] = FALSE]
  /\ failure' = [failure EXCEPT ![p] = None]
  /\ unlinked' = [unlinked EXCEPT ![p] = {e \in DOMAIN events : ~Linked(versions, e)}]
  /\ at' = [at EXCEPT ![p] = 1]
  /\ Goto(p, "backfill")
  /\ UNCHANGED <<tables, importing, loaded, insert, wrote, flawed, disturbed>>

\* The process connects.
Begin(p) == pc[p] = "down" /\ Prepare(p)

\* Mutant: the first version is what the rule is now.
BackfilledCurrent(e) ==
  LET r == events[e].rule
  IN  {[rule |-> r, version |-> 1, event |-> e,
        content |-> IF rules[r] = None THEN events[e].draft ELSE rules[r].content]}

\* The history an unlinked event e proves: its draft, and what its rule has
\* become since.
Backfilled(e) ==
  LET r == events[e].rule
  IN  {[rule |-> r, version |-> 1, content |-> events[e].draft, event |-> e]}
      \cup IF rules[r] = None \/ rules[r].content = events[e].draft THEN {}
           ELSE {[rule |-> r, version |-> 2, content |-> rules[r].content,
                  event |-> None]}

\* An event can be taken as the origin of its rule.
Proven(e) ==
  /\ events[e].sound
  /\ Of(versions, events[e].rule) = {}
  /\ rules[events[e].rule] # None => rules[events[e].rule].source = e

\* The unlinked events are taken rule by rule, in no particular order.
Backfill(p, e) ==
  /\ pc[p] = "backfill"
  /\ e \in unlinked[p]
  /\ IF Proven(e) /\ unlinked[p] \cap EventsOf(events[e].rule) = {e}
     THEN /\ insert' = [insert EXCEPT ![p] = Backfilled(e)]
          /\ unlinked' = [unlinked EXCEPT ![p] = @ \ {e}]
          /\ Goto(p, "insert")
          /\ UNCHANGED <<tables, importing, loaded, at, wrote, failure, history>>
     ELSE End(p, "evidence")

LoadRules(p) ==
  /\ pc[p] = "backfill"
  /\ unlinked[p] = {}
  /\ loaded' = [loaded EXCEPT ![p] = [r \in RuleIds |->
       IF rules[r] # None /\ \E v \in Of(wrote[p], r) : v.version = 2
       THEN [rules[r] EXCEPT !.version = 2] ELSE rules[r]]]
  /\ Goto(p, "baseline")
  /\ UNCHANGED <<tables, importing, unlinked, at, insert, wrote, failure, history>>

\* Mutant: a rule without a controlled version of its own gets a baseline.
NeedsBaselineAgain(r, vs) == \A v \in Of(vs, r) : v.event = None

NeedsBaseline(r, vs) == Of(vs, r) = {}

\* Mutant: the current rule is not compared with its history.
AgreesByNumber(rule, vs) == \E v \in vs : rule.version = v.version

Agrees(rule, vs) == MatchesLatest(rule, vs)

Baseline(p) ==
  /\ pc[p] = "baseline"
  /\ at[p] \in RuleIds
  /\ LET r    == at[p]
         rule == loaded[p][r]
         vs   == versions \cup wrote[p]
     IN  IF rule # None /\ NeedsBaseline(r, vs)
         THEN IF rule.source # None THEN End(p, "evidence")
              ELSE /\ insert' = [insert EXCEPT ![p] =
                        {[rule |-> r, version |-> Cardinality(Of(vs, r)) + 1,
                          content |-> rule.content, event |-> None]}]
                   /\ Goto(p, "insert")
                   /\ at' = [at EXCEPT ![p] = r + 1]
                   /\ UNCHANGED <<tables, importing, unlinked, loaded, wrote,
                                  failure, history>>
         ELSE IF rule = None \/ Agrees(rule, Of(vs, r))
         THEN /\ at' = [at EXCEPT ![p] = r + 1]
              /\ UNCHANGED <<tables, pc, importing, unlinked, loaded, insert,
                             wrote, failure, history>>
         ELSE End(p, "evidence")

Insert(p) ==
  /\ pc[p] = "insert"
  /\ \A q \in Servers : ~WaitsFor(p, q)
  /\ IF Keys(insert[p]) \cap Keys(versions) = {}
     THEN /\ wrote' = [wrote EXCEPT ![p] = @ \cup insert[p]]
          /\ insert' = [insert EXCEPT ![p] = {}]
          /\ Goto(p, IF loaded[p] = None THEN "backfill" ELSE "baseline")
          /\ UNCHANGED <<tables, importing, unlinked, loaded, at, failure, history>>
     ELSE End(p, "database")

\* The database ends one of two transactions that wait for each other.
Deadlock(p) ==
  /\ \E q \in Servers : WaitsFor(p, q) /\ WaitsFor(q, p)
  /\ End(p, "database")

\* Mutant: the rule keeps its number.
Unnumbered(r, vs) == rules[r]

\* Rule r with the version number the preparation has given it.
Numbered(r, vs) ==
  IF rules[r] = None \/ Of(vs, r) = {} THEN rules[r]
  ELSE [rules[r] EXCEPT !.version = Cardinality(Of(vs, r))]

\* Connect is followed by the count of categories, Import by serving.
Commit(p) ==
  /\ pc[p] = "baseline"
  /\ at[p] = MaxRules + 1
  /\ versions' = versions \cup wrote[p]
  /\ rules' = [r \in RuleIds |-> Numbered(r, wrote[p])]
  /\ raced' = [q \in Servers |->
                 q # p /\ (raced[q] \/ (Open(q) /\ wrote[p] # {}))]
  /\ Leave(p, IF importing[p] THEN "serving" ELSE "count", None)
  /\ importing' = [importing EXCEPT ![p] = FALSE]
  /\ UNCHANGED <<events, categories, cases, known, doomed, flawed, disturbed>>

(***************************************************************************)
(* ImportIfEmpty and Import, without a transaction.                        *)
(***************************************************************************)
Import(p) ==
  /\ importing' = [importing EXCEPT ![p] = TRUE]
  /\ disturbed' = (disturbed \/ \E q \in Servers \ {p} : Importing(q))
  /\ Goto(p, "lookup")
  /\ UNCHANGED <<tables, unlinked, loaded, at, insert, wrote, failure,
                 known, doomed, raced, flawed>>

Count(p) ==
  /\ pc[p] = "count"
  /\ IF categories
     THEN /\ Goto(p, "serving")
          /\ UNCHANGED <<tables, importing, unlinked, loaded, at, insert, wrote,
                         failure, history>>
     ELSE Import(p)

\* An error of the count is not looked at: the count stays 0.
CountFails(p) == pc[p] = "count" /\ Import(p)

Present(seed) ==
  \/ seed = "category" /\ categories
  \/ seed = "rule" /\ Stored(SeedCode)
  \/ seed = "case" /\ cases > 0

Advance(p) ==
  /\ at' = [at EXCEPT ![p] = @ + 1]
  /\ Goto(p, "lookup")
  /\ UNCHANGED <<importing, unlinked, loaded, insert, wrote, failure,
                 known, doomed, raced, flawed>>

Lookup(p) ==
  /\ pc[p] = "lookup"
  /\ at[p] \in DOMAIN Seeds
  /\ IF Present(Seeds[at[p]])
     THEN Advance(p) /\ UNCHANGED <<tables, disturbed>>
     ELSE /\ Goto(p, "create")
          /\ UNCHANGED <<tables, importing, unlinked, loaded, at, insert, wrote,
                         failure, history>>

\* Only "not found" creates a case; any other error passes over it.
CasePassedOver(p) ==
  /\ pc[p] = "lookup"
  /\ at[p] \in DOMAIN Seeds /\ Seeds[at[p]] = "case"
  /\ Advance(p)
  /\ disturbed' = TRUE
  /\ UNCHANGED tables

CreateCategory(p) ==
  /\ ~categories
  /\ categories' = TRUE
  /\ UNCHANGED <<rules, cases>>

CreateRule(p, text) ==
  /\ ~Stored(SeedCode)
  /\ \E r \in RuleIds :
       /\ FreeRule(r)
       /\ rules' = [rules EXCEPT ![r] =
            [content |-> [code |-> SeedCode, text |-> text],
             version |-> 1, source |-> None]]
  /\ UNCHANGED <<categories, cases>>

\* Titles have no unique index.
CreateCase(p) ==
  /\ cases' = cases + 1
  /\ UNCHANGED <<rules, categories>>

Create(p) ==
  /\ pc[p] = "create"
  /\ LET seed == Seeds[at[p]]
     IN  IF seed # "case" /\ Present(seed)
         THEN End(p, "database")
         ELSE /\ \/ seed = "category" /\ CreateCategory(p)
                 \/ seed = "rule" /\ \E text \in Texts : CreateRule(p, text)
                 \/ seed = "case" /\ CreateCase(p)
              /\ Advance(p)
              /\ UNCHANGED <<events, versions, disturbed>>

\* Mutant: the second preparation is left to the next start.
ServeImported(p) ==
  /\ pc[p] = "lookup"
  /\ at[p] = Len(Seeds) + 1
  /\ Leave(p, "serving", None)
  /\ importing' = [importing EXCEPT ![p] = FALSE]
  /\ UNCHANGED <<tables, history>>

\* Import prepares the history of what it has created.
PrepareImported(p) ==
  /\ pc[p] = "lookup"
  /\ at[p] = Len(Seeds) + 1
  /\ Prepare(p)

DatabaseFails(p) ==
  /\ Open(p) \/ pc[p] \in {"lookup", "create"}
  /\ End(p, "database")

Stop(p) == pc[p] # "down" /\ End(p, None)

(***************************************************************************)
(* Meanwhile: a serving process publishes, somebody edits a rule by hand,  *)
(* while no process is starting.                                           *)
(***************************************************************************)
Publish(p, draft) ==
  /\ pc[p] = "serving"
  /\ categories
  /\ ~Stored(draft.code)
  /\ Len(events) < MaxEvents
  /\ \E r \in RuleIds :
       LET e == Len(events) + 1
       IN  /\ FreeRule(r)
           /\ rules' = [rules EXCEPT ![r] =
                [content |-> draft, version |-> 1, source |-> e]]
           /\ events' = Append(events, [rule |-> r, draft |-> draft, sound |-> TRUE])
           /\ versions' = versions \cup
                {[rule |-> r, version |-> 1, content |-> draft, event |-> e]}
  /\ UNCHANGED <<categories, cases, process, history>>

Edit(r, text) ==
  /\ ~flawed
  /\ \A p \in Servers : pc[p] \in {"down", "serving"}
  /\ rules[r] # None
  /\ Of(versions, r) # {}
  /\ text # rules[r].content.text
  /\ rules' = [rules EXCEPT ![r].content.text = text]
  /\ flawed' = TRUE
  /\ UNCHANGED <<events, versions, categories, cases, process, known, doomed,
                 raced, disturbed>>

(***************************************************************************)
(* The specification: a fresh database, or one from before versioning.     *)
(***************************************************************************)
LegacyRule(r) ==
  [content : {c \in Content : c.code = LegacyCodes[r]}, version : {1},
   source : EventIds \cup {None}]

LegacyEvent ==
  {e \in Event : e.rule \in DOMAIN LegacyCodes /\ e.draft.code = LegacyCodes[e.rule]}

Fresh ==
  /\ rules = [r \in RuleIds |-> None]
  /\ events = <<>>
  /\ categories = FALSE
  /\ cases = 0
  /\ disturbed = FALSE

Legacy ==
  /\ \E some \in SUBSET DOMAIN LegacyCodes :
       \E stored \in [some -> UNION {LegacyRule(r) : r \in some}] :
         /\ \A r \in some : stored[r] \in LegacyRule(r)
         /\ rules = [r \in RuleIds |-> IF r \in some THEN stored[r] ELSE None]
  /\ \E n \in 0..MaxEvents : events \in [1..n -> LegacyEvent]
  /\ categories = TRUE
  /\ cases = 1
  /\ disturbed = TRUE

Init ==
  /\ Fresh \/ Legacy
  /\ versions = {}
  /\ pc = [p \in Servers |-> "down"]
  /\ importing = [p \in Servers |-> FALSE]
  /\ unlinked = [p \in Servers |-> {}]
  /\ loaded = [p \in Servers |-> None]
  /\ at = [p \in Servers |-> 1]
  /\ insert = [p \in Servers |-> {}]
  /\ wrote = [p \in Servers |-> {}]
  /\ failure = [p \in Servers |-> None]
  /\ known = [p \in Servers |-> {}]
  /\ doomed = [p \in Servers |-> FALSE]
  /\ raced = [p \in Servers |-> FALSE]
  /\ flawed = ~Coherent

Next ==
  \/ \E p \in Servers :
       \/ Begin(p)
       \/ LoadRules(p) \/ Baseline(p) \/ Insert(p) \/ Commit(p)
       \/ \E e \in EventIds : Backfill(p, e)
       \/ Count(p) \/ CountFails(p) \/ Lookup(p) \/ CasePassedOver(p)
       \/ Create(p) \/ PrepareImported(p)
       \/ Deadlock(p) \/ DatabaseFails(p) \/ Stop(p)
       \/ \E draft \in Content : Publish(p, draft)
  \/ \E r \in RuleIds, text \in Texts : Edit(r, text)

Spec == Init /\ [][Next]_vars

-----------------------------------------------------------------------------
\* The history of a rule is numbered without gaps, has one version for every
\* publication event it knows, and its controlled versions say what the event
\* has published.
HistoryHonest ==
  \A r \in RuleIds :
    LET vs == Of(versions, r)
    IN  /\ {v.version : v \in vs} = 1..Cardinality(vs)
        /\ \A v \in vs : SoundVersion(v)
        /\ vs # {} => \A e \in EventsOf(r) :
                        Cardinality({v \in vs : v.event = e}) = 1

\* Re-running the preparation on a rule that has a history adds no version,
\* and its number stays: two processes that prepare the same rule at the same
\* time do not both record it.
HistoryStable ==
  [][\A r \in RuleIds : Of(versions, r) # {} =>
       /\ Of(versions', r) = Of(versions, r)
       /\ rules[r] # None =>
            rules'[r] # None /\ rules'[r].version = rules[r].version]_vars

\* A process that has started on tables that disagree never serves; one that
\* serves has seen to it that every rule it found has a history, which agrees
\* with the rule unless somebody edits it afterwards.
FailsClosed ==
  \A p \in Servers : pc[p] = "serving" =>
    /\ ~doomed[p]
    /\ \A r \in known[p] :
         /\ Of(versions, r) # {}
         /\ flawed \/ MatchesLatest(rules[r], Of(versions, r))

\* Whatever is published or imported, by however many processes and wherever
\* they were interrupted, the stored tables do not keep a process from
\* starting: what a start finds inconsistent was so before versioning, was
\* edited by hand, or is the work of a preparation that ran meanwhile.
OnlyFlawedRefused ==
  \A p \in Servers : failure[p] = "evidence" => flawed \/ raced[p]

\* The seed data one process has imported alone is complete, stored once and
\* has its history when the import has ended.
SeedIntact ==
  ~disturbed /\ categories /\ (\A p \in Servers : ~Importing(p)) =>
    /\ cases = 1
    /\ \E r \in RuleIds : /\ rules[r] # None
                          /\ rules[r].content.code = SeedCode
                          /\ Of(versions, r) # {}

=============================================================================
