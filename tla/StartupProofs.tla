--------------------------- MODULE StartupProofs ---------------------------
(***************************************************************************)
(* Startup for any number of processes, rules, events and texts: the       *)
(* history of a rule is honest and stable, tables that were sound never    *)
(* refuse a process, tables that were not are never served, and an import  *)
(* nobody disturbed is complete.                                           *)
(***************************************************************************)
EXTENDS Startup, FiniteSetTheorems, TLAPS

Typed ==
  /\ rules \in [RuleIds -> Rule \cup {None}]
  /\ events \in Seq(Event) /\ Len(events) <= MaxEvents
  /\ versions \in SUBSET Version
  /\ categories \in BOOLEAN
  /\ cases \in Nat
  /\ pc \in [Servers -> Labels]
  /\ importing \in [Servers -> BOOLEAN]
  /\ unlinked \in [Servers -> SUBSET EventIds]
  /\ loaded \in [Servers -> [RuleIds -> Rule \cup {None}] \cup {None}]
  /\ at \in [Servers -> Nat]
  /\ insert \in [Servers -> SUBSET Version]
  /\ wrote \in [Servers -> SUBSET Version]
  /\ failure \in [Servers -> Failures \cup {None}]
  /\ known \in [Servers -> SUBSET RuleIds]
  /\ doomed \in [Servers -> BOOLEAN]
  /\ raced \in [Servers -> BOOLEAN]
  /\ flawed \in BOOLEAN
  /\ disturbed \in BOOLEAN

(***************************************************************************)
(* Histories of a rule, stored or about to be.                             *)
(***************************************************************************)
\* The publication event a rule names is the one event about it.
Origin(r) == IF rules[r].source = None THEN {} ELSE {rules[r].source}
Rooted(r) == rules[r] # None => EventsOf(r) = Origin(r)

\* A first version for the one event of the rule, or for no event where there
\* is none, and perhaps a second one for what the rule has become since.
History(vs, r) ==
  /\ \E v \in vs : v.version = 1
  /\ \A v, w \in vs : v.version = w.version => v = w
  /\ \A v \in vs :
       /\ v.rule = r
       /\ v.version = 2 => v.event = None
       /\ v.version = 1 => EventsOf(r) = IF v.event = None THEN {} ELSE {v.event}
       /\ SoundVersion(v)
  /\ rules[r] # None \/ EventsOf(r) # {}
  /\ Rooted(r)

Latest(vs, v) == v \in vs /\ \A w \in vs : w.version <= v.version

LEMMA FewCardinality ==
  /\ Cardinality({}) = 0
  /\ \A a : Cardinality({a}) = 1
  /\ \A a, b : a # b => Cardinality({a, b}) = 2
<1>1. ASSUME NEW a, NEW b, a # b
      PROVE  Cardinality({a, b}) = 2
  <2>1. IsFiniteSet({a}) /\ Cardinality({a}) = 1
    BY FS_Singleton
  <2>2. Cardinality({a} \cup {b}) = 2
    BY <1>1, <2>1, FS_AddElement
  <2>3. {a} \cup {b} = {a, b}
    OBVIOUS
  <2> QED
    BY <2>2, <2>3
<1> QED
  BY <1>1, FS_EmptySet, FS_Singleton

\* A history has one version or two, and its latest is numbered with them.
LEMMA HistoryCounted ==
  ASSUME NEW r, NEW vs \in SUBSET Version, History(vs, r)
  PROVE  /\ Cardinality(vs) \in 1..2
         /\ {v.version : v \in vs} = 1..Cardinality(vs)
         /\ \E v : Latest(vs, v) /\ v.version = Cardinality(vs)
<1>1. PICK a \in vs : a.version = 1
  BY DEF History
<1>2. \A v \in vs : v.version \in {1, 2}
  BY DEF Version
<1>3. CASE vs = {a}
  <2>1. Cardinality(vs) = 1
    BY <1>3, FewCardinality
  <2>2. {v.version : v \in vs} = {1} /\ 1..1 = {1}
    BY <1>1, <1>3
  <2>3. Latest(vs, a)
    BY <1>1, <1>3 DEF Latest
  <2> QED
    BY <1>1, <2>1, <2>2, <2>3
<1>4. CASE vs # {a}
  <2>1. PICK b \in vs : b # a
    BY <1>1, <1>4
  <2>2. b.version = 2
    BY <1>1, <1>2, <2>1 DEF History
  <2>3. vs = {a, b}
    BY <1>1, <1>2, <2>1, <2>2 DEF History
  <2>4. Cardinality(vs) = 2
    BY <2>1, <2>3, FewCardinality
  <2>5. {v.version : v \in vs} = {1, 2} /\ 1..2 = {1, 2}
    BY <1>1, <2>2, <2>3
  <2>6. Latest(vs, b)
    BY <1>1, <2>2, <2>3 DEF Latest
  <2> QED
    BY <2>2, <2>4, <2>5, <2>6
<1> QED
  BY <1>3, <1>4

(***************************************************************************)
(* The steps, as the proofs look at them.                                  *)
(***************************************************************************)
\* g is f but for the value x at p.
Becomes(f, g, p, x) == g[p] = x /\ \A q \in Servers \ {p} : g[q] = f[q]

stored == <<rules, events, versions>>
work   == <<unlinked, loaded, insert, wrote>>
notes  == <<known, doomed, raced, flawed, failure>>
seeds  == <<categories, cases, importing, disturbed>>

\* The steps of an import.
Imports(p) == Count(p) \/ CountFails(p) \/ Lookup(p) \/ CasePassedOver(p) \/ Create(p)

\* A step outside the preparations that leaves the rules alone, and the seed rule.
Idles(p) ==
  /\ Imports(p)
  /\ UNCHANGED <<stored, work, notes>>
  /\ pc[p] # "down" /\ ~Open(p) /\ ~Open(p)'
  /\ \A q \in Servers \ {p} : pc'[q] = pc[q] /\ at'[q] = at[q]

CreatesRule(p, r) ==
  /\ Imports(p)
  /\ FreeRule(r) /\ ~Stored(SeedCode)
  /\ \E text \in Texts :
       rules' = [rules EXCEPT ![r] = [content |-> [code |-> SeedCode, text |-> text],
                                      version |-> 1, source |-> None]]
  /\ UNCHANGED <<events, versions, work, notes>>
  /\ pc[p] # "down" /\ ~Open(p) /\ ~Open(p)'
  /\ \A q \in Servers \ {p} : pc'[q] = pc[q] /\ at'[q] = at[q]

Prepares(p) == ~Open(p) /\ Prepare(p) /\ (Begin(p) \/ PrepareImported(p))

TakesUp(p, e) ==
  /\ pc[p] = "backfill" /\ e \in unlinked[p]
  /\ Proven(e) /\ unlinked[p] \cap EventsOf(events[e].rule) = {e}
  /\ Becomes(insert, insert', p, Backfilled(e))
  /\ Becomes(unlinked, unlinked', p, unlinked[p] \ {e})
  /\ Becomes(pc, pc', p, "insert")
  /\ UNCHANGED <<stored, notes, seeds, at, loaded, wrote>>

LoadedRule(p, r) ==
  IF rules[r] # None /\ \E v \in Of(wrote[p], r) : v.version = 2
  THEN [rules[r] EXCEPT !.version = 2] ELSE rules[r]

Loads(p) ==
  /\ pc[p] = "backfill" /\ unlinked[p] = {}
  /\ Becomes(loaded, loaded', p, [r \in RuleIds |-> LoadedRule(p, r)])
  /\ Becomes(pc, pc', p, "baseline")
  /\ UNCHANGED <<stored, notes, seeds, at, unlinked, insert, wrote>>

Records(p, r) ==
  /\ pc[p] = "baseline" /\ r = at[p] /\ r \in RuleIds
  /\ loaded[p][r] # None /\ loaded[p][r].source = None
  /\ Of(versions \cup wrote[p], r) = {}
  /\ Becomes(insert, insert', p, {[rule |-> r, version |-> 1,
       content |-> loaded[p][r].content, event |-> None]})
  /\ Becomes(pc, pc', p, "insert")
  /\ Becomes(at, at', p, r + 1)
  /\ UNCHANGED <<stored, notes, seeds, unlinked, loaded, wrote>>

Passes(p, r) ==
  /\ pc[p] = "baseline" /\ r = at[p] /\ r \in RuleIds
  /\ loaded[p][r] # None =>
       MatchesLatest(loaded[p][r], Of(versions \cup wrote[p], r))
  /\ Becomes(at, at', p, r + 1)
  /\ UNCHANGED <<stored, notes, seeds, work, pc>>

Inserts(p) ==
  /\ pc[p] = "insert"
  /\ \A q \in Servers : ~WaitsFor(p, q)
  /\ Keys(insert[p]) \cap Keys(versions) = {}
  /\ Becomes(wrote, wrote', p, wrote[p] \cup insert[p])
  /\ Becomes(insert, insert', p, {})
  /\ Becomes(pc, pc', p, IF loaded[p] = None THEN "backfill" ELSE "baseline")
  /\ UNCHANGED <<stored, notes, seeds, at, unlinked, loaded>>

Drops(p) ==
  /\ Becomes(unlinked, unlinked', p, {})
  /\ Becomes(loaded, loaded', p, None)
  /\ Becomes(insert, insert', p, {})
  /\ Becomes(wrote, wrote', p, {})
  /\ Becomes(at, at', p, 1)

Commits(p) ==
  /\ pc[p] = "baseline" /\ at[p] = MaxRules + 1
  /\ versions' = versions \cup wrote[p]
  /\ rules' = [r \in RuleIds |-> Numbered(r, wrote[p])]
  /\ Drops(p)
  /\ Becomes(pc, pc', p, IF importing[p] THEN "serving" ELSE "count")
  /\ raced' = [q \in Servers |->
                 q # p /\ (raced[q] \/ (Open(q) /\ wrote[p] # {}))]
  /\ Becomes(failure, failure', p, None)
  /\ Becomes(importing, importing', p, FALSE)
  /\ UNCHANGED <<events, known, doomed, flawed, categories, cases, disturbed>>

\* What the process has read refuses it.
Refutes(p) ==
  \/ /\ pc[p] = "backfill"
     /\ \E e \in unlinked[p] :
          ~(Proven(e) /\ unlinked[p] \cap EventsOf(events[e].rule) = {e})
  \/ /\ pc[p] = "baseline" /\ at[p] \in RuleIds
     /\ loaded[p][at[p]] # None
     /\ IF Of(versions \cup wrote[p], at[p]) = {}
        THEN loaded[p][at[p]].source # None
        ELSE ~MatchesLatest(loaded[p][at[p]], Of(versions \cup wrote[p], at[p]))

Ends(p) ==
  /\ \E why \in {"database", "evidence", None} :
       End(p, why) /\ (why = "evidence" => Refutes(p))
  /\ UNCHANGED <<stored, flawed>>
  /\ Drops(p)
  /\ Becomes(pc, pc', p, "down")

LEMMA EndEnds ==
  ASSUME Typed, NEW p \in Servers, NEW why \in {"database", "evidence", None},
         End(p, why), why = "evidence" => Refutes(p)
  PROVE  Ends(p)
<1>1. Drops(p) /\ Becomes(pc, pc', p, "down")
  BY DEF End, Leave, Goto, Typed, Drops, Becomes
<1>2. UNCHANGED <<stored, flawed>>
  BY Zenon DEF End, tables, stored
<1> QED
  BY <1>1, <1>2 DEF Ends

\* The kinds of steps.
Moves(p) ==
  \/ Idles(p) \/ Prepares(p) \/ Loads(p) \/ Inserts(p) \/ Commits(p) \/ Ends(p)
  \/ \E r \in RuleIds : CreatesRule(p, r) \/ Records(p, r) \/ Passes(p, r)
  \/ \E e \in EventIds : TakesUp(p, e)
  \/ \E draft \in Content : Publish(p, draft)

Kinds ==
  \/ \E p \in Servers : Moves(p)
  \/ \E r \in RuleIds, text \in Texts : Edit(r, text)

LEMMA BackfillKinds ==
  ASSUME Typed, NEW p \in Servers, NEW e \in EventIds, Backfill(p, e)
  PROVE  TakesUp(p, e) \/ Ends(p)
<1>1. CASE Proven(e) /\ unlinked[p] \cap EventsOf(events[e].rule) = {e}
  <2>1. /\ insert' = [insert EXCEPT ![p] = Backfilled(e)]
        /\ unlinked' = [unlinked EXCEPT ![p] = @ \ {e}]
        /\ pc' = [pc EXCEPT ![p] = "insert"]
        /\ UNCHANGED <<stored, notes, seeds, at, loaded, wrote>>
        /\ pc[p] = "backfill" /\ e \in unlinked[p]
    BY <1>1 DEF Backfill, Goto, tables, history, stored, notes, seeds
  <2> QED
    BY <1>1, <2>1 DEF TakesUp, Typed, Becomes
<1>2. CASE ~(Proven(e) /\ unlinked[p] \cap EventsOf(events[e].rule) = {e})
  <2>1. End(p, "evidence") /\ pc[p] = "backfill" /\ e \in unlinked[p]
    BY <1>2, Zenon DEF Backfill
  <2>2. Refutes(p)
    BY <1>2, <2>1 DEF Refutes
  <2> QED
    BY <2>1, <2>2, EndEnds
<1> QED
  BY <1>1, <1>2

LEMMA LoadKinds ==
  ASSUME Typed, NEW p \in Servers, LoadRules(p)
  PROVE  Loads(p)
<1>1. /\ loaded' = [loaded EXCEPT ![p] = [r \in RuleIds |-> LoadedRule(p, r)]]
      /\ pc' = [pc EXCEPT ![p] = "baseline"]
      /\ UNCHANGED <<stored, notes, seeds, at, unlinked, insert, wrote>>
      /\ pc[p] = "backfill" /\ unlinked[p] = {}
  BY Zenon DEF LoadRules, LoadedRule, Goto, tables, history, stored, notes, seeds
<1> QED
  BY <1>1 DEF Loads, Typed, Becomes

LEMMA BaselineKinds ==
  ASSUME Typed, NEW p \in Servers, Baseline(p)
  PROVE  \E r \in RuleIds : Records(p, r) \/ Passes(p, r) \/ Ends(p)
<1> DEFINE r == at[p]
           vs == versions \cup wrote[p]
<1>0. pc[p] = "baseline" /\ r \in RuleIds
  BY DEF Baseline
<1>1. CASE /\ loaded[p][r] # None /\ Of(vs, r) = {}
           /\ loaded[p][r].source = None
  <2>1. /\ insert' = [insert EXCEPT ![p] =
              {[rule |-> r, version |-> Cardinality(Of(vs, r)) + 1,
                content |-> loaded[p][r].content, event |-> None]}]
        /\ pc' = [pc EXCEPT ![p] = "insert"]
        /\ at' = [at EXCEPT ![p] = r + 1]
        /\ UNCHANGED <<stored, notes, seeds, unlinked, loaded, wrote>>
    BY <1>1, Zenon DEF Baseline, NeedsBaseline, Goto, tables, history, stored, notes, seeds
  <2>2. Cardinality(Of(vs, r)) + 1 = 1
    BY <1>1, FewCardinality
  <2> QED
    BY <1>0, <1>1, <2>1, <2>2 DEF Records, Typed, Becomes
<1>2. CASE \/ loaded[p][r] = None
           \/ Of(vs, r) # {} /\ MatchesLatest(loaded[p][r], Of(vs, r))
  <2>1. at' = [at EXCEPT ![p] = r + 1] /\ UNCHANGED <<stored, notes, seeds, work, pc>>
    BY <1>2, Zenon DEF Baseline, NeedsBaseline, Agrees, tables, history, stored, notes, seeds, work
  <2> QED
    BY <1>0, <1>2, <2>1 DEF Passes, Typed, Becomes
<1>3. CASE /\ loaded[p][r] # None
           /\ IF Of(vs, r) = {} THEN loaded[p][r].source # None
              ELSE ~MatchesLatest(loaded[p][r], Of(vs, r))
  <2>1. End(p, "evidence")
    BY <1>3, Zenon DEF Baseline, NeedsBaseline, Agrees
  <2>2. Refutes(p)
    BY <1>0, <1>3 DEF Refutes
  <2> QED
    BY <1>0, <2>1, <2>2, EndEnds
<1> QED
  BY <1>1, <1>2, <1>3, Zenon

LEMMA InsertKinds ==
  ASSUME Typed, NEW p \in Servers, Insert(p)
  PROVE  Inserts(p) \/ Ends(p)
<1>1. CASE Keys(insert[p]) \cap Keys(versions) = {}
  <2>1. /\ wrote' = [wrote EXCEPT ![p] = @ \cup insert[p]]
        /\ insert' = [insert EXCEPT ![p] = {}]
        /\ pc' = [pc EXCEPT ![p] = IF loaded[p] = None THEN "backfill" ELSE "baseline"]
        /\ UNCHANGED <<stored, notes, seeds, at, unlinked, loaded>>
        /\ pc[p] = "insert" /\ \A q \in Servers : ~WaitsFor(p, q)
    BY <1>1, Zenon DEF Insert, Goto, tables, history, stored, notes, seeds
  <2> QED
    BY <1>1, <2>1 DEF Inserts, Typed, Becomes
<1>2. CASE Keys(insert[p]) \cap Keys(versions) # {}
  <2>1. End(p, "database")
    BY <1>2, Zenon DEF Insert
  <2> QED
    BY <2>1, EndEnds
<1> QED
  BY <1>1, <1>2

LEMMA CommitKinds ==
  ASSUME Typed, NEW p \in Servers, Commit(p)
  PROVE  Commits(p)
<1>1. /\ Drops(p) /\ Becomes(failure, failure', p, None)
      /\ Becomes(importing, importing', p, FALSE)
      /\ Becomes(pc, pc', p, IF importing[p] THEN "serving" ELSE "count")
  BY DEF Commit, Leave, Goto, Typed, Drops, Becomes
<1> QED
  BY <1>1, Zenon DEF Commit, Commits

\* A process that does not prepare a history goes to l and stays outside.
LEMMA GoesOn ==
  ASSUME Typed, NEW p \in Servers, NEW l \in {"count", "serving", "lookup", "create"},
         ~Open(p), Goto(p, l),
         UNCHANGED at \/ at' = [at EXCEPT ![p] = @ + 1]
  PROVE  /\ ~Open(p)'
         /\ \A q \in Servers \ {p} : pc'[q] = pc[q] /\ at'[q] = at[q]
BY DEF Goto, Typed, Open

LEMMA CreateKinds ==
  ASSUME Typed, NEW p \in Servers, Create(p)
  PROVE  Idles(p) \/ Ends(p) \/ \E r \in RuleIds : CreatesRule(p, r)
<1> DEFINE seed == Seeds[at[p]]
<1>1. CASE End(p, "database")
  BY <1>1, EndEnds
<1>2. CASE /\ \/ seed = "category" /\ CreateCategory(p)
              \/ seed = "rule" /\ \E text \in Texts : CreateRule(p, text)
              \/ seed = "case" /\ CreateCase(p)
           /\ Advance(p)
           /\ UNCHANGED <<events, versions, disturbed>>
  <2>1. ~Open(p) /\ pc[p] # "down"
    BY DEF Create, Open
  <2>2. Goto(p, "lookup") /\ at' = [at EXCEPT ![p] = @ + 1]
    BY <1>2, Zenon DEF Advance
  <2>3. /\ ~Open(p)'
        /\ \A q \in Servers \ {p} : pc'[q] = pc[q] /\ at'[q] = at[q]
    BY <2>1, <2>2, GoesOn
  <2>4. UNCHANGED <<events, versions, work, notes>>
    BY <1>2, Zenon DEF Advance, work, notes
  <2>5. CASE UNCHANGED rules
    <3>1. UNCHANGED <<stored, work, notes>>
      BY <2>4, <2>5, Zenon DEF stored
    <3> QED
      BY <2>1, <2>3, <3>1, Zenon DEF Idles, Imports
  <2>6. CASE \E text \in Texts : CreateRule(p, text)
    BY <2>1, <2>3, <2>4, <2>6, Zenon DEF CreateRule, CreatesRule, Imports
  <2> QED
    BY <1>2, <2>5, <2>6, Zenon DEF CreateCategory, CreateCase
<1> QED
  BY <1>1, <1>2, Zenon DEF Create

LEMMA ImportKinds ==
  ASSUME Typed, NEW p \in Servers,
         Count(p) \/ CountFails(p) \/ Lookup(p) \/ CasePassedOver(p)
  PROVE  Idles(p)
<1>1. ~Open(p) /\ pc[p] # "down"
  BY DEF Count, CountFails, Lookup, CasePassedOver, Open
<1>2. /\ UNCHANGED <<stored, work, notes>>
      /\ \E l \in {"count", "serving", "lookup", "create"} : Goto(p, l)
      /\ UNCHANGED at \/ at' = [at EXCEPT ![p] = @ + 1]
  <2>1. CASE Import(p)
    BY <2>1, Zenon DEF Import, tables, stored, work, notes
  <2>2. CASE Advance(p) /\ UNCHANGED tables
    BY <2>2, Zenon DEF Advance, tables, stored, work, notes
  <2>3. CASE /\ Goto(p, "create") \/ Goto(p, "serving")
             /\ UNCHANGED <<tables, importing, unlinked, loaded, at, insert, wrote,
                            failure, history>>
    BY <2>3, Zenon DEF tables, history, stored, work, notes
  <2> QED
    BY <2>1, <2>2, <2>3, Zenon DEF Count, CountFails, Lookup, CasePassedOver
<1> QED
  BY <1>1, <1>2, GoesOn, Zenon DEF Idles, Imports

LEMMA StepKinds == Typed /\ Next => Kinds
<1> SUFFICES ASSUME Typed, Next
             PROVE  Kinds
  OBVIOUS
<1>1. ASSUME NEW p \in Servers,
             Deadlock(p) \/ DatabaseFails(p) \/ Stop(p)
      PROVE  Ends(p)
  <2>1. \E why \in {"database", None} : End(p, why)
    BY <1>1, Zenon DEF Deadlock, DatabaseFails, Stop
  <2> QED
    BY <2>1, EndEnds, NoneAssumption DEF Failures
<1>2. ASSUME NEW p \in Servers, Begin(p) \/ PrepareImported(p)
      PROVE  Prepares(p)
  <2>1. ~Open(p)
    BY <1>2 DEF Begin, PrepareImported, Open
  <2>2. CASE Begin(p)
    BY <2>1, <2>2, Zenon DEF Prepares, Begin
  <2>3. CASE PrepareImported(p)
    BY <2>1, <2>3, Zenon DEF Prepares, PrepareImported
  <2> QED
    BY <1>2, <2>2, <2>3
<1>3. ASSUME NEW p \in Servers, NEW e \in EventIds, Backfill(p, e)
      PROVE  Kinds
  BY <1>3, BackfillKinds, Zenon DEF Kinds, Moves
<1>4. ASSUME NEW p \in Servers, LoadRules(p) \/ Baseline(p) \/ Insert(p) \/ Commit(p)
      PROVE  Kinds
  BY <1>4, LoadKinds, BaselineKinds, InsertKinds, CommitKinds, Zenon DEF Kinds, Moves
<1>5. ASSUME NEW p \in Servers,
             \/ Count(p) \/ CountFails(p) \/ Lookup(p) \/ CasePassedOver(p)
             \/ Create(p)
      PROVE  Kinds
  BY <1>5, ImportKinds, CreateKinds, Zenon DEF Kinds, Moves
<1> QED
  BY <1>1, <1>2, <1>3, <1>4, <1>5, Zenon DEF Next, Kinds, Moves

(***************************************************************************)
(* Types.                                                                  *)
(***************************************************************************)
\* What a process has under way, by its next statement.
Phases ==
  \A p \in Servers :
    /\ insert[p] # {} => pc[p] = "insert"
    /\ wrote[p] # {} => Open(p)
    /\ unlinked[p] # {} => Open(p) /\ loaded[p] = None
    /\ pc[p] = "backfill" => loaded[p] = None
    /\ pc[p] = "baseline" => loaded[p] # None
    /\ loaded[p] # None => Open(p)
    /\ unlinked[p] \subseteq DOMAIN events

LEMMA EventsIndexed ==
  ASSUME Typed
  PROVE  /\ Len(events) \in Nat /\ DOMAIN events = 1..Len(events)
         /\ DOMAIN events \subseteq EventIds
         /\ \A e \in DOMAIN events : events[e] \in Event
<1> HIDE DEF Event
<1>1. /\ Len(events) \in Nat /\ DOMAIN events = 1..Len(events)
      /\ \A e \in DOMAIN events : events[e] \in Event
      /\ Len(events) <= MaxEvents
  BY DEF Typed
<1>2. MaxEvents \in Nat
  BY StartupAssumption
<1> QED
  BY <1>1, <1>2 DEF EventIds

LEMMA EndTyped ==
  ASSUME Typed, NEW p \in Servers, NEW why \in {"database", "evidence", None}, End(p, why)
  PROVE  Typed'
<1>1. UNCHANGED <<rules, events, versions, categories, cases, flawed>>
  BY Zenon DEF End, tables
<1>2. /\ pc' \in [Servers -> Labels]
      /\ failure' \in [Servers -> Failures \cup {None}]
      /\ unlinked' \in [Servers -> SUBSET EventIds]
      /\ loaded' \in [Servers -> [RuleIds -> Rule \cup {None}] \cup {None}]
      /\ at' \in [Servers -> Nat]
      /\ insert' \in [Servers -> SUBSET Version]
      /\ wrote' \in [Servers -> SUBSET Version]
  BY DEF Typed, End, Leave, Goto, Labels, Failures
<1>3. /\ importing' \in [Servers -> BOOLEAN]
      /\ known' \in [Servers -> SUBSET RuleIds]
      /\ doomed' \in [Servers -> BOOLEAN]
      /\ raced' \in [Servers -> BOOLEAN]
      /\ disturbed' \in BOOLEAN
  BY DEF Typed, End, Importing
<1> QED
  BY <1>1, <1>2, <1>3 DEF Typed

LEMMA PrepareTyped ==
  ASSUME Typed, NEW p \in Servers, Prepare(p)
  PROVE  Typed'
<1>1. UNCHANGED <<rules, events, versions, categories, cases, importing, loaded,
                  insert, wrote, flawed, disturbed>>
  BY Zenon DEF Prepare, tables
<1>2. DOMAIN events \subseteq EventIds
  BY EventsIndexed
<1>3. /\ pc' \in [Servers -> Labels]
      /\ failure' \in [Servers -> Failures \cup {None}]
      /\ unlinked' \in [Servers -> SUBSET EventIds]
      /\ at' \in [Servers -> Nat]
      /\ known' \in [Servers -> SUBSET RuleIds]
      /\ doomed' \in [Servers -> BOOLEAN]
      /\ raced' \in [Servers -> BOOLEAN]
  BY <1>2 DEF Typed, Prepare, Goto, Labels
<1> QED
  BY <1>1, <1>3 DEF Typed

LEMMA BackfilledTyped ==
  ASSUME Typed, NEW e \in DOMAIN events
  PROVE  Backfilled(e) \in SUBSET Version
<1>1. events[e] \in Event /\ e \in EventIds
  BY EventsIndexed
<1>2. events[e].rule \in RuleIds /\ events[e].draft \in Content
  BY <1>1 DEF Event
<1>3. rules[events[e].rule] # None => rules[events[e].rule].content \in Content
  BY <1>2 DEF Typed, Rule
<1> QED
  BY <1>1, <1>2, <1>3 DEF Backfilled, Version

LEMMA LoadedTyped ==
  ASSUME Typed, NEW p \in Servers
  PROVE  [r \in RuleIds |-> LoadedRule(p, r)] \in [RuleIds -> Rule \cup {None}]
<1> SUFFICES ASSUME NEW r \in RuleIds
             PROVE  LoadedRule(p, r) \in Rule \cup {None}
  OBVIOUS
<1>1. rules[r] \in Rule \cup {None}
  BY DEF Typed
<1>2. rules[r] # None => [rules[r] EXCEPT !.version = 2] \in Rule
  BY <1>1 DEF Rule
<1> QED
  BY <1>1, <1>2 DEF LoadedRule

LEMMA NumberedTyped ==
  ASSUME Typed, NEW r \in RuleIds, NEW vs, Of(vs, r) # {} => Cardinality(Of(vs, r)) \in 1..2
  PROVE  Numbered(r, vs) \in Rule \cup {None}
<1>1. rules[r] \in Rule \cup {None}
  BY DEF Typed
<1>2. ASSUME rules[r] # None, NEW n \in 1..2
      PROVE  [rules[r] EXCEPT !.version = n] \in Rule
  BY <1>1, <1>2 DEF Rule
<1> QED
  BY <1>1, <1>2 DEF Numbered

\* A step that leaves the tables and the histories alone, apart from what a
\* process has under way.
LEMMA WorkTyped ==
  ASSUME Typed, UNCHANGED <<tables, importing, failure, history>>,
         pc' \in [Servers -> Labels], unlinked' \in [Servers -> SUBSET EventIds],
         loaded' \in [Servers -> [RuleIds -> Rule \cup {None}] \cup {None}],
         at' \in [Servers -> Nat], insert' \in [Servers -> SUBSET Version],
         wrote' \in [Servers -> SUBSET Version]
  PROVE  Typed'
BY DEF Typed, tables, history

LEMMA PreparationTyped ==
  ASSUME Typed, Phases, NEW p \in Servers,
         \/ \E e \in EventIds : Backfill(p, e)
         \/ LoadRules(p) \/ Baseline(p) \/ Insert(p)
  PROVE  Typed'
<1>1. ASSUME NEW e \in EventIds, Backfill(p, e)
      PROVE  Typed'
  <2>1. CASE End(p, "evidence")
    BY <2>1, EndTyped
  <2>2. CASE /\ insert' = [insert EXCEPT ![p] = Backfilled(e)]
             /\ unlinked' = [unlinked EXCEPT ![p] = @ \ {e}]
             /\ Goto(p, "insert")
             /\ UNCHANGED <<tables, importing, loaded, at, wrote, failure, history>>
             /\ Proven(e) /\ unlinked[p] \cap EventsOf(events[e].rule) = {e}
    <3>1. e \in DOMAIN events
      BY <2>2 DEF EventsOf
    <3>2. Backfilled(e) \in SUBSET Version
      BY <3>1, BackfilledTyped
    <3>3. /\ pc' \in [Servers -> Labels]
          /\ unlinked' \in [Servers -> SUBSET EventIds]
          /\ insert' \in [Servers -> SUBSET Version]
          /\ loaded' = loaded /\ at' = at /\ wrote' = wrote
      BY <2>2, <3>2 DEF Typed, Goto, Labels
    <3>4. UNCHANGED <<tables, importing, failure, history>>
      BY <2>2
    <3> QED
      BY <3>3, <3>4, WorkTyped DEF Typed
  <2> QED
    BY <1>1, <2>1, <2>2, Zenon DEF Backfill
<1>2. CASE LoadRules(p)
  <2>1. /\ loaded' = [loaded EXCEPT ![p] = [r \in RuleIds |-> LoadedRule(p, r)]]
        /\ Goto(p, "baseline")
        /\ UNCHANGED <<tables, importing, unlinked, at, insert, wrote, failure, history>>
    BY <1>2, Zenon DEF LoadRules, LoadedRule
  <2>2. /\ pc' \in [Servers -> Labels]
        /\ loaded' \in [Servers -> [RuleIds -> Rule \cup {None}] \cup {None}]
        /\ unlinked' = unlinked /\ at' = at /\ insert' = insert /\ wrote' = wrote
    BY <2>1, LoadedTyped DEF Typed, Goto, Labels
  <2>3. UNCHANGED <<tables, importing, failure, history>>
    BY <2>1
  <2> QED
    BY <2>2, <2>3, WorkTyped DEF Typed
<1>3. CASE Baseline(p)
  <2>1. at[p] \in RuleIds
    BY <1>3 DEF Baseline
  <2> DEFINE r == at[p]
             vs == versions \cup wrote[p]
  <2>2. CASE End(p, "evidence")
    BY <2>2, EndTyped
  <2>3. CASE /\ loaded[p][r] # None /\ Of(vs, r) = {}
             /\ insert' = [insert EXCEPT ![p] =
                  {[rule |-> r, version |-> Cardinality(Of(vs, r)) + 1,
                    content |-> loaded[p][r].content, event |-> None]}]
             /\ Goto(p, "insert")
             /\ at' = [at EXCEPT ![p] = r + 1]
             /\ UNCHANGED <<tables, importing, unlinked, loaded, wrote, failure, history>>
             /\ pc[p] = "baseline"
    <3>1. Cardinality(Of(vs, r)) = 0
      BY <2>3, FewCardinality, Zenon
    <3>2. loaded[p][r] \in Rule
      BY <2>1, <2>3 DEF Typed, Phases
    <3>3. [rule |-> r, version |-> 1, content |-> loaded[p][r].content, event |-> None]
            \in Version
      BY <2>1, <3>2 DEF Version, Rule
    <3>4. /\ pc' \in [Servers -> Labels]
          /\ insert' \in [Servers -> SUBSET Version]
          /\ at' \in [Servers -> Nat]
          /\ unlinked' = unlinked /\ loaded' = loaded /\ wrote' = wrote
      BY <2>1, <2>3, <3>1, <3>3 DEF Typed, Goto, Labels, RuleIds
    <3>5. UNCHANGED <<tables, importing, failure, history>>
      BY <2>3
    <3> QED
      BY <3>4, <3>5, WorkTyped DEF Typed
  <2>4. CASE /\ at' = [at EXCEPT ![p] = r + 1]
             /\ UNCHANGED <<tables, pc, importing, unlinked, loaded, insert,
                             wrote, failure, history>>
    <3>1. /\ at' \in [Servers -> Nat]
          /\ pc' = pc /\ unlinked' = unlinked /\ loaded' = loaded
          /\ insert' = insert /\ wrote' = wrote
      BY <2>1, <2>4 DEF Typed, RuleIds
    <3>2. UNCHANGED <<tables, importing, failure, history>>
      BY <2>4
    <3> QED
      BY <3>1, <3>2, WorkTyped DEF Typed
  <2> QED
    BY <1>3, <2>2, <2>3, <2>4, Zenon DEF Baseline, NeedsBaseline
<1>4. CASE Insert(p)
  <2>1. CASE End(p, "database")
    BY <2>1, EndTyped
  <2>2. CASE /\ wrote' = [wrote EXCEPT ![p] = @ \cup insert[p]]
             /\ insert' = [insert EXCEPT ![p] = {}]
             /\ Goto(p, IF loaded[p] = None THEN "backfill" ELSE "baseline")
             /\ UNCHANGED <<tables, importing, unlinked, loaded, at, failure, history>>
    <3>1. /\ pc' \in [Servers -> Labels]
          /\ insert' \in [Servers -> SUBSET Version]
          /\ wrote' \in [Servers -> SUBSET Version]
          /\ unlinked' = unlinked /\ loaded' = loaded /\ at' = at
      BY <2>2 DEF Typed, Goto, Labels
    <3>2. UNCHANGED <<tables, importing, failure, history>>
      BY <2>2
    <3> QED
      BY <3>1, <3>2, WorkTyped DEF Typed
  <2> QED
    BY <1>4, <2>1, <2>2, Zenon DEF Insert
<1> QED
  BY <1>1, <1>2, <1>3, <1>4

\* What has been written is a history, rule by rule.
WroteHistories ==
  \A p \in Servers, r \in RuleIds :
    Of(wrote[p], r) # {} => History(Of(wrote[p], r), r)

LEMMA WroteCounted ==
  ASSUME Typed, WroteHistories, NEW p \in Servers, NEW r \in RuleIds,
         Of(wrote[p], r) # {}
  PROVE  Cardinality(Of(wrote[p], r)) \in 1..2
<1>1. History(Of(wrote[p], r), r)
  BY DEF WroteHistories
<1>2. Of(wrote[p], r) \in SUBSET Version
  BY DEF Of, Typed
<1> QED
  BY <1>1, <1>2, HistoryCounted

LEMMA CommitTyped ==
  ASSUME Typed, WroteHistories, NEW p \in Servers, Commit(p)
  PROVE  Typed'
<1>1. \A r \in RuleIds : Of(wrote[p], r) # {} => Cardinality(Of(wrote[p], r)) \in 1..2
  BY WroteCounted
<1>2. rules' \in [RuleIds -> Rule \cup {None}]
  <2>1. rules' = [r \in RuleIds |-> Numbered(r, wrote[p])]
    BY DEF Commit
  <2>2. \A r \in RuleIds : Numbered(r, wrote[p]) \in Rule \cup {None}
    BY <1>1, NumberedTyped
  <2> QED
    BY <2>1, <2>2
<1>3. versions' \in SUBSET Version
  BY DEF Commit, Typed
<1>4. UNCHANGED <<events, categories, cases, known, doomed, flawed, disturbed>>
  BY Zenon DEF Commit
<1>5. /\ pc' \in [Servers -> Labels]
      /\ failure' \in [Servers -> Failures \cup {None}]
      /\ unlinked' \in [Servers -> SUBSET EventIds]
      /\ loaded' \in [Servers -> [RuleIds -> Rule \cup {None}] \cup {None}]
      /\ at' \in [Servers -> Nat]
      /\ insert' \in [Servers -> SUBSET Version]
      /\ wrote' \in [Servers -> SUBSET Version]
  BY DEF Typed, Commit, Leave, Goto, Labels
<1>6. importing' \in [Servers -> BOOLEAN] /\ raced' \in [Servers -> BOOLEAN]
  BY DEF Typed, Commit, Open
<1> QED
  BY <1>2, <1>3, <1>4, <1>5, <1>6 DEF Typed

\* A step that changes the tables or the seed data, but no preparation.
LEMMA TablesTyped ==
  ASSUME Typed,
         UNCHANGED <<unlinked, loaded, insert, wrote, failure, known, doomed, raced>>,
         rules' \in [RuleIds -> Rule \cup {None}], versions' \in SUBSET Version,
         events' \in Seq(Event) /\ Len(events') <= MaxEvents,
         categories' \in BOOLEAN, cases' \in Nat,
         pc' \in [Servers -> Labels], importing' \in [Servers -> BOOLEAN],
         at' \in [Servers -> Nat], flawed' \in BOOLEAN, disturbed' \in BOOLEAN
  PROVE  Typed'
BY DEF Typed

\* The stored tables keep their types when the seed data is imported.
LEMMA AdvanceTyped ==
  ASSUME Typed, NEW p \in Servers, Advance(p), UNCHANGED <<events, versions>>,
         rules' \in [RuleIds -> Rule \cup {None}],
         categories' \in BOOLEAN, cases' \in Nat, disturbed' \in BOOLEAN
  PROVE  Typed'
<1>1. UNCHANGED <<importing, unlinked, loaded, insert, wrote, failure, known,
                  doomed, raced, flawed>>
  BY Zenon DEF Advance
<1>2. pc' \in [Servers -> Labels] /\ at' \in [Servers -> Nat]
  BY DEF Typed, Advance, Goto, Labels
<1> QED
  BY <1>1, <1>2, TablesTyped DEF Typed

LEMMA SeedTyped ==
  ASSUME NEW text \in Texts
  PROVE  [content |-> [code |-> SeedCode, text |-> text],
          version |-> 1, source |-> None] \in Rule
BY DEF Rule, Content, Codes

LEMMA ImportTyped ==
  ASSUME Typed, NEW p \in Servers,
         \/ Count(p) \/ CountFails(p) \/ Lookup(p) \/ CasePassedOver(p) \/ Create(p)
  PROVE  Typed'
<1>1. CASE Import(p)
  <2>1. UNCHANGED <<tables, unlinked, loaded, at, insert, wrote, failure,
                    known, doomed, raced, flawed>>
    BY <1>1, Zenon DEF Import
  <2>2. /\ pc' \in [Servers -> Labels] /\ importing' \in [Servers -> BOOLEAN]
        /\ disturbed' \in BOOLEAN
    BY <1>1 DEF Import, Goto, Typed, Labels, Importing
  <2> QED
    BY <2>1, <2>2, TablesTyped DEF Typed, tables
<1>2. CASE Advance(p) /\ UNCHANGED tables /\ disturbed' \in BOOLEAN
  BY <1>2, AdvanceTyped DEF Typed, tables
<1>3. CASE /\ Goto(p, "create") \/ Goto(p, "serving")
           /\ UNCHANGED <<tables, importing, unlinked, loaded, at, insert, wrote,
                          failure, history>>
  <2>1. pc' \in [Servers -> Labels]
    BY <1>3 DEF Goto, Typed, Labels
  <2> QED
    BY <1>3, <2>1 DEF Typed, tables, history
<1>4. CASE Create(p)
  <2>1. CASE End(p, "database")
    BY <2>1, EndTyped
  <2>2. CASE Advance(p) /\ UNCHANGED <<events, versions, disturbed>> /\ CreateCategory(p)
    BY <2>2, AdvanceTyped DEF CreateCategory, Typed
  <2>3. CASE Advance(p) /\ UNCHANGED <<events, versions, disturbed>> /\ CreateCase(p)
    BY <2>3, AdvanceTyped DEF CreateCase, Typed
  <2>4. ASSUME NEW text \in Texts, CreateRule(p, text), Advance(p),
               UNCHANGED <<events, versions, disturbed>>
        PROVE  Typed'
    <3> DEFINE seed == [content |-> [code |-> SeedCode, text |-> text],
                        version |-> 1, source |-> None]
    <3>1. seed \in Rule
      BY SeedTyped
    <3>2. PICK r \in RuleIds : rules' = [rules EXCEPT ![r] = seed]
      BY <2>4 DEF CreateRule
    <3> HIDE DEF seed
    <3>3. rules' \in [RuleIds -> Rule \cup {None}]
      BY <3>1, <3>2 DEF Typed
    <3>4. UNCHANGED <<categories, cases>>
      BY <2>4, Zenon DEF CreateRule
    <3> QED
      BY <2>4, <3>3, <3>4, AdvanceTyped DEF Typed
  <2> QED
    BY <1>4, <2>1, <2>2, <2>3, <2>4, Zenon DEF Create
<1>5. UNCHANGED disturbed \/ disturbed' = TRUE => disturbed' \in BOOLEAN
  BY DEF Typed
<1>6. UNCHANGED <<tables, disturbed>> => UNCHANGED tables /\ UNCHANGED disturbed
  OBVIOUS
<1> QED
  BY <1>1, <1>2, <1>3, <1>4, <1>5, <1>6, Zenon
     DEF Count, CountFails, Lookup, CasePassedOver

LEMMA PublishTyped ==
  ASSUME Typed, NEW p \in Servers, NEW draft \in Content, Publish(p, draft)
  PROVE  Typed'
<1> DEFINE e == Len(events) + 1
<1>1. Len(events) \in Nat /\ Len(events) < MaxEvents
  BY EventsIndexed DEF Publish
<1>2. e \in EventIds
  BY <1>1, StartupAssumption DEF EventIds
<1>3. PICK r \in RuleIds :
        /\ rules' = [rules EXCEPT ![r] =
                [content |-> draft, version |-> 1, source |-> e]]
        /\ events' = Append(events, [rule |-> r, draft |-> draft, sound |-> TRUE])
        /\ versions' = versions \cup
                {[rule |-> r, version |-> 1, content |-> draft, event |-> e]}
  BY DEF Publish
<1> HIDE DEF e
<1>4. rules' \in [RuleIds -> Rule \cup {None}]
  <2>1. [content |-> draft, version |-> 1, source |-> e] \in Rule
    BY <1>2 DEF Rule
  <2> QED
    BY <1>3, <2>1 DEF Typed
<1>5. versions' \in SUBSET Version
  BY <1>2, <1>3 DEF Typed, Version
<1>6. events' \in Seq(Event) /\ Len(events') <= MaxEvents
  <2>1. [rule |-> r, draft |-> draft, sound |-> TRUE] \in Event
    BY DEF Event
  <2> HIDE DEF Event
  <2>2. MaxEvents \in Nat
    BY StartupAssumption
  <2> QED
    BY <1>1, <1>3, <2>1, <2>2 DEF Typed
<1>7. UNCHANGED <<categories, cases, process, history>>
  BY Zenon DEF Publish
<1> QED
  BY <1>4, <1>5, <1>6, <1>7, TablesTyped DEF Typed, process, history

LEMMA EditTyped ==
  ASSUME Typed, NEW r \in RuleIds, NEW text \in Texts, Edit(r, text)
  PROVE  Typed'
<1>1. rules[r] \in Rule
  BY DEF Edit, Typed
<1>2. [rules[r] EXCEPT !.content.text = text] \in Rule
  BY <1>1 DEF Rule, Content
<1>3. rules' = [rules EXCEPT ![r] = [rules[r] EXCEPT !.content.text = text]]
  BY <1>1 DEF Edit, Typed
<1>4. rules' \in [RuleIds -> Rule \cup {None}] /\ flawed' = TRUE
  BY <1>2, <1>3 DEF Typed, Edit
<1>5. UNCHANGED <<events, versions, categories, cases, process, known, doomed,
                  raced, disturbed>>
  BY Zenon DEF Edit
<1> QED
  BY <1>4, <1>5, TablesTyped DEF Typed, process

LEMMA TypedStep ==
  ASSUME Typed, Phases, WroteHistories, Next
  PROVE  Typed'
<1>1. ASSUME NEW p \in Servers, Deadlock(p) \/ DatabaseFails(p) \/ Stop(p)
      PROVE  Typed'
  <2>1. \E why \in {"database", None} : End(p, why)
    BY <1>1, Zenon DEF Deadlock, DatabaseFails, Stop
  <2> QED
    BY <2>1, EndTyped
<1>2. ASSUME NEW p \in Servers, Begin(p) \/ PrepareImported(p)
      PROVE  Typed'
  BY <1>2, PrepareTyped, Zenon DEF Begin, PrepareImported
<1> QED
  BY <1>1, <1>2, PreparationTyped, CommitTyped, ImportTyped, PublishTyped, EditTyped,
     Zenon DEF Next

(***************************************************************************)
(* What a process has under way.                                           *)
(***************************************************************************)
LEMMA PrepareFacts ==
  ASSUME Typed, NEW p \in Servers, Prepare(p)
  PROVE  /\ Becomes(pc, pc', p, "backfill")
         /\ Becomes(unlinked, unlinked', p, {e \in DOMAIN events : ~Linked(versions, e)})
         /\ Becomes(at, at', p, 1)
         /\ Becomes(raced, raced', p, FALSE)
         /\ Becomes(failure, failure', p, None)
         /\ Becomes(known, known', p, {r \in RuleIds : rules[r] # None})
         /\ Becomes(doomed, doomed', p, doomed[p] \/ ~Coherent)
         /\ UNCHANGED <<stored, loaded, insert, wrote, flawed>>
<1>1. UNCHANGED <<stored, loaded, insert, wrote, flawed>>
  BY Zenon DEF Prepare, tables, stored
<1>2. /\ Becomes(pc, pc', p, "backfill")
      /\ Becomes(at, at', p, 1)
      /\ Becomes(raced, raced', p, FALSE)
      /\ Becomes(failure, failure', p, None)
  BY DEF Typed, Prepare, Goto, Becomes
<1>3. /\ Becomes(unlinked, unlinked', p, {e \in DOMAIN events : ~Linked(versions, e)})
      /\ Becomes(known, known', p, {r \in RuleIds : rules[r] # None})
  BY DEF Typed, Prepare, Becomes
<1>4. Becomes(doomed, doomed', p, doomed[p] \/ ~Coherent)
  BY DEF Typed, Prepare, Becomes
<1> QED
  BY <1>1, <1>2, <1>3, <1>4

LEMMA PublishFacts ==
  ASSUME Typed, NEW p \in Servers, NEW draft \in Content, Publish(p, draft)
  PROVE  /\ \E r \in RuleIds : \E e \in EventIds :
              /\ FreeRule(r)
              /\ e \notin DOMAIN events /\ DOMAIN events' = DOMAIN events \cup {e}
              /\ \A f \in DOMAIN events : events'[f] = events[f]
              /\ events'[e] = [rule |-> r, draft |-> draft, sound |-> TRUE]
              /\ rules' = [rules EXCEPT ![r] =
                   [content |-> draft, version |-> 1, source |-> e]]
              /\ versions' = versions \cup
                   {[rule |-> r, version |-> 1, content |-> draft, event |-> e]}
         /\ UNCHANGED <<categories, cases, process, history>>
         /\ ~Stored(draft.code)
<1> DEFINE e == Len(events) + 1
<1>1. Len(events) \in Nat /\ Len(events) < MaxEvents /\ DOMAIN events = 1..Len(events)
  BY EventsIndexed DEF Publish
<1>2. e \in EventIds
  BY <1>1, StartupAssumption DEF EventIds
<1>3. PICK r \in RuleIds :
        /\ FreeRule(r)
        /\ rules' = [rules EXCEPT ![r] =
                [content |-> draft, version |-> 1, source |-> e]]
        /\ events' = Append(events, [rule |-> r, draft |-> draft, sound |-> TRUE])
        /\ versions' = versions \cup
                {[rule |-> r, version |-> 1, content |-> draft, event |-> e]}
  BY DEF Publish
<1>4. /\ e \notin DOMAIN events /\ DOMAIN events' = DOMAIN events \cup {e}
      /\ \A f \in DOMAIN events : events'[f] = events[f]
      /\ events'[e] = [rule |-> r, draft |-> draft, sound |-> TRUE]
  <2>1. events \in Seq(Event)
    BY DEF Typed
  <2> HIDE DEF Event
  <2> QED
    BY <1>1, <1>3, <2>1
<1>5. UNCHANGED <<categories, cases, process, history>> /\ ~Stored(draft.code)
  BY Zenon DEF Publish
<1> HIDE DEF e
<1> QED
  BY <1>2, <1>3, <1>4, <1>5

LEMMA PhasesStep ==
  ASSUME Typed, Phases, Next
  PROVE  Phases'
<1> DEFINE Fine(q) == /\ insert[q] # {} => pc[q] = "insert"
                      /\ wrote[q] # {} => Open(q)
                      /\ unlinked[q] # {} => Open(q) /\ loaded[q] = None
                      /\ pc[q] = "backfill" => loaded[q] = None
                      /\ pc[q] = "baseline" => loaded[q] # None
                      /\ loaded[q] # None => Open(q)
                      /\ unlinked[q] \subseteq DOMAIN events
<1>1. Kinds
  BY StepKinds
<1>2. ASSUME NEW p \in Servers, \A q \in Servers \ {p} : Fine(q)', Fine(p)'
      PROVE  Phases'
  <2>1. \A q \in Servers : Fine(q)'
    BY <1>2
  <2> QED
    BY <2>1 DEF Phases
<1>3. ASSUME NEW p \in Servers, Idles(p) \/ \E r \in RuleIds : CreatesRule(p, r)
      PROVE  Phases'
  <2>1. /\ UNCHANGED <<events, unlinked, loaded, insert, wrote>>
        /\ ~Open(p) /\ ~Open(p)'
        /\ \A q \in Servers \ {p} : pc'[q] = pc[q]
    BY <1>3, Zenon DEF Idles, CreatesRule, stored, work
  <2>2. \A q \in Servers \ {p} : Fine(q)'
    BY <2>1 DEF Phases, Open
  <2>3. Fine(p)'
    BY <2>1 DEF Phases, Open
  <2> QED
    BY <1>2, <2>2, <2>3, Zenon
<1>4. ASSUME NEW p \in Servers, Prepares(p)
      PROVE  Phases'
  <2>1. ~Open(p) /\ Prepare(p)
    BY <1>4 DEF Prepares
  <2>2. /\ Becomes(pc, pc', p, "backfill")
        /\ Becomes(unlinked, unlinked', p, {e \in DOMAIN events : ~Linked(versions, e)})
        /\ UNCHANGED <<events, loaded, insert, wrote>>
    BY <2>1, PrepareFacts DEF stored
  <2>3. \A q \in Servers \ {p} : Fine(q)'
    BY <2>2 DEF Phases, Open, Becomes
  <2>4. Fine(p)'
    BY <2>1, <2>2 DEF Phases, Open, Becomes
  <2> QED
    BY <1>2, <2>3, <2>4, Zenon
<1>5. ASSUME NEW p \in Servers, NEW e \in EventIds, TakesUp(p, e)
      PROVE  Phases'
  <2>1. \A q \in Servers \ {p} : Fine(q)'
    BY <1>5 DEF TakesUp, Phases, Open, Becomes, stored
  <2>2. Fine(p)'
    BY <1>5 DEF TakesUp, Phases, Open, Becomes, stored
  <2> QED
    BY <1>2, <2>1, <2>2, Zenon
<1>6. ASSUME NEW p \in Servers, Loads(p)
      PROVE  Phases'
  <2>1. \A q \in Servers \ {p} : Fine(q)'
    BY <1>6 DEF Loads, Phases, Open, Becomes, stored
  <2>2. [r \in RuleIds |-> LoadedRule(p, r)] # None
    BY LoadedTyped, NoneAssumption
  <2>3. Fine(p)'
    BY <1>6, <2>2 DEF Loads, Phases, Open, Becomes, stored
  <2> QED
    BY <1>2, <2>1, <2>3, Zenon
<1>7. ASSUME NEW p \in Servers, NEW r \in RuleIds, Records(p, r)
      PROVE  Phases'
  <2>1. \A q \in Servers \ {p} : Fine(q)'
    BY <1>7 DEF Records, Phases, Open, Becomes, stored
  <2>2. Fine(p)'
    BY <1>7 DEF Records, Phases, Open, Becomes, stored
  <2> QED
    BY <1>2, <2>1, <2>2, Zenon
<1>8. ASSUME NEW p \in Servers, NEW r \in RuleIds, Passes(p, r)
      PROVE  Phases'
  BY <1>8 DEF Passes, Phases, Open, stored, work
<1>9. ASSUME NEW p \in Servers, Inserts(p)
      PROVE  Phases'
  <2>1. \A q \in Servers \ {p} : Fine(q)'
    BY <1>9 DEF Inserts, Phases, Open, Becomes, stored
  <2>2. Fine(p)'
    BY <1>9 DEF Inserts, Phases, Open, Becomes, stored
  <2> QED
    BY <1>2, <2>1, <2>2, Zenon
<1>10. ASSUME NEW p \in Servers, Drops(p), UNCHANGED events,
              \E l : Becomes(pc, pc', p, l) /\ l \notin {"backfill", "insert", "baseline"}
       PROVE  Phases'
  <2>1. \A q \in Servers \ {p} : Fine(q)'
    BY <1>10 DEF Drops, Phases, Open, Becomes
  <2>2. Fine(p)'
    BY <1>10 DEF Drops, Phases, Open, Becomes
  <2> QED
    BY <1>2, <2>1, <2>2, Zenon
<1>11. ASSUME NEW p \in Servers, Commits(p) \/ Ends(p)
       PROVE  Phases'
  <2>1. Drops(p) /\ UNCHANGED events
    BY <1>11, Zenon DEF Commits, Ends, stored
  <2>2. \E l \in {"down", "count", "serving"} : Becomes(pc, pc', p, l)
    BY <1>11, Zenon DEF Commits, Ends
  <2> QED
    BY <1>10, <2>1, <2>2
<1>12. ASSUME NEW p \in Servers, NEW draft \in Content, Publish(p, draft)
       PROVE  Phases'
  <2>1. DOMAIN events \subseteq DOMAIN events' /\ UNCHANGED process
    BY <1>12, PublishFacts
  <2> QED
    BY <2>1 DEF Phases, process, Open
<1>13. ASSUME NEW r \in RuleIds, NEW text \in Texts, Edit(r, text)
       PROVE  Phases'
  <2>1. UNCHANGED <<events, process>>
    BY <1>13, Zenon DEF Edit
  <2> QED
    BY <2>1 DEF Phases, process, Open
<1> QED
  BY <1>1, <1>3, <1>4, <1>5, <1>6, <1>7, <1>8, <1>9, <1>11, <1>12, <1>13, Zenon DEF Kinds, Moves

(***************************************************************************)
(* What does not change about a rule.                                      *)
(***************************************************************************)
\* The events about rule r and its origin are what they were.
Steady(r) ==
  /\ EventsOf(r)' = EventsOf(r)
  /\ \A e \in EventsOf(r) : events'[e] = events[e]
  /\ rules'[r] # None <=> rules[r] # None
  /\ rules[r] # None => rules'[r].source = rules[r].source

LEMMA NumberedKeeps ==
  ASSUME Typed, NEW r \in RuleIds, NEW vs,
         Of(vs, r) # {} => Cardinality(Of(vs, r)) \in 1..2
  PROVE  /\ Numbered(r, vs) # None <=> rules[r] # None
         /\ rules[r] # None =>
              /\ Numbered(r, vs).source = rules[r].source
              /\ Numbered(r, vs).content = rules[r].content
              /\ Of(vs, r) # {} => Numbered(r, vs).version = Cardinality(Of(vs, r))
         /\ Of(vs, r) = {} => Numbered(r, vs) = rules[r]
<1>1. CASE rules[r] = None \/ Of(vs, r) = {}
  BY <1>1 DEF Numbered
<1>2. CASE rules[r] # None /\ Of(vs, r) # {}
  <2> DEFINE n == Cardinality(Of(vs, r))
  <2>1. rules[r] \in Rule
    BY <1>2 DEF Typed
  <2>2. Numbered(r, vs) = [rules[r] EXCEPT !.version = n]
    BY <1>2 DEF Numbered
  <2> HIDE DEF n
  <2>3. /\ Numbered(r, vs).source = rules[r].source
        /\ Numbered(r, vs).content = rules[r].content
        /\ Numbered(r, vs).version = n
    BY <2>1, <2>2 DEF Rule
  <2>4. n \in 1..2
    BY <1>2 DEF n
  <2>5. [rules[r] EXCEPT !.version = n] \in Rule
    BY <2>1, <2>4 DEF Rule
  <2>6. Numbered(r, vs) # None
    BY <2>2, <2>5, NoneAssumption
  <2> QED
    BY <1>2, <2>3, <2>6 DEF n
<1> QED
  BY <1>1, <1>2

LEMMA TablesStill ==
  ASSUME NEW p \in Servers,
         \/ Idles(p) \/ Prepares(p) \/ Loads(p) \/ Inserts(p) \/ Ends(p)
         \/ \E s \in RuleIds : Records(p, s) \/ Passes(p, s)
         \/ \E e \in EventIds : TakesUp(p, e)
  PROVE  UNCHANGED stored
BY Zenon DEF Idles, Prepares, Prepare, Loads, Inserts, Ends, Records, Passes, TakesUp,
             stored, tables

LEMMA SteadyStep ==
  ASSUME Typed, WroteHistories, Next, NEW r \in RuleIds, Used(r)
  PROVE  Steady(r)
<1>0. Kinds
  BY StepKinds
<1>1. CASE UNCHANGED stored
  BY <1>1 DEF stored, Steady, EventsOf
<1>2. ASSUME NEW s \in RuleIds, s # r, UNCHANGED events,
             NEW x, rules' = [rules EXCEPT ![s] = x]
      PROVE  Steady(r)
  BY <1>2 DEF Steady, EventsOf, Typed
<1>3. ASSUME NEW p \in Servers, NEW s \in RuleIds, CreatesRule(p, s)
      PROVE  Steady(r)
  <2>1. s # r
    BY <1>3 DEF CreatesRule, FreeRule
  <2>2. \E x : rules' = [rules EXCEPT ![s] = x]
    BY <1>3 DEF CreatesRule
  <2>3. UNCHANGED events
    BY <1>3, Zenon DEF CreatesRule
  <2> QED
    BY <1>2, <2>1, <2>2, <2>3
<1>4. ASSUME NEW p \in Servers, NEW draft \in Content, Publish(p, draft)
      PROVE  Steady(r)
  <2>1. PICK s \in RuleIds, e \in EventIds :
          /\ FreeRule(s)
          /\ e \notin DOMAIN events /\ DOMAIN events' = DOMAIN events \cup {e}
          /\ \A f \in DOMAIN events : events'[f] = events[f]
          /\ events'[e] = [rule |-> s, draft |-> draft, sound |-> TRUE]
          /\ rules' = [rules EXCEPT ![s] =
               [content |-> draft, version |-> 1, source |-> e]]
    BY <1>4, PublishFacts
  <2>2. s # r
    BY <2>1 DEF FreeRule
  <2>3. events'[e].rule = s
    BY <2>1
  <2>4. rules'[r] = rules[r]
    BY <2>1, <2>2 DEF Typed
  <2> QED
    BY <2>1, <2>2, <2>3, <2>4 DEF Steady, EventsOf
<1>5. ASSUME NEW p \in Servers, Commits(p)
      PROVE  Steady(r)
  BY <1>5, NumberedKeeps, WroteCounted DEF Commits, Steady, EventsOf
<1>6. ASSUME NEW s \in RuleIds, NEW text \in Texts, Edit(s, text)
      PROVE  Steady(r)
  <2>1. UNCHANGED events
    BY <1>6, Zenon DEF Edit
  <2>2. rules[s] \in Rule
    BY <1>6 DEF Edit, Typed
  <2> DEFINE x == [rules[s] EXCEPT !.content.text = text]
  <2>3. rules' = [rules EXCEPT ![s] = x]
    BY <1>6, <2>2 DEF Edit, Typed
  <2>4. x \in Rule /\ x.source = rules[s].source
    BY <2>2 DEF Rule, Content
  <2> HIDE DEF x
  <2> QED
    BY <1>2, <2>1, <2>2, <2>3, <2>4, NoneAssumption DEF Steady, EventsOf, Typed
<1>7. ASSUME NEW p \in Servers,
             \/ Idles(p) \/ Prepares(p) \/ Loads(p) \/ Inserts(p) \/ Ends(p)
             \/ \E s \in RuleIds : Records(p, s) \/ Passes(p, s)
             \/ \E e \in EventIds : TakesUp(p, e)
      PROVE  Steady(r)
  BY <1>1, <1>7, TablesStill
<1> QED
  BY <1>0, <1>3, <1>4, <1>5, <1>6, <1>7, Zenon DEF Kinds, Moves

LEMMA HistoryStays ==
  ASSUME NEW vs \in SUBSET Version, NEW r \in RuleIds, History(vs, r), Steady(r)
  PROVE  History(vs, r)'
<1>1. \A v \in vs : v.version \in 1..2
  BY DEF Version
<1>2. ASSUME NEW v \in vs
      PROVE  SoundVersion(v)'
  <2>1. CASE v.event = None
    BY <2>1 DEF SoundVersion
  <2>2. CASE v.event # None
    <3>1. v.version = 1 /\ EventsOf(r) = {v.event} /\ SoundVersion(v)
      BY <1>1, <2>2 DEF History
    <3> QED
      BY <3>1 DEF SoundVersion, Steady
  <2> QED
    BY <2>1, <2>2
<1>3. Rooted(r)'
  BY DEF History, Rooted, Steady, Origin
<1> QED
  BY <1>2, <1>3 DEF History, Steady

LEMMA HistoryKept ==
  ASSUME Typed, WroteHistories, Next, NEW r \in RuleIds,
         NEW vs \in SUBSET Version, History(vs, r)
  PROVE  History(vs, r)'
<1>1. Used(r)
  BY DEF History, Used
<1> QED
  BY <1>1, SteadyStep, HistoryStays

(***************************************************************************)
(* Every set of versions of a rule, stored, written or about to be         *)
(* inserted, is a history of the rule, and at most one is stored or        *)
(* written.                                                                *)
(***************************************************************************)
Histories ==
  /\ \A r \in RuleIds : Of(versions, r) # {} => History(Of(versions, r), r)
  /\ WroteHistories
  /\ \A p \in Servers, r \in RuleIds :
       Of(insert[p], r) # {} => History(Of(insert[p], r), r)

Apart ==
  \A p \in Servers, r \in RuleIds : Of(wrote[p], r) # {} =>
    /\ Of(versions, r) = {}
    /\ Of(insert[p], r) = {}
    /\ \A q \in Servers \ {p} : Of(wrote[q], r) = {}

\* A preparation has met every event whose rule has no history, and owes one
\* to each of the events it has not taken up yet.
Owed ==
  \A p \in Servers : Open(p) => \A e \in DOMAIN events :
    /\ e \in unlinked[p] \/ Of(versions \cup wrote[p] \cup insert[p], events[e].rule) # {}
    /\ e \in unlinked[p] => Of(wrote[p] \cup insert[p], events[e].rule) = {}

\* The rules a preparation has loaded are the stored ones but for the number.
LoadedKept ==
  \A p \in Servers, r \in RuleIds : loaded[p] # None /\ loaded[p][r] # None =>
    /\ rules[r] # None
    /\ loaded[p][r].content = rules[r].content
    /\ loaded[p][r].source = rules[r].source

LEMMA OfUnion ==
  ASSUME NEW V, NEW W, NEW r
  PROVE  Of(V \cup W, r) = Of(V, r) \cup Of(W, r)
BY DEF Of

\* Histories of one rule share a key.
LEMMA SharedKey ==
  ASSUME NEW V, NEW W, NEW r,
         History(Of(V, r), r), History(Of(W, r), r)
  PROVE  Keys(V) \cap Keys(W) # {}
<1>1. PICK v \in Of(V, r) : v.version = 1
  BY DEF History
<1>2. PICK w \in Of(W, r) : w.version = 1
  BY DEF History
<1>3. v \in V /\ w \in W /\ v.rule = r /\ w.rule = r
  BY DEF Of
<1>4. <<r, 1>> \in Keys(V) /\ <<r, 1>> \in Keys(W)
  BY <1>1, <1>2, <1>3, Zenon DEF Keys
<1> QED
  BY <1>4

LEMMA TakesUpHistory ==
  ASSUME Typed, Phases, Histories, Owed, NEW p \in Servers, NEW e \in EventIds,
         TakesUp(p, e)
  PROVE  /\ e \in DOMAIN events /\ events[e].rule \in RuleIds
         /\ History(Backfilled(e), events[e].rule)
         /\ \A v \in Backfilled(e) : v.rule = events[e].rule
         /\ Of(wrote[p], events[e].rule) = {}
         /\ Backfilled(e) # {}
<1> DEFINE r == events[e].rule
<1>1. /\ pc[p] = "backfill" /\ e \in unlinked[p]
      /\ Proven(e) /\ unlinked[p] \cap EventsOf(r) = {e}
  BY DEF TakesUp
<1>2. e \in DOMAIN events /\ r \in RuleIds
  <2>1. e \in DOMAIN events
    BY <1>1 DEF EventsOf
  <2> QED
    BY <2>1, EventsIndexed DEF Event
<1>3. /\ Of(wrote[p] \cup insert[p], r) = {}
      /\ Of(wrote[p], r) = {} /\ Of(versions, r) = {}
      /\ insert[p] = {}
  BY <1>1, <1>2 DEF Owed, Open, Proven, Phases, Of
<1>4. EventsOf(r) = {e}
  <2> SUFFICES ASSUME NEW f \in EventsOf(r)
               PROVE  f \in unlinked[p]
    BY <1>1
  <2>1. f \in DOMAIN events /\ events[f].rule = r
    BY DEF EventsOf
  <2>2. Of(versions \cup wrote[p] \cup insert[p], r) = {}
    BY <1>3 DEF Of
  <2> QED
    BY <1>1, <2>1, <2>2 DEF Owed, Open
<1>5. e # None
  BY NoneAssumption
<1>6. Rooted(r)
  BY <1>1, <1>4, <1>5 DEF Rooted, Origin, Proven
<1>7. \A v \in Backfilled(e) :
        \/ v = [rule |-> r, version |-> 1, content |-> events[e].draft, event |-> e]
        \/ v = [rule |-> r, version |-> 2, content |-> rules[r].content, event |-> None]
  BY DEF Backfilled
<1>8. [rule |-> r, version |-> 1, content |-> events[e].draft, event |-> e]
        \in Backfilled(e)
  BY DEF Backfilled
<1>9. \A v \in Backfilled(e) : SoundVersion(v)
  BY <1>1, <1>2, <1>7 DEF SoundVersion, Proven
<1>10. History(Backfilled(e), r)
  <2>1. \E v \in Backfilled(e) : v.version = 1
    BY <1>8
  <2>2. \A v, w \in Backfilled(e) : v.version = w.version => v = w
    BY <1>7
  <2>3. \A v \in Backfilled(e) :
          /\ v.rule = r
          /\ v.version = 2 => v.event = None
          /\ v.version = 1 => EventsOf(r) = IF v.event = None THEN {} ELSE {v.event}
    BY <1>4, <1>5, <1>7
  <2> QED
    BY <1>4, <1>6, <1>9, <2>1, <2>2, <2>3 DEF History
<1> QED
  BY <1>2, <1>3, <1>7, <1>8, <1>10

LEMMA RecordsHistory ==
  ASSUME Typed, Phases, Histories, Owed, LoadedKept,
         NEW p \in Servers, NEW r \in RuleIds, Records(p, r),
         NEW v, v = [rule |-> r, version |-> 1, content |-> loaded[p][r].content,
                     event |-> None]
  PROVE  /\ History({v}, r)
         /\ Of(wrote[p], r) = {} /\ Of(versions, r) = {}
<1>1. /\ pc[p] = "baseline" /\ loaded[p] # None
      /\ unlinked[p] = {} /\ insert[p] = {}
      /\ loaded[p][r] # None /\ loaded[p][r].source = None
      /\ Of(versions \cup wrote[p], r) = {}
  BY DEF Records, Phases
<1>2. rules[r] # None /\ rules[r].source = None
  BY <1>1 DEF LoadedKept
<1>3. EventsOf(r) = {}
  <2> SUFFICES ASSUME NEW f \in DOMAIN events, events[f].rule = r
               PROVE  FALSE
    BY DEF EventsOf
  <2>1. Of(versions \cup wrote[p] \cup insert[p], r) = {}
    BY <1>1 DEF Of
  <2> QED
    BY <1>1, <2>1 DEF Owed, Open
<1>4. Rooted(r)
  BY <1>2, <1>3 DEF Rooted, Origin
<1>5. History({v}, r)
  BY <1>2, <1>3, <1>4 DEF History, SoundVersion
<1> QED
  BY <1>1, <1>5 DEF Of

\* A published rule starts its history with the event.
LEMMA PublishHistory ==
  ASSUME Typed, Phases, NEW p \in Servers, NEW draft \in Content, Publish(p, draft)
  PROVE  \E s \in RuleIds, v \in versions' :
           /\ FreeRule(s) /\ v.rule = s
           /\ versions' = versions \cup {v}
           /\ History({v}, s)'
<1>1. PICK s \in RuleIds, e \in EventIds :
        /\ FreeRule(s)
        /\ e \notin DOMAIN events /\ DOMAIN events' = DOMAIN events \cup {e}
        /\ \A f \in DOMAIN events : events'[f] = events[f]
        /\ events'[e] = [rule |-> s, draft |-> draft, sound |-> TRUE]
        /\ rules' = [rules EXCEPT ![s] =
             [content |-> draft, version |-> 1, source |-> e]]
        /\ versions' = versions \cup
             {[rule |-> s, version |-> 1, content |-> draft, event |-> e]}
  BY PublishFacts
<1> DEFINE v == [rule |-> s, version |-> 1, content |-> draft, event |-> e]
<1>2. EventsOf(s) = {}
  BY <1>1 DEF FreeRule, Used
<1>3. EventsOf(s)' = {e}
  BY <1>1, <1>2 DEF EventsOf
<1>4. rules'[s].source = e /\ e # None
  BY <1>1, NoneAssumption DEF Typed
<1>5. Rooted(s)'
  BY <1>3, <1>4 DEF Rooted, Origin
<1>6. SoundVersion(v)'
  BY <1>1 DEF SoundVersion
<1>7. History({v}, s)'
  BY <1>3, <1>4, <1>5, <1>6 DEF History
<1> QED
  BY <1>1, <1>7

\* A rule whose history somebody has written is not free.
LEMMA HistoryUses ==
  ASSUME NEW r \in RuleIds, NEW vs, History(vs, r)
  PROVE  ~FreeRule(r)
BY DEF History, FreeRule, Used

LEMMA TypedSets ==
  ASSUME Typed
  PROVE  /\ versions \in SUBSET Version
         /\ \A p \in Servers : wrote[p] \in SUBSET Version /\ insert[p] \in SUBSET Version
         /\ \A r : Of(versions, r) \in SUBSET Version
         /\ \A p \in Servers : \A r : /\ Of(wrote[p], r) \in SUBSET Version
                                      /\ Of(insert[p], r) \in SUBSET Version
BY DEF Typed, Of

\* A step that creates, prepares, loads, passes or edits moves no version.
LEMMA Still ==
  ASSUME Typed, NEW p \in Servers,
         \/ Idles(p) \/ Prepares(p) \/ Loads(p)
         \/ \E r \in RuleIds : CreatesRule(p, r) \/ Passes(p, r)
  PROVE  UNCHANGED <<events, versions, insert, wrote>>
BY Zenon DEF Idles, Prepares, Prepare, Loads, CreatesRule, Passes, stored, tables, work

LEMMA HistoriesStep ==
  ASSUME Typed, Phases, Histories, Apart, Owed, LoadedKept, Next
  PROVE  Histories'
<1> DEFINE Sound(V, r) == Of(V, r) # {} => History(Of(V, r), r)
<1>0. Kinds
  BY StepKinds
<1>1. \A r \in RuleIds : \A vs \in SUBSET Version : History(vs, r) => History(vs, r)'
  BY HistoryKept DEF Histories
<1>2. ASSUME NEW r \in RuleIds, NEW V \in SUBSET Version, Sound(V, r)
      PROVE  Sound(V, r)'
  <2>1. Of(V, r) \in SUBSET Version
    BY DEF Of
  <2> QED
    BY <1>1, <1>2, <2>1
<1>3. \A r \in RuleIds : Sound(versions, r)
  BY DEF Histories
<1>4. \A p \in Servers, r \in RuleIds : Sound(wrote[p], r) /\ Sound(insert[p], r)
  BY DEF Histories, WroteHistories
<1>5. ASSUME \A r \in RuleIds : Sound(versions, r)',
             \A p \in Servers, r \in RuleIds : Sound(wrote[p], r)' /\ Sound(insert[p], r)'
      PROVE  Histories'
  BY <1>5 DEF Histories, WroteHistories
<1>6. ASSUME UNCHANGED versions
      PROVE  \A r \in RuleIds : Sound(versions, r)'
  BY <1>2, <1>3, <1>6, TypedSets
<1>7. ASSUME NEW q \in Servers, wrote'[q] = wrote[q] \/ wrote'[q] = {}
      PROVE  \A r \in RuleIds : Sound(wrote[q], r)'
  <2>1. CASE wrote'[q] = wrote[q]
    BY <1>2, <1>4, <2>1, TypedSets
  <2>2. CASE wrote'[q] = {}
    BY <2>2 DEF Of
  <2> QED
    BY <1>7, <2>1, <2>2
<1>8. ASSUME NEW q \in Servers, insert'[q] = insert[q] \/ insert'[q] = {}
      PROVE  \A r \in RuleIds : Sound(insert[q], r)'
  <2>1. CASE insert'[q] = insert[q]
    BY <1>2, <1>4, <2>1, TypedSets
  <2>2. CASE insert'[q] = {}
    BY <2>2 DEF Of
  <2> QED
    BY <1>8, <2>1, <2>2
<1> HIDE DEF Sound
<1>9. CASE UNCHANGED <<versions, insert, wrote>>
  BY <1>5, <1>6, <1>7, <1>8, <1>9
<1>10. ASSUME NEW p \in Servers, NEW e \in EventIds, TakesUp(p, e)
       PROVE  Histories'
  <2>1. /\ UNCHANGED <<versions, wrote>>
        /\ Becomes(insert, insert', p, Backfilled(e))
    BY <1>10, Zenon DEF TakesUp, stored
  <2>2. /\ e \in DOMAIN events /\ events[e].rule \in RuleIds
        /\ History(Backfilled(e), events[e].rule)
        /\ \A v \in Backfilled(e) : v.rule = events[e].rule
    BY <1>10, TakesUpHistory
  <2>3. \A q \in Servers \ {p} : \A r \in RuleIds : Sound(insert[q], r)'
    BY <1>8, <2>1 DEF Becomes
  <2>4. ASSUME NEW r \in RuleIds
        PROVE  Sound(insert[p], r)'
    <3>1. insert'[p] = Backfilled(e) /\ Backfilled(e) \in SUBSET Version
      BY <2>1, <2>2, BackfilledTyped DEF Becomes
    <3>2. CASE r = events[e].rule
      <4>1. Of(Backfilled(e), r) = Backfilled(e)
        BY <2>2, <3>2 DEF Of
      <4>2. Sound(Backfilled(e), r)
        BY <2>2, <3>2, <4>1 DEF Sound
      <4> QED
        BY <1>2, <3>1, <4>2 DEF Sound
    <3>3. CASE r # events[e].rule
      <4>1. Of(insert[p], r)' = {}
        BY <2>2, <3>1, <3>3 DEF Of
      <4> QED
        BY <4>1 DEF Sound
    <3> QED
      BY <3>2, <3>3
  <2> QED
    BY <1>5, <1>6, <1>7, <2>1, <2>3, <2>4
<1>11. ASSUME NEW p \in Servers, NEW s \in RuleIds, Records(p, s)
       PROVE  Histories'
  <2>0. PICK v : v = [rule |-> s, version |-> 1, content |-> loaded[p][s].content,
                      event |-> None]
    OBVIOUS
  <2>1. /\ UNCHANGED <<versions, wrote>>
        /\ Becomes(insert, insert', p, {v})
    BY <1>11, <2>0, Zenon DEF Records, stored
  <2>2. History({v}, s) /\ v.rule = s
    BY <1>11, <2>0, RecordsHistory
  <2>3. v \in Version
    <3>1. loaded[p][s] \in Rule
      BY <1>11 DEF Records, Phases, Typed
    <3> QED
      BY <2>0, <3>1 DEF Rule, Version
  <2>4. \A q \in Servers \ {p} : \A r \in RuleIds : Sound(insert[q], r)'
    BY <1>8, <2>1 DEF Becomes
  <2>5. ASSUME NEW r \in RuleIds
        PROVE  Sound(insert[p], r)'
    <3>1. insert'[p] = {v}
      BY <2>1 DEF Becomes
    <3>2. CASE r = s
      <4>1. Of({v}, r) = {v}
        BY <2>2, <3>2 DEF Of
      <4>2. History({v}, r)'
        BY <1>1, <2>2, <2>3, <3>2
      <4> QED
        BY <3>1, <4>1, <4>2 DEF Sound
    <3>3. CASE r # s
      <4>1. Of(insert[p], r)' = {}
        BY <2>2, <3>1, <3>3 DEF Of
      <4> QED
        BY <4>1 DEF Sound
    <3> QED
      BY <3>2, <3>3
  <2> QED
    BY <1>5, <1>6, <1>7, <2>1, <2>4, <2>5
<1>12. ASSUME NEW p \in Servers, Inserts(p)
       PROVE  Histories'
  <2>1. /\ UNCHANGED versions
        /\ Becomes(insert, insert', p, {})
        /\ Becomes(wrote, wrote', p, wrote[p] \cup insert[p])
    BY <1>12, Zenon DEF Inserts, stored
  <2>2. \A q \in Servers : \A r \in RuleIds : Sound(insert[q], r)'
    BY <1>8, <2>1 DEF Becomes
  <2>3. \A q \in Servers \ {p} : \A r \in RuleIds : Sound(wrote[q], r)'
    BY <1>7, <2>1 DEF Becomes
  <2>4. ASSUME NEW r \in RuleIds
        PROVE  Sound(wrote[p], r)'
    <3>1. Of(wrote[p] \cup insert[p], r) = Of(wrote[p], r) \cup Of(insert[p], r)
      BY OfUnion
    <3>2. Of(wrote[p], r) = {} \/ Of(insert[p], r) = {}
      BY DEF Apart
    <3>3. Sound(wrote[p] \cup insert[p], r)
      BY <1>4, <3>1, <3>2 DEF Sound
    <3>4. wrote'[p] = wrote[p] \cup insert[p]
      BY <2>1 DEF Becomes
    <3>5. wrote[p] \cup insert[p] \in SUBSET Version
      BY TypedSets
    <3> QED
      BY <1>2, <3>3, <3>4, <3>5 DEF Sound
  <2> QED
    BY <1>5, <1>6, <2>1, <2>2, <2>3, <2>4
<1>13. ASSUME NEW p \in Servers, Drops(p)
       PROVE  \A q \in Servers, r \in RuleIds : Sound(wrote[q], r)' /\ Sound(insert[q], r)'
  BY <1>7, <1>8, <1>13 DEF Drops, Becomes
<1>14. ASSUME NEW p \in Servers, Commits(p)
       PROVE  Histories'
  <2>1. Drops(p) /\ versions' = versions \cup wrote[p]
    BY <1>14 DEF Commits
  <2>2. ASSUME NEW r \in RuleIds
        PROVE  Sound(versions, r)'
    <3>1. Of(versions \cup wrote[p], r) = Of(versions, r) \cup Of(wrote[p], r)
      BY OfUnion
    <3>2. Of(wrote[p], r) = {} \/ Of(versions, r) = {}
      BY DEF Apart
    <3>3. Sound(versions \cup wrote[p], r)
      BY <1>3, <1>4, <3>1, <3>2 DEF Sound
    <3>4. versions \cup wrote[p] \in SUBSET Version
      BY TypedSets
    <3> QED
      BY <1>2, <2>1, <3>3, <3>4 DEF Sound
  <2> QED
    BY <1>5, <1>13, <2>1, <2>2
<1>15. ASSUME NEW p \in Servers, Ends(p)
       PROVE  Histories'
  <2>1. Drops(p) /\ UNCHANGED versions
    BY <1>15, Zenon DEF Ends, stored
  <2> QED
    BY <1>5, <1>6, <1>13, <2>1
<1>16. ASSUME NEW p \in Servers, NEW draft \in Content, Publish(p, draft)
       PROVE  Histories'
  <2>1. PICK s \in RuleIds, v \in versions' :
           /\ FreeRule(s) /\ v.rule = s
           /\ versions' = versions \cup {v}
           /\ History({v}, s)'
    BY <1>16, PublishHistory
  <2>2. UNCHANGED <<insert, wrote>>
    BY <1>16, PublishFacts DEF process
  <2>3. ASSUME NEW r \in RuleIds
        PROVE  Sound(versions, r)'
    <3>1. CASE r = s
      <4>1. Of(versions, r) = {}
        BY <2>1, <3>1 DEF FreeRule, Used
      <4>2. Of(versions', r) = {v}
        BY <2>1, <3>1, <4>1 DEF Of
      <4> QED
        BY <2>1, <3>1, <4>2 DEF Sound
    <3>2. CASE r # s
      <4>1. Of(versions', r) = Of(versions, r)
        BY <2>1, <3>2 DEF Of
      <4>2. Of(versions, r) \in SUBSET Version
        BY TypedSets
      <4> QED
        BY <1>1, <1>3, <4>1, <4>2 DEF Sound
    <3> QED
      BY <3>1, <3>2
  <2> QED
    BY <1>5, <1>7, <1>8, <2>2, <2>3
<1>17. ASSUME NEW r \in RuleIds, NEW text \in Texts, Edit(r, text)
       PROVE  Histories'
  BY <1>9, <1>17, Zenon DEF Edit, process
<1> QED
  BY <1>0, <1>9, <1>10, <1>11, <1>12, <1>14, <1>15, <1>16, <1>17, Still, Zenon DEF Kinds, Moves

LEMMA ApartStep ==
  ASSUME Typed, Phases, Histories, Apart, Owed, LoadedKept, Next
  PROVE  Apart'
<1>0. Kinds
  BY StepKinds
<1>1. CASE UNCHANGED <<versions, insert, wrote>>
  BY <1>1 DEF Apart
<1>2. ASSUME NEW p \in Servers, NEW e \in EventIds, TakesUp(p, e)
      PROVE  Apart'
  <2>1. UNCHANGED <<versions, wrote>> /\ Becomes(insert, insert', p, Backfilled(e))
    BY <1>2, Zenon DEF TakesUp, stored
  <2>2. /\ \A v \in Backfilled(e) : v.rule = events[e].rule
        /\ Of(wrote[p], events[e].rule) = {}
    BY <1>2, TakesUpHistory
  <2>3. \A r : Of(wrote[p], r) # {} => Of(insert[p], r)' = {}
    BY <2>1, <2>2 DEF Becomes, Of
  <2> QED
    BY <2>1, <2>3 DEF Apart, Becomes
<1>3. ASSUME NEW p \in Servers, NEW s \in RuleIds, Records(p, s)
      PROVE  Apart'
  <2>0. PICK v : v = [rule |-> s, version |-> 1, content |-> loaded[p][s].content,
                      event |-> None]
    OBVIOUS
  <2>1. UNCHANGED <<versions, wrote>> /\ Becomes(insert, insert', p, {v})
    BY <1>3, <2>0, Zenon DEF Records, stored
  <2>2. Of(wrote[p], s) = {} /\ v.rule = s
    BY <1>3, <2>0, RecordsHistory
  <2>3. \A r : Of(wrote[p], r) # {} => Of(insert[p], r)' = {}
    BY <2>1, <2>2 DEF Becomes, Of
  <2> QED
    BY <2>1, <2>3 DEF Apart, Becomes
<1>4. ASSUME NEW p \in Servers, Inserts(p)
      PROVE  Apart'
  <2>1. /\ UNCHANGED versions
        /\ Becomes(insert, insert', p, {})
        /\ Becomes(wrote, wrote', p, wrote[p] \cup insert[p])
        /\ Keys(insert[p]) \cap Keys(versions) = {}
        /\ \A q \in Servers : ~WaitsFor(p, q)
        /\ pc[p] = "insert"
    BY <1>4, Zenon DEF Inserts, stored
  <2>2. ASSUME NEW r \in RuleIds, Of(insert[p], r) # {}
        PROVE  /\ Of(versions, r) = {}
               /\ \A q \in Servers \ {p} : Of(wrote[q], r) = {}
    <3>1. History(Of(insert[p], r), r)
      BY <2>2 DEF Histories
    <3>2. Of(versions, r) = {}
      BY <2>1, <3>1, SharedKey DEF Histories
    <3>3. ASSUME NEW q \in Servers \ {p}
          PROVE  Of(wrote[q], r) = {}
      <4>1. Keys(insert[p]) \cap Keys(wrote[q]) = {}
        BY <2>1, <3>3 DEF WaitsFor
      <4> QED
        BY <3>1, <4>1, SharedKey DEF Histories, WroteHistories
    <3> QED
      BY <3>2, <3>3
  <2>3. \A r \in RuleIds : Of(wrote'[p], r) = Of(wrote[p], r) \cup Of(insert[p], r)
    BY <2>1, OfUnion DEF Becomes
  <2>4. \A r \in RuleIds : Of(insert'[p], r) = {}
    BY <2>1 DEF Becomes, Of
  <2>5. \A q \in Servers \ {p} : wrote'[q] = wrote[q] /\ insert'[q] = insert[q]
    BY <2>1 DEF Becomes
  <2>6. ASSUME NEW r \in RuleIds, Of(wrote[p], r)' # {}
        PROVE  /\ Of(versions, r)' = {}
               /\ Of(insert[p], r)' = {}
               /\ \A q \in Servers \ {p} : Of(wrote[q], r)' = {}
    BY <2>1, <2>2, <2>3, <2>4, <2>5, <2>6 DEF Apart
  <2>7. ASSUME NEW q \in Servers \ {p}, NEW r \in RuleIds, Of(wrote[q], r)' # {}
        PROVE  /\ Of(versions, r)' = {}
               /\ Of(insert[q], r)' = {}
               /\ \A o \in Servers \ {q} : Of(wrote[o], r)' = {}
    <3>1. Of(wrote[q], r) # {}
      BY <2>5, <2>7
    <3>2. Of(insert[p], r) = {} /\ Of(wrote[p], r) = {}
      BY <2>2, <3>1 DEF Apart
    <3>3. Of(wrote[p], r)' = {}
      BY <2>3, <3>2
    <3> QED
      BY <2>1, <2>5, <3>1, <3>3 DEF Apart
  <2> QED
    BY <2>6, <2>7 DEF Apart
<1>5. ASSUME NEW p \in Servers, Commits(p)
      PROVE  Apart'
  <2>1. Drops(p) /\ versions' = versions \cup wrote[p]
    BY <1>5 DEF Commits
  <2>2. wrote'[p] = {} /\ \A q \in Servers \ {p} : wrote'[q] = wrote[q] /\ insert'[q] = insert[q]
    BY <2>1 DEF Drops, Becomes
  <2>3. \A r : Of(wrote[p], r)' = {}
    BY <2>2 DEF Of
  <2>4. \A r : Of(versions, r)' = Of(versions, r) \cup Of(wrote[p], r)
    BY <2>1, OfUnion
  <2>5. ASSUME NEW q \in Servers \ {p}, NEW r \in RuleIds, Of(wrote[q], r)' # {}
        PROVE  /\ Of(versions, r)' = {}
               /\ Of(insert[q], r)' = {}
               /\ \A o \in Servers \ {q} : Of(wrote[o], r)' = {}
    BY <2>2, <2>3, <2>4, <2>5 DEF Apart
  <2> QED
    BY <2>3, <2>5 DEF Apart
<1>6. ASSUME NEW p \in Servers, Ends(p)
      PROVE  Apart'
  <2>1. Drops(p) /\ UNCHANGED versions
    BY <1>6, Zenon DEF Ends, stored
  <2>2. wrote'[p] = {} /\ \A q \in Servers \ {p} : wrote'[q] = wrote[q] /\ insert'[q] = insert[q]
    BY <2>1 DEF Drops, Becomes
  <2>3. \A r : Of(wrote[p], r)' = {}
    BY <2>2 DEF Of
  <2> QED
    BY <2>1, <2>2, <2>3 DEF Apart
<1>7. ASSUME NEW p \in Servers, NEW draft \in Content, Publish(p, draft)
      PROVE  Apart'
  <2>1. PICK s \in RuleIds, v \in versions' :
           FreeRule(s) /\ v.rule = s /\ versions' = versions \cup {v}
    BY <1>7, PublishHistory
  <2>2. UNCHANGED <<insert, wrote>>
    BY <1>7, PublishFacts DEF process
  <2>3. \A q \in Servers : Of(wrote[q], s) = {}
    BY <2>1, HistoryUses DEF Histories, WroteHistories
  <2>4. \A r \in RuleIds : r # s => Of(versions, r)' = Of(versions, r)
    BY <2>1 DEF Of
  <2> QED
    BY <2>2, <2>3, <2>4 DEF Apart
<1>8. ASSUME NEW r \in RuleIds, NEW text \in Texts, Edit(r, text)
      PROVE  Apart'
  BY <1>1, <1>8, Zenon DEF Edit, process
<1> QED
  BY <1>0, <1>1, <1>2, <1>3, <1>4, <1>5, <1>6, <1>7, <1>8, Still, Zenon DEF Kinds, Moves

LEMMA OwedStep ==
  ASSUME Typed, Phases, Histories, Apart, Owed, LoadedKept, Next
  PROVE  Owed'
<1> DEFINE Pays(p, e) ==
             /\ e \in unlinked[p]
                \/ Of(versions \cup wrote[p] \cup insert[p], events[e].rule) # {}
             /\ e \in unlinked[p] => Of(wrote[p] \cup insert[p], events[e].rule) = {}
<1>0. Kinds
  BY StepKinds
\* What others do is no business of q, as long as the tables only grow.
<1>1. ASSUME NEW q \in Servers,
             unlinked'[q] = unlinked[q], wrote'[q] = wrote[q], insert'[q] = insert[q],
             versions \subseteq versions',
             NEW e \in DOMAIN events, events'[e] = events[e], Open(q)
      PROVE  Pays(q, e)'
  BY <1>1 DEF Owed, Of
<1>2. ASSUME NEW p \in Servers,
             ~Open(p)' \/ \A e \in DOMAIN events : Pays(p, e)',
             UNCHANGED events, versions \subseteq versions',
             \A q \in Servers \ {p} :
               /\ unlinked'[q] = unlinked[q] /\ wrote'[q] = wrote[q]
               /\ insert'[q] = insert[q] /\ pc'[q] = pc[q]
      PROVE  Owed'
  <2>1. ASSUME NEW q \in Servers \ {p}, Open(q)', NEW e \in DOMAIN events
        PROVE  Pays(q, e)'
    BY <1>1, <1>2, <2>1 DEF Open
  <2> QED
    BY <1>2, <2>1 DEF Owed
<1>3. ASSUME NEW p \in Servers, Idles(p) \/ \E r \in RuleIds : CreatesRule(p, r)
      PROVE  Owed'
  <2>1. /\ UNCHANGED <<events, versions, unlinked, insert, wrote>>
        /\ ~Open(p)' /\ \A q \in Servers \ {p} : pc'[q] = pc[q]
    BY <1>3, Zenon DEF Idles, CreatesRule, stored, work
  <2> QED
    BY <1>2, <2>1
<1>4. ASSUME NEW p \in Servers, Prepares(p)
      PROVE  Owed'
  <2>1. ~Open(p) /\ Prepare(p)
    BY <1>4 DEF Prepares
  <2>2. /\ Becomes(pc, pc', p, "backfill")
        /\ Becomes(unlinked, unlinked', p, {e \in DOMAIN events : ~Linked(versions, e)})
        /\ UNCHANGED <<events, versions, insert, wrote>>
    BY <2>1, PrepareFacts DEF stored
  <2>3. wrote[p] = {} /\ insert[p] = {}
    BY <2>1 DEF Phases, Open
  <2>4. ASSUME NEW e \in DOMAIN events
        PROVE  Pays(p, e)'
    <3>1. CASE Linked(versions, e)
      <4>1. PICK v \in versions : v.event = e
        BY <3>1 DEF Linked
      <4>2. v.rule \in RuleIds /\ v \in Of(versions, v.rule)
        BY <4>1, TypedSets DEF Version, Of
      <4>3. SoundVersion(v)
        BY <4>2 DEF Histories, History
      <4>4. e # None
        BY EventsIndexed, NoneAssumption
      <4>5. v \in Of(versions, events[e].rule)
        BY <4>1, <4>2, <4>3, <4>4 DEF SoundVersion
      <4>6. e \notin unlinked'[p]
        BY <2>2, <3>1 DEF Becomes
      <4> QED
        BY <2>2, <4>5, <4>6 DEF Of
    <3>2. CASE ~Linked(versions, e)
      BY <2>2, <2>3, <3>2 DEF Becomes, Of
    <3> QED
      BY <3>1, <3>2
  <2>5. \A q \in Servers \ {p} : pc'[q] = pc[q] /\ unlinked'[q] = unlinked[q]
    BY <2>2 DEF Becomes
  <2> QED
    BY <1>2, <2>2, <2>4, <2>5
<1>5. ASSUME NEW p \in Servers, NEW e \in EventIds, TakesUp(p, e)
      PROVE  Owed'
  <2>1. /\ UNCHANGED <<events, versions, wrote>>
        /\ Becomes(insert, insert', p, Backfilled(e))
        /\ Becomes(unlinked, unlinked', p, unlinked[p] \ {e})
        /\ Becomes(pc, pc', p, "insert")
        /\ unlinked[p] \cap EventsOf(events[e].rule) = {e}
        /\ pc[p] = "backfill"
    BY <1>5, Zenon DEF TakesUp, stored
  <2>2. /\ e \in DOMAIN events
        /\ \A v \in Backfilled(e) : v.rule = events[e].rule
        /\ Backfilled(e) # {}
    BY <1>5, TakesUpHistory
  <2>3. insert[p] = {} /\ Open(p)
    BY <2>1 DEF Phases, Open
  <2>4. Pays(p, e)'
    BY <2>1, <2>2 DEF Becomes, Of
  <2>5. ASSUME NEW f \in DOMAIN events, f # e
        PROVE  Pays(p, f)'
    <3>1. f \in unlinked'[p] <=> f \in unlinked[p]
      BY <2>1, <2>5 DEF Becomes
    <3>2. CASE f \in unlinked[p]
      <4>1. events[f].rule # events[e].rule
        BY <2>1, <2>5, <3>2 DEF EventsOf
      <4>2. Of(wrote[p], events[f].rule) = {}
        BY <2>3, <3>2 DEF Owed, Of
      <4> QED
        BY <2>1, <2>2, <3>1, <3>2, <4>1, <4>2 DEF Becomes, Of
    <3>3. CASE f \notin unlinked[p]
      <4>1. Of(versions \cup wrote[p], events[f].rule) # {}
        BY <2>3, <3>3 DEF Owed, Of
      <4> QED
        BY <2>1, <3>1, <3>3, <4>1 DEF Of
    <3> QED
      BY <3>2, <3>3
  <2>6. \A q \in Servers \ {p} :
          pc'[q] = pc[q] /\ unlinked'[q] = unlinked[q] /\ insert'[q] = insert[q]
    BY <2>1 DEF Becomes
  <2> QED
    BY <1>2, <2>1, <2>4, <2>5, <2>6
<1>6. ASSUME NEW p \in Servers, Loads(p) \/ \E r \in RuleIds : Passes(p, r)
      PROVE  Owed'
  <2>1. /\ UNCHANGED <<events, versions, unlinked, insert, wrote>>
        /\ Open(p) /\ \A q \in Servers \ {p} : pc'[q] = pc[q]
    BY <1>6, Zenon DEF Loads, Passes, stored, work, Open, Becomes
  <2> QED
    BY <1>1, <1>2, <2>1
<1>7. ASSUME NEW p \in Servers, NEW r \in RuleIds, Records(p, r)
      PROVE  Owed'
  <2>1. /\ UNCHANGED <<events, versions, unlinked, wrote>>
        /\ \E x : Becomes(insert, insert', p, x)
        /\ Becomes(pc, pc', p, "insert")
        /\ pc[p] = "baseline"
    BY <1>7, Zenon DEF Records, stored
  <2>2. Open(p) /\ unlinked[p] = {} /\ insert[p] = {}
    BY <2>1 DEF Phases, Open
  <2>3. ASSUME NEW e \in DOMAIN events
        PROVE  Pays(p, e)'
    <3>1. Of(versions \cup wrote[p], events[e].rule) # {}
      BY <2>2 DEF Owed, Of
    <3> QED
      BY <2>1, <2>2, <3>1 DEF Of
  <2>4. \A q \in Servers \ {p} : pc'[q] = pc[q] /\ insert'[q] = insert[q]
    BY <2>1 DEF Becomes
  <2> QED
    BY <1>2, <2>1, <2>3, <2>4
<1>8. ASSUME NEW p \in Servers, Inserts(p)
      PROVE  Owed'
  <2>1. /\ UNCHANGED <<events, versions, unlinked>>
        /\ Becomes(insert, insert', p, {})
        /\ Becomes(wrote, wrote', p, wrote[p] \cup insert[p])
        /\ \E l : Becomes(pc, pc', p, l)
        /\ pc[p] = "insert"
    BY <1>8, Zenon DEF Inserts, stored
  <2>2. wrote'[p] \cup insert'[p] = wrote[p] \cup insert[p]
    BY <2>1 DEF Becomes
  <2>3. versions' \cup wrote'[p] \cup insert'[p] = versions \cup wrote[p] \cup insert[p]
    BY <2>1, <2>2
  <2>4. \A e \in DOMAIN events : Pays(p, e)'
    BY <2>1, <2>2, <2>3 DEF Owed, Open
  <2>5. \A q \in Servers \ {p} :
          pc'[q] = pc[q] /\ insert'[q] = insert[q] /\ wrote'[q] = wrote[q]
    BY <2>1 DEF Becomes
  <2> QED
    BY <1>2, <2>1, <2>4, <2>5
<1>9. ASSUME NEW p \in Servers, Commits(p) \/ Ends(p)
      PROVE  Owed'
  <2>1. /\ Drops(p) /\ UNCHANGED events /\ versions \subseteq versions'
        /\ \E l \in {"down", "count", "serving"} : Becomes(pc, pc', p, l)
    <3>1. CASE Commits(p)
      BY <3>1 DEF Commits
    <3>2. CASE Ends(p)
      BY <3>2, Zenon DEF Ends, stored
    <3> QED
      BY <1>9, <3>1, <3>2
  <2>2. ~Open(p)'
    BY <2>1 DEF Open, Becomes
  <2>3. \A q \in Servers \ {p} :
               /\ unlinked'[q] = unlinked[q] /\ wrote'[q] = wrote[q]
               /\ insert'[q] = insert[q] /\ pc'[q] = pc[q]
    BY <2>1 DEF Drops, Becomes
  <2> QED
    BY <1>2, <2>1, <2>2, <2>3
<1>10. ASSUME NEW p \in Servers, NEW draft \in Content, Publish(p, draft)
       PROVE  Owed'
  <2>1. PICK s \in RuleIds, e \in EventIds :
          /\ e \notin DOMAIN events /\ DOMAIN events' = DOMAIN events \cup {e}
          /\ \A f \in DOMAIN events : events'[f] = events[f]
          /\ events'[e] = [rule |-> s, draft |-> draft, sound |-> TRUE]
          /\ versions' = versions \cup
               {[rule |-> s, version |-> 1, content |-> draft, event |-> e]}
    BY <1>10, PublishFacts
  <2>2. UNCHANGED <<pc, unlinked, insert, wrote>>
    BY <1>10, PublishFacts DEF process
  <2>3. ASSUME NEW q \in Servers, Open(q), NEW f \in DOMAIN events
        PROVE  Pays(q, f)'
    BY <1>1, <2>1, <2>2, <2>3
  <2>4. ASSUME NEW q \in Servers
        PROVE  Pays(q, e)'
    <3>1. e \notin unlinked'[q]
      BY <2>1, <2>2 DEF Phases
    <3>2. [rule |-> s, version |-> 1, content |-> draft, event |-> e]
            \in Of(versions', s)
      BY <2>1 DEF Of
    <3>3. Of(versions' \cup wrote'[q] \cup insert'[q], s) # {}
      BY <3>2 DEF Of
    <3> QED
      BY <2>1, <3>1, <3>3
  <2>5. \A q \in Servers : Open(q)' => \A f \in DOMAIN events' : Pays(q, f)'
    <3>1. \A q \in Servers : Open(q)' <=> Open(q)
      BY <2>2 DEF Open
    <3>2. \A f \in DOMAIN events' : f \in DOMAIN events \/ f = e
      BY <2>1
    <3> HIDE DEF Pays
    <3> QED
      BY <2>3, <2>4, <3>1, <3>2, Zenon
  <2> QED
    BY <2>5 DEF Owed
<1>11. ASSUME NEW r \in RuleIds, NEW text \in Texts, Edit(r, text)
       PROVE  Owed'
  <2>1. UNCHANGED <<events, versions, process>>
    BY <1>11, Zenon DEF Edit
  <2> QED
    BY <2>1 DEF Owed, process, Open
<1> QED
  BY <1>0, <1>3, <1>4, <1>5, <1>6, <1>7, <1>8, <1>9, <1>10, <1>11, Zenon DEF Kinds, Moves

LEMMA LoadedKeptStep ==
  ASSUME Typed, Phases, WroteHistories, LoadedKept, Next
  PROVE  LoadedKept'
<1> DEFINE Kept(q, r) == loaded[q] # None /\ loaded[q][r] # None =>
                           /\ rules[r] # None
                           /\ loaded[q][r].content = rules[r].content
                           /\ loaded[q][r].source = rules[r].source
<1>0. Kinds
  BY StepKinds
\* The step leaves the content of the stored rules alone.
<1>1. ASSUME NEW p \in Servers,
             \A q \in Servers \ {p} : loaded'[q] = loaded[q],
             loaded'[p] = loaded[p] \/ loaded'[p] = None,
             \A r \in RuleIds : rules[r] # None =>
               /\ rules'[r] # None
               /\ rules'[r].content = rules[r].content
               /\ rules'[r].source = rules[r].source
      PROVE  LoadedKept'
  <2>1. ASSUME NEW q \in Servers, NEW r \in RuleIds, loaded'[q] = loaded[q]
        PROVE  Kept(q, r)'
    BY <1>1, <2>1 DEF LoadedKept
  <2>2. ASSUME NEW r \in RuleIds
        PROVE  Kept(p, r)'
    BY <1>1, <2>1
  <2> QED
    BY <1>1, <2>1, <2>2 DEF LoadedKept
<1>2. ASSUME NEW p \in Servers, UNCHANGED <<rules, loaded>>
      PROVE  LoadedKept'
  BY <1>2 DEF LoadedKept
<1>3. ASSUME NEW s \in RuleIds, NEW x, FreeRule(s), rules' = [rules EXCEPT ![s] = x]
      PROVE  \A r \in RuleIds : rules[r] # None => rules'[r] = rules[r]
  BY <1>3 DEF FreeRule, Used, Typed
<1>4. ASSUME NEW p \in Servers,
             Idles(p) \/ Prepares(p) \/ Inserts(p)
             \/ (\E r \in RuleIds : Records(p, r) \/ Passes(p, r))
             \/ (\E e \in EventIds : TakesUp(p, e))
      PROVE  LoadedKept'
  <2>1. UNCHANGED <<rules, loaded>>
    BY <1>4, Zenon DEF Idles, Prepares, Prepare, Inserts, Records, Passes, TakesUp,
                       stored, tables, work
  <2> QED
    BY <1>2, <2>1
<1>5. ASSUME NEW p \in Servers, NEW s \in RuleIds, CreatesRule(p, s)
      PROVE  LoadedKept'
  <2>1. FreeRule(s) /\ \E x : rules' = [rules EXCEPT ![s] = x]
    BY <1>5 DEF CreatesRule
  <2>2. UNCHANGED loaded
    BY <1>5, Zenon DEF CreatesRule, work
  <2> QED
    BY <1>1, <1>3, <2>1, <2>2
<1>6. ASSUME NEW p \in Servers, NEW draft \in Content, Publish(p, draft)
      PROVE  LoadedKept'
  <2>1. \E s \in RuleIds : FreeRule(s) /\ \E x : rules' = [rules EXCEPT ![s] = x]
    BY <1>6, PublishFacts
  <2>2. UNCHANGED loaded
    BY <1>6, PublishFacts DEF process
  <2> QED
    BY <1>1, <1>3, <2>1, <2>2
<1>7. ASSUME NEW p \in Servers, Loads(p)
      PROVE  LoadedKept'
  <2>1. /\ UNCHANGED rules
        /\ Becomes(loaded, loaded', p, [r \in RuleIds |-> LoadedRule(p, r)])
    BY <1>7, Zenon DEF Loads, stored
  <2>2. ASSUME NEW r \in RuleIds, LoadedRule(p, r) # None
        PROVE  /\ rules[r] # None
               /\ LoadedRule(p, r).content = rules[r].content
               /\ LoadedRule(p, r).source = rules[r].source
    <3>1. rules[r] # None
      BY <2>2 DEF LoadedRule
    <3>2. rules[r] \in Rule
      BY <3>1 DEF Typed
    <3> QED
      BY <3>1, <3>2 DEF LoadedRule, Rule
  <2>3. \A r \in RuleIds : loaded'[p][r] = LoadedRule(p, r)
    BY <2>1 DEF Becomes
  <2>4. \A q \in Servers \ {p} : loaded'[q] = loaded[q]
    BY <2>1 DEF Becomes
  <2> QED
    BY <2>1, <2>2, <2>3, <2>4 DEF LoadedKept
<1>8. ASSUME NEW p \in Servers, Commits(p)
      PROVE  LoadedKept'
  <2>1. \A r \in RuleIds : rules'[r] = Numbered(r, wrote[p])
    BY <1>8 DEF Commits
  <2>2. loaded'[p] = None /\ \A q \in Servers \ {p} : loaded'[q] = loaded[q]
    BY <1>8 DEF Commits, Drops, Becomes
  <2>3. ASSUME NEW r \in RuleIds, rules[r] # None
        PROVE  /\ rules'[r] # None
               /\ rules'[r].content = rules[r].content
               /\ rules'[r].source = rules[r].source
    BY <2>1, <2>3, NumberedKeeps, WroteCounted
  <2> QED
    BY <1>1, <2>2, <2>3
<1>9. ASSUME NEW p \in Servers, Ends(p)
      PROVE  LoadedKept'
  <2>1. UNCHANGED rules
    BY <1>9, Zenon DEF Ends, stored
  <2>2. loaded'[p] = None /\ \A q \in Servers \ {p} : loaded'[q] = loaded[q]
    BY <1>9 DEF Ends, Drops, Becomes
  <2> QED
    BY <1>1, <2>1, <2>2
<1>10. ASSUME NEW r \in RuleIds, NEW text \in Texts, Edit(r, text)
       PROVE  LoadedKept'
  <2>1. UNCHANGED loaded
    BY <1>10, Zenon DEF Edit, process
  <2>2. \A q \in Servers : loaded[q] = None
    BY <1>10 DEF Edit, Phases, Open
  <2> QED
    BY <2>1, <2>2 DEF LoadedKept
<1> QED
  BY <1>0, <1>4, <1>5, <1>6, <1>7, <1>8, <1>9, <1>10, Zenon DEF Kinds, Moves

(***************************************************************************)
(* The histories of the rules, stored or under way.                        *)
(***************************************************************************)
Recorded == Typed /\ Phases /\ Histories /\ Apart /\ Owed /\ LoadedKept

LEMMA Founded == Init => Recorded
<1> SUFFICES ASSUME Init
             PROVE  Recorded
  OBVIOUS
<1>1. rules \in [RuleIds -> Rule \cup {None}]
  <2>1. CASE Fresh
    BY <2>1 DEF Fresh
  <2>2. CASE Legacy
    <3>1. PICK some \in SUBSET DOMAIN LegacyCodes :
            \E was \in [some -> UNION {LegacyRule(r) : r \in some}] :
              /\ \A r \in some : was[r] \in LegacyRule(r)
              /\ rules = [r \in RuleIds |-> IF r \in some THEN was[r] ELSE None]
      BY <2>2 DEF Legacy
    <3>2. \A r \in some : LegacyRule(r) \subseteq Rule
      BY DEF LegacyRule, Rule
    <3> QED
      BY <3>1, <3>2
  <2> QED
    BY <2>1, <2>2 DEF Init
<1>2. events \in Seq(Event) /\ Len(events) <= MaxEvents
  <2>1. CASE Fresh
    BY <2>1, StartupAssumption DEF Fresh
  <2>2. CASE Legacy
    <3>1. PICK n \in 0..MaxEvents : events \in [1..n -> LegacyEvent]
      BY <2>2 DEF Legacy
    <3>2. LegacyEvent \subseteq Event
      BY DEF LegacyEvent
    <3> HIDE DEF LegacyEvent, Event
    <3>3. n \in Nat /\ n <= MaxEvents
      BY StartupAssumption
    <3>4. events \in [1..n -> Event]
      BY <3>1, <3>2
    <3>5. events \in Seq(Event)
      BY <3>3, <3>4
    <3>6. Len(events) = n
      BY <3>3, <3>4, <3>5
    <3> QED
      BY <3>3, <3>5, <3>6
  <2> QED
    BY <2>1, <2>2 DEF Init
<1>3. categories \in BOOLEAN /\ cases \in Nat /\ disturbed \in BOOLEAN
  <2>1. CASE Fresh
    BY <2>1 DEF Fresh
  <2>2. CASE Legacy
    <3>1. categories = TRUE /\ cases = 1 /\ disturbed = TRUE
      BY <2>2, Zenon DEF Legacy
    <3> QED
      BY <3>1
  <2> QED
    BY <2>1, <2>2 DEF Init
<1>4. Typed
  BY <1>1, <1>2, <1>3 DEF Init, Typed, Labels
<1>5. Phases /\ Histories /\ Apart
  BY DEF Init, Phases, Open, Histories, WroteHistories, Apart, Of
<1>6. Owed /\ LoadedKept
  BY DEF Init, Owed, Open, LoadedKept
<1> QED
  BY <1>4, <1>5, <1>6 DEF Recorded

LEMMA RecordedStays == Recorded /\ [Next]_vars => Recorded'
<1> SUFFICES ASSUME Recorded, [Next]_vars
             PROVE  Recorded'
  OBVIOUS
<1>1. Typed /\ Phases /\ Histories /\ Apart /\ Owed /\ LoadedKept /\ WroteHistories
  BY DEF Recorded, Histories
<1>2. CASE Next
  BY <1>1, <1>2, TypedStep, PhasesStep, HistoriesStep, ApartStep, OwedStep,
     LoadedKeptStep DEF Recorded
<1>3. CASE UNCHANGED vars
  <2>1. UNCHANGED <<tables, process, history>>
    BY <1>3 DEF vars
  <2>2. UNCHANGED <<rules, events, versions, categories, cases>>
    BY <2>1 DEF tables
  <2>3. UNCHANGED <<pc, importing, unlinked, loaded, at, insert, wrote, failure>>
    BY <2>1 DEF process
  <2>4. UNCHANGED <<known, doomed, raced, flawed, disturbed>>
    BY <2>1 DEF history
  <2>5. Typed'
    BY <1>1, <2>2, <2>3, <2>4 DEF Typed
  <2>6. Phases'
    BY <1>1, <2>2, <2>3 DEF Phases, Open
  <2>7. \A vs, r : History(vs, r)' <=> History(vs, r)
    BY <2>2 DEF History, SoundVersion, EventsOf, Rooted, Origin
  <2>8. Histories'
    BY <1>1, <2>2, <2>3, <2>7 DEF Histories, WroteHistories
  <2>9. Apart'
    BY <1>1, <2>2, <2>3 DEF Apart
  <2>10. Owed'
    BY <1>1, <2>2, <2>3 DEF Owed, Open
  <2>11. LoadedKept'
    BY <1>1, <2>2, <2>3 DEF LoadedKept
  <2> QED
    BY <2>5, <2>6, <2>8, <2>9, <2>10, <2>11 DEF Recorded
<1> QED
  BY <1>2, <1>3

\* The types hold of every reachable state, and what is stored, written and
\* about to be inserted are histories that keep apart.
THEOREM HistoriesRecorded == Spec => []Recorded
BY Founded, RecordedStays, PTL DEF Spec

LEMMA RecordedHonest == Recorded => HistoryHonest
<1> SUFFICES ASSUME Recorded, NEW r \in RuleIds
             PROVE  LET vs == Of(versions, r)
                    IN  /\ {v.version : v \in vs} = 1..Cardinality(vs)
                        /\ \A v \in vs : SoundVersion(v)
                        /\ vs # {} => \A e \in EventsOf(r) :
                                        Cardinality({v \in vs : v.event = e}) = 1
  BY DEF HistoryHonest
<1>1. CASE Of(versions, r) = {}
  <2>1. Cardinality(Of(versions, r)) = 0
    BY <1>1, FewCardinality
  <2> QED
    BY <1>1, <2>1
<1>2. CASE Of(versions, r) # {}
  <2>1. Typed /\ History(Of(versions, r), r)
    BY <1>2 DEF Recorded, Histories
  <2>2. {v.version : v \in Of(versions, r)} = 1..Cardinality(Of(versions, r))
    BY <2>1, TypedSets, HistoryCounted
  <2>3. \A v \in Of(versions, r) : SoundVersion(v)
    BY <2>1 DEF History
  <2>4. ASSUME NEW e \in EventsOf(r)
        PROVE  Cardinality({v \in Of(versions, r) : v.event = e}) = 1
    <3>1. PICK a \in Of(versions, r) : a.version = 1
      BY <2>1 DEF History
    <3>2. e # None
      BY <2>1, EventsIndexed, NoneAssumption DEF EventsOf
    <3>3. a.event = e
      BY <2>1, <3>1, <3>2 DEF History
    <3>4. \A v \in Of(versions, r) : v.version \in {1, 2}
      BY <2>1, TypedSets DEF Version
    <3>5. \A v \in Of(versions, r) : v.event = e => v = a
      BY <2>1, <3>1, <3>2, <3>4 DEF History
    <3>6. {v \in Of(versions, r) : v.event = e} = {a}
      BY <3>3, <3>5
    <3> QED
      BY <3>6, FewCardinality, Zenon
  <2> QED
    BY <2>2, <2>3, <2>4
<1> QED
  BY <1>1, <1>2

\* Every history is honest at every step, whichever processes prepare, publish
\* and end together: numbered without gaps, one version for every event, and
\* the controlled versions what their events have published.
THEOREM HistoriesHonest == Spec => []HistoryHonest
BY HistoriesRecorded, RecordedHonest, PTL

(***************************************************************************)
(* What a step does to the stored tables, rule by rule.                    *)
(***************************************************************************)
Same(r) ==
  rules'[r] = rules[r] /\ Of(versions', r) = Of(versions, r) /\ EventsOf(r)' = EventsOf(r)

\* The rule is created, or published with its event and its version.
Starts(r) ==
  /\ FreeRule(r)
  /\ rules'[r] \in Rule /\ rules'[r].version = 1
  /\ \/ rules'[r].source = None /\ Of(versions', r) = {} /\ EventsOf(r)' = {}
     \/ \E e \in EventIds, v \in versions' :
          /\ rules'[r].source = e /\ EventsOf(r)' = {e} /\ events'[e].sound
          /\ Of(versions', r) = {v} /\ v.version = 1 /\ v.content = rules'[r].content

\* The rule gets the history process p has written.
Gains(p, r) ==
  /\ Of(wrote[p], r) # {} /\ Of(versions, r) = {}
  /\ Of(versions', r) = Of(wrote[p], r)
  /\ rules'[r] = Numbered(r, wrote[p])
  /\ EventsOf(r)' = EventsOf(r)

LEMMA RuleMoves ==
  ASSUME Recorded, NEW p \in Servers, Moves(p), NEW r \in RuleIds
  PROVE  Same(r) \/ Starts(r) \/ (Commits(p) /\ Gains(p, r))
<1>0. Typed /\ Phases /\ WroteHistories /\ Apart
  BY DEF Recorded, Histories
<1>1. CASE UNCHANGED stored
  BY <1>1 DEF stored, Same, EventsOf
<1>2. ASSUME NEW s \in RuleIds, CreatesRule(p, s)
      PROVE  Same(r) \/ Starts(r)
  <2>1. PICK text \in Texts :
          rules' = [rules EXCEPT ![s] = [content |-> [code |-> SeedCode, text |-> text],
                                         version |-> 1, source |-> None]]
    BY <1>2 DEF CreatesRule
  <2>2. UNCHANGED <<events, versions>> /\ FreeRule(s)
    BY <1>2, Zenon DEF CreatesRule
  <2>3. CASE s # r
    BY <1>0, <2>1, <2>2, <2>3 DEF Same, EventsOf, Typed
  <2>4. CASE s = r
    <3> DEFINE x == [content |-> [code |-> SeedCode, text |-> text],
                     version |-> 1, source |-> None]
    <3>1. x \in Rule /\ x.version = 1 /\ x.source = None
      BY SeedTyped
    <3> HIDE DEF x
    <3>2. rules'[r] = x
      BY <1>0, <2>1, <2>4 DEF Typed, x
    <3>3. EventsOf(r)' = {} /\ Of(versions', r) = {}
      BY <2>2, <2>4 DEF FreeRule, Used, EventsOf
    <3> QED
      BY <2>2, <2>4, <3>1, <3>2, <3>3 DEF Starts
  <2> QED
    BY <2>3, <2>4
<1>3. ASSUME NEW draft \in Content, Publish(p, draft)
      PROVE  Same(r) \/ Starts(r)
  <2>1. PICK s \in RuleIds, e \in EventIds :
          /\ FreeRule(s)
          /\ e \notin DOMAIN events /\ DOMAIN events' = DOMAIN events \cup {e}
          /\ \A f \in DOMAIN events : events'[f] = events[f]
          /\ events'[e] = [rule |-> s, draft |-> draft, sound |-> TRUE]
          /\ rules' = [rules EXCEPT ![s] =
               [content |-> draft, version |-> 1, source |-> e]]
          /\ versions' = versions \cup
               {[rule |-> s, version |-> 1, content |-> draft, event |-> e]}
    BY <1>0, <1>3, PublishFacts
  <2>2. events'[e].rule = s /\ events'[e].sound
    BY <2>1
  <2>3. CASE s # r
    <3>1. rules'[r] = rules[r]
      BY <1>0, <2>1, <2>3 DEF Typed
    <3>2. Of(versions', r) = Of(versions, r)
      BY <2>1, <2>3 DEF Of
    <3>3. EventsOf(r)' = EventsOf(r)
      BY <2>1, <2>2, <2>3 DEF EventsOf
    <3> QED
      BY <3>1, <3>2, <3>3 DEF Same
  <2>4. CASE s = r
    <3> DEFINE x == [content |-> draft, version |-> 1, source |-> e]
               v == [rule |-> s, version |-> 1, content |-> draft, event |-> e]
    <3>1. x \in Rule /\ x.version = 1 /\ x.source = e /\ x.content = draft
      BY DEF Rule
    <3>2. v.rule = s /\ v.version = 1 /\ v.content = draft
      OBVIOUS
    <3>3. versions' = versions \cup {v} /\ rules' = [rules EXCEPT ![s] = x]
      BY <2>1
    <3> HIDE DEF x, v
    <3>4. rules'[r] = x
      BY <1>0, <2>4, <3>3 DEF Typed
    <3>5. EventsOf(r) = {} /\ Of(versions, r) = {}
      BY <2>1, <2>4 DEF FreeRule, Used
    <3>6. EventsOf(r)' = {e}
      BY <2>1, <2>2, <2>4, <3>5 DEF EventsOf
    <3>7. Of(versions', r) = {v}
      BY <2>4, <3>2, <3>3, <3>5 DEF Of
    <3>8. v \in versions'
      BY <3>3
    <3>9. /\ rules'[r] \in Rule /\ rules'[r].version = 1
          /\ rules'[r].source = e /\ v.content = rules'[r].content
      BY <3>1, <3>2, <3>4
    <3>10. FreeRule(r) /\ events'[e].sound /\ v.version = 1
      BY <2>1, <2>2, <2>4, <3>2
    <3> QED
      BY <3>6, <3>7, <3>8, <3>9, <3>10, Zenon DEF Starts
  <2> QED
    BY <2>3, <2>4
<1>4. ASSUME Commits(p)
      PROVE  Same(r) \/ Gains(p, r)
  <2>1. /\ versions' = versions \cup wrote[p] /\ rules'[r] = Numbered(r, wrote[p])
        /\ UNCHANGED events
    BY <1>4 DEF Commits
  <2>2. EventsOf(r)' = EventsOf(r)
    BY <2>1 DEF EventsOf
  <2>3. CASE Of(wrote[p], r) = {}
    <3>1. Of(versions', r) = Of(versions, r)
      BY <2>1, <2>3 DEF Of
    <3>2. rules'[r] = rules[r]
      BY <2>1, <2>3 DEF Numbered
    <3> QED
      BY <2>2, <3>1, <3>2 DEF Same
  <2>4. CASE Of(wrote[p], r) # {}
    <3>1. Of(versions, r) = {}
      BY <1>0, <2>4 DEF Apart
    <3>2. Of(versions', r) = Of(wrote[p], r)
      BY <2>1, <3>1 DEF Of
    <3> QED
      BY <2>1, <2>2, <2>4, <3>1, <3>2 DEF Gains
  <2> QED
    BY <2>3, <2>4
<1> QED
  BY <1>1, <1>2, <1>3, <1>4, TablesStill, Zenon DEF Moves

\* Events stay what they were, and a new one is sound.
LEMMA EventsMove ==
  ASSUME Recorded, NEW p \in Servers, Moves(p)
  PROVE  /\ \A e \in DOMAIN events : e \in DOMAIN events' /\ events'[e] = events[e]
         /\ \A e \in DOMAIN events' \ DOMAIN events :
              events'[e].sound /\ events'[e] \in Event /\ EventsOf(events'[e].rule) = {}
<1>0. Typed
  BY DEF Recorded
<1>1. CASE UNCHANGED events
  BY <1>1
<1>2. ASSUME NEW draft \in Content, Publish(p, draft)
      PROVE  /\ \A e \in DOMAIN events : e \in DOMAIN events' /\ events'[e] = events[e]
             /\ \A e \in DOMAIN events' \ DOMAIN events :
                  events'[e].sound /\ events'[e] \in Event
                  /\ EventsOf(events'[e].rule) = {}
  <2>1. PICK s \in RuleIds, e \in EventIds :
          /\ FreeRule(s)
          /\ e \notin DOMAIN events /\ DOMAIN events' = DOMAIN events \cup {e}
          /\ \A f \in DOMAIN events : events'[f] = events[f]
          /\ events'[e] = [rule |-> s, draft |-> draft, sound |-> TRUE]
    BY <1>0, <1>2, PublishFacts
  <2>2. events'[e].rule = s /\ events'[e].sound /\ events'[e] \in Event
    BY <2>1 DEF Event
  <2>3. EventsOf(s) = {}
    BY <2>1 DEF FreeRule, Used
  <2> QED
    BY <2>1, <2>2, <2>3
<1>3. ASSUME Commits(p) \/ \E r \in RuleIds : CreatesRule(p, r)
      PROVE  UNCHANGED events
  BY <1>3 DEF Commits, CreatesRule
<1>4. UNCHANGED stored => UNCHANGED events
  BY DEF stored
<1> QED
  BY <1>1, <1>2, <1>3, <1>4, TablesStill, Zenon DEF Moves

\* An edit changes the content of one rule, while no process prepares.
LEMMA EditFacts ==
  ASSUME Recorded, NEW s \in RuleIds, NEW text \in Texts, Edit(s, text)
  PROVE  /\ UNCHANGED <<events, versions, process, known, doomed, raced>>
         /\ flawed' = TRUE
         /\ \A q \in Servers : ~Open(q) /\ ~Open(q)'
         /\ \A r \in RuleIds :
              /\ rules'[r] # None <=> rules[r] # None
              /\ rules[r] # None =>
                   /\ rules'[r].version = rules[r].version
                   /\ rules'[r].source = rules[r].source
                   /\ rules'[r].content.code = rules[r].content.code
<1>1. UNCHANGED <<events, versions, process, known, doomed, raced>> /\ flawed' = TRUE
  BY Zenon DEF Edit
<1>2. \A q \in Servers : ~Open(q) /\ ~Open(q)'
  BY <1>1 DEF Edit, Open, process
<1>3. Typed /\ rules[s] \in Rule
  BY DEF Edit, Recorded, Typed
<1>4. PICK x : x = [rules[s] EXCEPT !.content.text = text]
  OBVIOUS
<1>5. rules' = [rules EXCEPT ![s] = x]
  BY <1>3, <1>4 DEF Edit, Typed
<1>6. /\ x \in Rule /\ x.version = rules[s].version /\ x.source = rules[s].source
      /\ x.content.code = rules[s].content.code
  BY <1>3, <1>4 DEF Rule, Content
<1>7. ASSUME NEW r \in RuleIds
      PROVE  /\ rules'[r] # None <=> rules[r] # None
             /\ rules[r] # None =>
                  /\ rules'[r].version = rules[r].version
                  /\ rules'[r].source = rules[r].source
                  /\ rules'[r].content.code = rules[r].content.code
  BY <1>3, <1>5, <1>6, NoneAssumption DEF Typed
<1> QED
  BY <1>1, <1>2, <1>7

LEMMA StableStep ==
  ASSUME Recorded, Next, NEW r \in RuleIds, Of(versions, r) # {}
  PROVE  /\ Of(versions', r) = Of(versions, r)
         /\ rules[r] # None =>
              rules'[r] # None /\ rules'[r].version = rules[r].version
<1>1. Kinds
  BY StepKinds DEF Recorded
<1>2. ~FreeRule(r)
  BY DEF FreeRule, Used
<1>3. ASSUME NEW p \in Servers, Moves(p)
      PROVE  Same(r)
  BY <1>2, <1>3, RuleMoves DEF Starts, Gains
<1>4. ASSUME NEW s \in RuleIds, NEW text \in Texts, Edit(s, text)
      PROVE  /\ UNCHANGED versions
             /\ rules[r] # None =>
                  rules'[r] # None /\ rules'[r].version = rules[r].version
  BY <1>4, EditFacts
<1> QED
  BY <1>1, <1>3, <1>4 DEF Kinds, Same

\* A rule that has a history keeps it and its number: two processes that
\* prepare the same rule at the same time do not both record it, and no later
\* start records it again.
THEOREM HistoriesStable == Spec => HistoryStable
<1> DEFINE Keeps == \A r \in RuleIds : Of(versions, r) # {} =>
       /\ Of(versions', r) = Of(versions, r)
       /\ rules[r] # None =>
            rules'[r] # None /\ rules'[r].version = rules[r].version
<1>1. Recorded /\ [Next]_vars => [Keeps]_vars
  BY StableStep
<1> QED
  BY <1>1, HistoriesRecorded, PTL DEF Spec, HistoryStable

(***************************************************************************)
(* Tables that bear each other out.                                        *)
(***************************************************************************)
\* The latest version is what rule r is now.
Matched(r) == MatchesLatest(rules[r], Of(versions, r))
Current(vs, r) == \E v : Latest(vs, v) /\ v.content = rules[r].content

\* Coherent, for tables whose histories are recorded.
Plain ==
  /\ \A e \in DOMAIN events : events[e].sound
  /\ \A e, f \in DOMAIN events : events[e].rule = events[f].rule => e = f
  /\ \A r \in RuleIds : Rooted(r)
  /\ \A r \in RuleIds : rules[r] # None /\ Of(versions, r) # {} => Matched(r)

LEMMA OnlyOne ==
  ASSUME NEW S, IsFiniteSet(S)
  PROVE  Cardinality(S) <= 1 <=> \A a, b \in S : a = b
<1>1. ASSUME Cardinality(S) <= 1, NEW a \in S, NEW b \in S, a # b
      PROVE  FALSE
  <2>1. Cardinality({a, b}) = 2
    BY <1>1, FewCardinality
  <2>2. Cardinality({a, b}) <= Cardinality(S)
    BY FS_Subset
  <2>3. Cardinality(S) \in Nat
    BY FS_CardinalityType
  <2> QED
    BY <1>1, <2>1, <2>2, <2>3
<1>2. ASSUME \A a, b \in S : a = b
      PROVE  Cardinality(S) <= 1
  <2>1. CASE S = {}
    BY <2>1, FewCardinality
  <2>2. CASE S # {}
    <3>1. PICK a : S = {a}
      BY <1>2, <2>2
    <3>2. Cardinality(S) = 1
      BY <3>1, FewCardinality, Zenon
    <3> QED
      BY <3>2
  <2> QED
    BY <2>1, <2>2
<1> QED
  BY <1>1, <1>2

LEMMA CoherentPlain == Recorded => (Coherent <=> Plain)
<1> SUFFICES ASSUME Recorded
             PROVE  Coherent <=> Plain
  OBVIOUS
<1> DEFINE es(r) == {e \in EventsOf(r) : ~Linked(Of(versions, r), e)}
<1>1. Typed /\ Histories
  BY DEF Recorded
<1>2. ASSUME NEW r \in RuleIds, Of(versions, r) # {}
      PROVE  es(r) = {} /\ Rooted(r) /\ \A e, f \in EventsOf(r) : e = f
  <2>1. History(Of(versions, r), r)
    BY <1>1, <1>2 DEF Histories
  <2>2. PICK a \in Of(versions, r) : a.version = 1
    BY <2>1 DEF History
  <2>3. EventsOf(r) = IF a.event = None THEN {} ELSE {a.event}
    BY <2>1, <2>2 DEF History
  <2> QED
    BY <2>1, <2>2, <2>3 DEF History, Linked
<1>3. ASSUME NEW r \in RuleIds, Of(versions, r) = {}
      PROVE  es(r) = EventsOf(r)
  BY <1>3 DEF Linked
<1>4. ASSUME NEW r \in RuleIds
      PROVE  IsFiniteSet(es(r))
  <2>1. IsFiniteSet(1..Len(events)) /\ EventsOf(r) \subseteq 1..Len(events)
    BY <1>1, EventsIndexed, FS_Interval DEF EventsOf
  <2>2. es(r) \subseteq 1..Len(events)
    BY <2>1
  <2> QED
    BY <2>1, <2>2, FS_Subset
<1>5. \A v \in versions : SoundVersion(v)
  <2> SUFFICES ASSUME NEW v \in versions
               PROVE  SoundVersion(v)
    OBVIOUS
  <2>1. v.rule \in RuleIds /\ v \in Of(versions, v.rule)
    BY <1>1, TypedSets DEF Version, Of
  <2> QED
    BY <1>1, <2>1 DEF Histories, History
<1>6. ASSUME NEW r \in RuleIds
      PROVE  (/\ Of(versions, r) # {} => es(r) = {}
              /\ Cardinality(es(r)) <= 1
              /\ rules[r] # None =>
                   IF Of(versions, r) = {}
                   THEN es(r) = IF rules[r].source = None THEN {} ELSE {rules[r].source}
                   ELSE MatchesLatest(rules[r], Of(versions, r)))
             <=> (/\ \A e, f \in EventsOf(r) : e = f
                  /\ Rooted(r)
                  /\ rules[r] # None /\ Of(versions, r) # {} => Matched(r))
  <2>1. Cardinality(es(r)) <= 1 <=> \A e, f \in es(r) : e = f
    BY <1>4, OnlyOne
  <2> HIDE DEF es
  <2>2. CASE Of(versions, r) = {}
    BY <1>3, <2>1, <2>2, Zenon DEF Rooted, Origin
  <2>3. CASE Of(versions, r) # {}
    BY <1>2, <2>1, <2>3, Zenon DEF Matched
  <2> QED
    BY <2>2, <2>3
<1>7. Coherent <=> /\ \A e \in DOMAIN events : events[e].sound
                   /\ \A r \in RuleIds :
                        /\ Of(versions, r) # {} => es(r) = {}
                        /\ Cardinality(es(r)) <= 1
                        /\ rules[r] # None =>
                             IF Of(versions, r) = {}
                             THEN es(r) = IF rules[r].source = None THEN {}
                                          ELSE {rules[r].source}
                             ELSE MatchesLatest(rules[r], Of(versions, r))
  BY <1>5, Zenon DEF Coherent
<1> HIDE DEF es
<1>8. Coherent <=> /\ \A e \in DOMAIN events : events[e].sound
                   /\ \A r \in RuleIds : /\ \A e, f \in EventsOf(r) : e = f
                                         /\ Rooted(r)
                                         /\ rules[r] # None /\ Of(versions, r) # {}
                                              => Matched(r)
  BY <1>6, <1>7, Zenon
<1>9. (\A r \in RuleIds : \A e, f \in EventsOf(r) : e = f)
        <=> \A e, f \in DOMAIN events : events[e].rule = events[f].rule => e = f
  <2>1. \A e \in DOMAIN events : events[e].rule \in RuleIds
    BY <1>1, EventsIndexed DEF Event
  <2> QED
    BY <2>1 DEF EventsOf
<1> QED
  BY <1>8, <1>9, Zenon DEF Plain

\* The rules are numbered as their latest versions, and what is written or
\* about to be inserted ends with what the rule is now.
Numbers ==
  \A r \in RuleIds : rules[r] # None =>
    IF Of(versions, r) = {} THEN rules[r].version = 1
    ELSE \E v : Latest(Of(versions, r), v) /\ v.version = rules[r].version

Carried ==
  \A p \in Servers, r \in RuleIds : rules[r] # None =>
    /\ Of(wrote[p], r) # {} => Current(Of(wrote[p], r), r)
    /\ Of(insert[p], r) # {} => Current(Of(insert[p], r), r)

Agreed == Numbers /\ Carried /\ (~flawed => Plain)

\* A rule that gets its history matches it.
LEMMA GainsMatch ==
  ASSUME Recorded, Carried, NEW p \in Servers, NEW r \in RuleIds, rules[r] # None,
         Gains(p, r)
  PROVE  /\ Matched(r)'
         /\ rules'[r] # None /\ rules'[r].source = rules[r].source
         /\ rules'[r].content = rules[r].content
         /\ \E v : Latest(Of(versions', r), v) /\ v.version = rules'[r].version
<1> DEFINE vs == Of(wrote[p], r)
<1>1. Typed /\ WroteHistories /\ History(vs, r) /\ vs \in SUBSET Version
  BY TypedSets DEF Recorded, Histories, WroteHistories, Gains
<1>2. Cardinality(vs) \in 1..2
  BY <1>1, HistoryCounted
<1>3. /\ rules'[r] # None /\ rules'[r].source = rules[r].source
      /\ rules'[r].content = rules[r].content
      /\ rules'[r].version = Cardinality(vs)
  BY <1>1, <1>2, NumberedKeeps DEF Gains
<1>4. PICK v : Latest(vs, v) /\ v.version = Cardinality(vs)
  BY <1>1, HistoryCounted
<1>5. PICK w : Latest(vs, w) /\ w.content = rules[r].content
  BY DEF Carried, Current, Gains
<1>6. v = w
  <2>1. v.version = w.version
    BY <1>1, <1>4, <1>5 DEF Latest, Version
  <2> QED
    BY <1>1, <1>4, <1>5, <2>1 DEF History, Latest
<1>7. Of(versions', r) = vs
  BY DEF Gains
<1>8. MatchesLatest(rules'[r], Of(versions', r))
  BY <1>3, <1>4, <1>5, <1>6, <1>7 DEF MatchesLatest, Latest
<1> QED
  BY <1>3, <1>4, <1>7, <1>8 DEF Matched

\* A rule that starts matches the version it starts with.
LEMMA StartsMatch ==
  ASSUME NEW r \in RuleIds, Starts(r)
  PROVE  /\ rules'[r] # None /\ Rooted(r)'
         /\ Of(versions', r) # {} => Matched(r)'
         /\ IF Of(versions', r) = {} THEN rules'[r].version = 1
            ELSE \E v : Latest(Of(versions', r), v) /\ v.version = rules'[r].version
         /\ \A e \in EventsOf(r)' : events'[e].sound
         /\ \A e, f \in EventsOf(r)' : e = f
<1>1. rules'[r] # None /\ rules'[r].version = 1
  BY NoneAssumption DEF Starts
<1>2. CASE rules'[r].source = None /\ Of(versions', r) = {} /\ EventsOf(r)' = {}
  <2>1. Rooted(r)'
    BY <1>2 DEF Rooted, Origin
  <2> QED
    BY <1>1, <1>2, <2>1
<1>3. ASSUME NEW e \in EventIds, NEW v \in versions',
             rules'[r].source = e, EventsOf(r)' = {e}, events'[e].sound,
             Of(versions', r) = {v}, v.version = 1, v.content = rules'[r].content
      PROVE  /\ Rooted(r)'
             /\ Matched(r)'
             /\ Of(versions', r) # {}
             /\ \E w : Latest(Of(versions', r), w) /\ w.version = rules'[r].version
             /\ \A f \in EventsOf(r)' : events'[f].sound
             /\ \A f, g \in EventsOf(r)' : f = g
  <2>1. Rooted(r)'
    BY <1>3, NoneAssumption DEF Rooted, Origin
  <2>2. MatchesLatest(rules'[r], Of(versions', r))
    BY <1>1, <1>3 DEF MatchesLatest
  <2>3. Latest(Of(versions', r), v) /\ v.version = rules'[r].version
    BY <1>1, <1>3 DEF Latest
  <2> QED
    BY <1>3, <2>1, <2>2, <2>3 DEF Matched
<1> QED
  BY <1>1, <1>2, <1>3 DEF Starts

LEMMA MovesKeep ==
  ASSUME Recorded, Carried, NEW p \in Servers, Moves(p), NEW r \in RuleIds,
         rules[r] # None
  PROVE  /\ rules'[r] # None /\ rules'[r].source = rules[r].source
         /\ rules'[r].content = rules[r].content
         /\ ~Starts(r)
<1>1. ~Starts(r)
  BY DEF Starts, FreeRule, Used
<1>2. CASE Same(r)
  BY <1>1, <1>2 DEF Same
<1>3. CASE Gains(p, r)
  BY <1>1, <1>3, GainsMatch
<1> QED
  BY <1>1, <1>2, <1>3, RuleMoves

LEMMA NumbersMove ==
  ASSUME Recorded, Agreed, NEW p \in Servers, Moves(p)
  PROVE  Numbers'
<1> SUFFICES ASSUME NEW r \in RuleIds, rules'[r] # None
             PROVE  IF Of(versions', r) = {} THEN rules'[r].version = 1
                    ELSE \E v : Latest(Of(versions', r), v) /\ v.version = rules'[r].version
  BY DEF Numbers, Latest
<1>1. CASE Same(r)
  BY <1>1 DEF Agreed, Numbers, Same
<1>2. CASE Starts(r)
  BY <1>2, StartsMatch
<1>3. CASE Gains(p, r)
  <2>1. History(Of(wrote[p], r), r) /\ Of(wrote[p], r) # {} /\ Of(versions', r) # {}
    BY <1>3 DEF Recorded, Histories, WroteHistories, Gains
  <2>2. CASE rules[r] # None
    BY <1>3, <2>1, <2>2, GainsMatch DEF Agreed
  <2>3. CASE rules[r] = None
    BY <1>3, <2>3 DEF Gains, Numbered
  <2> QED
    BY <2>2, <2>3
<1> QED
  BY <1>1, <1>2, <1>3, RuleMoves

\* A rule that matches its history, if it has one, goes on to match it.
LEMMA MatchedMoves ==
  ASSUME Recorded, Carried, NEW p \in Servers, Moves(p), NEW r \in RuleIds,
         rules'[r] # None, Of(versions', r) # {},
         rules[r] # None /\ Of(versions, r) # {} => Matched(r)
  PROVE  Matched(r)'
<1>1. CASE Same(r)
  BY <1>1 DEF Matched, Same
<1>2. CASE Starts(r)
  BY <1>2, StartsMatch
<1>3. CASE Gains(p, r)
  <2>1. rules[r] # None
    BY <1>3 DEF Gains, Numbered
  <2> QED
    BY <1>3, <2>1, GainsMatch
<1> QED
  BY <1>1, <1>2, <1>3, RuleMoves

LEMMA RootedMoves ==
  ASSUME Recorded, Carried, NEW p \in Servers, Moves(p), NEW r \in RuleIds, Rooted(r)
  PROVE  Rooted(r)'
<1>1. CASE Same(r)
  BY <1>1 DEF Rooted, Same, Origin
<1>2. CASE Starts(r)
  BY <1>2, StartsMatch
<1>3. CASE Gains(p, r)
  <2>1. CASE rules[r] = None
    BY <1>3, <2>1 DEF Gains, Numbered, Rooted
  <2>2. CASE rules[r] # None
    BY <1>3, <2>2, GainsMatch DEF Gains, Rooted, Origin
  <2> QED
    BY <2>1, <2>2
<1> QED
  BY <1>1, <1>2, <1>3, RuleMoves

LEMMA PlainMoves ==
  ASSUME Recorded, Carried, Plain, NEW p \in Servers, Moves(p)
  PROVE  Plain'
<1>1. \A r \in RuleIds : Rooted(r)'
  BY RootedMoves DEF Plain
<1>2. \A r \in RuleIds : rules'[r] # None /\ Of(versions', r) # {} => Matched(r)'
  BY MatchedMoves DEF Plain
<1>3. \A e \in DOMAIN events' : events'[e].sound
  BY EventsMove, Zenon DEF Plain
<1>4. ASSUME NEW e \in DOMAIN events', NEW f \in DOMAIN events',
             events'[e].rule = events'[f].rule
      PROVE  e = f
  <2>1. events'[e].rule \in RuleIds
    BY EventsMove, EventsIndexed DEF Event, Recorded
  <2>2. PICK r \in RuleIds : r = events'[e].rule
    BY <2>1
  <2>3. e \in EventsOf(r)' /\ f \in EventsOf(r)'
    BY <1>4, <2>2 DEF EventsOf
  <2>4. CASE EventsOf(r)' = EventsOf(r)
    BY <2>3, <2>4 DEF EventsOf, Plain
  <2>5. CASE Starts(r)
    BY <2>3, <2>5, StartsMatch
  <2> QED
    BY <2>4, <2>5, RuleMoves DEF Same, Gains
<1> QED
  BY <1>1, <1>2, <1>3, <1>4 DEF Plain

LEMMA BackfilledCarried ==
  ASSUME Typed, NEW e \in DOMAIN events, NEW r, r = events[e].rule, rules[r] # None
  PROVE  Current(Backfilled(e), r)
<1> DEFINE v == [rule |-> r, version |-> 1, content |-> events[e].draft, event |-> e]
           w == [rule |-> r, version |-> 2, content |-> rules[r].content, event |-> None]
<1>1. CASE rules[r].content = events[e].draft
  <2>1. Backfilled(e) = {v}
    BY <1>1 DEF Backfilled
  <2>2. Latest({v}, v) /\ v.content = rules[r].content
    BY <1>1 DEF Latest
  <2> QED
    BY <2>1, <2>2 DEF Current
<1>2. CASE rules[r].content # events[e].draft
  <2>1. Backfilled(e) = {v, w}
    BY <1>2 DEF Backfilled
  <2>2. Latest({v, w}, w) /\ w.content = rules[r].content
    BY DEF Latest
  <2> QED
    BY <2>1, <2>2 DEF Current
<1> QED
  BY <1>1, <1>2

LEMMA CarriedMoves ==
  ASSUME Recorded, Carried, NEW p \in Servers, Moves(p)
  PROVE  Carried'
<1>0. Typed /\ Phases /\ Histories /\ WroteHistories /\ Apart /\ Owed /\ LoadedKept
  BY DEF Recorded, Histories
<1> DEFINE Ended(V, r) == Of(V, r) # {} => Current(Of(V, r), r)
\* What a rule with work under way is does not change.
<1>1. ASSUME NEW r \in RuleIds, NEW V, rules'[r] # None,
             Of(V, r) # {} => History(Of(V, r), r),
             rules[r] # None => Ended(V, r)
      PROVE  Ended(V, r)'
  <2>1. CASE rules[r] # None
    <3>1. rules'[r].content = rules[r].content
      BY <2>1, MovesKeep
    <3> QED
      BY <1>1, <2>1, <3>1 DEF Current
  <2>2. CASE rules[r] = None
    <3>1. ~Same(r) /\ ~Gains(p, r)
      BY <1>1, <2>2 DEF Same, Gains, Numbered
    <3>2. FreeRule(r)
      BY <3>1, RuleMoves DEF Starts
    <3> QED
      BY <1>1, <3>2, HistoryUses
  <2> QED
    BY <2>1, <2>2
<1>2. ASSUME NEW q \in Servers, NEW r \in RuleIds, rules'[r] # None
      PROVE  /\ wrote'[q] = wrote[q] => Ended(wrote[q], r)'
             /\ insert'[q] = insert[q] => Ended(insert[q], r)'
  <2>1. /\ Of(wrote[q], r) # {} => History(Of(wrote[q], r), r)
        /\ rules[r] # None => Ended(wrote[q], r)
        /\ Of(insert[q], r) # {} => History(Of(insert[q], r), r)
        /\ rules[r] # None => Ended(insert[q], r)
    BY <1>0 DEF Histories, WroteHistories, Carried
  <2>2. ASSUME wrote'[q] = wrote[q]
        PROVE  Ended(wrote[q], r)'
    BY <1>1, <1>2, <2>1, <2>2
  <2>3. ASSUME insert'[q] = insert[q]
        PROVE  Ended(insert[q], r)'
    BY <1>1, <1>2, <2>1, <2>3
  <2> QED
    BY <2>2, <2>3
<1>3. ASSUME NEW q \in Servers, NEW r \in RuleIds
      PROVE  /\ wrote'[q] = {} => Ended(wrote[q], r)'
             /\ insert'[q] = {} => Ended(insert[q], r)'
  BY DEF Of
<1>4. ASSUME \A q \in Servers, r \in RuleIds : rules'[r] # None =>
               Ended(wrote[q], r)' /\ Ended(insert[q], r)'
      PROVE  Carried'
  BY <1>4 DEF Carried
<1> HIDE DEF Ended
<1>5. CASE UNCHANGED <<insert, wrote>>
  BY <1>2, <1>4, <1>5
<1>6. ASSUME NEW e \in EventIds, TakesUp(p, e)
      PROVE  Carried'
  <2>1. /\ UNCHANGED <<rules, wrote>>
        /\ Becomes(insert, insert', p, Backfilled(e))
    BY <1>6, Zenon DEF TakesUp, stored
  <2>2. /\ e \in DOMAIN events /\ events[e].rule \in RuleIds
        /\ \A v \in Backfilled(e) : v.rule = events[e].rule
    BY <1>0, <1>6, TakesUpHistory
  <2>3. ASSUME NEW r \in RuleIds, rules'[r] # None
        PROVE  Ended(insert[p], r)'
    <3>1. insert'[p] = Backfilled(e)
      BY <2>1 DEF Becomes
    <3>2. CASE r = events[e].rule
      <4>1. Of(Backfilled(e), r) = Backfilled(e)
        BY <2>2, <3>2 DEF Of
      <4>2. Current(Backfilled(e), r)
        BY <1>0, <2>1, <2>2, <2>3, <3>2, BackfilledCarried
      <4>3. Current(Of(insert'[p], r), r)
        BY <3>1, <4>1, <4>2
      <4> QED
        BY <2>1, <4>3 DEF Ended, Current
    <3>3. CASE r # events[e].rule
      <4>1. Of(insert[p], r)' = {}
        BY <2>2, <3>1, <3>3 DEF Of
      <4> QED
        BY <4>1 DEF Ended
    <3> QED
      BY <3>2, <3>3
  <2> QED
    BY <1>2, <1>4, <2>1, <2>3 DEF Becomes
<1>7. ASSUME NEW s \in RuleIds, Records(p, s)
      PROVE  Carried'
  <2>0. PICK v : v = [rule |-> s, version |-> 1, content |-> loaded[p][s].content,
                      event |-> None]
    OBVIOUS
  <2>1. /\ UNCHANGED <<rules, wrote>>
        /\ Becomes(insert, insert', p, {v})
        /\ loaded[p][s] # None /\ pc[p] = "baseline"
    BY <1>7, <2>0, Zenon DEF Records, stored
  <2>2. rules[s].content = v.content
    BY <1>0, <2>0, <2>1 DEF LoadedKept, Phases
  <2>3. ASSUME NEW r \in RuleIds, rules'[r] # None
        PROVE  Ended(insert[p], r)'
    <3>1. insert'[p] = {v}
      BY <2>1 DEF Becomes
    <3>2. CASE r = s
      <4>1. Of({v}, r) = {v}
        BY <2>0, <3>2 DEF Of
      <4>2. Latest({v}, v)
        BY <2>0 DEF Latest
      <4>3. Current(Of(insert'[p], r), r)
        BY <2>2, <3>1, <3>2, <4>1, <4>2 DEF Current
      <4> QED
        BY <2>1, <4>3 DEF Ended, Current
    <3>3. CASE r # s
      <4>1. Of(insert[p], r)' = {}
        BY <2>0, <3>1, <3>3 DEF Of
      <4> QED
        BY <4>1 DEF Ended
    <3> QED
      BY <3>2, <3>3
  <2> QED
    BY <1>2, <1>4, <2>1, <2>3 DEF Becomes
<1>8. CASE Inserts(p)
  <2>1. /\ UNCHANGED rules
        /\ Becomes(insert, insert', p, {})
        /\ Becomes(wrote, wrote', p, wrote[p] \cup insert[p])
    BY <1>8, Zenon DEF Inserts, stored
  <2>2. ASSUME NEW r \in RuleIds, rules'[r] # None
        PROVE  Ended(wrote[p], r)'
    <3>1. Of(wrote'[p], r) = Of(wrote[p], r) \cup Of(insert[p], r)
      BY <2>1, OfUnion DEF Becomes
    <3>2. Of(wrote[p], r) = {} \/ Of(insert[p], r) = {}
      BY <1>0 DEF Apart
    <3>3. Of(wrote'[p], r) # {} => Current(Of(wrote'[p], r), r)
      BY <2>1, <2>2, <3>1, <3>2 DEF Carried
    <3> QED
      BY <2>1, <3>3 DEF Ended, Current
  <2> QED
    BY <1>2, <1>3, <1>4, <2>1, <2>2 DEF Becomes
<1>9. CASE Drops(p)
  BY <1>2, <1>3, <1>4, <1>9 DEF Drops, Becomes
<1>10. ASSUME \/ Idles(p) \/ Prepares(p) \/ Loads(p)
              \/ \E r \in RuleIds : CreatesRule(p, r) \/ Passes(p, r)
       PROVE  UNCHANGED <<insert, wrote>>
  BY <1>0, <1>10, Still
<1>11. ASSUME NEW draft \in Content, Publish(p, draft)
       PROVE  UNCHANGED <<insert, wrote>>
  BY <1>0, <1>11, PublishFacts DEF process
<1>12. Commits(p) \/ Ends(p) => Drops(p)
  BY Zenon DEF Commits, Ends
<1> QED
  BY <1>5, <1>6, <1>7, <1>8, <1>9, <1>10, <1>11, <1>12, Zenon DEF Moves

LEMMA AgreedStep ==
  ASSUME Recorded, Agreed, Next
  PROVE  Agreed'
<1>0. Kinds
  BY StepKinds DEF Recorded
<1>1. ASSUME NEW p \in Servers, Moves(p)
      PROVE  Agreed'
  <2>1. Numbers' /\ Carried'
    BY <1>1, NumbersMove, CarriedMoves DEF Agreed
  <2>2. ~flawed' => ~flawed
    BY <1>1, Zenon DEF Moves, Idles, Prepares, Prepare, Loads, Inserts, Commits, Ends,
                       CreatesRule, Records, Passes, TakesUp, Publish, notes, history
  <2>3. ~flawed' => Plain'
    BY <1>1, <2>2, PlainMoves DEF Agreed
  <2> QED
    BY <2>1, <2>3 DEF Agreed
<1>2. ASSUME NEW s \in RuleIds, NEW text \in Texts, Edit(s, text)
      PROVE  Agreed'
  <2>1. /\ UNCHANGED <<versions, process>> /\ flawed' = TRUE
        /\ \A q \in Servers : ~Open(q)
        /\ \A r \in RuleIds :
              /\ rules'[r] # None <=> rules[r] # None
              /\ rules[r] # None => rules'[r].version = rules[r].version
    BY <1>2, EditFacts
  <2>2. Numbers'
    BY <2>1 DEF Agreed, Numbers, Latest
  <2>3. \A q \in Servers : insert'[q] = {} /\ wrote'[q] = {}
    BY <2>1 DEF Recorded, Phases, Open, process
  <2>4. Carried'
    BY <2>3 DEF Carried, Of
  <2> QED
    BY <2>1, <2>2, <2>4 DEF Agreed
<1> QED
  BY <1>0, <1>1, <1>2, Zenon DEF Kinds

LEMMA AgreedInit == Init => Agreed
<1> SUFFICES ASSUME Init
             PROVE  Agreed
  OBVIOUS
<1>1. Recorded
  BY Founded
<1>2. \A r \in RuleIds : rules[r] # None => rules[r].version = 1
  <2>1. CASE Fresh
    BY <2>1 DEF Fresh
  <2>2. CASE Legacy
    <3>1. PICK some \in SUBSET DOMAIN LegacyCodes :
            \E was \in [some -> UNION {LegacyRule(r) : r \in some}] :
              /\ \A r \in some : was[r] \in LegacyRule(r)
              /\ rules = [r \in RuleIds |-> IF r \in some THEN was[r] ELSE None]
      BY <2>2 DEF Legacy
    <3>2. \A r \in some : \A x \in LegacyRule(r) : x.version = 1
      BY DEF LegacyRule
    <3> QED
      BY <3>1, <3>2
  <2> QED
    BY <2>1, <2>2 DEF Init
<1>3. Numbers
  BY <1>2 DEF Init, Of, Numbers
<1>4. Carried
  BY DEF Init, Of, Carried
<1>5. ~flawed => Plain
  BY <1>1, CoherentPlain DEF Init
<1> QED
  BY <1>3, <1>4, <1>5 DEF Agreed

(***************************************************************************)
(* Why a preparation refuses.                                              *)
(***************************************************************************)
\* As long as no other preparation has committed, an event a process has found
\* unlinked is unlinked, and a rule it has loaded has the number of its latest
\* version.
Unraced(p) ==
  /\ Open(p) /\ ~raced[p] => \A e \in unlinked[p] : ~Linked(versions, e)
  /\ \A r \in RuleIds : loaded[p] # None /\ loaded[p][r] # None =>
       /\ at[p] <= r /\ Of(wrote[p], r) # {} =>
            \E v : Latest(Of(wrote[p], r), v) /\ v.version = loaded[p][r].version
       /\ ~raced[p] /\ Of(wrote[p], r) = {} => loaded[p][r].version = rules[r].version
  /\ loaded[p] # None => \A v \in insert[p] : v.rule < at[p]

LEMMA OthersKeep ==
  ASSUME Recorded, NEW p \in Servers, Moves(p), NEW q \in Servers \ {p}
  PROVE  /\ pc'[q] = pc[q] /\ at'[q] = at[q]
         /\ unlinked'[q] = unlinked[q] /\ loaded'[q] = loaded[q]
         /\ insert'[q] = insert[q] /\ wrote'[q] = wrote[q]
<1>0. Typed
  BY DEF Recorded
<1>1. CASE Idles(p) \/ \E r \in RuleIds : CreatesRule(p, r)
  <2>1. UNCHANGED work /\ pc'[q] = pc[q] /\ at'[q] = at[q]
    BY <1>1, Zenon DEF Idles, CreatesRule
  <2> QED
    BY <2>1 DEF work
<1>2. CASE Prepares(p)
  <2>1. /\ Becomes(pc, pc', p, "backfill")
        /\ Becomes(unlinked, unlinked', p, {e \in DOMAIN events : ~Linked(versions, e)})
        /\ Becomes(at, at', p, 1)
        /\ UNCHANGED <<loaded, insert, wrote>>
    BY <1>0, <1>2, PrepareFacts DEF Prepares
  <2> QED
    BY <2>1 DEF Becomes
<1>3. CASE Loads(p)
  BY <1>3 DEF Loads, Becomes
<1>4. CASE Inserts(p)
  BY <1>4 DEF Inserts, Becomes
<1>5. CASE Commits(p) \/ Ends(p)
  <2>1. Drops(p) /\ \E l : Becomes(pc, pc', p, l)
    BY <1>5, Zenon DEF Commits, Ends
  <2> QED
    BY <2>1 DEF Drops, Becomes
<1>6. ASSUME NEW r \in RuleIds, Records(p, r)
      PROVE  /\ pc'[q] = pc[q] /\ at'[q] = at[q]
             /\ unlinked'[q] = unlinked[q] /\ loaded'[q] = loaded[q]
             /\ insert'[q] = insert[q] /\ wrote'[q] = wrote[q]
  BY <1>6 DEF Records, Becomes
<1>7. ASSUME NEW r \in RuleIds, Passes(p, r)
      PROVE  UNCHANGED <<pc, work>> /\ at'[q] = at[q]
  BY <1>7 DEF Passes, Becomes
<1>8. ASSUME NEW e \in EventIds, TakesUp(p, e)
      PROVE  /\ pc'[q] = pc[q] /\ at'[q] = at[q]
             /\ unlinked'[q] = unlinked[q] /\ loaded'[q] = loaded[q]
             /\ insert'[q] = insert[q] /\ wrote'[q] = wrote[q]
  BY <1>8 DEF TakesUp, Becomes
<1>9. ASSUME NEW draft \in Content, Publish(p, draft)
      PROVE  UNCHANGED <<pc, at, work>>
  BY <1>0, <1>9, PublishFacts DEF process, work
<1>10. UNCHANGED work =>
             /\ unlinked'[q] = unlinked[q] /\ loaded'[q] = loaded[q]
             /\ insert'[q] = insert[q] /\ wrote'[q] = wrote[q]
  BY DEF work
<1> QED
  BY <1>1, <1>2, <1>3, <1>4, <1>5, <1>6, <1>7, <1>8, <1>9, <1>10, Zenon DEF Moves

\* What others see of a step, unless it is a commit that races them.
LEMMA RacedMoves ==
  ASSUME Recorded, NEW p \in Servers, Moves(p),
         NEW q \in Servers \ {p}, Open(q), ~raced'[q]
  PROVE  /\ ~raced[q]
         /\ \A r \in RuleIds : Same(r) \/ Starts(r)
         /\ \A e \in DOMAIN events : Linked(versions', e) => Linked(versions, e)
<1>0. Typed
  BY DEF Recorded
<1>1. CASE Commits(p)
  <2>1. ~raced[q] /\ wrote[p] = {}
    BY <1>1 DEF Commits
  <2>2. versions' = versions
    BY <1>1, <2>1 DEF Commits
  <2>3. \A r : ~Gains(p, r)
    BY <2>1 DEF Gains, Of
  <2> QED
    BY <2>1, <2>2, <2>3, RuleMoves
<1>2. CASE ~Commits(p)
  <2>1. \A r \in RuleIds : Same(r) \/ Starts(r)
    BY <1>2, RuleMoves
  <2>2. ~raced[q]
    <3>1. UNCHANGED notes => raced'[q] = raced[q]
      BY DEF notes
    <3>2. UNCHANGED history => raced'[q] = raced[q]
      BY DEF history
    <3>3. Prepares(p) => raced'[q] = raced[q]
      BY <1>0, PrepareFacts DEF Prepares, Becomes
    <3>4. Ends(p) => raced'[q] = raced[q]
      BY <1>0 DEF Ends, End, Typed
    <3> QED
      BY <1>2, <3>1, <3>2, <3>3, <3>4, Zenon
         DEF Moves, Idles, Loads, Inserts, CreatesRule, Records, Passes, TakesUp, Publish
  <2>3. ASSUME NEW draft \in Content, Publish(p, draft)
        PROVE  \A e \in DOMAIN events : Linked(versions', e) => Linked(versions, e)
    <3>1. PICK s \in RuleIds, e \in EventIds :
            /\ e \notin DOMAIN events
            /\ versions' = versions \cup
                 {[rule |-> s, version |-> 1, content |-> draft, event |-> e]}
      BY <1>0, <2>3, PublishFacts
    <3> QED
      BY <3>1 DEF Linked
  <2>4. ASSUME UNCHANGED versions
        PROVE  \A e \in DOMAIN events : Linked(versions', e) => Linked(versions, e)
    BY <2>4
  <2>5. ASSUME UNCHANGED stored
        PROVE  UNCHANGED versions
    BY <2>5 DEF stored
  <2>6. ASSUME NEW r \in RuleIds, CreatesRule(p, r)
        PROVE  UNCHANGED versions
    BY <2>6, Zenon DEF CreatesRule
  <2>7. \A e \in DOMAIN events : Linked(versions', e) => Linked(versions, e)
    BY <1>2, <2>3, <2>4, <2>5, <2>6, TablesStill, Zenon DEF Moves
  <2> QED
    BY <2>1, <2>2, <2>7
<1> QED
  BY <1>1, <1>2

LEMMA LoadsUnraced ==
  ASSUME Recorded, Agreed, NEW p \in Servers, Loads(p)
  PROVE  Unraced(p)'
<1>1. /\ pc[p] = "backfill" /\ unlinked[p] = {}
      /\ Becomes(loaded, loaded', p, [r \in RuleIds |-> LoadedRule(p, r)])
      /\ UNCHANGED <<rules, raced, at, unlinked, insert, wrote>>
  BY Zenon DEF Loads, stored, notes
<1>2. insert[p] = {}
  BY <1>1 DEF Recorded, Phases
<1>3. ASSUME NEW r \in RuleIds, LoadedRule(p, r) # None
      PROVE  /\ Of(wrote[p], r) # {} =>
                  \E v : Latest(Of(wrote[p], r), v) /\ v.version = LoadedRule(p, r).version
             /\ Of(wrote[p], r) = {} => LoadedRule(p, r).version = rules[r].version
  <2>1. rules[r] # None /\ rules[r] \in Rule
    BY <1>3 DEF LoadedRule, Recorded, Typed
  <2>2. CASE \E v \in Of(wrote[p], r) : v.version = 2
    <3>1. PICK v \in Of(wrote[p], r) : v.version = 2
      BY <2>2
    <3>2. \A w \in Of(wrote[p], r) : w.version \in 1..2
      BY TypedSets DEF Recorded, Version
    <3>3. Latest(Of(wrote[p], r), v)
      BY <3>1, <3>2 DEF Latest
    <3>4. LoadedRule(p, r).version = 2
      BY <2>1, <2>2 DEF LoadedRule, Rule
    <3> QED
      BY <3>1, <3>3, <3>4
  <2>3. CASE /\ Of(wrote[p], r) # {}
             /\ ~\E v \in Of(wrote[p], r) : v.version = 2
    <3>1. LoadedRule(p, r) = rules[r]
      BY <2>3 DEF LoadedRule
    <3>2. Of(versions, r) = {}
      BY <2>3 DEF Recorded, Apart
    <3>3. rules[r].version = 1
      BY <2>1, <3>2 DEF Agreed, Numbers
    <3>4. \A w \in Of(wrote[p], r) : w.version = 1
      BY <2>3, TypedSets DEF Recorded, Version
    <3>5. PICK v \in Of(wrote[p], r) : TRUE
      BY <2>3
    <3>6. Latest(Of(wrote[p], r), v) /\ v.version = 1
      BY <3>4, <3>5 DEF Latest
    <3> QED
      BY <2>3, <3>1, <3>3, <3>6
  <2>4. CASE Of(wrote[p], r) = {}
    BY <2>4 DEF LoadedRule
  <2> QED
    BY <2>2, <2>3, <2>4
<1>4. \A r \in RuleIds : loaded'[p][r] = LoadedRule(p, r)
  BY <1>1 DEF Becomes
<1>5. \A V, v : Latest(V, v)' <=> Latest(V, v)
  BY DEF Latest
<1> QED
  BY <1>1, <1>2, <1>3, <1>4, <1>5 DEF Unraced

LEMMA UnracedMoves ==
  ASSUME Recorded, Agreed, NEW p \in Servers, Moves(p), Recorded',
         \A q \in Servers : Unraced(q)
  PROVE  \A q \in Servers : Unraced(q)'
<1>0. Typed /\ Phases /\ Typed' /\ Phases'
  BY DEF Recorded
<1>1. ASSUME NEW q \in Servers \ {p}
      PROVE  Unraced(q)'
  <2>1. /\ pc'[q] = pc[q] /\ at'[q] = at[q]
        /\ unlinked'[q] = unlinked[q] /\ loaded'[q] = loaded[q]
        /\ insert'[q] = insert[q] /\ wrote'[q] = wrote[q]
    BY <1>1, OthersKeep
  <2>2. Open(q)' <=> Open(q)
    BY <2>1 DEF Open
  <2>3. Unraced(q)
    BY <1>1
  <2>4. Open(q)' /\ ~raced'[q] => \A e \in unlinked'[q] : ~Linked(versions', e)
    <3> SUFFICES ASSUME Open(q)', ~raced'[q], NEW e \in unlinked'[q]
                 PROVE  ~Linked(versions', e)
      OBVIOUS
    <3>1. e \in DOMAIN events /\ e \in unlinked[q]
      BY <1>0, <2>1 DEF Phases
    <3> QED
      BY <2>2, <2>3, <3>1, RacedMoves DEF Unraced
  <2>5. ASSUME NEW r \in RuleIds, loaded[q] # None, loaded[q][r] # None,
               ~raced'[q], Of(wrote[q], r) = {}
        PROVE  loaded[q][r].version = rules'[r].version
    <3>1. Open(q) /\ rules[r] # None
      BY <2>5 DEF Recorded, Phases, LoadedKept
    <3>2. ~raced[q] /\ Same(r)
      BY <2>5, <3>1, RacedMoves, MovesKeep DEF Agreed
    <3> QED
      BY <2>3, <2>5, <3>2 DEF Unraced, Same
  <2>6. ASSUME NEW r \in RuleIds, loaded[q] # None, loaded[q][r] # None,
               at[q] <= r, Of(wrote[q], r) # {}
        PROVE  \E v : Latest(Of(wrote[q], r), v) /\ v.version = loaded[q][r].version
    BY <2>3, <2>6 DEF Unraced
  <2>7. loaded[q] # None => \A v \in insert[q] : v.rule < at[q]
    BY <2>3 DEF Unraced
  <2> QED
    BY <2>1, <2>4, <2>5, <2>6, <2>7 DEF Unraced, Latest
\* The process itself.
<1>2. CASE ~Open(p)'
  <2>1. loaded'[p] = None
    BY <1>0, <1>2 DEF Phases
  <2> QED
    BY <1>1, <1>2, <2>1 DEF Unraced
<1>3. CASE Prepares(p)
  <2>1. /\ Becomes(unlinked, unlinked', p, {e \in DOMAIN events : ~Linked(versions, e)})
        /\ UNCHANGED <<versions, loaded>> /\ ~Open(p)
    BY <1>0, <1>3, PrepareFacts DEF Prepares, stored
  <2>2. loaded[p] = None
    BY <1>0, <2>1 DEF Phases
  <2>3. Unraced(p)'
    BY <2>1, <2>2 DEF Becomes, Unraced
  <2> QED
    BY <1>1, <2>3
<1>4. CASE Loads(p)
  BY <1>1, <1>4, LoadsUnraced
<1>5. ASSUME NEW e \in EventIds, TakesUp(p, e)
      PROVE  Unraced(p)'
  <2>1. /\ Becomes(unlinked, unlinked', p, unlinked[p] \ {e})
        /\ UNCHANGED <<versions, raced, loaded>> /\ pc[p] = "backfill"
    BY <1>5, Zenon DEF TakesUp, stored, notes
  <2>2. loaded[p] = None /\ Open(p)
    BY <1>0, <2>1 DEF Phases, Open
  <2> QED
    BY <2>1, <2>2 DEF Unraced, Becomes
<1>6. ASSUME NEW s \in RuleIds, Records(p, s) \/ Passes(p, s)
      PROVE  Unraced(p)'
  <2>1. /\ UNCHANGED <<rules, versions, raced, unlinked, loaded, wrote>>
        /\ Becomes(at, at', p, s + 1) /\ s = at[p] /\ pc[p] = "baseline"
    BY <1>6, Zenon DEF Records, Passes, stored, notes, work
  <2>2. unlinked[p] = {} /\ insert[p] = {} /\ at'[p] = s + 1 /\ s \in Nat
    BY <1>0, <2>1 DEF Phases, Becomes, RuleIds
  <2>3. \A v \in insert'[p] : v.rule < at'[p]
    <3>1. CASE Passes(p, s)
      BY <2>2, <3>1 DEF Passes, work
    <3>2. CASE Records(p, s)
      <4>1. \A v \in insert'[p] : v.rule = s
        BY <3>2 DEF Records, Becomes
      <4> QED
        BY <2>2, <4>1
    <3> QED
      BY <1>6, <3>1, <3>2
  <2>4. \A r \in RuleIds : s + 1 <= r => s <= r
    BY <2>2 DEF RuleIds
  <2>5. Unraced(p)
    OBVIOUS
  <2> QED
    BY <2>1, <2>2, <2>3, <2>4, <2>5 DEF Unraced, Latest
<1>7. CASE Inserts(p)
  <2>1. /\ UNCHANGED <<rules, versions, raced, at, unlinked, loaded>>
        /\ Becomes(insert, insert', p, {})
        /\ Becomes(wrote, wrote', p, wrote[p] \cup insert[p])
        /\ pc[p] = "insert"
    BY <1>7, Zenon DEF Inserts, stored, notes
  <2>2. Unraced(p) /\ Open(p)
    BY <2>1 DEF Open
  <2>3. ASSUME NEW r \in RuleIds
        PROVE  Of(wrote'[p], r) = Of(wrote[p], r) \cup Of(insert[p], r)
    BY <2>1, OfUnion DEF Becomes
  <2>4. ASSUME NEW r \in RuleIds, loaded[p] # None, at[p] <= r
        PROVE  Of(wrote'[p], r) = Of(wrote[p], r)
    <3>1. Of(insert[p], r) = {}
      <4> SUFFICES ASSUME NEW v \in insert[p], v.rule = r
                   PROVE  FALSE
        BY DEF Of
      <4>1. v.rule < at[p] /\ at[p] \in Nat /\ r \in Nat
        BY <1>0, <2>2, <2>4 DEF Unraced, Typed, RuleIds
      <4> QED
        BY <2>4, <4>1
    <3> QED
      BY <2>3, <3>1
  <2>5. insert'[p] = {}
    BY <2>1 DEF Becomes
  <2>6. \A r \in RuleIds : Of(wrote'[p], r) = {} => Of(wrote[p], r) = {}
    BY <2>3
  <2>7. Unraced(p)'
    BY <2>1, <2>2, <2>4, <2>5, <2>6 DEF Unraced, Latest
  <2> QED
    BY <1>1, <2>7
<1>8. Idles(p) \/ (\E r \in RuleIds : CreatesRule(p, r)) => ~Open(p)'
  BY Zenon DEF Idles, CreatesRule
<1>9. Commits(p) \/ Ends(p) => ~Open(p)'
  <2> SUFFICES ASSUME Commits(p) \/ Ends(p)
               PROVE  ~Open(p)'
    OBVIOUS
  <2>1. \E l \in {"down", "count", "serving"} : Becomes(pc, pc', p, l)
    BY Zenon DEF Commits, Ends
  <2> QED
    BY <2>1 DEF Open, Becomes
<1>10. ASSUME NEW draft \in Content, Publish(p, draft)
       PROVE  ~Open(p)'
  <2>1. UNCHANGED process /\ pc[p] = "serving"
    BY <1>10, Zenon DEF Publish
  <2> QED
    BY <2>1 DEF process, Open
<1> QED
  BY <1>1, <1>2, <1>3, <1>4, <1>5, <1>6, <1>7, <1>8, <1>9, <1>10, Zenon DEF Moves

\* Tables that bear each other out do not refuse a process nobody has raced.
LEMMA NothingRefutes ==
  ASSUME Recorded, Agreed, NEW p \in Servers, Unraced(p), ~flawed, ~raced[p]
  PROVE  ~Refutes(p)
<1>0. Typed /\ Phases /\ Histories /\ WroteHistories /\ Apart /\ Owed /\ LoadedKept
      /\ Numbers /\ Carried /\ Plain
  BY DEF Recorded, Agreed, Histories
<1>1. ASSUME pc[p] = "backfill", NEW e \in unlinked[p]
      PROVE  Proven(e) /\ unlinked[p] \cap EventsOf(events[e].rule) = {e}
  <2>1. e \in DOMAIN events /\ events[e].rule \in RuleIds /\ e # None
    BY <1>0, EventsIndexed, NoneAssumption DEF Phases, Event
  <2>2. PICK r \in RuleIds : r = events[e].rule
    BY <2>1
  <2>3. EventsOf(r) = {e}
    BY <1>0, <2>1, <2>2 DEF Plain, EventsOf
  <2>4. Of(versions, r) = {}
    <3> SUFFICES ASSUME Of(versions, r) # {}
                 PROVE  FALSE
      OBVIOUS
    <3>1. History(Of(versions, r), r)
      BY <1>0 DEF Histories
    <3>2. PICK a \in Of(versions, r) : a.version = 1
      BY <3>1 DEF History
    <3>3. a.event = e
      BY <2>3, <3>1, <3>2 DEF History
    <3>4. Linked(versions, e)
      BY <3>2, <3>3 DEF Linked, Of
    <3> QED
      BY <1>1, <3>4 DEF Unraced, Open
  <2>5. rules[r] # None => rules[r].source = e
    BY <1>0, <2>3 DEF Plain, Rooted, Origin
  <2>6. events[e].sound
    BY <1>0, <2>1 DEF Plain
  <2>7. Proven(e)
    BY <2>2, <2>4, <2>5, <2>6 DEF Proven
  <2> QED
    BY <2>2, <2>3, <2>7
<1>2. ASSUME pc[p] = "baseline", at[p] \in RuleIds, loaded[p][at[p]] # None
      PROVE  IF Of(versions \cup wrote[p], at[p]) = {}
             THEN loaded[p][at[p]].source = None
             ELSE MatchesLatest(loaded[p][at[p]], Of(versions \cup wrote[p], at[p]))
  <2>1. PICK r \in RuleIds : r = at[p]
    BY <1>2
  <2>2. loaded[p] # None /\ unlinked[p] = {} /\ insert[p] = {} /\ Open(p)
    BY <1>0, <1>2 DEF Phases, Open
  <2>3. /\ rules[r] # None
        /\ loaded[p][r].content = rules[r].content
        /\ loaded[p][r].source = rules[r].source
    BY <1>0, <1>2, <2>1, <2>2 DEF LoadedKept
  <2>4. CASE Of(versions \cup wrote[p], r) = {}
    <3>1. EventsOf(r) = {}
      <4> SUFFICES ASSUME NEW f \in DOMAIN events, events[f].rule = r
                   PROVE  FALSE
        BY DEF EventsOf
      <4>1. Of(versions \cup wrote[p] \cup insert[p], r) = {}
        BY <2>2, <2>4 DEF Of
      <4> QED
        BY <1>0, <2>2, <4>1 DEF Owed
    <3>2. rules[r].source = None
      BY <1>0, <2>3, <3>1 DEF Plain, Rooted, Origin
    <3> QED
      BY <2>1, <2>3, <2>4, <3>2
  <2>5. CASE Of(wrote[p], r) # {}
    <3>1. Of(versions, r) = {}
      BY <1>0, <2>5 DEF Apart
    <3>2. Of(versions \cup wrote[p], r) = Of(wrote[p], r)
      BY <3>1 DEF Of
    <3>3. at[p] <= r
      BY <2>1 DEF RuleIds
    <3>4. PICK v : Latest(Of(wrote[p], r), v) /\ v.version = loaded[p][r].version
      BY <1>2, <2>1, <2>2, <2>5, <3>3 DEF Unraced
    <3>5. PICK w : Latest(Of(wrote[p], r), w) /\ w.content = rules[r].content
      BY <1>0, <2>3, <2>5 DEF Carried, Current
    <3>6. v = w
      <4>1. Of(wrote[p], r) \in SUBSET Version /\ History(Of(wrote[p], r), r)
        BY <1>0, <2>5, TypedSets DEF WroteHistories
      <4>2. v.version = w.version
        BY <3>4, <3>5, <4>1 DEF Latest, Version
      <4> QED
        BY <3>4, <3>5, <4>1, <4>2 DEF History, Latest
    <3>7. MatchesLatest(loaded[p][r], Of(wrote[p], r))
      BY <2>3, <3>4, <3>5, <3>6 DEF MatchesLatest, Latest
    <3> QED
      BY <2>1, <2>5, <3>2, <3>7
  <2>6. CASE Of(wrote[p], r) = {} /\ Of(versions, r) # {}
    <3>1. Of(versions \cup wrote[p], r) = Of(versions, r)
      BY <2>6 DEF Of
    <3>2. MatchesLatest(rules[r], Of(versions, r))
      BY <1>0, <2>3, <2>6 DEF Plain, Matched
    <3>3. loaded[p][r].version = rules[r].version
      BY <1>2, <2>1, <2>2, <2>6 DEF Unraced
    <3>4. MatchesLatest(loaded[p][r], Of(versions, r))
      BY <2>3, <3>2, <3>3 DEF MatchesLatest
    <3> QED
      BY <2>1, <2>6, <3>1, <3>4
  <2>7. Of(versions \cup wrote[p], r) = Of(versions, r) \cup Of(wrote[p], r)
    BY OfUnion
  <2> QED
    BY <2>4, <2>5, <2>6, <2>7
<1> QED
  BY <1>1, <1>2, Zenon DEF Refutes

LEMMA RefusedMoves ==
  ASSUME Recorded, Agreed, NEW p \in Servers, Moves(p), Unraced(p), OnlyFlawedRefused
  PROVE  OnlyFlawedRefused'
<1>0. Typed
  BY DEF Recorded
<1>1. CASE UNCHANGED <<failure, raced, flawed>>
  BY <1>1 DEF OnlyFlawedRefused
<1>2. CASE Prepares(p)
  <2>1. /\ Becomes(raced, raced', p, FALSE) /\ Becomes(failure, failure', p, None)
        /\ UNCHANGED flawed
    BY <1>0, <1>2, PrepareFacts DEF Prepares
  <2> QED
    BY <2>1, NoneAssumption DEF Becomes, OnlyFlawedRefused, Failures
<1>3. CASE Commits(p)
  <2>1. /\ \A q \in Servers \ {p} : raced[q] => raced'[q]
        /\ Becomes(failure, failure', p, None)
        /\ UNCHANGED flawed
    BY <1>3 DEF Commits
  <2> QED
    BY <2>1, NoneAssumption DEF Becomes, OnlyFlawedRefused, Failures
<1>4. CASE Ends(p)
  <2>1. PICK why \in {"database", "evidence", None} :
          End(p, why) /\ (why = "evidence" => Refutes(p))
    BY <1>4 DEF Ends
  <2>2. /\ Becomes(failure, failure', p, why)
        /\ \A q \in Servers \ {p} : raced'[q] = raced[q]
        /\ why = "evidence" /\ raced[p] => raced'[p]
        /\ UNCHANGED flawed
    BY <1>0, <2>1 DEF End, Leave, Typed, Becomes
  <2>3. ASSUME NEW q \in Servers \ {p}, failure'[q] = "evidence"
        PROVE  flawed' \/ raced'[q]
    BY <2>2, <2>3 DEF Becomes, OnlyFlawedRefused
  <2>4. ASSUME failure'[p] = "evidence"
        PROVE  flawed' \/ raced'[p]
    <3>1. why = "evidence"
      BY <2>2, <2>4 DEF Becomes
    <3>2. flawed \/ raced[p]
      BY <2>1, <3>1, NothingRefutes
    <3> QED
      BY <2>2, <3>1, <3>2
  <2> QED
    BY <2>3, <2>4 DEF OnlyFlawedRefused
<1>5. ASSUME UNCHANGED notes \/ UNCHANGED <<process, history>>
      PROVE  UNCHANGED <<failure, raced, flawed>>
  BY <1>5 DEF notes, process, history
<1>6. ASSUME NEW draft \in Content, Publish(p, draft)
      PROVE  UNCHANGED <<process, history>>
  BY <1>0, <1>6, PublishFacts
<1> QED
  BY <1>1, <1>2, <1>3, <1>4, <1>5, <1>6, Zenon
     DEF Moves, Idles, Loads, Inserts, CreatesRule, Records, Passes, TakesUp

Refusals == (\A p \in Servers : Unraced(p)) /\ OnlyFlawedRefused

LEMMA RefusalsStep ==
  ASSUME Recorded, Agreed, Refusals, Next
  PROVE  Refusals'
<1>0. Kinds /\ Recorded'
  BY StepKinds, RecordedStays DEF Recorded
<1>1. ASSUME NEW p \in Servers, Moves(p)
      PROVE  Refusals'
  BY <1>0, <1>1, UnracedMoves, RefusedMoves DEF Refusals
<1>2. ASSUME NEW s \in RuleIds, NEW text \in Texts, Edit(s, text)
      PROVE  Refusals'
  <2>1. /\ UNCHANGED process /\ flawed' = TRUE
        /\ \A q \in Servers : ~Open(q) /\ ~Open(q)'
    BY <1>2, EditFacts
  <2>2. \A q \in Servers : loaded'[q] = None
    BY <2>1 DEF Recorded, Phases, process
  <2>3. \A q \in Servers : Unraced(q)'
    BY <2>1, <2>2 DEF Unraced
  <2> QED
    BY <2>1, <2>3 DEF Refusals, OnlyFlawedRefused
<1> QED
  BY <1>0, <1>1, <1>2, Zenon DEF Kinds

(***************************************************************************)
(* What a process has seen to when it serves.                              *)
(***************************************************************************)
\* A rule that was stored after process p has loaded the rules is as it should
\* be, and each that p has passed has a history, which it matches.
Seen(p, r) ==
  /\ rules[r] # None /\ loaded[p][r] = None =>
       r \notin known[p] /\ Rooted(r) /\ (Of(versions, r) # {} => Matched(r))
  /\ r < at[p] /\ loaded[p][r] # None =>
       /\ Of(versions \cup wrote[p] \cup insert[p], r) # {}
       /\ Of(versions, r) # {} /\ Of(wrote[p] \cup insert[p], r) = {} => Matched(r)

Closes(p) ==
  /\ \A r \in known[p] : rules[r] # None
  /\ ~Open(p) /\ pc[p] # "down" => \A r \in known[p] : Of(versions, r) # {}
  /\ Open(p) /\ loaded[p] = None => at[p] = 1
  /\ loaded[p] # None => \A r \in RuleIds : Seen(p, r)
  /\ doomed[p] => Open(p) /\ ~Plain

LEMMA BrokenMoves ==
  ASSUME Recorded, Carried, NEW p \in Servers, Moves(p), Plain'
  PROVE  Plain
<1>1. \A e \in DOMAIN events : events[e].sound
  BY EventsMove, Zenon DEF Plain
<1>2. \A e, f \in DOMAIN events : events[e].rule = events[f].rule => e = f
  BY EventsMove, Zenon DEF Plain
<1>3. ASSUME NEW r \in RuleIds, rules[r] # None
      PROVE  Rooted(r)
  <2>1. EventsOf(r)' = EventsOf(r) /\ rules'[r] # None /\ rules'[r].source = rules[r].source
    BY <1>3, RuleMoves, MovesKeep DEF Same, Gains
  <2>2. Rooted(r)'
    BY DEF Plain
  <2> QED
    BY <1>3, <2>1, <2>2 DEF Rooted, Origin
<1>4. ASSUME NEW r \in RuleIds, rules[r] # None, Of(versions, r) # {}
      PROVE  Matched(r)
  <2>1. Same(r)
    BY <1>4, RuleMoves, MovesKeep DEF Gains
  <2> QED
    BY <1>4, <2>1 DEF Same, Plain, Matched
<1> QED
  BY <1>1, <1>2, <1>3, <1>4 DEF Plain, Rooted

LEMMA VersionsMove ==
  ASSUME Recorded, NEW p \in Servers, Moves(p), NEW r \in RuleIds, Of(versions, r) # {}
  PROVE  Of(versions', r) # {}
BY RuleMoves DEF Same, Starts, Gains, FreeRule, Used

LEMMA KnownMoves ==
  ASSUME Recorded, NEW p \in Servers, Moves(p), NEW q \in Servers \ {p}
  PROVE  known'[q] = known[q] /\ doomed'[q] = doomed[q]
<1>0. Typed
  BY DEF Recorded
<1>1. CASE Prepares(p)
  BY <1>0, <1>1, PrepareFacts DEF Prepares, Becomes
<1>2. CASE Ends(p)
  BY <1>0, <1>2 DEF Ends, End, Typed
<1>3. UNCHANGED notes \/ UNCHANGED history \/ UNCHANGED <<known, doomed>> =>
        known'[q] = known[q] /\ doomed'[q] = doomed[q]
  BY DEF notes, history
<1> QED
  BY <1>1, <1>2, <1>3, Zenon
     DEF Moves, Idles, Loads, Inserts, CreatesRule, Records, Passes, TakesUp, Commits, Publish

LEMMA OthersClose ==
  ASSUME Recorded, Agreed, NEW p \in Servers, Moves(p), NEW q \in Servers \ {p}, Closes(q)
  PROVE  Closes(q)'
<1>1. /\ pc'[q] = pc[q] /\ at'[q] = at[q]
      /\ unlinked'[q] = unlinked[q] /\ loaded'[q] = loaded[q]
      /\ insert'[q] = insert[q] /\ wrote'[q] = wrote[q]
      /\ known'[q] = known[q] /\ doomed'[q] = doomed[q]
  BY OthersKeep, KnownMoves
<1>2. (Open(q)' <=> Open(q)) /\ Carried /\ Phases /\ LoadedKept
  BY <1>1 DEF Open, Agreed, Recorded
<1>3. known[q] \in SUBSET RuleIds
  BY DEF Recorded, Typed
<1>4. ASSUME NEW r \in known[q]
      PROVE  rules'[r] # None
  BY <1>2, <1>3, <1>4, MovesKeep DEF Closes
<1>5. ASSUME NEW r \in known[q], ~Open(q), pc[q] # "down"
      PROVE  Of(versions', r) # {}
  BY <1>3, <1>5, VersionsMove DEF Closes
<1>6. doomed[q] => ~Plain'
  BY <1>2, BrokenMoves DEF Closes
<1>7. ASSUME loaded[q] # None, NEW r \in RuleIds
      PROVE  Seen(q, r)'
  <2>0. Seen(q, r)
    BY <1>7 DEF Closes
  <2>1. ASSUME rules'[r] # None, loaded[q][r] = None
        PROVE  r \notin known[q] /\ Rooted(r)' /\ (Of(versions', r) # {} => Matched(r)')
    <3>1. CASE rules[r] # None
      BY <1>2, <2>0, <2>1, <3>1, RootedMoves, MatchedMoves DEF Seen
    <3>2. CASE rules[r] = None
      <4>1. Starts(r)
        BY <2>1, <3>2, RuleMoves DEF Same, Gains, Numbered
      <4>2. r \notin known[q]
        BY <3>2 DEF Closes
      <4> QED
        BY <4>1, <4>2, StartsMatch
    <3> QED
      BY <3>1, <3>2
  <2>2. ASSUME r < at[q], loaded[q][r] # None
        PROVE  /\ Of(versions' \cup wrote[q] \cup insert[q], r) # {}
               /\ Of(versions', r) # {} /\ Of(wrote[q] \cup insert[q], r) = {} => Matched(r)'
    <3>1. /\ Of(versions \cup wrote[q] \cup insert[q], r) # {}
          /\ Of(versions, r) # {} /\ Of(wrote[q] \cup insert[q], r) = {} => Matched(r)
      BY <2>0, <2>2 DEF Seen
    <3>2. rules[r] # None /\ rules'[r] # None
      BY <1>2, <1>7, <2>2, MovesKeep DEF LoadedKept
    <3>3. Of(versions' \cup wrote[q] \cup insert[q], r) # {}
      BY <3>1, VersionsMove DEF Of
    <3>4. ASSUME Of(versions', r) # {}, Of(wrote[q] \cup insert[q], r) = {}
          PROVE  Matched(r)'
      <4>1. Of(versions, r) # {}
        BY <3>1, <3>4 DEF Of
      <4> QED
        BY <1>2, <3>1, <3>2, <3>4, <4>1, MatchedMoves
    <3> QED
      BY <3>3, <3>4
  <2> QED
    BY <1>1, <2>1, <2>2 DEF Seen
<1>8. Open(q) /\ loaded[q] = None => at[q] = 1
  BY DEF Closes
<1>9. doomed[q] => Open(q)
  BY DEF Closes
<1> QED
  BY <1>1, <1>2, <1>4, <1>5, <1>6, <1>7, <1>8, <1>9 DEF Closes

\* A process that commits has found nothing wrong, with tables in which nothing
\* is.
LEMMA CommitSound ==
  ASSUME Recorded, NEW p \in Servers, Commits(p), Closes(p)
  PROVE  /\ Plain
         /\ \A r \in known[p] : Of(versions \cup wrote[p], r) # {}
<1>0. Typed /\ Phases /\ Histories /\ WroteHistories /\ Apart /\ Owed /\ LoadedKept
  BY DEF Recorded, Histories
<1>1. /\ pc[p] = "baseline" /\ loaded[p] # None /\ Open(p)
      /\ unlinked[p] = {} /\ insert[p] = {}
      /\ at[p] = MaxRules + 1
  BY <1>0 DEF Commits, Phases, Open
<1>2. \A r \in RuleIds : r < at[p]
  BY <1>1, StartupAssumption DEF RuleIds
<1>3. \A r \in RuleIds : Seen(p, r)
  BY <1>1 DEF Closes
<1>4. ASSUME NEW r \in RuleIds, Of(versions \cup wrote[p], r) # {}
      PROVE  \E vs : vs # {} /\ History(vs, r)
  <2>1. Of(versions \cup wrote[p], r) = Of(versions, r) \cup Of(wrote[p], r)
    BY OfUnion
  <2>2. Of(versions, r) # {} \/ Of(wrote[p], r) # {}
    BY <1>4, <2>1
  <2> QED
    BY <1>0, <2>2 DEF Histories, WroteHistories
<1>5. ASSUME NEW e \in DOMAIN events, NEW r \in RuleIds, r = events[e].rule
      PROVE  events[e].sound /\ EventsOf(r) = {e}
  <2>1. Of(versions \cup wrote[p], r) # {}
    <3>1. Of(versions \cup wrote[p] \cup insert[p], r) # {}
      BY <1>0, <1>1, <1>5 DEF Owed
    <3> QED
      BY <1>1, <3>1 DEF Of
  <2>2. PICK vs : vs # {} /\ History(vs, r)
    BY <1>4, <2>1
  <2>3. PICK a \in vs : a.version = 1
    BY <2>2 DEF History
  <2>4. e \in EventsOf(r)
    BY <1>5 DEF EventsOf
  <2>5. a.event = e /\ EventsOf(r) = {e}
    BY <2>2, <2>3, <2>4 DEF History
  <2>6. e # None
    BY <1>0, EventsIndexed, NoneAssumption
  <2> QED
    BY <2>2, <2>3, <2>5, <2>6 DEF History, SoundVersion
<1>6. \A e \in DOMAIN events : events[e].rule \in RuleIds
  BY <1>0, EventsIndexed DEF Event
<1>7. ASSUME NEW r \in RuleIds, rules[r] # None
      PROVE  /\ Rooted(r)
             /\ Of(versions, r) # {} => Matched(r)
             /\ r \in known[p] => Of(versions \cup wrote[p], r) # {}
  <2>1. CASE loaded[p][r] = None
    BY <1>3, <1>7, <2>1 DEF Seen
  <2>2. CASE loaded[p][r] # None
    <3>1. /\ Of(versions \cup wrote[p], r) # {}
          /\ Of(versions, r) # {} /\ Of(wrote[p], r) = {} => Matched(r)
      BY <1>1, <1>2, <1>3, <2>2 DEF Seen, Of
    <3>2. Rooted(r)
      BY <1>4, <3>1 DEF History
    <3>3. Of(versions, r) # {} => Of(wrote[p], r) = {}
      BY <1>0 DEF Apart
    <3> QED
      BY <3>1, <3>2, <3>3
  <2> QED
    BY <2>1, <2>2
<1>8. \A r \in known[p] : r \in RuleIds /\ rules[r] # None
  BY <1>0 DEF Typed, Closes
<1>9. \A r \in RuleIds : Rooted(r)
  BY <1>7 DEF Rooted
<1>10. \A e, f \in DOMAIN events : events[e].rule = events[f].rule => e = f
  BY <1>5, <1>6
<1> QED
  BY <1>5, <1>6, <1>7, <1>8, <1>9, <1>10 DEF Plain

\* What is not about the tables moves with the process alone.
LEMMA OwnCloses ==
  ASSUME Recorded, Agreed, NEW p \in Servers, Moves(p), Closes(p), Recorded'
  PROVE  Closes(p)'
<1>0. /\ Typed /\ Phases /\ LoadedKept /\ Apart /\ Numbers /\ Carried
      /\ Typed' /\ Phases'
  BY DEF Recorded, Agreed
<1>1. known[p] \in SUBSET RuleIds
  BY <1>0 DEF Typed
<1>2. \A r \in known[p] : rules'[r] # None
  BY <1>0, <1>1, MovesKeep DEF Closes
\* Outside a preparation.
<1>3. ASSUME ~Open(p), pc[p] # "down", ~Open(p)', UNCHANGED known, UNCHANGED doomed
      PROVE  Closes(p)'
  <2>1. loaded'[p] = None /\ ~doomed'[p]
    BY <1>0, <1>3 DEF Phases, Closes
  <2>2. \A r \in known[p] : Of(versions', r) # {}
    BY <1>1, <1>3, VersionsMove DEF Closes
  <2> QED
    BY <1>2, <1>3, <2>1, <2>2 DEF Closes
<1>4. CASE Idles(p) \/ \E r \in RuleIds : CreatesRule(p, r)
  <2>1. ~Open(p) /\ pc[p] # "down" /\ ~Open(p)' /\ UNCHANGED notes
    BY <1>4, Zenon DEF Idles, CreatesRule
  <2> QED
    BY <1>3, <2>1 DEF notes
<1>5. ASSUME NEW draft \in Content, Publish(p, draft)
      PROVE  Closes(p)'
  <2>1. UNCHANGED <<process, history>> /\ pc[p] = "serving"
    BY <1>5, Zenon DEF Publish
  <2>2. ~Open(p) /\ pc[p] # "down" /\ ~Open(p)' /\ UNCHANGED known /\ UNCHANGED doomed
    BY <2>1 DEF process, history, Open
  <2> QED
    BY <1>3, <2>2
<1>6. CASE Ends(p)
  <2>1. PICK why \in {"database", "evidence", None} : End(p, why)
    BY <1>6 DEF Ends
  <2>2. known'[p] = {} /\ ~doomed'[p] /\ pc'[p] = "down"
    BY <1>0, <2>1 DEF End, Leave, Goto, Typed
  <2>3. ~Open(p)' /\ loaded'[p] = None
    BY <1>0, <2>2 DEF Open, Phases
  <2> QED
    BY <2>2, <2>3 DEF Closes
<1>7. CASE Commits(p)
  <2>1. /\ versions' = versions \cup wrote[p] /\ UNCHANGED <<known, doomed>>
        /\ \E l \in {"count", "serving"} : Becomes(pc, pc', p, l)
    BY <1>7 DEF Commits
  <2>2. ~Open(p)' /\ loaded'[p] = None
    BY <1>0, <2>1 DEF Open, Becomes, Phases
  <2>3. Plain /\ \A r \in known[p] : Of(versions \cup wrote[p], r) # {}
    BY <1>7, CommitSound
  <2>4. ~doomed[p]
    BY <2>3 DEF Closes
  <2> QED
    BY <1>2, <2>1, <2>2, <2>3, <2>4 DEF Closes
<1>8. CASE Prepares(p)
  <2>1. /\ Becomes(pc, pc', p, "backfill")
        /\ Becomes(at, at', p, 1)
        /\ Becomes(known, known', p, {r \in RuleIds : rules[r] # None})
        /\ Becomes(doomed, doomed', p, doomed[p] \/ ~Coherent)
        /\ UNCHANGED <<rules, events, versions, loaded>> /\ ~Open(p)
    BY <1>0, <1>8, PrepareFacts DEF Prepares, stored
  <2>2. Open(p)' /\ loaded'[p] = None /\ at'[p] = 1
    BY <1>0, <2>1 DEF Open, Becomes, Phases
  <2>3. \A r \in known'[p] : rules'[r] # None
    BY <2>1 DEF Becomes
  <2>4. doomed'[p] => ~Plain
    BY <2>1, CoherentPlain DEF Becomes, Closes
  <2>5. Plain' <=> Plain
    BY <2>1 DEF Plain, Rooted, Origin, EventsOf, Matched
  <2> QED
    BY <2>2, <2>3, <2>4, <2>5 DEF Closes
\* Inside a preparation.
<1>9. ASSUME Open(p), Open(p)', UNCHANGED <<rules, events, versions, known, doomed>>,
             loaded'[p] = None => at'[p] = 1,
             loaded'[p] # None => \A r \in RuleIds : Seen(p, r)'
      PROVE  Closes(p)'
  <2>1. Plain' <=> Plain
    BY <1>9 DEF Plain, Rooted, Origin, EventsOf, Matched
  <2> QED
    BY <1>2, <1>9, <2>1 DEF Closes
<1>10. ASSUME NEW e \in EventIds, TakesUp(p, e)
       PROVE  Closes(p)'
  <2>1. /\ UNCHANGED <<rules, events, versions, known, doomed, at, loaded>>
        /\ pc[p] = "backfill" /\ Becomes(pc, pc', p, "insert")
    BY <1>10, Zenon DEF TakesUp, stored, notes
  <2>2. Open(p) /\ Open(p)' /\ loaded[p] = None
    BY <1>0, <2>1 DEF Open, Becomes, Phases
  <2> QED
    BY <1>9, <2>1, <2>2 DEF Closes
<1>11. CASE Loads(p)
  <2>1. /\ UNCHANGED <<rules, events, versions, known, doomed, at>>
        /\ pc[p] = "backfill" /\ Becomes(pc, pc', p, "baseline")
        /\ Becomes(loaded, loaded', p, [r \in RuleIds |-> LoadedRule(p, r)])
    BY <1>11, Zenon DEF Loads, stored, notes
  <2>2. Open(p) /\ Open(p)' /\ loaded[p] = None /\ at[p] = 1 /\ loaded'[p] # None
    BY <1>0, <2>1 DEF Open, Becomes, Phases, Closes
  <2>3. ASSUME NEW r \in RuleIds
        PROVE  Seen(p, r)'
    <3>1. ~(r < at'[p])
      BY <2>1, <2>2 DEF RuleIds
    <3>2. rules'[r] # None => loaded'[p][r] # None
      <4>1. loaded'[p][r] = LoadedRule(p, r)
        BY <2>1 DEF Becomes
      <4>2. ASSUME rules[r] # None
            PROVE  [rules[r] EXCEPT !.version = 2] # None
        <5>1. rules[r] \in Rule
          BY <1>0, <4>2 DEF Typed
        <5>2. [rules[r] EXCEPT !.version = 2] \in Rule
          BY <5>1 DEF Rule
        <5> QED
          BY <5>2, NoneAssumption
      <4> QED
        BY <2>1, <4>1, <4>2 DEF LoadedRule
    <3> QED
      BY <3>1, <3>2 DEF Seen
  <2> QED
    BY <1>9, <2>1, <2>2, <2>3
<1>12. CASE Inserts(p)
  <2>1. /\ UNCHANGED <<rules, events, versions, known, doomed, at, loaded>>
        /\ pc[p] = "insert"
        /\ Becomes(pc, pc', p, IF loaded[p] = None THEN "backfill" ELSE "baseline")
        /\ Becomes(insert, insert', p, {})
        /\ Becomes(wrote, wrote', p, wrote[p] \cup insert[p])
    BY <1>12, Zenon DEF Inserts, stored, notes
  <2>2. Open(p) /\ Open(p)'
    BY <2>1 DEF Open, Becomes
  <2>3. /\ wrote'[p] \cup insert'[p] = wrote[p] \cup insert[p]
        /\ versions' \cup wrote'[p] \cup insert'[p] = versions \cup wrote[p] \cup insert[p]
    BY <2>1 DEF Becomes
  <2>4. \A r \in RuleIds : Seen(p, r)' <=> Seen(p, r)
    BY <2>1, <2>3 DEF Seen, Rooted, Origin, EventsOf, Matched
  <2> QED
    BY <1>9, <2>1, <2>2, <2>4 DEF Closes
<1>13. ASSUME NEW s \in RuleIds, Records(p, s) \/ Passes(p, s)
       PROVE  Closes(p)'
  <2>1. /\ UNCHANGED <<rules, events, versions, known, doomed, loaded, wrote>>
        /\ Becomes(at, at', p, s + 1) /\ s = at[p] /\ pc[p] = "baseline"
    BY <1>13, Zenon DEF Records, Passes, stored, notes, work
  <2>2. Open(p) /\ loaded[p] # None /\ insert[p] = {} /\ at'[p] = s + 1
    BY <1>0, <2>1 DEF Open, Phases, Becomes
  <2>3. Open(p)'
    BY <1>13, <2>1 DEF Records, Passes, Open, Becomes
  <2>4. insert[p] \subseteq insert'[p] /\ \A v \in insert'[p] : v.rule = s
    <3>1. Passes(p, s) => insert'[p] = {}
      BY <2>2 DEF Passes, work
    <3>2. Records(p, s) => \A v \in insert'[p] : v.rule = s
      BY DEF Records, Becomes
    <3> QED
      BY <1>13, <2>2, <3>1, <3>2
  <2>5. ASSUME NEW r \in RuleIds
        PROVE  Seen(p, r)'
    <3>1. Seen(p, r)
      BY <2>2 DEF Closes
    <3>2. Rooted(r)' <=> Rooted(r)
      BY <2>1 DEF Rooted, Origin, EventsOf
    <3>3. Matched(r)' <=> Matched(r)
      BY <2>1 DEF Matched
    <3>4. CASE r # s
      <4>1. r < s + 1 => r < at[p]
        BY <2>1, <3>4 DEF RuleIds
      <4>2. Of(wrote'[p] \cup insert'[p], r) = Of(wrote[p] \cup insert[p], r)
        BY <2>1, <2>2, <2>4, <3>4 DEF Of
      <4>3. Of(versions' \cup wrote'[p] \cup insert'[p], r)
              = Of(versions \cup wrote[p] \cup insert[p], r)
        BY <2>1, <2>2, <2>4, <3>4 DEF Of
      <4> QED
        BY <2>1, <2>2, <3>1, <3>2, <3>3, <4>1, <4>2, <4>3 DEF Seen
    <3>5. CASE r = s
      <4>1. rules'[r] # None /\ loaded'[p][r] = None =>
              r \notin known'[p] /\ Rooted(r)' /\ (Of(versions', r) # {} => Matched(r)')
        BY <2>1, <3>1, <3>2, <3>3 DEF Seen
      <4>2. ASSUME Records(p, s)
            PROVE  Of(insert'[p], s) # {}
        <5>1. PICK v : v = [rule |-> s, version |-> 1, content |-> loaded[p][s].content,
                            event |-> None]
          OBVIOUS
        <5>2. insert'[p] = {v} /\ v.rule = s
          BY <4>2, <5>1 DEF Records, Becomes
        <5> QED
          BY <5>2 DEF Of
      <4>3. ASSUME Passes(p, s), loaded[p][s] # None
            PROVE  /\ Of(versions \cup wrote[p], s) # {}
                   /\ Of(versions, s) # {} /\ Of(wrote[p], s) = {} => Matched(s)
        <5>1. MatchesLatest(loaded[p][s], Of(versions \cup wrote[p], s))
          BY <4>3 DEF Passes
        <5>2. Of(versions \cup wrote[p], s) # {}
          BY <5>1 DEF MatchesLatest
        <5>3. ASSUME Of(versions, s) # {}, Of(wrote[p], s) = {}
              PROVE  Matched(s)
          <6>1. Of(versions \cup wrote[p], s) = Of(versions, s)
            BY <5>3 DEF Of
          <6>2. PICK v : Latest(Of(versions, s), v) /\ loaded[p][s].content = v.content
            BY <5>1, <6>1 DEF MatchesLatest, Latest
          <6>3. rules[s] # None /\ loaded[p][s].content = rules[s].content
            BY <1>0, <2>2, <4>3 DEF LoadedKept
          <6>4. PICK w : Latest(Of(versions, s), w) /\ w.version = rules[s].version
            BY <1>0, <5>3, <6>3 DEF Numbers
          <6>5. v = w
            <7>1. Of(versions, s) \in SUBSET Version /\ History(Of(versions, s), s)
              BY <1>0, <5>3, TypedSets DEF Recorded, Histories
            <7>2. v.version = w.version
              BY <6>2, <6>4, <7>1 DEF Latest, Version
            <7> QED
              BY <6>2, <6>4, <7>1, <7>2 DEF History, Latest
          <6> QED
            BY <6>2, <6>3, <6>4, <6>5 DEF Matched, MatchesLatest, Latest
        <5> QED
          BY <5>2, <5>3
      <4>4. CASE Records(p, s)
        <5>1. /\ Of(versions' \cup wrote'[p] \cup insert'[p], s) # {}
              /\ Of(wrote'[p] \cup insert'[p], s) # {}
          BY <4>2, <4>4 DEF Of
        <5> QED
          BY <3>5, <4>1, <5>1 DEF Seen
      <4>5. CASE Passes(p, s)
        <5>1. insert'[p] = {}
          BY <2>2, <4>5 DEF Passes, work
        <5>2. /\ Of(versions' \cup wrote'[p] \cup insert'[p], s) = Of(versions \cup wrote[p], s)
              /\ Of(wrote'[p] \cup insert'[p], s) = Of(wrote[p], s)
          BY <2>1, <5>1 DEF Of
        <5> QED
          BY <2>1, <3>3, <3>5, <4>1, <4>3, <4>5, <5>2 DEF Seen
      <4> QED
        BY <1>13, <4>4, <4>5
    <3> QED
      BY <3>4, <3>5
  <2> QED
    BY <1>9, <2>1, <2>2, <2>3, <2>5
<1> QED
  BY <1>4, <1>5, <1>6, <1>7, <1>8, <1>10, <1>11, <1>12, <1>13, Zenon DEF Moves

Closed == \A p \in Servers : Closes(p)

LEMMA ClosedStep ==
  ASSUME Recorded, Agreed, Closed, Next
  PROVE  Closed'
<1>0. Kinds /\ Recorded'
  BY StepKinds, RecordedStays DEF Recorded
<1>1. ASSUME NEW p \in Servers, Moves(p)
      PROVE  Closed'
  BY <1>0, <1>1, OwnCloses, OthersClose DEF Closed
<1>2. ASSUME NEW s \in RuleIds, NEW text \in Texts, Edit(s, text)
      PROVE  Closed'
  <2>1. /\ UNCHANGED <<versions, process, known, doomed>>
        /\ \A q \in Servers : ~Open(q) /\ ~Open(q)'
        /\ \A r \in RuleIds : rules'[r] # None <=> rules[r] # None
    BY <1>2, EditFacts
  <2>2. \A q \in Servers : loaded'[q] = None /\ pc'[q] = pc[q]
    BY <2>1 DEF Recorded, Phases, process
  <2>3. \A q \in Servers : known[q] \in SUBSET RuleIds
    BY DEF Recorded, Typed
  <2> QED
    BY <2>1, <2>2, <2>3 DEF Closed, Closes
<1> QED
  BY <1>0, <1>1, <1>2, Zenon DEF Kinds

(***************************************************************************)
(* Starts, by what they find.                                              *)
(***************************************************************************)
Prepared == Recorded /\ Agreed /\ Refusals /\ Closed

LEMMA PreparedInit == Init => Prepared
<1> SUFFICES ASSUME Init
             PROVE  Prepared
  OBVIOUS
<1>1. Recorded /\ Agreed
  BY Founded, AgreedInit
<1>2. Refusals
  BY NoneAssumption DEF Init, Refusals, Unraced, OnlyFlawedRefused, Open, Failures
<1>3. Closed
  BY DEF Init, Closed, Closes, Open
<1> QED
  BY <1>1, <1>2, <1>3 DEF Prepared

LEMMA PreparedStays == Prepared /\ [Next]_vars => Prepared'
<1> SUFFICES ASSUME Prepared, [Next]_vars
             PROVE  Prepared'
  OBVIOUS
<1>1. Recorded'
  BY RecordedStays DEF Prepared
<1>2. CASE Next
  BY <1>1, <1>2, AgreedStep, RefusalsStep, ClosedStep DEF Prepared
<1>3. CASE UNCHANGED vars
  <2>1. UNCHANGED <<tables, process, history>>
    BY <1>3 DEF vars
  <2>2. UNCHANGED <<rules, events, versions>>
    BY <2>1 DEF tables
  <2>3. UNCHANGED <<pc, unlinked, loaded, at, insert, wrote, failure>>
    BY <2>1 DEF process
  <2>4. UNCHANGED <<known, doomed, raced, flawed>>
    BY <2>1 DEF history
  <2>5. \A r : Rooted(r)' <=> Rooted(r)
    BY <2>2 DEF Rooted, Origin, EventsOf
  <2>6. \A r : Matched(r)' <=> Matched(r)
    BY <2>2 DEF Matched
  <2>7. Plain' <=> Plain
    BY <2>2, <2>5, <2>6 DEF Plain
  <2>8. Numbers' <=> Numbers
    BY <2>2 DEF Numbers, Latest
  <2>9. Carried' <=> Carried
    BY <2>2, <2>3 DEF Carried, Current, Latest
  <2>10. \A p : Unraced(p)' <=> Unraced(p)
    BY <2>2, <2>3, <2>4 DEF Unraced, Open, Latest
  <2>11. OnlyFlawedRefused' <=> OnlyFlawedRefused
    BY <2>3, <2>4 DEF OnlyFlawedRefused
  <2>12. ASSUME NEW p, NEW r
         PROVE  Seen(p, r)' <=> Seen(p, r)
    <3>1. UNCHANGED <<rules, versions, loaded, at, insert, wrote, known>>
      BY <2>2, <2>3, <2>4
    <3>2. (Rooted(r)' <=> Rooted(r)) /\ (Matched(r)' <=> Matched(r))
      BY <2>5, <2>6
    <3> QED
      BY <3>1, <3>2 DEF Seen
  <2>13. \A p : Closes(p)' <=> Closes(p)
    BY <2>2, <2>3, <2>4, <2>7, <2>12 DEF Closes, Open
  <2> QED
    BY <1>1, <2>4, <2>7, <2>8, <2>9, <2>10, <2>11, <2>13
       DEF Prepared, Agreed, Refusals, Closed
<1> QED
  BY <1>2, <1>3

LEMMA PreparationsHold == Spec => []Prepared
BY PreparedInit, PreparedStays, PTL DEF Spec

\* What a start refuses was flawed before versioning or by hand, or another
\* preparation has committed meanwhile: no publication, import or interruption
\* leaves tables that keep a process from starting.
THEOREM OnlyFlawsRefuse == Spec => []OnlyFlawedRefused
<1>1. Prepared => OnlyFlawedRefused
  BY DEF Prepared, Refusals
<1> QED
  BY <1>1, PreparationsHold, PTL

LEMMA PreparedClosed == Prepared => FailsClosed
<1> SUFFICES ASSUME Prepared, NEW p \in Servers, pc[p] = "serving"
             PROVE  /\ ~doomed[p]
                    /\ \A r \in known[p] :
                         /\ Of(versions, r) # {}
                         /\ flawed \/ MatchesLatest(rules[r], Of(versions, r))
  BY DEF FailsClosed
<1>1. Closes(p) /\ ~Open(p)
  BY DEF Prepared, Closed, Open
<1>2. ~doomed[p]
  BY <1>1 DEF Closes
<1>3. ASSUME NEW r \in known[p]
      PROVE  /\ Of(versions, r) # {}
             /\ flawed \/ MatchesLatest(rules[r], Of(versions, r))
  <2>1. r \in RuleIds
    BY DEF Prepared, Recorded, Typed
  <2>2. rules[r] # None /\ Of(versions, r) # {}
    BY <1>1 DEF Closes
  <2> QED
    BY <2>1, <2>2 DEF Prepared, Agreed, Plain, Matched
<1> QED
  BY <1>2, <1>3

\* A process that has started on tables that disagree never serves, and one that
\* serves has a history for every rule it found, which the rule still matches
\* unless somebody has edited it.
THEOREM StartFailsClosed == Spec => []FailsClosed
BY PreparationsHold, PreparedClosed, PTL

(***************************************************************************)
(* The seed data.                                                          *)
(***************************************************************************)
SeedStored ==
  \E r \in RuleIds : /\ rules[r] # None /\ rules[r].content.code = SeedCode
                     /\ Of(versions, r) # {}

Placed(p) ==
  /\ pc[p] \in {"lookup", "create"} => importing[p]
  /\ importing[p] => pc[p] \notin {"down", "serving", "count"}
  /\ pc[p] \in {"down", "count", "serving"} => at[p] = 1

\* What an import that is alone has stored, by the item it looks at.
Progress(p) ==
  /\ pc[p] \in {"lookup", "create"} =>
       /\ at[p] \in 1..4 /\ cases \in 0..1
       /\ cases = 1 => categories /\ Stored(SeedCode)
       /\ at[p] >= 2 => categories
       /\ at[p] >= 3 => Stored(SeedCode)
       /\ at[p] = 4 => cases = 1 /\ pc[p] = "lookup"
       /\ pc[p] = "create" /\ at[p] = 3 => cases = 0
  /\ Open(p) /\ importing[p] =>
       /\ categories /\ cases = 1
       /\ \E r \in known[p] : rules[r].content.code = SeedCode

Whole == IF categories THEN cases = 1 /\ SeedStored ELSE cases = 0

Seeded ==
  /\ \A p \in Servers : Placed(p)
  /\ ~disturbed =>
       /\ \A p, q \in Servers : importing[p] /\ importing[q] => p = q
       /\ \A p \in Servers : Progress(p)
       /\ (\A p \in Servers : ~importing[p]) => Whole

LEMMA SeedsAre ==
  /\ DOMAIN Seeds = 1..3 /\ Len(Seeds) = 3
  /\ Seeds[1] = "category" /\ Seeds[2] = "rule" /\ Seeds[3] = "case"
BY DEF Seeds

\* No step takes a rule, its code or its history away.
LEMMA RulesStay ==
  ASSUME Prepared, Next
  PROVE  /\ \A r \in RuleIds : rules[r] # None =>
              rules'[r] # None /\ rules'[r].content.code = rules[r].content.code
         /\ \A r \in RuleIds : Of(versions, r) # {} => Of(versions', r) # {}
         /\ Stored(SeedCode) => Stored(SeedCode)'
         /\ SeedStored => SeedStored'
<1>0. Recorded /\ Carried /\ Kinds
  BY StepKinds DEF Prepared, Recorded, Agreed
<1>1. ASSUME NEW r \in RuleIds
      PROVE  /\ rules[r] # None =>
                  rules'[r] # None /\ rules'[r].content.code = rules[r].content.code
             /\ Of(versions, r) # {} => Of(versions', r) # {}
  <2>1. ASSUME NEW p \in Servers, Moves(p)
        PROVE  /\ rules[r] # None =>
                    rules'[r] # None /\ rules'[r].content = rules[r].content
               /\ Of(versions, r) # {} => Of(versions', r) # {}
    BY <1>0, <2>1, MovesKeep, VersionsMove
  <2>2. ASSUME NEW s \in RuleIds, NEW text \in Texts, Edit(s, text)
        PROVE  /\ rules[r] # None =>
                    rules'[r] # None /\ rules'[r].content.code = rules[r].content.code
               /\ UNCHANGED versions
    BY <1>0, <2>2, EditFacts
  <2> QED
    BY <1>0, <2>1, <2>2 DEF Kinds
<1>2. Stored(SeedCode) => Stored(SeedCode)'
  BY <1>1 DEF Stored
<1>3. SeedStored => SeedStored'
  BY <1>1 DEF SeedStored
<1> QED
  BY <1>1, <1>2, <1>3

\* A step that leaves process q and the seed data where they are.
LEMMA ProgressStays ==
  ASSUME Prepared, Next, NEW q \in Servers, Progress(q),
         UNCHANGED <<categories, cases>>, importing'[q] = importing[q],
         known'[q] = known[q],
         \/ pc'[q] = pc[q] /\ at'[q] = at[q]
         \/ Open(q) /\ Open(q)'
  PROVE  Progress(q)'
<1>1. Open(q) => pc[q] \notin {"lookup", "create"}
  BY DEF Open
<1>2. Open(q)' => pc'[q] \notin {"lookup", "create"}
  BY DEF Open
<1>3. Stored(SeedCode) => Stored(SeedCode)'
  BY RulesStay
<1>4. ASSUME NEW r \in known[q], rules[r].content.code = SeedCode
      PROVE  rules'[r].content.code = SeedCode
  <2>1. r \in RuleIds /\ rules[r] # None
    BY DEF Prepared, Recorded, Typed, Closed, Closes
  <2> QED
    BY <1>4, <2>1, RulesStay
<1>5. Open(q)' <=> Open(q)
  BY DEF Open
<1> QED
  BY <1>1, <1>2, <1>3, <1>4, <1>5 DEF Progress

\* A step apart from the seed data.
LEMMA SeedsApart ==
  ASSUME Prepared, Seeded, Next, UNCHANGED <<seeds, known>>,
         \A q \in Servers : \/ pc'[q] = pc[q] /\ at'[q] = at[q]
                            \/ Open(q) /\ Open(q)'
  PROVE  Seeded'
<1>1. UNCHANGED <<categories, cases, importing, disturbed>>
  BY DEF seeds
<1>2. ASSUME NEW q \in Servers
      PROVE  Placed(q)'
  <2>1. Open(q)' => pc'[q] \notin {"lookup", "create", "down", "serving", "count"}
    BY DEF Open
  <2> QED
    BY <1>1, <2>1 DEF Seeded, Placed
<1>3. ~disturbed => \A q \in Servers : Progress(q)'
  BY <1>1, ProgressStays DEF Seeded
<1>4. Whole => Whole'
  BY <1>1, RulesStay DEF Whole
<1> QED
  BY <1>1, <1>2, <1>3, <1>4 DEF Seeded

LEMMA EndSeeded ==
  ASSUME Prepared, Seeded, Next, NEW p \in Servers, Ends(p)
  PROVE  Seeded'
<1>0. Typed
  BY DEF Prepared, Recorded
<1>1. PICK why \in {"database", "evidence", None} : End(p, why)
  BY DEF Ends
<1>2. /\ Becomes(importing, importing', p, FALSE) /\ Becomes(known, known', p, {})
      /\ Becomes(pc, pc', p, "down") /\ Becomes(at, at', p, 1)
      /\ disturbed' = (disturbed \/ Importing(p))
  BY <1>0, <1>1 DEF End, Leave, Goto, Typed, Becomes
<1>3. UNCHANGED <<categories, cases>>
  BY <1>1, Zenon DEF End, tables
<1>4. \A q \in Servers : Placed(q)'
  BY <1>2 DEF Seeded, Placed, Becomes
<1>5. ASSUME ~disturbed'
      PROVE  ~disturbed /\ ~importing[p]
  BY <1>2, <1>5 DEF Seeded, Placed, Importing
<1>6. ASSUME ~disturbed'
      PROVE  \A q \in Servers : Progress(q)'
  <2>1. ~Open(p)' /\ pc'[p] \notin {"lookup", "create"}
    BY <1>2 DEF Open, Becomes
  <2>2. Progress(p)'
    BY <2>1 DEF Progress
  <2>3. \A q \in Servers \ {p} : Progress(q)'
    BY <1>2, <1>3, <1>5, <1>6, ProgressStays DEF Seeded, Becomes
  <2> QED
    BY <2>2, <2>3
<1>7. Whole => Whole'
  BY <1>3, RulesStay DEF Whole
<1>8. ASSUME ~disturbed'
      PROVE  \A q \in Servers : importing'[q] <=> importing[q]
  BY <1>2, <1>5, <1>8 DEF Becomes
<1> QED
  BY <1>4, <1>5, <1>6, <1>7, <1>8 DEF Seeded

LEMMA PrepareSeeded ==
  ASSUME Prepared, Seeded, Next, NEW p \in Servers, Prepares(p)
  PROVE  Seeded'
<1>0. Typed
  BY DEF Prepared, Recorded
<1>1. /\ Becomes(pc, pc', p, "backfill") /\ Becomes(at, at', p, 1)
      /\ Becomes(known, known', p, {r \in RuleIds : rules[r] # None})
      /\ UNCHANGED rules /\ ~Open(p)
  BY <1>0, PrepareFacts DEF Prepares, stored
<1>2. UNCHANGED <<categories, cases, importing, disturbed, versions>>
  BY Zenon DEF Prepares, Prepare, tables
<1>3. \A q \in Servers : Placed(q)'
  BY <1>1, <1>2 DEF Seeded, Placed, Becomes
<1>4. pc[p] = "down" \/ (pc[p] = "lookup" /\ at[p] = 4)
  <2>1. Begin(p) \/ PrepareImported(p)
    BY DEF Prepares
  <2>2. PrepareImported(p) => pc[p] = "lookup" /\ at[p] = Len(Seeds) + 1
    BY DEF PrepareImported
  <2>3. Begin(p) => pc[p] = "down"
    BY DEF Begin
  <2> QED
    BY <2>1, <2>2, <2>3, SeedsAre
<1>5. ASSUME ~disturbed
      PROVE  Progress(p)'
  <2>1. CASE pc[p] = "down"
    <3>1. ~importing'[p] /\ pc'[p] = "backfill"
      BY <1>1, <1>2, <2>1 DEF Seeded, Placed, Becomes
    <3> QED
      BY <3>1 DEF Progress
  <2>2. CASE pc[p] = "lookup" /\ at[p] = 4
    <3>1. categories /\ cases = 1 /\ Stored(SeedCode)
      BY <1>5, <2>2 DEF Seeded, Progress
    <3>2. \E r \in known'[p] : rules'[r].content.code = SeedCode
      BY <1>1, <3>1 DEF Becomes, Stored
    <3>3. pc'[p] = "backfill"
      BY <1>1 DEF Becomes
    <3> QED
      BY <1>2, <3>1, <3>2, <3>3 DEF Progress
  <2> QED
    BY <1>4, <2>1, <2>2
<1>6. ASSUME ~disturbed
      PROVE  \A q \in Servers \ {p} : Progress(q)'
  BY <1>1, <1>2, <1>6, ProgressStays DEF Seeded, Becomes
<1>7. Whole => Whole'
  BY <1>2, RulesStay DEF Whole
<1> QED
  BY <1>2, <1>3, <1>5, <1>6, <1>7 DEF Seeded

LEMMA CommitSeeded ==
  ASSUME Prepared, Seeded, Next, NEW p \in Servers, Commits(p)
  PROVE  Seeded'
<1>0. Typed /\ Recorded /\ Closes(p) /\ pc[p] = "baseline" /\ Open(p)
  BY DEF Prepared, Recorded, Closed, Commits, Open
<1>1. /\ Becomes(pc, pc', p, IF importing[p] THEN "serving" ELSE "count")
      /\ Becomes(at, at', p, 1) /\ Becomes(importing, importing', p, FALSE)
      /\ versions' = versions \cup wrote[p]
      /\ UNCHANGED <<known, categories, cases, disturbed>>
  BY DEF Commits, Drops
<1>2. \A q \in Servers : Placed(q)'
  BY <1>1 DEF Seeded, Placed, Becomes
<1>3. ASSUME ~disturbed
      PROVE  \A q \in Servers : Progress(q)'
  <2>1. pc'[p] \notin {"lookup", "create"} /\ ~Open(p)'
    BY <1>1 DEF Becomes, Open
  <2>2. Progress(p)'
    BY <2>1 DEF Progress
  <2>3. \A q \in Servers \ {p} : Progress(q)'
    BY <1>1, <1>3, ProgressStays DEF Seeded, Becomes
  <2> QED
    BY <2>2, <2>3
<1>4. CASE ~importing[p]
  <2>1. \A q \in Servers : importing'[q] <=> importing[q]
    BY <1>1, <1>4 DEF Becomes
  <2>2. Whole => Whole'
    BY <1>1, RulesStay DEF Whole
  <2> QED
    BY <1>1, <1>2, <1>3, <2>1, <2>2 DEF Seeded
<1>5. CASE importing[p]
  <2>1. ASSUME ~disturbed
        PROVE  Whole'
    <3>1. /\ categories /\ cases = 1
          /\ \E r \in known[p] : rules[r].content.code = SeedCode
      BY <1>0, <1>5, <2>1 DEF Seeded, Progress
    <3>2. PICK r \in known[p] : rules[r].content.code = SeedCode
      BY <3>1
    <3>3. r \in RuleIds /\ rules[r] # None /\ Of(versions \cup wrote[p], r) # {}
      BY <1>0, CommitSound DEF Typed, Closes
    <3>4. rules'[r] # None /\ rules'[r].content.code = SeedCode /\ Of(versions', r) # {}
      BY <1>1, <3>2, <3>3, RulesStay
    <3>5. SeedStored'
      BY <3>3, <3>4 DEF SeedStored
    <3> QED
      BY <1>1, <3>1, <3>5 DEF Whole
  <2>2. \A q \in Servers : importing'[q] => importing[q]
    BY <1>1 DEF Becomes
  <2> QED
    BY <1>1, <1>2, <1>3, <2>1, <2>2 DEF Seeded
<1> QED
  BY <1>4, <1>5

\* The one process that imports steps on.
LEMMA ImporterSeeded ==
  ASSUME Seeded, NEW p \in Servers, importing'[p], Placed(p)', ~disturbed' => Progress(p)',
         ~disturbed' => ~disturbed /\ \A q \in Servers \ {p} : ~importing[q],
         UNCHANGED known,
         \A q \in Servers \ {p} : /\ pc'[q] = pc[q] /\ at'[q] = at[q]
                                  /\ importing'[q] = importing[q]
  PROVE  Seeded'
<1>1. \A q \in Servers : Placed(q)'
  BY DEF Seeded, Placed
<1>2. ASSUME ~disturbed', NEW q \in Servers \ {p}
      PROVE  ~importing'[q] /\ Progress(q)'
  <2>1. ~importing'[q]
    BY <1>2
  <2> QED
    BY <1>1, <2>1 DEF Placed, Progress
<1> QED
  BY <1>1, <1>2 DEF Seeded

\* An import goes on with the next item.
LEMMA AdvanceSeeded ==
  ASSUME Prepared, Seeded, Next, NEW p \in Servers, Advance(p),
         pc[p] \in {"lookup", "create"}, disturbed' \in BOOLEAN, disturbed => disturbed',
         ~disturbed' =>
           /\ at[p] \in 1..3 /\ cases' \in 0..1
           /\ cases' = 1 => categories' /\ Stored(SeedCode)'
           /\ categories'
           /\ at[p] >= 2 => Stored(SeedCode)'
           /\ at[p] = 3 => cases' = 1
  PROVE  Seeded'
<1>0. Typed
  BY DEF Prepared, Recorded
<1>1. UNCHANGED <<importing, known>>
  BY Zenon DEF Advance
<1>2. /\ at'[p] = at[p] + 1 /\ pc'[p] = "lookup"
      /\ \A q \in Servers \ {p} : pc'[q] = pc[q] /\ at'[q] = at[q]
  BY <1>0 DEF Advance, Goto, Typed
<1>3. importing[p] /\ importing'[p]
  BY <1>1 DEF Seeded, Placed
<1>4. Placed(p)'
  BY <1>2, <1>3 DEF Placed
<1>5. ASSUME ~disturbed'
      PROVE  Progress(p)'
  BY <1>0, <1>2, <1>5 DEF Progress, Open
<1>6. ASSUME ~disturbed'
      PROVE  ~disturbed /\ \A q \in Servers \ {p} : ~importing[q]
  BY <1>0, <1>3, <1>6 DEF Seeded, Typed
<1> QED
  BY <1>1, <1>2, <1>3, <1>4, <1>5, <1>6, ImporterSeeded

LEMMA CountSeeded ==
  ASSUME Prepared, Seeded, Next, NEW p \in Servers, Count(p) \/ CountFails(p)
  PROVE  Seeded'
<1>0. Typed /\ pc[p] = "count"
  BY DEF Prepared, Recorded, Count, CountFails
<1>1. at[p] = 1 /\ ~importing[p]
  BY <1>0 DEF Seeded, Placed
<1>2. CASE Import(p)
  <2>1. /\ importing'[p] /\ pc'[p] = "lookup"
        /\ \A q \in Servers \ {p} : pc'[q] = pc[q] /\ importing'[q] = importing[q]
        /\ disturbed' = (disturbed \/ \E q \in Servers \ {p} : Importing(q))
    BY <1>0, <1>2 DEF Import, Goto, Typed
  <2>2. UNCHANGED <<categories, cases, at, known, rules>>
    BY <1>2, Zenon DEF Import, tables
  <2>3. Placed(p)'
    BY <2>1 DEF Placed
  <2>4. ASSUME ~disturbed'
        PROVE  ~disturbed /\ \A q \in Servers \ {p} : ~importing[q]
    BY <1>0, <2>1, <2>4 DEF Seeded, Placed, Importing, Typed
  <2>5. ASSUME ~disturbed'
        PROVE  Progress(p)'
    <3>1. Whole
      BY <1>1, <2>4, <2>5 DEF Seeded
    <3>2. SeedStored => Stored(SeedCode)
      BY DEF SeedStored, Stored
    <3>3. Stored(SeedCode)' <=> Stored(SeedCode)
      BY <2>2 DEF Stored
    <3>4. /\ categories \in BOOLEAN /\ (cases = 1 \/ cases = 0)
          /\ cases = 1 => categories /\ Stored(SeedCode)
      BY <1>0, <3>1, <3>2 DEF Whole, Typed
    <3>5. at'[p] = 1 /\ ~Open(p)'
      BY <1>1, <2>1, <2>2 DEF Open
    <3> QED
      BY <2>1, <2>2, <3>3, <3>4, <3>5 DEF Progress
  <2> QED
    BY <2>1, <2>2, <2>3, <2>4, <2>5, ImporterSeeded
<1>3. CASE Goto(p, "serving") /\ UNCHANGED <<tables, importing, at, history>>
  <2>1. /\ pc'[p] = "serving"
        /\ \A q \in Servers \ {p} : pc'[q] = pc[q]
    BY <1>0, <1>3 DEF Goto, Typed
  <2>2. UNCHANGED <<categories, cases, importing, at, known, disturbed>>
    BY <1>3, Zenon DEF tables, history
  <2>3. \A q \in Servers : Placed(q)'
    BY <1>1, <2>1, <2>2 DEF Seeded, Placed
  <2>4. ASSUME ~disturbed
        PROVE  \A q \in Servers : Progress(q)'
    <3>1. Progress(p)'
      BY <2>1 DEF Progress, Open
    <3>2. \A q \in Servers \ {p} : Progress(q)'
      BY <2>1, <2>2, <2>4, ProgressStays DEF Seeded
    <3> QED
      BY <3>1, <3>2
  <2>5. Whole => Whole'
    BY <2>2, RulesStay DEF Whole
  <2> QED
    BY <2>2, <2>3, <2>4, <2>5 DEF Seeded
<1>4. CASE /\ Goto(p, "serving")
           /\ UNCHANGED <<tables, importing, unlinked, loaded, at, insert, wrote,
                          failure, history>>
  BY <1>3, <1>4
<1> QED
  BY <1>2, <1>4, Zenon DEF Count, CountFails

LEMMA LookupSeeded ==
  ASSUME Prepared, Seeded, Next, NEW p \in Servers, Lookup(p)
  PROVE  Seeded'
<1>0. Typed /\ pc[p] = "lookup" /\ at[p] \in 1..3
  BY SeedsAre DEF Prepared, Recorded, Lookup
<1>1. CASE Present(Seeds[at[p]])
  <2>1. Advance(p) /\ UNCHANGED <<tables, disturbed>>
    BY <1>1, Zenon DEF Lookup
  <2>2. UNCHANGED <<rules, categories, cases, disturbed>>
    BY <2>1 DEF tables
  <2>3. Stored(SeedCode)' <=> Stored(SeedCode)
    BY <2>2 DEF Stored
  <2>4. ASSUME ~disturbed
        PROVE  /\ cases \in 0..1 /\ (cases = 1 => categories /\ Stored(SeedCode))
               /\ categories
               /\ at[p] >= 2 => Stored(SeedCode)
               /\ at[p] = 3 => cases = 1
    <3>1. Progress(p)
      BY <2>4 DEF Seeded
    <3>2. /\ at[p] = 1 => categories
          /\ at[p] = 2 => Stored(SeedCode)
          /\ at[p] = 3 => cases > 0
      BY <1>1, SeedsAre DEF Present
    <3> QED
      BY <1>0, <3>1, <3>2 DEF Progress
  <2> QED
    BY <1>0, <2>1, <2>2, <2>3, <2>4, AdvanceSeeded DEF Typed
<1>2. CASE ~Present(Seeds[at[p]])
  <2>1. Goto(p, "create") /\ UNCHANGED <<tables, importing, at, history>>
    BY <1>2, Zenon DEF Lookup
  <2>2. UNCHANGED <<rules, categories, cases, importing, at, known, disturbed>>
    BY <2>1 DEF tables, history
  <2>3. /\ pc'[p] = "create"
        /\ \A q \in Servers \ {p} : pc'[q] = pc[q]
    BY <1>0, <2>1 DEF Goto, Typed
  <2>4. importing[p] /\ importing'[p]
    BY <1>0, <2>2 DEF Seeded, Placed
  <2>5. Placed(p)'
    BY <2>3, <2>4 DEF Placed
  <2>6. ASSUME ~disturbed
        PROVE  Progress(p)'
    <3>1. Progress(p)
      BY <2>6 DEF Seeded
    <3>2. at[p] = 3 => ~(cases > 0)
      BY <1>2, SeedsAre DEF Present
    <3>3. Stored(SeedCode)' <=> Stored(SeedCode)
      BY <2>2 DEF Stored
    <3>4. ~Open(p)'
      BY <2>3 DEF Open
    <3> QED
      BY <1>0, <2>2, <2>3, <3>1, <3>2, <3>3, <3>4 DEF Progress
  <2>7. ~disturbed => \A q \in Servers \ {p} : ~importing[q]
    BY <2>4 DEF Seeded
  <2> QED
    BY <2>2, <2>3, <2>4, <2>5, <2>6, <2>7, ImporterSeeded
<1> QED
  BY <1>1, <1>2

LEMMA CreateSeeded ==
  ASSUME Prepared, Seeded, Next, NEW p \in Servers, Create(p)
  PROVE  Seeded'
<1>0. Typed /\ pc[p] = "create"
  BY DEF Prepared, Recorded, Create
<1> DEFINE seed == Seeds[at[p]]
<1>1. CASE End(p, "database")
  BY <1>0, <1>1, EndEnds, EndSeeded
<1>2. CASE /\ \/ seed = "category" /\ CreateCategory(p)
              \/ seed = "rule" /\ \E text \in Texts : CreateRule(p, text)
              \/ seed = "case" /\ CreateCase(p)
           /\ Advance(p)
           /\ UNCHANGED <<events, versions, disturbed>>
  <2>1. Advance(p) /\ UNCHANGED disturbed /\ disturbed \in BOOLEAN
    BY <1>0, <1>2 DEF Typed
  <2>2. ASSUME ~disturbed
        PROVE  /\ at[p] \in 1..3 /\ cases' \in 0..1
               /\ cases' = 1 => categories' /\ Stored(SeedCode)'
               /\ categories'
               /\ at[p] >= 2 => Stored(SeedCode)'
               /\ at[p] = 3 => cases' = 1
    <3>1. /\ at[p] \in 1..3 /\ cases \in 0..1
          /\ cases = 1 => categories /\ Stored(SeedCode)
          /\ at[p] >= 2 => categories
          /\ at[p] >= 3 => Stored(SeedCode)
          /\ at[p] = 3 => cases = 0
      BY <1>0, <2>2 DEF Seeded, Progress
    <3>2. CASE at[p] = 1
      <4>1. CreateCategory(p)
        BY <1>2, <3>2, SeedsAre
      <4>2. ~categories /\ categories' /\ UNCHANGED <<rules, cases>>
        BY <4>1 DEF CreateCategory
      <4> QED
        BY <3>1, <3>2, <4>2
    <3>3. CASE at[p] = 2
      <4>1. PICK text \in Texts : CreateRule(p, text)
        BY <1>2, <3>3, SeedsAre
      <4>2. ~Stored(SeedCode) /\ UNCHANGED <<categories, cases>>
        BY <4>1, Zenon DEF CreateRule
      <4>3. Stored(SeedCode)'
        <5> DEFINE rule == [content |-> [code |-> SeedCode, text |-> text],
                            version |-> 1, source |-> None]
        <5>1. rule \in Rule /\ rule.content.code = SeedCode
          BY SeedTyped
        <5>2. PICK r \in RuleIds : rules' = [rules EXCEPT ![r] = rule]
          BY <4>1 DEF CreateRule
        <5> HIDE DEF rule
        <5>3. rules'[r] # None /\ rules'[r].content.code = SeedCode
          BY <1>0, <5>1, <5>2, NoneAssumption DEF Typed
        <5> QED
          BY <5>3 DEF Stored
      <4> QED
        BY <3>1, <3>3, <4>2, <4>3
    <3>4. CASE at[p] = 3
      <4>1. CreateCase(p)
        BY <1>2, <3>4, SeedsAre
      <4>2. cases' = cases + 1 /\ UNCHANGED <<rules, categories>>
        BY <4>1 DEF CreateCase
      <4>3. Stored(SeedCode)' <=> Stored(SeedCode)
        BY <4>2 DEF Stored
      <4> QED
        BY <3>1, <3>4, <4>2, <4>3
    <3> QED
      BY <3>1, <3>2, <3>3, <3>4
  <2> QED
    BY <1>0, <2>1, <2>2, AdvanceSeeded
<1> QED
  BY <1>1, <1>2, Zenon DEF Create

LEMMA ImportSeeded ==
  ASSUME Prepared, Seeded, Next, NEW p \in Servers, Imports(p)
  PROVE  Seeded'
<1>1. CASE CasePassedOver(p)
  <2>1. Advance(p) /\ disturbed' = TRUE /\ pc[p] = "lookup"
    BY <1>1 DEF CasePassedOver
  <2> QED
    BY <2>1, AdvanceSeeded
<1> QED
  BY <1>1, CountSeeded, LookupSeeded, CreateSeeded DEF Imports

LEMMA SeededStep ==
  ASSUME Prepared, Seeded, Next
  PROVE  Seeded'
<1>0. Recorded /\ Typed /\ Kinds
  BY StepKinds DEF Prepared, Recorded
<1>1. ASSUME NEW p \in Servers, Moves(p)
      PROVE  Seeded'
  <2>1. CASE Idles(p) \/ \E r \in RuleIds : CreatesRule(p, r)
    <3>1. Imports(p)
      BY <2>1, Zenon DEF Idles, CreatesRule
    <3> QED
      BY <3>1, ImportSeeded
  <2>2. CASE Prepares(p) \/ Ends(p) \/ Commits(p)
    BY <2>2, PrepareSeeded, EndSeeded, CommitSeeded
  <2>3. CASE \/ Loads(p) \/ Inserts(p)
             \/ \E r \in RuleIds : Records(p, r) \/ Passes(p, r)
             \/ \E e \in EventIds : TakesUp(p, e)
    <3>1. UNCHANGED <<seeds, known>> /\ Open(p) /\ Open(p)'
      <4>1. UNCHANGED <<seeds, notes>>
        BY <2>3, Zenon DEF Loads, Inserts, Records, Passes, TakesUp
      <4>2. pc[p] \in {"backfill", "insert", "baseline"}
        BY <2>3 DEF Loads, Inserts, Records, Passes, TakesUp
      <4>3. pc'[p] \in {"backfill", "insert", "baseline"}
        BY <2>3 DEF Loads, Inserts, Records, Passes, TakesUp, Becomes
      <4> QED
        BY <4>1, <4>2, <4>3 DEF Open, notes
    <3>2. \A q \in Servers \ {p} : pc'[q] = pc[q] /\ at'[q] = at[q]
      BY <1>0, <1>1, OthersKeep
    <3> QED
      BY <3>1, <3>2, SeedsApart
  <2>4. ASSUME NEW draft \in Content, Publish(p, draft)
        PROVE  Seeded'
    <3>1. UNCHANGED <<categories, cases, process, history>>
      BY <2>4, Zenon DEF Publish
    <3>2. UNCHANGED <<seeds, known, pc, at>>
      BY <3>1 DEF process, history, seeds
    <3> QED
      BY <3>2, SeedsApart
  <2> QED
    BY <1>1, <2>1, <2>2, <2>3, <2>4, Zenon DEF Moves
<1>2. ASSUME NEW r \in RuleIds, NEW text \in Texts, Edit(r, text)
      PROVE  Seeded'
  <2>1. UNCHANGED <<categories, cases, process, known, disturbed>>
    BY <1>2, Zenon DEF Edit
  <2>2. UNCHANGED <<seeds, known, pc, at>>
    BY <2>1 DEF process, seeds
  <2> QED
    BY <2>2, SeedsApart
<1> QED
  BY <1>0, <1>1, <1>2 DEF Kinds

LEMMA SeededInit == Init => Seeded
<1> SUFFICES ASSUME Init
             PROVE  Seeded
  OBVIOUS
<1>1. \A p \in Servers : pc[p] = "down" /\ ~importing[p] /\ at[p] = 1
  BY DEF Init
<1>2. ~disturbed => ~categories /\ cases = 0
  BY DEF Init, Fresh, Legacy
<1>3. \A p \in Servers : Placed(p) /\ Progress(p)
  BY <1>1 DEF Placed, Progress, Open
<1> QED
  BY <1>1, <1>2, <1>3 DEF Seeded, Whole

LEMMA SeededStays == Prepared /\ Seeded /\ [Next]_vars => Seeded'
<1>1. ASSUME Seeded, UNCHANGED vars
      PROVE  Seeded'
  <2>1. UNCHANGED <<rules, versions, categories, cases, pc, importing, at, known, disturbed>>
    BY <1>1 DEF vars, tables, process, history
  <2>2. \A p : (Placed(p)' <=> Placed(p)) /\ (Progress(p)' <=> Progress(p))
    BY <2>1 DEF Placed, Progress, Stored, Open
  <2>3. Whole' <=> Whole
    BY <2>1 DEF Whole, SeedStored
  <2> QED
    BY <1>1, <2>1, <2>2, <2>3 DEF Seeded
<1> QED
  BY <1>1, SeededStep

\* An import nobody disturbed leaves the seed data complete, stored once and
\* with its history, wherever other processes are.
THEOREM SeedWhole == Spec => []SeedIntact
<1>1. Prepared /\ Seeded => SeedIntact
  <2> SUFFICES ASSUME Seeded, ~disturbed, categories,
                      \A p \in Servers : ~Importing(p)
               PROVE  /\ cases = 1
                      /\ \E r \in RuleIds : /\ rules[r] # None
                                            /\ rules[r].content.code = SeedCode
                                            /\ Of(versions, r) # {}
    BY DEF SeedIntact
  <2>1. \A p \in Servers : ~importing[p]
    BY DEF Seeded, Placed, Importing
  <2> QED
    BY <2>1 DEF Seeded, Whole, SeedStored
<1> QED
  BY <1>1, PreparationsHold, SeededInit, SeededStays, PTL DEF Spec

=============================================================================
