------------------------ MODULE BrowserSessionProofs ------------------------
(***************************************************************************)
(* BrowserSession for any number of instances, principals, tokens and      *)
(* requests: a session that is over is not accepted any more, and one that *)
(* is accepted ends for a reason.                                          *)
(***************************************************************************)
EXTENDS BrowserSession, TLAPS

\* What the steps need of types: of a request, where it has arrived and which
\* session it presents.
Shaped ==
  /\ registry \in [Instances -> [Principals -> Entry]]
  /\ sessions \in [Tokens -> Session \cup {None}]
  /\ issued \in [Tokens -> Session \cup {None}]
  /\ pc \in [Requests -> {"idle", "validate", "csrf", "delete", "act"}]
  /\ DOMAIN request = Requests /\ DOMAIN doomed = Requests
  /\ \A r \in Requests : pc[r] # "idle" => request[r] \in Request

\* Redis holds a session as it was issued, or not at all; what was logged out
\* was issued and is gone.
Stored ==
  /\ \A t \in Tokens : sessions[t] # None => sessions[t] = issued[t]
  /\ \A t \in loggedOut : t \in Tokens => sessions[t] = None /\ issued[t] # None

\* The session of t is over for instance i.
OverAt(i, t) ==
  \/ t \in loggedOut
  \/ issued[t].left = 0
  \/ ~Resolves(registry[i], issued[t])

\* A request that has begun has a session that was issued; when that was over,
\* it is over for its instance, and the request has not been validated.
Doomed ==
  \A r \in Requests : pc[r] # "idle" =>
    /\ issued[request[r].token] # None
    /\ doomed[r] => pc[r] = "validate" /\ OverAt(request[r].at, request[r].token)

Inv == Shaped /\ Stored /\ Doomed

\* A session that is over is not valid.
LEMMA OverInvalid ==
  ASSUME Stored, NEW i \in Instances, NEW t \in Tokens, OverAt(i, t)
  PROVE  ~Valid(i, t)
<1> SUFFICES ASSUME Valid(i, t) PROVE FALSE
  OBVIOUS
<1>1. sessions[t] # None /\ sessions[t] = issued[t]
  BY DEF Valid, Stored
<1>2. t \notin loggedOut
  BY <1>1 DEF Stored
<1> QED
  BY <1>1, <1>2 DEF Valid, OverAt

LEMMA AgedSession ==
  ASSUME NEW s \in Session
  PROVE  /\ Aged(s) \in Session
         /\ Aged(s).principal = s.principal /\ Aged(s).generation = s.generation
         /\ s.left = 0 => Aged(s).left = 0
BY SessionAssumption, NoneAssumption DEF Aged, Session

LEMMA InitInv == Init => Inv
BY SessionAssumption DEF Init, Inv, Shaped, Stored, Doomed, Entry

\* Steps of a request that is under way, which end it or move it on.
LEMMA GotoStep ==
  ASSUME Inv, NEW r \in Requests, NEW label \in {"idle", "csrf", "delete", "act"},
         Goto(r, label), pc[r] # "idle", ~doomed[r] \/ label = "idle",
         \/ UNCHANGED <<sessions, loggedOut>>
         \/ /\ sessions' = [sessions EXCEPT ![request[r].token] = None]
            /\ loggedOut' \in {loggedOut, loggedOut \cup {request[r].token}}
  PROVE  Inv'
<1> USE DEF Inv
<1>1. request[r].token \in Tokens
  BY DEF Shaped, Request
<1>2. Shaped'
  BY <1>1 DEF Shaped, Goto
<1>3. Stored'
  BY <1>1 DEF Stored, Goto, Doomed, Shaped
<1>4. loggedOut \subseteq loggedOut'
  OBVIOUS
<1>5. Doomed'
  BY <1>4 DEF Doomed, Goto, OverAt, Shaped
<1> QED
  BY <1>2, <1>3, <1>5

LEMMA StepInv ==
  ASSUME Inv, [Next]_vars
  PROVE  Inv'
<1> USE DEF Inv
<1>1. ASSUME NEW i \in Instances, NEW p \in Principals, NEW t \in Tokens, Exchange(i, p, t)
      PROVE  Inv'
  <2> DEFINE s == [principal |-> p, generation |-> registry[i][p].generation,
                   left |-> SessionTTL]
  <2>1. s \in Session
    BY SessionAssumption DEF Shaped, Session, Entry
  <2>2. /\ sessions' = [sessions EXCEPT ![t] = s] /\ issued' = [issued EXCEPT ![t] = s]
        /\ UNCHANGED <<registry, loggedOut, request, pc, doomed>> /\ issued[t] = None
    BY <1>1 DEF Exchange, Create
  <2> HIDE DEF s
  <2>3. Shaped'
    BY <2>1, <2>2 DEF Shaped
  <2>4. Stored'
    BY <2>1, <2>2, NoneAssumption DEF Stored, Shaped
  <2>5. Doomed'
    <3> SUFFICES ASSUME NEW r \in Requests, pc[r] # "idle"
                 PROVE  /\ issued'[request[r].token] # None
                        /\ doomed[r] => /\ pc[r] = "validate"
                                        /\ OverAt(request[r].at, request[r].token)'
      BY <2>2 DEF Doomed
    <3>1. request[r].token \in Tokens /\ request[r].token # t
      BY <2>2 DEF Shaped, Request, Doomed
    <3>2. issued'[request[r].token] = issued[request[r].token]
      BY <2>2, <3>1 DEF Shaped
    <3> QED
      BY <2>2, <3>2 DEF Doomed, OverAt
  <2> QED
    BY <2>3, <2>4, <2>5
<1>2. ASSUME NEW r \in Requests, NEW q \in Request, Begin(r, q)
      PROVE  Inv'
  <2>1. /\ pc' = [pc EXCEPT ![r] = "validate"] /\ request' = [request EXCEPT ![r] = q]
        /\ doomed' = [doomed EXCEPT ![r] = Over(q.token)]
        /\ UNCHANGED <<registry, sessions, issued, loggedOut>>
        /\ issued[q.token] # None
    BY <1>2 DEF Begin
  <2>2. Shaped'
    BY <2>1 DEF Shaped
  <2>3. Stored'
    BY <2>1 DEF Stored
  <2>4. Over(q.token) => OverAt(q.at, q.token)
    BY DEF Over, OverAt, Request
  <2>5. doomed'[r] => OverAt(q.at, q.token)
    BY <2>1, <2>4 DEF Shaped
  <2>6. Doomed'
    BY <2>1, <2>5 DEF Doomed, OverAt, Shaped
  <2> QED
    BY <2>2, <2>3, <2>6
<1>3. ASSUME NEW r \in Requests, Validate(r)
      PROVE  Inv'
  <2>1. request[r].at \in Instances /\ request[r].token \in Tokens
    BY <1>3 DEF Validate, Shaped, Request
  <2>2. ~doomed[r]
    BY <1>3, <2>1, OverInvalid DEF Validate, Doomed
  <2> QED
    BY <1>3, <2>2, GotoStep DEF Validate
<1>4. ASSUME NEW r \in Requests, CheckCSRF(r)
      PROVE  Inv'
  BY <1>4, GotoStep DEF CheckCSRF, Doomed
<1>5. ASSUME NEW r \in Requests, Reject(r) \/ Delete(r) \/ DeleteUnheard(r) \/ Act(r)
      PROVE  Inv'
  BY <1>5, GotoStep DEF Reject, Delete, DeleteUnheard, Act
<1>6. CASE Tick
  <2>1. \A t \in Tokens : issued[t] # None => issued[t] \in Session
    BY DEF Shaped
  <2>2. /\ sessions' = [t \in Tokens |-> IF sessions[t] = None THEN None ELSE Aged(sessions[t])]
        /\ issued' = [t \in Tokens |-> IF issued[t] = None THEN None ELSE Aged(issued[t])]
        /\ UNCHANGED <<registry, loggedOut, request, pc, doomed>>
    BY <1>6 DEF Tick
  <2>3. Shaped'
    BY <2>2, AgedSession DEF Shaped
  <2>4. Stored'
    BY <2>1, <2>2, AgedSession, NoneAssumption DEF Stored, Shaped
  <2>5. Doomed'
    <3> SUFFICES ASSUME NEW r \in Requests, pc[r] # "idle"
                 PROVE  /\ issued'[request[r].token] # None
                        /\ doomed[r] => /\ pc[r] = "validate"
                                        /\ OverAt(request[r].at, request[r].token)'
      BY <2>2 DEF Doomed
    <3> DEFINE t == request[r].token
    <3>1. t \in Tokens /\ issued[t] \in Session
      BY <2>1 DEF Shaped, Request, Doomed
    <3>2. issued'[t] = Aged(issued[t])
      BY <2>2, <3>1, NoneAssumption
    <3>3. issued'[t] \in Session
      BY <3>1, <3>2, AgedSession
    <3>4. issued'[t] # None
      BY <3>3, NoneAssumption
    <3>5. /\ issued'[t].principal = issued[t].principal
          /\ issued'[t].generation = issued[t].generation
          /\ issued[t].left = 0 => issued'[t].left = 0
      BY <3>1, <3>2, AgedSession
    <3>6. doomed[r] => pc[r] = "validate" /\ OverAt(request[r].at, t)
      BY DEF Doomed
    <3>7. registry' = registry /\ loggedOut' = loggedOut /\ pc' = pc /\ request' = request
      BY <2>2
    <3>8. OverAt(request[r].at, t) => OverAt(request[r].at, request[r].token)'
      BY <3>5, <3>7 DEF OverAt, Resolves
    <3> QED
      BY <3>4, <3>6, <3>7, <3>8
  <2> QED
    BY <2>3, <2>4, <2>5
<1>7. ASSUME NEW t \in Tokens, Expire(t)
      PROVE  Inv'
  <2>1. Shaped'
    BY <1>7 DEF Expire, Shaped
  <2>2. Stored'
    BY <1>7 DEF Expire, Stored, Shaped
  <2>3. Doomed'
    BY <1>7 DEF Expire, Doomed, OverAt
  <2> QED
    BY <2>1, <2>2, <2>3
<1>8. ASSUME NEW i \in Instances, NEW entries \in [Principals -> Entry], Deploy(i, entries)
      PROVE  Inv'
  <2>1. /\ registry' = [registry EXCEPT ![i] = entries]
        /\ UNCHANGED <<sessions, issued, loggedOut>>
    BY <1>8 DEF Deploy
  <2>2. ASSUME NEW r \in Requests, pc'[r] # "idle"
        PROVE  /\ pc'[r] = pc[r] /\ request'[r] = request[r] /\ request[r].at # i
               /\ doomed'[r] => doomed[r]
    <3> DEFINE ended == {q \in Requests : request[q] # None /\ request[q].at = i}
    <3>1. /\ pc' = [q \in Requests |-> IF q \in ended THEN "idle" ELSE pc[q]]
          /\ request' = [q \in Requests |-> IF q \in ended THEN None ELSE request[q]]
          /\ doomed' = [q \in Requests |-> q \notin ended /\ doomed[q]]
      BY <1>8 DEF Deploy
    <3> HIDE DEF ended
    <3>2. r \notin ended /\ pc'[r] = pc[r] /\ request'[r] = request[r]
      BY <2>2, <3>1
    <3>3. doomed'[r] => doomed[r]
      BY <3>1
    <3>4. request[r] # None
      BY <2>2, <3>2, NoneAssumption DEF Shaped
    <3> QED
      BY <3>2, <3>3, <3>4 DEF ended
  <2>3. Shaped'
    BY <1>8, <2>1, <2>2 DEF Shaped, Deploy
  <2>4. Stored'
    BY <2>1 DEF Stored
  <2>5. Doomed'
    BY <2>1, <2>2 DEF Doomed, OverAt, Shaped
  <2> QED
    BY <2>3, <2>4, <2>5
<1>9. CASE UNCHANGED vars
  BY <1>9 DEF vars, Shaped, Stored, Doomed, OverAt
<1> QED
  BY <1>1, <1>2, <1>3, <1>4, <1>5, <1>6, <1>7, <1>8, <1>9 DEF Next

LEMMA Invariant == Spec => []Inv
<1>1. Inv /\ [Next]_vars => Inv'
  BY StepInv
<1> QED
  BY <1>1, InitInv, PTL DEF Spec

\* No instance lets a request through that began after its session was over
\* (SessionStore.Validate against the registry of the instance).
THEOREM EndedStaysEnded == Spec => []NoLateAcceptance
<1>1. Inv => NoLateAcceptance
  BY DEF Inv, Shaped, Doomed, NoLateAcceptance
<1> QED
  BY <1>1, Invariant, PTL
\* A session an instance accepts stays accepted there until its own logout,
\* its expiry or a redeployment that changes its principal (the Redis record
\* is the only state a request can end).
THEOREM EndsForAReason == Spec => SessionsEndForAReason
<1> DEFINE Reason(t, i) ==
      \/ \E r \in Requests : pc[r] = "delete" /\ request[r].token = t
      \/ issued'[t].left = 0
      \/ registry'[i][issued[t].principal] # registry[i][issued[t].principal]
<1>1. ASSUME Inv, [Next]_vars, NEW t \in Tokens, NEW i \in Instances,
             Valid(i, t), ~Valid(i, t)'
      PROVE  Reason(t, i)
  <2> USE <1>1 DEF Inv
  <2>1. /\ sessions[t] # None /\ sessions[t] = issued[t] /\ issued[t] \in Session
        /\ issued[t].left > 0 /\ Resolves(registry[i], issued[t])
    BY DEF Valid, Stored, Shaped
  <2>2. ASSUME sessions'[t] = sessions[t]
        PROVE  Reason(t, i)
    BY <2>1, <2>2 DEF Valid, Resolves
  <2>3. ASSUME NEW j \in Instances, NEW p \in Principals, NEW u \in Tokens, Exchange(j, p, u)
        PROVE  Reason(t, i)
    BY <2>1, <2>2, <2>3, NoneAssumption DEF Exchange, Create, Shaped
  <2>4. ASSUME NEW r \in Requests, Delete(r) \/ DeleteUnheard(r)
        PROVE  Reason(t, i)
    BY <2>2, <2>4 DEF Delete, DeleteUnheard, Shaped
  <2>5. CASE Tick
    <3>1. sessions'[t] = Aged(issued[t]) /\ issued'[t] = Aged(issued[t])
      BY <2>1, <2>5 DEF Tick
    <3>2. /\ Aged(issued[t]) \in Session
          /\ Aged(issued[t]).principal = issued[t].principal
          /\ Aged(issued[t]).generation = issued[t].generation
      BY <2>1, AgedSession
    <3>3. UNCHANGED registry
      BY <2>5 DEF Tick
    <3>4. Resolves(registry[i], Aged(issued[t]))
      BY <2>1, <3>2 DEF Resolves
    <3>5. ~(Aged(issued[t]).left > 0)
      BY <3>1, <3>2, <3>3, <3>4, NoneAssumption DEF Valid
    <3> QED
      BY <3>1, <3>2, <3>5, SessionAssumption DEF Session
  <2>6. ASSUME NEW u \in Tokens, Expire(u)
        PROVE  Reason(t, i)
    BY <2>1, <2>2, <2>6, SessionAssumption DEF Expire, Shaped
  <2> QED
    BY <2>2, <2>3, <2>4, <2>5, <2>6
       DEF Next, vars, Begin, Validate, Reject, CheckCSRF, Act, Deploy
<1>2. ASSUME Inv, [Next]_vars
      PROVE  [\A t \in Tokens, i \in Instances :
                Valid(i, t) /\ ~Valid(i, t)' => Reason(t, i)]_vars
  BY <1>1, <1>2
<1> QED
  BY <1>2, Invariant, PTL DEF Spec, SessionsEndForAReason
=============================================================================
