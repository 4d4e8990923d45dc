--------------------------- MODULE BrowserSession ---------------------------
(***************************************************************************)
(* Browser sessions of backend/internal/browserauth: an access grant is    *)
(* exchanged for an opaque session kept in Redis, which every instance of  *)
(* the server validates against its own grant registry.  A request reads   *)
(* the session once and then works with the principal it has resolved,     *)
(* whatever happens to the session meanwhile.  An instance is redeployed   *)
(* with a new registry at any time, which ends its requests; an operator   *)
(* never takes a principal's generation back.  A Redis call may fail, or   *)
(* be executed and its answer not be heard.                                *)
(***************************************************************************)
EXTENDS Naturals

CONSTANTS
  Instances,      \* server processes that share Redis
  Principals,     \* principals of the grant registry
  Tokens,         \* session tokens, each drawn once
  Requests,       \* requests with a session cookie at the same time
  MaxGeneration,  \* bound on principal_generation
  SessionTTL,     \* ticks from the exchange to ExpiresUnix
  None            \* no session, no request

ASSUME SessionAssumption ==
  /\ MaxGeneration \in Nat \ {0}
  /\ SessionTTL \in Nat \ {0}

Entry   == [generation : 1..MaxGeneration, enabled : BOOLEAN]
Session == [principal : Principals, generation : 1..MaxGeneration,
            left : 0..SessionTTL]

\* A request: a page that reads, an assisted analysis or a logout, with the
\* session whose CSRF token it presents.
Request == [at : Instances, kind : {"read", "assisted", "logout"},
            token : Tokens, csrf : Tokens \cup {None}]

ASSUME NoneAssumption == None \notin Session /\ None \notin Request

VARIABLES
  registry,   \* the grant registry each instance has loaded
  sessions,   \* sessions in Redis
  issued,     \* tokens drawn so far
  loggedOut,  \* tokens whose logout has been confirmed
  request,    \* the request of each handler
  pc,         \* where the handler is
  doomed      \* the session was over before the request began

vars == <<registry, sessions, issued, loggedOut, request, pc, doomed>>

TypeOK ==
  /\ registry \in [Instances -> [Principals -> Entry]]
  /\ sessions \in [Tokens -> Session \cup {None}]
  /\ issued \in [Tokens -> Session \cup {None}]
  /\ loggedOut \subseteq Tokens
  /\ request \in [Requests -> Request \cup {None}]
  /\ pc \in [Requests -> {"idle", "validate", "csrf", "delete", "act"}]
  /\ doomed \in [Requests -> BOOLEAN]

(***************************************************************************)
(* Validate.                                                               *)
(***************************************************************************)
\* The registry of an instance resolves the principal of a session record.
Resolves(entries, s) ==
  /\ entries[s.principal].enabled
  /\ entries[s.principal].generation = s.generation

\* Mutant: the registry is asked for the principal only.
ValidAnyGeneration(i, t) ==
  /\ sessions[t] # None
  /\ sessions[t].left > 0
  /\ registry[i][sessions[t].principal].enabled

\* Redis may keep a record longer than its ExpiresUnix.
Valid(i, t) ==
  /\ sessions[t] # None
  /\ sessions[t].left > 0
  /\ Resolves(registry[i], sessions[t])

\* The session of t has ended for every instance: its logout was confirmed,
\* its time is over, or no registry has its principal at its generation: the
\* principal is disabled or its generation has advanced everywhere.
Over(t) ==
  \/ t \in loggedOut
  \/ issued[t] # None /\ issued[t].left = 0
  \/ issued[t] # None /\ \A i \in Instances : ~Resolves(registry[i], issued[t])

(***************************************************************************)
(* Exchange of a grant for a session.  When the answer is not heard, the   *)
(* session stays in Redis and nobody holds its token.                      *)
(***************************************************************************)
\* Mutant: a principal has one session.
CreateAlone(t, p, g) ==
  LET s == [principal |-> p, generation |-> g, left |-> SessionTTL]
  IN  /\ sessions' = [u \in Tokens |->
           IF u = t THEN s
           ELSE IF sessions[u] # None /\ sessions[u].principal = p THEN None
           ELSE sessions[u]]
      /\ issued' = [issued EXCEPT ![t] = s]

Create(t, p, g) ==
  LET s == [principal |-> p, generation |-> g, left |-> SessionTTL]
  IN  /\ sessions' = [sessions EXCEPT ![t] = s]
      /\ issued' = [issued EXCEPT ![t] = s]

Exchange(i, p, t) ==
  /\ issued[t] = None
  /\ registry[i][p].enabled
  /\ Create(t, p, registry[i][p].generation)
  /\ UNCHANGED <<registry, loggedOut, request, pc, doomed>>

(***************************************************************************)
(* A request with a session cookie.                                        *)
(***************************************************************************)
Goto(r, label) ==
  /\ pc' = [pc EXCEPT ![r] = label]
  /\ IF label = "idle"
     THEN /\ request' = [request EXCEPT ![r] = None]
          /\ doomed' = [doomed EXCEPT ![r] = FALSE]
     ELSE UNCHANGED <<request, doomed>>
  /\ UNCHANGED <<registry, issued>>

Begin(r, q) ==
  /\ pc[r] = "idle"
  /\ issued[q.token] # None
  /\ request' = [request EXCEPT ![r] = q]
  /\ doomed' = [doomed EXCEPT ![r] = Over(q.token)]
  /\ pc' = [pc EXCEPT ![r] = "validate"]
  /\ UNCHANGED <<registry, sessions, issued, loggedOut>>

Validate(r) ==
  /\ pc[r] = "validate"
  /\ Valid(request[r].at, request[r].token)
  /\ Goto(r, IF request[r].kind = "read" THEN "act" ELSE "csrf")
  /\ UNCHANGED <<sessions, loggedOut>>

\* 401, and 503 when Redis does not answer in time.
Reject(r) ==
  /\ pc[r] \in {"validate", "delete"}
  /\ Goto(r, "idle")
  /\ UNCHANGED <<sessions, loggedOut>>

\* The CSRF token is derived from the session token.
ValidCSRF(q) == q.csrf = q.token

CheckCSRF(r) ==
  /\ pc[r] = "csrf"
  /\ Goto(r, IF ~ValidCSRF(request[r]) THEN "idle"
             ELSE IF request[r].kind = "logout" THEN "delete" ELSE "act")
  /\ UNCHANGED <<sessions, loggedOut>>

Delete(r) ==
  /\ pc[r] = "delete"
  /\ sessions' = [sessions EXCEPT ![request[r].token] = None]
  /\ loggedOut' = loggedOut \cup {request[r].token}
  /\ Goto(r, "idle")

\* Redis has deleted the session and the handler answers 503.
DeleteUnheard(r) ==
  /\ pc[r] = "delete"
  /\ sessions' = [sessions EXCEPT ![request[r].token] = None]
  /\ Goto(r, "idle")
  /\ UNCHANGED loggedOut

\* What follows the middleware: the analysis, or the answer of a read.
Act(r) ==
  /\ pc[r] = "act"
  /\ Goto(r, "idle")
  /\ UNCHANGED <<sessions, loggedOut>>

(***************************************************************************)
(* Time, and operators.                                                    *)
(***************************************************************************)
Aged(s) ==
  IF s = None \/ s.left = 0 THEN s ELSE [s EXCEPT !.left = @ - 1]

Tick ==
  /\ sessions' = [t \in Tokens |-> IF sessions[t] = None THEN None
                                   ELSE Aged(sessions[t])]
  /\ issued' = [t \in Tokens |-> IF issued[t] = None THEN None
                                 ELSE Aged(issued[t])]
  /\ UNCHANGED <<registry, loggedOut, request, pc, doomed>>

\* Redis drops a record once its time is over.
Expire(t) ==
  /\ sessions[t] # None
  /\ sessions[t].left = 0
  /\ sessions' = [sessions EXCEPT ![t] = None]
  /\ UNCHANGED <<registry, issued, loggedOut, request, pc, doomed>>

\* The process is replaced by one that has loaded new entries.
Deploy(i, entries) ==
  /\ \A p \in Principals : \A j \in Instances :
       entries[p].generation >= registry[j][p].generation
  /\ registry' = [registry EXCEPT ![i] = entries]
  /\ LET ended == {r \in Requests : request[r] # None /\ request[r].at = i}
     IN  /\ pc' = [r \in Requests |-> IF r \in ended THEN "idle" ELSE pc[r]]
         /\ request' = [r \in Requests |-> IF r \in ended THEN None ELSE request[r]]
         /\ doomed' = [r \in Requests |-> r \notin ended /\ doomed[r]]
  /\ UNCHANGED <<sessions, issued, loggedOut>>

Init ==
  /\ \E entries \in [Principals -> {e \in Entry : e.generation = 1}] :
       registry = [i \in Instances |-> entries]
  /\ sessions = [t \in Tokens |-> None]
  /\ issued = [t \in Tokens |-> None]
  /\ loggedOut = {}
  /\ request = [r \in Requests |-> None]
  /\ pc = [r \in Requests |-> "idle"]
  /\ doomed = [r \in Requests |-> FALSE]

Next ==
  \/ \E i \in Instances, p \in Principals, t \in Tokens : Exchange(i, p, t)
  \/ \E r \in Requests :
       \/ \E q \in Request : Begin(r, q)
       \/ Validate(r) \/ Reject(r) \/ CheckCSRF(r) \/ Delete(r)
       \/ DeleteUnheard(r) \/ Act(r)
  \/ Tick
  \/ \E t \in Tokens : Expire(t)
  \/ \E i \in Instances : \E entries \in [Principals -> Entry] : Deploy(i, entries)

Spec == Init /\ [][Next]_vars

-----------------------------------------------------------------------------
\* A request that begins after the logout of its session was confirmed, after
\* the session's time was over, or after its principal was disabled or given
\* another generation on every instance is not let through, whichever instance
\* it reaches.
NoLateAcceptance ==
  \A r \in Requests : doomed[r] => pc[r] \in {"idle", "validate"}

\* A session an instance accepts stays accepted there until its own logout,
\* its expiry or a redeployment that changes its principal: no other session,
\* restart or request ends it.
SessionsEndForAReason ==
  [][\A t \in Tokens, i \in Instances :
       Valid(i, t) /\ ~Valid(i, t)' =>
         \/ \E r \in Requests : pc[r] = "delete" /\ request[r].token = t
         \/ issued'[t].left = 0
         \/ registry'[i][issued[t].principal] # registry[i][issued[t].principal]
    ]_vars

=============================================================================
