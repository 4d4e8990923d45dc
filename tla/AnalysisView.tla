---------------------------- MODULE AnalysisView ----------------------------
(***************************************************************************)
(* The analysis page (AnalysisView.vue with browserAssistedApi.ts) in one  *)
(* browser.  Its functions run to their next await; the answers to their   *)
(* calls arrive in any order, and until then the user goes on with every   *)
(* control that is shown.  A button is disabled while its own call is      *)
(* under way, but the grant can be sent again with the enter key.  The     *)
(* server judges a call by the cookie and the CSRF token it was sent with, *)
(* at any moment before the answer arrives; an answer may be lost, or come *)
(* after the timeout of the client.  The user may leave the page while     *)
(* calls are under way and come back to a new one: the answers to stray    *)
(* calls find nobody, but their cookies find the browser.                  *)
(*                                                                         *)
(* A CSRF token stands for the session token it is derived from.  Results  *)
(* and supplements are the texts they are about.  Messages are left out.   *)
(***************************************************************************)
EXTENDS Naturals

CONSTANTS
  Texts,     \* what the text box may hold
  Profiles,  \* profiles the server may offer as available
  Tokens,    \* session tokens
  Slots,     \* calls under way at the same time (a bound)
  None       \* no text, profile, token or call

VARIABLES
  text,        \* the text box
  result,      \* the text the rule result shown is about
  supplement,  \* the text the supplemental result shown is about
  bridge,      \* bridgeAvailable
  session,     \* the session whose CSRF token and metadata the page holds
  active,      \* activeProfile
  optIn,       \* assistedOptIn
  call,        \* the calls under way
  cookie,      \* the session cookie of the browser
  live,        \* the sessions the server accepts
  offered,     \* the profiles the server offers
  consented,   \* history: what was shown when the consent was ticked
  mounted,     \* the page is there, and not another view
  stray,       \* calls under way of a page that was left
  mixed,       \* history: a session was unlocked, or a call stray, while
               \*          another session was set up
  crossed      \* history: what the assisted analysis has met

page   == <<text, result, supplement, bridge, session, active, optIn>>
server == <<cookie, live, offered>>
vars   == <<page, call, server, consented, mounted, stray, mixed, crossed>>

Ops      == {"analyze", "assisted", "restore", "unlock", "profiles", "logout"}
Statuses == {"ok", "401", "403", "404", "failed"}

\* What an assisted analysis may meet: another analysis, an edit of the text,
\* the end of the session.
Crossings == {"analysis", "edit", "end"}

\* The cookie of a call is the one it was sent with; that of an answered
\* exchange is the one the answer sets.
Call == [op : Ops, text : Texts \cup {None}, profile : Profiles \cup {None},
         cookie : Tokens \cup {None}, csrf : Tokens \cup {None},
         status : Statuses \cup {None}, offered : SUBSET Profiles]

Shown == [text : Texts, profile : Profiles]

ASSUME NoneAssumption ==
  /\ None \notin Texts
  /\ None \notin Profiles
  /\ None \notin Tokens
  /\ None \notin Statuses
  /\ None \notin Call
  /\ None \notin Shown

TypeOK ==
  /\ text \in Texts
  /\ result \in Texts \cup {None}
  /\ supplement \in Texts \cup {None}
  /\ bridge \in {"unknown", "available", "absent"}
  /\ session \in Tokens \cup {None}
  /\ active \in Profiles \cup {None}
  /\ optIn \in BOOLEAN
  /\ optIn => session # None
  /\ call \in [Slots -> Call \cup {None}]
  /\ \A op \in {"analyze", "assisted", "logout"}, j, k \in Slots \ stray :
       call[j] # None /\ call[k] # None /\ call[j].op = op /\ call[k].op = op => j = k
  /\ cookie \in Tokens \cup {None}
  /\ live \subseteq Tokens
  /\ offered \subseteq Profiles
  /\ consented \in Shown \cup {None}
  /\ mounted \in BOOLEAN
  /\ stray \subseteq {k \in Slots : call[k] # None}
  /\ ~mounted => \A k \in Slots : call[k] # None => k \in stray
  /\ mixed \in BOOLEAN
  /\ crossed \subseteq Crossings

(***************************************************************************)
(* Calls.                                                                  *)
(***************************************************************************)
UnderWay(op) == \E k \in Slots \ stray : call[k] # None /\ call[k].op = op
SettingUp    == \E op \in {"restore", "unlock", "profiles"} : UnderWay(op)

Sent(op) == [op |-> op, text |-> None, profile |-> None, cookie |-> cookie,
             csrf |-> None, status |-> None, offered |-> {}]

\* A call takes a free slot.
Send(k, c) == call[k] = None /\ call' = [call EXCEPT ![k] = c]

Done(k) == call' = [call EXCEPT ![k] = None]

Unlocked == bridge # "absent" /\ session # None

(***************************************************************************)
(* What the user does.                                                     *)
(***************************************************************************)
\* Mutant: the consent stays when the text changes.
ClearSupplementOnly == supplement' = None /\ UNCHANGED optIn

\* clearSupplementalResult, which is also the beginning of analyze().
ClearSupplemental == supplement' = None /\ optIn' = FALSE

Type(t) ==
  /\ t # text
  /\ text' = t
  /\ ClearSupplemental
  /\ UNCHANGED <<result, bridge, session, active, call, server, consented>>

Consent ==
  /\ Unlocked /\ active # None
  /\ optIn' = ~optIn
  /\ consented' = IF optIn' THEN [text |-> text, profile |-> active] ELSE None
  /\ UNCHANGED <<text, result, supplement, bridge, session, active, call, server>>

Analyze(k) ==
  /\ ~UnderWay("analyze")
  /\ Send(k, [Sent("analyze") EXCEPT !.text = text])
  /\ ClearSupplemental
  /\ UNCHANGED <<text, result, bridge, session, active, server, consented>>

RunAssisted(k) ==
  /\ Unlocked /\ active # None /\ optIn
  /\ ~UnderWay("assisted")
  /\ Send(k, [Sent("assisted") EXCEPT !.text = text, !.profile = active,
                                      !.csrf = session])
  /\ supplement' = None
  /\ UNCHANGED <<text, result, bridge, session, active, optIn, server, consented>>

\* The form is shown while there is no session, also while one is restored.
Unlock(k) ==
  /\ bridge # "absent" /\ session = None
  /\ Send(k, Sent("unlock"))
  /\ UNCHANGED <<page, server, consented>>

Logout(k) ==
  /\ Unlocked
  /\ ~UnderWay("logout")
  /\ Send(k, [Sent("logout") EXCEPT !.csrf = session])
  /\ UNCHANGED <<page, server, consented>>

(***************************************************************************)
(* What the server answers.                                                *)
(***************************************************************************)
Answered(k, status) == call' = [call EXCEPT ![k].status = status]

\* RequireSession, and the CSRF check where there is a CSRF token.
Accepts(c)  == c.cookie \in live /\ (c.csrf # None => c.csrf = c.cookie)
Rejection(c) == IF c.cookie \notin live THEN "401" ELSE "403"

ServeAnalysis(k) ==
  /\ call[k].op = "analyze"
  /\ Answered(k, "ok")
  /\ UNCHANGED live

Reject(k) ==
  /\ call[k].op \in {"restore", "profiles", "assisted", "logout"}
  /\ ~Accepts(call[k])
  /\ Answered(k, Rejection(call[k]))
  /\ UNCHANGED live

Accept(k) ==
  /\ call[k].op \in {"restore", "profiles", "assisted", "logout"}
  /\ Accepts(call[k])
  /\ call' = [call EXCEPT ![k].status = "ok",
       ![k].offered = IF call[k].op = "profiles" THEN offered ELSE {}]
  /\ live' = IF call[k].op = "logout" THEN live \ {call[k].cookie} ELSE live

\* A token nobody holds.
Fresh(t) == /\ t \notin live \cup {cookie, session}
            /\ \A k \in Slots : call[k] # None => t \notin {call[k].cookie, call[k].csrf}

Exchange(k, t) ==
  /\ call[k].op = "unlock"
  /\ Fresh(t)
  /\ call' = [call EXCEPT ![k].status = "ok", ![k].cookie = t]
  /\ live' = live \cup {t}

\* A deployment without the bridge has no such routes.
NotFound(k) ==
  /\ call[k].op \in {"restore", "unlock"}
  /\ Answered(k, "404")
  /\ UNCHANGED live

Serve(k) ==
  /\ call[k] # None /\ call[k].status = None
  /\ \/ ServeAnalysis(k)
     \/ Reject(k)
     \/ Accept(k)
     \/ \E t \in Tokens : Exchange(k, t)
     \/ NotFound(k)
  /\ UNCHANGED <<page, cookie, offered, consented>>

\* Any other error, or the client does not hear the answer.
Lose(k) ==
  /\ call[k] # None /\ call[k].status # "failed"
  /\ Answered(k, "failed")
  /\ UNCHANGED <<page, server, consented>>

\* A session expires or is revoked, or a logout nobody waits for is executed.
SessionEnds(t) ==
  /\ t \in live
  /\ live' = live \ {t}
  /\ UNCHANGED <<page, call, cookie, offered, consented>>

\* The cookie's Max-Age is the session's lifetime and runs from its receipt: the
\* browser drops it after the server has ended the session, and tells nobody.
CookieExpires ==
  /\ cookie # None /\ cookie \notin live
  /\ cookie' = None
  /\ UNCHANGED <<page, call, live, offered, consented>>

\* The server is redeployed with other profiles.
Offer(ps) ==
  /\ ps # offered
  /\ offered' = ps
  /\ UNCHANGED <<page, call, cookie, live, consented>>

(***************************************************************************)
(* What the page does with an answer.                                      *)
(***************************************************************************)
ClearSessionState ==
  /\ session' = None
  /\ active' = None
  /\ optIn' = FALSE
  /\ supplement' = None

Arrives(k, op) ==
  k \notin stray /\ call[k] # None /\ call[k].op = op /\ call[k].status # None
Status(k) == call[k].status

AnalysisArrives(k) ==
  /\ Arrives(k, "analyze")
  /\ Done(k)
  /\ result' = IF Status(k) = "ok" THEN call[k].text ELSE result
  /\ UNCHANGED <<text, supplement, bridge, session, active, optIn, server, consented>>

\* Mutant: the rule result of an assisted analysis is not shown.
SupplementAlone(k) ==
  /\ Arrives(k, "assisted")
  /\ Done(k)
  /\ \/ /\ Status(k) = "ok"
        /\ supplement' = call[k].text
        /\ UNCHANGED <<session, active, optIn>>
     \/ Status(k) = "401" /\ ClearSessionState
     \/ Status(k) \in {"403", "failed"} /\ UNCHANGED <<supplement, session, active, optIn>>
  /\ UNCHANGED <<text, result, bridge, server, consented>>

AssistedArrives(k) ==
  /\ Arrives(k, "assisted")
  /\ Done(k)
  /\ \/ /\ Status(k) = "ok"
        /\ result' = call[k].text
        /\ supplement' = call[k].text
        /\ UNCHANGED <<session, active, optIn>>
     \/ Status(k) = "401" /\ ClearSessionState /\ UNCHANGED result
     \/ /\ Status(k) \in {"403", "failed"}
        /\ UNCHANGED <<result, supplement, session, active, optIn>>
  /\ UNCHANGED <<text, bridge, server, consented>>

\* applySession, and loadProfiles up to its call; the call takes over the slot.
SetUp(k, token) ==
  /\ bridge' = "available"
  /\ session' = token
  /\ active' = None
  /\ call' = [call EXCEPT ![k] = [Sent("profiles") EXCEPT !.cookie = cookie']]
  /\ UNCHANGED <<text, result, supplement, optIn, live, offered, consented>>

RestoreArrives(k) ==
  /\ Arrives(k, "restore")
  /\ \/ Status(k) = "ok" /\ UNCHANGED cookie /\ SetUp(k, call[k].cookie)
     \/ /\ Status(k) # "ok"
        /\ Done(k)
        /\ ClearSessionState
        /\ bridge' = IF Status(k) = "404" THEN "absent" ELSE "available"
        /\ UNCHANGED <<text, result, server, consented>>

\* The browser stores the cookie of the answer before the page sees it.
UnlockArrives(k) ==
  /\ Arrives(k, "unlock")
  /\ \/ Status(k) = "ok" /\ cookie' = call[k].cookie /\ SetUp(k, call[k].cookie)
     \/ /\ Status(k) # "ok"
        /\ Done(k)
        /\ ClearSessionState
        /\ bridge' = IF Status(k) = "404" THEN "absent" ELSE bridge
        /\ UNCHANGED <<text, result, server, consented>>

\* Only a single available profile becomes the active one.
ProfilesArrive(k) ==
  /\ Arrives(k, "profiles")
  /\ Done(k)
  /\ \/ /\ Status(k) = "ok"
        /\ active' \in {p \in Profiles : call[k].offered = {p}}
        /\ UNCHANGED <<supplement, session, optIn>>
     \/ /\ Status(k) = "ok" /\ ~ \E p \in Profiles : call[k].offered = {p}
        /\ UNCHANGED <<supplement, session, active, optIn>>
     \/ Status(k) = "401" /\ ClearSessionState
     \/ Status(k) = "failed" /\ UNCHANGED <<supplement, session, active, optIn>>
  /\ UNCHANGED <<text, result, bridge, server, consented>>

\* Mutant: a logout clears the page only if it still shows the session that was
\* logged out.
LogoutOfOwn(k) ==
  /\ Arrives(k, "logout")
  /\ Done(k)
  /\ IF Status(k) \in {"ok", "401"} /\ session = call[k].csrf THEN ClearSessionState
     ELSE UNCHANGED <<supplement, session, active, optIn>>
  /\ cookie' = IF Status(k) = "ok" THEN None ELSE cookie
  /\ UNCHANGED <<text, result, bridge, live, offered, consented>>

LogoutArrives(k) ==
  /\ Arrives(k, "logout")
  /\ Done(k)
  /\ \/ Status(k) \in {"ok", "401"} /\ ClearSessionState
     \/ /\ Status(k) \in {"403", "failed"}
        /\ UNCHANGED <<supplement, session, active, optIn>>
  /\ cookie' = IF Status(k) = "ok" THEN None ELSE cookie
  /\ UNCHANGED <<text, result, bridge, live, offered, consented>>

(***************************************************************************)
(* The page is left and mounted again.                                     *)
(***************************************************************************)
\* What a page starts with; only its text box is not empty.
Blank ==
  /\ result' = None /\ supplement' = None
  /\ bridge' = "unknown" /\ session' = None /\ active' = None /\ optIn' = FALSE
  /\ consented' = None

\* Calls that change no cookie have no effect any more.
Leave ==
  /\ mounted
  /\ mounted' = FALSE
  /\ Blank
  /\ call' = [k \in Slots |->
       IF call[k] # None /\ call[k].op \in {"unlock", "logout"} THEN call[k] ELSE None]
  /\ stray' = {k \in Slots : call'[k] # None}
  /\ UNCHANGED <<text, server>>

Mount(k) ==
  /\ ~mounted
  /\ mounted' = TRUE
  /\ Send(k, Sent("restore"))
  /\ text' \in Texts
  /\ UNCHANGED <<result, supplement, bridge, session, active, optIn, server, consented, stray>>

\* The browser stores or clears the cookie of an answer nobody waits for: that
\* of an exchange or of a logout, for no other call is stray.
StrayArrives(k) ==
  /\ k \in stray /\ call[k].status # None
  /\ Done(k)
  /\ stray' = stray \ {k}
  /\ cookie' = IF call[k].status # "ok" THEN cookie
               ELSE IF call[k].op = "unlock" THEN call[k].cookie ELSE None
  /\ UNCHANGED <<page, live, offered, consented, mounted>>

(***************************************************************************)
(* The specification.  The page is mounted and asks for its session; with  *)
(* demo=1 it analyzes at once, as a user may.                              *)
(***************************************************************************)
Init ==
  /\ text \in Texts
  /\ result = None
  /\ supplement = None
  /\ bridge = "unknown"
  /\ session = None
  /\ active = None
  /\ optIn = FALSE
  /\ cookie \in Tokens \cup {None}
  /\ live \in SUBSET Tokens /\ live \subseteq {cookie}
  /\ offered \in SUBSET Profiles
  /\ \E k \in Slots : call = [j \in Slots |-> IF j = k THEN Sent("restore") ELSE None]
  /\ consented = None
  /\ mounted = TRUE /\ stray = {}
  /\ mixed = FALSE
  /\ crossed = {}

\* What happens on the page while it is mounted.
Step(k) ==
  \/ Analyze(k)
  \/ RunAssisted(k)
  \/ Unlock(k)
  \/ Logout(k)
  \/ AnalysisArrives(k)
  \/ AssistedArrives(k)
  \/ RestoreArrives(k)
  \/ UnlockArrives(k)
  \/ ProfilesArrive(k)
  \/ LogoutArrives(k)

\* A session is unlocked while another is being set up, or the call of a page
\* that was left is under way; the page is clean again when it has no session,
\* none is on its way and no call is stray.
Mixes ==
  mixed' = \/ stray' # {}
           \/ /\ session' # None \/ SettingUp'
              /\ mixed \/ (session = None /\ SettingUp /\ \E k \in Slots : Unlock(k))

\* What the assisted analysis meets while it is under way, remembered until the
\* next one starts or its supplement goes.
Met ==
  {e \in Crossings :
     \/ e = "analysis" /\ (UnderWay("analyze") \/ UnderWay("analyze")')
     \/ e = "edit" /\ text' # text
     \/ e = "end" /\ session' = None}

Crosses ==
  crossed' =
    IF ~UnderWay("assisted")' /\ supplement' = None THEN {}
    ELSE IF UnderWay("assisted") THEN crossed \cup Met
    ELSE IF UnderWay("assisted")' THEN {} ELSE crossed

Next ==
  /\ \/ /\ mounted
        /\ (\E k \in Slots : Step(k)) \/ (\E t \in Texts : Type(t)) \/ Consent
        /\ UNCHANGED <<mounted, stray>>
     \/ /\ \/ \E k \in Slots : Serve(k) \/ Lose(k)
           \/ \E t \in Tokens : SessionEnds(t)
           \/ CookieExpires
           \/ \E ps \in SUBSET Profiles : Offer(ps)
        /\ UNCHANGED <<mounted, stray>>
     \/ Leave
     \/ \E k \in Slots : Mount(k) \/ StrayArrives(k)
  /\ Mixes
  /\ Crosses

Spec == Init /\ [][Next]_vars

-----------------------------------------------------------------------------
\* A supplemental result on the page is about the text of the rule result beside
\* it unless its analysis met another one, about the text in the box unless it
\* met an edit, and the session is still unlocked unless it met its end.
SupplementFits ==
  supplement # None =>
    /\ "analysis" \notin crossed => supplement = result
    /\ "edit" \notin crossed => supplement = text
    /\ "end" \notin crossed => session # None

\* Unless two sessions were set up at once, the session the page shows is that
\* of the browser's cookie, or it is over: no click presents the CSRF token of
\* one session with the cookie of another, or with none while its session lives.
SessionIsTheCookies ==
  session # None /\ ~mixed =>
    cookie = session \/ (cookie = None /\ session \notin live)

\* A consent was ticked for the text in the box and, unless two sessions were set
\* up at once, beside the disclosure of the active profile.
ConsentIsForWhatIsSent ==
  optIn =>
    /\ consented # None /\ consented.text = text
    /\ active # None /\ ~mixed => consented.profile = active

=============================================================================
