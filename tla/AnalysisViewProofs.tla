------------------------- MODULE AnalysisViewProofs -------------------------
(***************************************************************************)
(* AnalysisView for any number of calls under way, any texts, profiles and *)
(* sessions: the variables keep their types, a supplemental result fits    *)
(* the page it is shown on, the session shown is that of the cookie or     *)
(* over, and a consent was given for what a click would send.              *)
(***************************************************************************)
EXTENDS AnalysisView, TLAPS

\* The call of slot k is one of the page, for op.
On(k, op) == k \in Slots \ stray /\ call[k] # None /\ call[k].op = op

PageTyped ==
  /\ text \in Texts
  /\ result \in Texts \cup {None}
  /\ supplement \in Texts \cup {None}
  /\ bridge \in {"unknown", "available", "absent"}
  /\ session \in Tokens \cup {None}
  /\ active \in Profiles \cup {None}
  /\ optIn \in BOOLEAN
  /\ optIn => session # None
  /\ cookie \in Tokens \cup {None}
  /\ live \subseteq Tokens
  /\ offered \subseteq Profiles
  /\ consented \in Shown \cup {None}
  /\ mounted \in BOOLEAN
  /\ mixed \in BOOLEAN
  /\ crossed \subseteq Crossings

\* The answer to a restore or an exchange comes with the session it is about.
Carries(c) == c.status = "ok" /\ c.op \in {"restore", "unlock"} => c.cookie # None

CallsTyped ==
  /\ call \in [Slots -> Call \cup {None}]
  /\ stray \subseteq {k \in Slots : call[k] # None}
  /\ ~mounted => \A k \in Slots : call[k] # None => k \in stray
  /\ \A k \in Slots : call[k] # None => Carries(call[k])

\* An analysis has its text with it.
Texted(c) == c.op \in {"analyze", "assisted"} => c.text # None

\* A button is disabled while its own call is under way.
OneEach ==
  \A op \in {"analyze", "assisted", "logout"}, j, k \in Slots :
    On(j, op) /\ On(k, op) => j = k

LEMMA Parts == TypeOK <=> PageTyped /\ OneEach /\ 
  /\ call \in [Slots -> Call \cup {None}]
  /\ stray \subseteq {k \in Slots : call[k] # None}
  /\ ~mounted => \A k \in Slots : call[k] # None => k \in stray
BY Zenon DEF TypeOK, PageTyped, OneEach, On

(***************************************************************************)
(* What a step does to the calls.                                          *)
(***************************************************************************)
\* A call is sent from the page.
Starts(k, c) ==
  /\ c \in Call /\ c.status = None
  /\ Send(k, c)
  /\ UNCHANGED stray /\ mounted' = TRUE

\* A call of the page is over.
Ends(k) == k \notin stray /\ Done(k) /\ UNCHANGED <<stray, mounted>>

\* A call is answered.
Marks(k, c) ==
  /\ call[k] # None
  /\ c \in Call
  /\ c.op = call[k].op /\ c.text = call[k].text
  /\ c.op # "unlock" => c.cookie = call[k].cookie
  /\ Carries(c)
  /\ call' = [call EXCEPT ![k] = c]
  /\ UNCHANGED <<stray, mounted>>

\* The page asks for the profiles of its new session.
TurnsTo(k, c) ==
  /\ On(k, "restore") \/ On(k, "unlock")
  /\ c \in Call /\ c.op = "profiles" /\ c.status = None
  /\ call' = [call EXCEPT ![k] = c]
  /\ UNCHANGED <<stray, mounted>>

\* The slots that step leaves alone, and what the page has under way after it.
Others(k) == \A j \in Slots \ {k} : call'[j] = call[j]

LEMMA StartsCalls ==
  ASSUME CallsTyped, NEW k \in Slots, NEW c, Starts(k, c)
  PROVE  /\ CallsTyped'
         /\ k \notin stray /\ call'[k] = c /\ Others(k)
         /\ \A op : On(k, op)' <=> c.op = op
         /\ \A j \in Slots \ {k} : \A op : On(j, op)' <=> On(j, op)
         /\ \A op : ~On(k, op)
<1>1. /\ k \notin stray /\ call[k] = None /\ c # None
      /\ call' \in [Slots -> Call \cup {None}]
      /\ call'[k] = c /\ Others(k)
  BY NoneAssumption DEF CallsTyped, Starts, Send, Others
<1>2. Carries(c) /\ UNCHANGED stray /\ mounted' = TRUE
  BY NoneAssumption DEF Starts, Carries, Statuses
<1>3. CallsTyped'
  BY <1>1, <1>2 DEF CallsTyped, Others
<1> QED
  BY <1>1, <1>2, <1>3 DEF On, Others

LEMMA EndsCalls ==
  ASSUME CallsTyped, NEW k \in Slots, Ends(k)
  PROVE  /\ CallsTyped'
         /\ call'[k] = None /\ Others(k)
         /\ \A op : ~On(k, op)'
         /\ \A j \in Slots \ {k} : \A op : On(j, op)' <=> On(j, op)
<1>1. /\ call' \in [Slots -> Call \cup {None}]
      /\ call'[k] = None /\ Others(k)
      /\ k \notin stray /\ UNCHANGED <<stray, mounted>>
  BY DEF CallsTyped, Ends, Done, Others
<1>2. CallsTyped'
  BY <1>1 DEF CallsTyped, Others
<1> QED
  BY <1>1, <1>2 DEF On, Others

LEMMA MarksCalls ==
  ASSUME CallsTyped, NEW k \in Slots, NEW c, Marks(k, c)
  PROVE  /\ CallsTyped'
         /\ call'[k] = c /\ Others(k)
         /\ \A j \in Slots : \A op : On(j, op)' <=> On(j, op)
<1>1. /\ call' \in [Slots -> Call \cup {None}]
      /\ call'[k] = c /\ Others(k) /\ c # None
      /\ UNCHANGED <<stray, mounted>>
  BY NoneAssumption DEF CallsTyped, Marks, Others
<1>2. CallsTyped'
  BY <1>1 DEF CallsTyped, Marks, Others
<1> QED
  BY <1>1, <1>2 DEF On, Marks, Others

LEMMA TurnsCalls ==
  ASSUME CallsTyped, NEW k \in Slots, NEW c, TurnsTo(k, c)
  PROVE  /\ CallsTyped'
         /\ call'[k] = c /\ Others(k)
         /\ \A op : On(k, op)' <=> op = "profiles"
         /\ \A j \in Slots \ {k} : \A op : On(j, op)' <=> On(j, op)
<1>1. /\ call' \in [Slots -> Call \cup {None}]
      /\ call'[k] = c /\ Others(k) /\ c # None
      /\ k \notin stray /\ call[k] # None
      /\ UNCHANGED <<stray, mounted>>
  BY NoneAssumption DEF CallsTyped, TurnsTo, On, Others
<1>2. CallsTyped'
  BY <1>1 DEF CallsTyped, TurnsTo, Carries, Others
<1> QED
  BY <1>1, <1>2 DEF On, TurnsTo, Others

(***************************************************************************)
(* The steps, by what they do to the calls.                                *)
(***************************************************************************)
LEMMA AnalyzeStarts ==
  ASSUME PageTyped, NEW k \in Slots, Analyze(k), mounted, UNCHANGED <<mounted, stray>>
  PROVE  LET c == [Sent("analyze") EXCEPT !.text = text] IN
         Starts(k, c) /\ c.op = "analyze" /\ ~UnderWay("analyze")
BY DEF PageTyped, Analyze, Starts, Sent, Call, Ops

LEMMA RunAssistedStarts ==
  ASSUME PageTyped, NEW k \in Slots, RunAssisted(k), mounted, UNCHANGED <<mounted, stray>>
  PROVE  LET c == [Sent("assisted") EXCEPT !.text = text, !.profile = active,
                                           !.csrf = session] IN
         Starts(k, c) /\ c.op = "assisted" /\ c.text = text /\ ~UnderWay("assisted")
BY DEF PageTyped, RunAssisted, Starts, Sent, Call, Ops

LEMMA UnlockStarts ==
  ASSUME PageTyped, NEW k \in Slots, Unlock(k), mounted, UNCHANGED <<mounted, stray>>
  PROVE  Starts(k, Sent("unlock")) /\ Sent("unlock").op = "unlock"
BY DEF PageTyped, Unlock, Starts, Sent, Call, Ops

LEMMA LogoutStarts ==
  ASSUME PageTyped, NEW k \in Slots, Logout(k), mounted, UNCHANGED <<mounted, stray>>
  PROVE  LET c == [Sent("logout") EXCEPT !.csrf = session] IN
         Starts(k, c) /\ c.op = "logout" /\ ~UnderWay("logout")
BY DEF PageTyped, Logout, Starts, Sent, Call, Ops

LEMMA MountStarts ==
  ASSUME PageTyped, NEW k \in Slots, Mount(k)
  PROVE  /\ Starts(k, Sent("restore"))
         /\ Sent("restore").op = "restore" /\ Sent("restore").cookie = cookie
BY DEF PageTyped, Mount, Starts, Sent, Call, Ops

LEMMA ServeMarks ==
  ASSUME PageTyped, CallsTyped, NEW k \in Slots, Serve(k), UNCHANGED <<mounted, stray>>
  PROVE  \E c : Marks(k, c)
<1> DEFINE Sets(status, ps) == [call[k] EXCEPT !.status = status, !.offered = ps]
<1>1. call[k] # None /\ call[k] \in Call /\ call[k].status = None
  BY DEF Serve, CallsTyped
<1>2. CASE ServeAnalysis(k) \/ NotFound(k) \/ Reject(k)
  <2>1. PICK s \in {"ok", "404", "401", "403"} :
          /\ Answered(k, s)
          /\ s = "ok" => call[k].op = "analyze"
    BY <1>2, Zenon DEF ServeAnalysis, NotFound, Reject, Rejection
  <2> DEFINE d == [call[k] EXCEPT !.status = s]
  <2>2. d \in Call /\ d.op = call[k].op /\ d.text = call[k].text
        /\ d.cookie = call[k].cookie /\ d.status = s
    BY <1>1 DEF Call, Statuses
  <2>3. call' = [call EXCEPT ![k] = d]
    BY <1>1, <2>1 DEF Answered, CallsTyped
  <2> QED
    BY <1>1, <2>1, <2>2, <2>3 DEF Marks, Carries
<1>3. CASE Accept(k)
  <2> DEFINE ps == IF call[k].op = "profiles" THEN offered ELSE {}
             d == [call[k] EXCEPT !.status = "ok", !.offered = ps]
  <2>0. ps \in SUBSET Profiles
    BY DEF PageTyped
  <2>2. call' = [call EXCEPT ![k] = d]
    BY <1>1, <1>3 DEF Accept, CallsTyped
  <2> HIDE DEF ps
  <2>1. d \in Call /\ d.op = call[k].op /\ d.text = call[k].text
        /\ d.cookie = call[k].cookie /\ d.status = "ok"
    BY <1>1, <2>0 DEF Call, Statuses
  <2>3. d.cookie # None
    BY <1>3, <2>1, NoneAssumption DEF Accept, Accepts, PageTyped
  <2> QED
    BY <1>1, <2>1, <2>2, <2>3 DEF Marks, Carries
<1>4. ASSUME NEW t \in Tokens, Exchange(k, t)
      PROVE  \E c : Marks(k, c)
  <2> DEFINE d == [call[k] EXCEPT !.status = "ok", !.cookie = t]
  <2>1. d \in Call /\ d.op = call[k].op /\ d.text = call[k].text
        /\ d.cookie = t /\ d.status = "ok"
    BY <1>1 DEF Call, Statuses
  <2>2. call' = [call EXCEPT ![k] = d] /\ call[k].op = "unlock"
    BY <1>1, <1>4 DEF Exchange, CallsTyped
  <2> QED
    BY <1>1, <2>1, <2>2, NoneAssumption DEF Marks, Carries
<1> QED
  BY <1>2, <1>3, <1>4, Zenon DEF Serve

LEMMA LoseMarks ==
  ASSUME PageTyped, CallsTyped, NEW k \in Slots, Lose(k), UNCHANGED <<mounted, stray>>
  PROVE  \E c : Marks(k, c)
<1>1. call[k] # None /\ call[k] \in Call
  BY DEF Lose, CallsTyped
<1> DEFINE d == [call[k] EXCEPT !.status = "failed"]
<1>2. d \in Call /\ d.op = call[k].op /\ d.text = call[k].text
      /\ d.cookie = call[k].cookie /\ d.status = "failed"
  BY <1>1 DEF Call, Statuses
<1>3. call' = [call EXCEPT ![k] = d]
  BY <1>1 DEF Lose, Answered, CallsTyped
<1> QED
  BY <1>1, <1>2, <1>3 DEF Marks, Carries

\* A call whose answer brings a session turns into one for its profiles.
LEMMA SetUpTurns ==
  ASSUME PageTyped, CallsTyped, PageTyped', NEW k \in Slots, NEW token,
         On(k, "restore") \/ On(k, "unlock"), SetUp(k, token),
         UNCHANGED <<mounted, stray>>
  PROVE  LET c == [Sent("profiles") EXCEPT !.cookie = cookie'] IN
         TurnsTo(k, c) /\ c.op = "profiles"
BY DEF PageTyped, SetUp, TurnsTo, Sent, Call, Ops

(***************************************************************************)
(* The page keeps its types.                                               *)
(***************************************************************************)
LEMMA Clears ==
  ASSUME ClearSessionState \/ Blank
  PROVE  /\ session' = None /\ active' = None /\ supplement' = None
         /\ ~optIn' /\ optIn' \in BOOLEAN
BY Zenon DEF ClearSessionState, Blank

LEMMA HistoryTyped ==
  ASSUME PageTyped, Mixes, Crosses
  PROVE  mixed' \in BOOLEAN /\ crossed' \subseteq Crossings
<1>1. mixed' \in BOOLEAN
  BY DEF Mixes
<1>2. Met \subseteq Crossings
  BY DEF Met
<1>3. crossed' \in {{}, crossed, crossed \cup Met}
  BY Zenon DEF Crosses
<1>4. crossed' \subseteq Crossings
  BY <1>2, <1>3 DEF PageTyped
<1> QED
  BY <1>1, <1>4

LEMMA PageStep ==
  ASSUME PageTyped, CallsTyped, Next
  PROVE  PageTyped'
<1> DEFINE P == /\ text \in Texts
                /\ result \in Texts \cup {None}
                /\ supplement \in Texts \cup {None}
                /\ bridge \in {"unknown", "available", "absent"}
                /\ session \in Tokens \cup {None}
                /\ active \in Profiles \cup {None}
                /\ optIn \in BOOLEAN
                /\ optIn => session # None
                /\ cookie \in Tokens \cup {None}
                /\ live \subseteq Tokens
                /\ offered \subseteq Profiles
                /\ consented \in Shown \cup {None}
                /\ mounted \in BOOLEAN
<1>0. P
  BY DEF PageTyped
<1>c. \A k \in Slots : call[k] # None =>
        /\ call[k].text \in Texts \cup {None}
        /\ call[k].cookie \in Tokens \cup {None}
        /\ Carries(call[k])
  BY DEF CallsTyped, Call
<1>s. (text \in Texts /\ active \in Profiles) => [text |-> text, profile |-> active] \in Shown
  BY DEF Shown
<1>1. ASSUME NEW k \in Slots, Step(k), UNCHANGED <<mounted, stray>>, mounted
      PROVE  P'
  <2>1. CASE Analyze(k)
    BY <1>0, <1>1, <2>1 DEF Analyze, ClearSupplemental, server
  <2>2. CASE RunAssisted(k)
    BY <1>0, <1>1, <2>2 DEF RunAssisted, server
  <2>3. CASE Unlock(k) \/ Logout(k)
    BY <1>0, <1>1, <2>3 DEF Unlock, Logout, server, page
  <2>4. CASE AnalysisArrives(k)
    BY <1>0, <1>1, <1>c, <2>4 DEF AnalysisArrives, Arrives, server
  <2>5. CASE AssistedArrives(k)
    <3>1. ClearSessionState \/ UNCHANGED <<session, active, optIn>>
      BY <2>5, Zenon DEF AssistedArrives
    <3>2. UNCHANGED <<text, bridge, server, consented>>
      BY <2>5, Zenon DEF AssistedArrives
    <3>3. /\ result' \in {result, call[k].text}
          /\ supplement' \in {supplement, call[k].text, None}
      BY <2>5, Clears DEF AssistedArrives
    <3>4. call[k].text \in Texts \cup {None}
      BY <1>c, <2>5 DEF AssistedArrives, Arrives
    <3> QED
      BY <1>0, <1>1, Clears, <3>1, <3>2, <3>3, <3>4 DEF server
  <2>6. CASE RestoreArrives(k)
    BY <1>0, <1>1, <1>c, <2>6
       DEF RestoreArrives, Arrives, Status, Carries, SetUp, ClearSessionState, server
  <2>7. CASE UnlockArrives(k)
    BY <1>0, <1>1, <1>c, <2>7
       DEF UnlockArrives, Arrives, Status, Carries, SetUp, ClearSessionState, server
  <2>8. CASE ProfilesArrive(k)
    <3>1. ClearSessionState \/ UNCHANGED <<session, supplement, optIn>>
      BY <2>8, Zenon DEF ProfilesArrive
    <3>2. UNCHANGED <<text, result, bridge, server, consented>>
      BY <2>8, Zenon DEF ProfilesArrive
    <3>3. active' \in Profiles \cup {active, None}
      BY <2>8, Clears DEF ProfilesArrive
    <3> QED
      BY <1>0, <1>1, Clears, <3>1, <3>2, <3>3 DEF server
  <2>9. CASE LogoutArrives(k)
    <3>1. ClearSessionState \/ UNCHANGED <<session, active, supplement, optIn>>
      BY <2>9, Zenon DEF LogoutArrives
    <3>2. UNCHANGED <<text, result, bridge, live, offered, consented>>
      BY <2>9, Zenon DEF LogoutArrives
    <3>3. cookie' \in {cookie, None}
      BY <2>9 DEF LogoutArrives
    <3> QED
      BY <1>0, <1>1, Clears, <3>1, <3>2, <3>3
  <2> QED
    BY <1>1, <2>1, <2>2, <2>3, <2>4, <2>5, <2>6, <2>7, <2>8, <2>9, Zenon DEF Step
<1>2. ASSUME NEW t \in Texts, Type(t), UNCHANGED <<mounted, stray>>
      PROVE  P'
  BY <1>0, <1>2 DEF Type, ClearSupplemental, server
<1>3. ASSUME Consent, UNCHANGED <<mounted, stray>>
      PROVE  P'
  BY <1>0, <1>s, <1>3, NoneAssumption DEF Consent, Unlocked, server
<1>4. ASSUME NEW k \in Slots, Serve(k) \/ Lose(k), UNCHANGED <<mounted, stray>>
      PROVE  P'
  <2>1. CASE Serve(k)
    <3>1. /\ UNCHANGED <<page, cookie, offered, consented>>
          /\ \/ UNCHANGED live
             \/ live' = live \ {call[k].cookie}
             \/ \E t \in Tokens : live' = live \cup {t}
      BY <2>1, Zenon DEF Serve, ServeAnalysis, Reject, Accept, Exchange, NotFound
    <3> QED
      BY <1>0, <1>4, <3>1 DEF page
  <2>2. CASE Lose(k)
    BY <1>0, <1>4, <2>2 DEF Lose, page, server
  <2> QED
    BY <1>4, <2>1, <2>2
<1>5. ASSUME NEW t \in Tokens, SessionEnds(t), UNCHANGED <<mounted, stray>>
      PROVE  P'
  BY <1>0, <1>5 DEF SessionEnds, page
<1>c1. ASSUME CookieExpires, UNCHANGED <<mounted, stray>>
       PROVE  P'
  BY <1>0, <1>c1 DEF CookieExpires, page
<1>6. ASSUME NEW ps \in SUBSET Profiles, Offer(ps), UNCHANGED <<mounted, stray>>
      PROVE  P'
  BY <1>0, <1>6 DEF Offer, page
<1>7. ASSUME Leave
      PROVE  P'
  <2>1. /\ Blank /\ mounted' = FALSE
        /\ UNCHANGED <<text, server>>
    BY <1>7, Zenon DEF Leave
  <2> QED
    BY <1>0, <2>1, Clears DEF Blank, server
<1>8. ASSUME NEW k \in Slots, Mount(k)
      PROVE  P'
  BY <1>0, <1>8 DEF Mount, server
<1>9. ASSUME NEW k \in Slots, StrayArrives(k)
      PROVE  P'
  <2>1. k \in Slots /\ call[k] # None
    BY <1>9 DEF StrayArrives, CallsTyped
  <2> QED
    BY <1>0, <1>c, <1>9, <2>1 DEF StrayArrives, page
<1> HIDE DEF P
<1>10. P'
  BY <1>1, <1>2, <1>3, <1>4, <1>5, <1>c1, <1>6, <1>7, <1>8, <1>9, Zenon DEF Next
<1>11. mixed' \in BOOLEAN /\ crossed' \subseteq Crossings
  BY HistoryTyped, Zenon DEF Next
<1> QED
  BY <1>10, <1>11 DEF P, PageTyped

(***************************************************************************)
(* The calls keep their types.                                             *)
(***************************************************************************)
LEMMA LeaveCalls ==
  ASSUME CallsTyped, Leave
  PROVE  CallsTyped' /\ \A k \in Slots : \A op : ~On(k, op)'
<1>1. /\ call' \in [Slots -> Call \cup {None}]
      /\ \A k \in Slots : call'[k] \in {call[k], None}
      /\ stray' = {k \in Slots : call'[k] # None}
  BY DEF Leave, CallsTyped
<1>2. CallsTyped'
  BY <1>1 DEF CallsTyped
<1> QED
  BY <1>1, <1>2 DEF On

LEMMA StrayCalls ==
  ASSUME CallsTyped, NEW k, StrayArrives(k)
  PROVE  CallsTyped' /\ \A j \in Slots : \A op : On(j, op)' <=> On(j, op)
<1>1. /\ k \in Slots /\ k \in stray
      /\ call' \in [Slots -> Call \cup {None}]
      /\ call'[k] = None /\ Others(k)
      /\ stray' = stray \ {k} /\ UNCHANGED mounted
  BY DEF CallsTyped, StrayArrives, Done, Others
<1>2. CallsTyped'
  BY <1>1 DEF CallsTyped, Others
<1> QED
  BY <1>1, <1>2 DEF On, Others

LEMMA OnUnderWay == \A op : UnderWay(op) <=> \E k \in Slots : On(k, op)
BY DEF UnderWay, On

\* The op of a call that answers op came for, and where the page is with it.
LEMMA ArrivesOn ==
  ASSUME CallsTyped, NEW k \in Slots, NEW op, Arrives(k, op)
  PROVE  On(k, op) /\ k \notin stray /\ call[k] \in Call /\ Carries(call[k])
BY DEF Arrives, On, CallsTyped

\* A call that is over, turned into another or left alone by its answer.
LEMMA ArrivalsEnd ==
  ASSUME NEW k \in Slots, UNCHANGED <<mounted, stray>>,
         AnalysisArrives(k) \/ AssistedArrives(k) \/ ProfilesArrive(k) \/ LogoutArrives(k)
  PROVE  Ends(k)
BY Zenon DEF AnalysisArrives, AssistedArrives, ProfilesArrive, LogoutArrives, Arrives, Ends

LEMMA SetUpsTurnOrEnd ==
  ASSUME PageTyped, CallsTyped, PageTyped', NEW k \in Slots, UNCHANGED <<mounted, stray>>,
         RestoreArrives(k) \/ UnlockArrives(k)
  PROVE  \/ Ends(k)
         \/ \E c : TurnsTo(k, c) /\ c.op = "profiles"
<1>1. On(k, "restore") \/ On(k, "unlock")
  BY ArrivesOn, Zenon DEF RestoreArrives, UnlockArrives
<1>2. k \notin stray
  BY <1>1, Zenon DEF On
<1>3. CASE SetUp(k, call[k].cookie)
  BY <1>1, <1>3, SetUpTurns, Zenon
<1>4. CASE Done(k)
  BY <1>2, <1>4, Zenon DEF Ends
<1> QED
  BY <1>3, <1>4, Zenon DEF RestoreArrives, UnlockArrives

\* The button of an analysis and of a logout is disabled under way.
Single(c) == c.op \in {"analyze", "assisted", "logout"} => ~UnderWay(c.op)

LEMMA Effects ==
  ASSUME PageTyped, CallsTyped, PageTyped', Next
  PROVE  \/ UNCHANGED <<call, stray, mounted>>
         \/ \E k \in Slots : \E c : Starts(k, c) /\ Single(c)
         \/ \E k \in Slots : Ends(k)
         \/ \E k \in Slots : \E c : Marks(k, c)
         \/ \E k \in Slots : \E c : TurnsTo(k, c)
         \/ Leave
         \/ \E k \in Slots : StrayArrives(k)
<1>1. ASSUME NEW k \in Slots, Step(k), UNCHANGED <<mounted, stray>>, mounted
      PROVE  \/ \E c : Starts(k, c) /\ Single(c)
             \/ Ends(k)
             \/ \E c : TurnsTo(k, c)
  <2>1. CASE Analyze(k) \/ RunAssisted(k) \/ Logout(k)
    BY <1>1, <2>1, AnalyzeStarts, RunAssistedStarts, LogoutStarts, Zenon DEF Single
  <2>2. CASE Unlock(k)
    <3>1. Starts(k, Sent("unlock")) /\ Sent("unlock").op = "unlock"
      BY <1>1, <2>2, UnlockStarts, Zenon
    <3>2. Single(Sent("unlock"))
      BY <3>1 DEF Single
    <3> QED
      BY <3>1, <3>2, Zenon
  <2>3. CASE AnalysisArrives(k) \/ AssistedArrives(k) \/ ProfilesArrive(k) \/ LogoutArrives(k)
    BY <1>1, <2>3, ArrivalsEnd, Zenon
  <2>4. CASE RestoreArrives(k) \/ UnlockArrives(k)
    BY <1>1, <2>4, SetUpsTurnOrEnd, Zenon
  <2> QED
    BY <1>1, <2>1, <2>2, <2>3, <2>4, Zenon DEF Step
<1>2. ASSUME \/ \E t \in Texts : Type(t)
             \/ Consent
             \/ \E t \in Tokens : SessionEnds(t)
             \/ CookieExpires
             \/ \E ps \in SUBSET Profiles : Offer(ps)
      PROVE  UNCHANGED call
  BY <1>2, Zenon DEF Type, Consent, SessionEnds, CookieExpires, Offer
<1>3. ASSUME NEW k \in Slots, Serve(k) \/ Lose(k), UNCHANGED <<mounted, stray>>
      PROVE  \E c : Marks(k, c)
  BY <1>3, ServeMarks, LoseMarks, Zenon
<1>4. ASSUME NEW k \in Slots, Mount(k)
      PROVE  \E c : Starts(k, c) /\ Single(c)
  <2>1. Starts(k, Sent("restore")) /\ Sent("restore").op = "restore"
    BY <1>4, MountStarts, Zenon
  <2>2. Single(Sent("restore"))
    BY <2>1 DEF Single
  <2> QED
    BY <2>1, <2>2, Zenon
<1>5. UNCHANGED <<mounted, stray>> /\ UNCHANGED call => UNCHANGED <<call, stray, mounted>>
  OBVIOUS
<1> QED
  BY <1>1, <1>2, <1>3, <1>4, <1>5, Zenon DEF Next

LEMMA CallsStep ==
  ASSUME PageTyped, CallsTyped, PageTyped', Next
  PROVE  CallsTyped'
<1>1. CASE UNCHANGED <<call, stray, mounted>>
  BY <1>1 DEF CallsTyped
<1> QED
  BY <1>1, Effects, StartsCalls, EndsCalls, MarksCalls, TurnsCalls, LeaveCalls,
     StrayCalls, Zenon

LEMMA OneEachStep ==
  ASSUME PageTyped, CallsTyped, PageTyped', OneEach, Next
  PROVE  OneEach'
<1> DEFINE Buttons == {"analyze", "assisted", "logout"}
<1>1. CASE UNCHANGED <<call, stray, mounted>>
  BY <1>1 DEF OneEach, On
<1>2. ASSUME NEW k \in Slots, NEW c, Starts(k, c) /\ Single(c)
      PROVE  OneEach'
  <2>1. /\ \A op : On(k, op)' <=> c.op = op
        /\ \A j \in Slots \ {k} : \A op : On(j, op)' <=> On(j, op)
    BY <1>2, StartsCalls, Zenon
  <2>2. c.op \in Buttons => \A j \in Slots : ~On(j, c.op)
    BY <1>2, OnUnderWay DEF Single
  <2> QED
    BY <2>1, <2>2 DEF OneEach
<1>3. ASSUME NEW k \in Slots, Ends(k)
      PROVE  OneEach'
  BY <1>3, EndsCalls DEF OneEach
<1>4. ASSUME NEW k \in Slots, NEW c, Marks(k, c)
      PROVE  OneEach'
  BY <1>4, MarksCalls DEF OneEach
<1>5. ASSUME NEW k \in Slots, NEW c, TurnsTo(k, c)
      PROVE  OneEach'
  BY <1>5, TurnsCalls DEF OneEach
<1>6. ASSUME Leave
      PROVE  OneEach'
  BY <1>6, LeaveCalls DEF OneEach
<1>7. ASSUME NEW k \in Slots, StrayArrives(k)
      PROVE  OneEach'
  BY <1>7, StrayCalls DEF OneEach
<1> QED
  BY <1>1, <1>2, <1>3, <1>4, <1>5, <1>6, <1>7, Effects, Zenon

Typed == PageTyped /\ CallsTyped /\ OneEach

LEMMA TypedInit == Init => Typed
<1> SUFFICES ASSUME Init
             PROVE  Typed
  OBVIOUS
<1>1. PageTyped
  BY DEF Init, PageTyped
<1>2. PICK k \in Slots : call = [j \in Slots |-> IF j = k THEN Sent("restore") ELSE None]
  BY DEF Init
<1>3. Sent("restore") \in Call /\ Sent("restore").status = None
      /\ Sent("restore").op = "restore"
  BY <1>1 DEF Sent, Call, Ops, PageTyped
<1>4. CallsTyped
  BY <1>2, <1>3, NoneAssumption DEF CallsTyped, Carries, Init, Statuses
<1>5. OneEach
  BY <1>2, <1>3 DEF OneEach, On
<1> QED
  BY <1>1, <1>4, <1>5 DEF Typed

LEMMA TypedStep == Typed /\ [Next]_vars => Typed'
<1>1. CASE Typed /\ Next
  BY <1>1, PageStep, CallsStep, OneEachStep, Zenon DEF Typed
<1>2. CASE Typed /\ UNCHANGED vars
  BY <1>2, Zenon DEF Typed, vars, page, server, PageTyped, CallsTyped, OneEach, On, Carries
<1> QED
  BY <1>1, <1>2

\* The variables of the page, its calls and the sessions keep their types, and
\* of each button's calls one is under way: the disabled attributes hold.
THEOREM TypeCorrect == Spec => []TypeOK
<1>1. Typed => TypeOK
  BY Parts, Zenon DEF Typed, CallsTyped
<1> QED
  BY TypedInit, TypedStep, <1>1, PTL DEF Spec

(***************************************************************************)
(* A supplemental result fits the page.                                    *)
(***************************************************************************)
\* A page that was left shows nothing.
Left == ~mounted => supplement = None /\ session = None

\* Running an assisted analysis clears the last supplement, no other analysis
\* is under way beside a supplement that did not meet one, and the text of an
\* analysis that met no edit is that of the box.
Fits ==
  /\ UnderWay("assisted") => supplement = None
  /\ "edit" \notin crossed => \A k \in Slots : On(k, "assisted") => call[k].text = text
  /\ supplement # None /\ "analysis" \notin crossed => ~UnderWay("analyze")
  /\ SupplementFits

LEMMA LeftStep ==
  ASSUME Left, Next
  PROVE  Left'
<1>1. CASE Leave
  <2>1. Blank
    BY <1>1, Zenon DEF Leave
  <2> QED
    BY <2>1, Clears DEF Left
<1>2. ASSUME NEW k \in Slots, Mount(k)
      PROVE  Left'
  <2>1. mounted' = TRUE
    BY <1>2, Zenon DEF Mount
  <2> QED
    BY <2>1 DEF Left
<1>3. ASSUME UNCHANGED mounted, UNCHANGED page
      PROVE  Left'
  BY <1>3 DEF Left, page
<1>4. ASSUME mounted, UNCHANGED <<mounted, stray>>
      PROVE  Left'
  BY <1>4 DEF Left
<1>5. ASSUME \/ \E k \in Slots : Serve(k) \/ Lose(k)
             \/ \E t \in Tokens : SessionEnds(t)
             \/ CookieExpires
             \/ \E ps \in SUBSET Profiles : Offer(ps)
      PROVE  UNCHANGED page
  BY <1>5, Zenon DEF Serve, Lose, SessionEnds, CookieExpires, Offer
<1>6. ASSUME NEW k \in Slots, StrayArrives(k)
      PROVE  UNCHANGED page /\ UNCHANGED mounted
  BY <1>6, Zenon DEF StrayArrives
<1>7. UNCHANGED <<mounted, stray>> => UNCHANGED mounted
  OBVIOUS
<1> QED
  BY <1>1, <1>2, <1>3, <1>4, <1>5, <1>6, <1>7, Zenon DEF Next

\* What Crosses says of a step after which e was not met.
LEMMA NotCrossed ==
  ASSUME Crosses, NEW e \in Crossings, e \notin crossed',
         UnderWay("assisted")' \/ supplement' # None
  PROVE  /\ UnderWay("assisted") => e \notin Met /\ e \notin crossed
         /\ e \in crossed => UnderWay("assisted")' /\ ~UnderWay("assisted")
<1>1. CASE UnderWay("assisted")
  BY <1>1 DEF Crosses
<1>2. CASE ~UnderWay("assisted") /\ ~UnderWay("assisted")'
  BY <1>2 DEF Crosses
<1>3. CASE ~UnderWay("assisted") /\ UnderWay("assisted")'
  BY <1>3
<1> QED
  BY <1>1, <1>2, <1>3

\* What an analysis meets, one by one.
LEMMA Meets ==
  /\ "analysis" \notin Met => ~UnderWay("analyze") /\ ~UnderWay("analyze")'
  /\ "edit" \notin Met => text' = text
  /\ "end" \notin Met => session' # None
BY DEF Met, Crossings

\* A step that starts no assisted analysis, and either clears the supplement or
\* leaves it and its surroundings alone.
LEMMA FitsStay ==
  ASSUME Fits, Crosses, PageTyped, UNCHANGED text,
         \A k \in Slots : On(k, "assisted")' =>
           On(k, "assisted") /\ call'[k].text = call[k].text,
         \/ supplement' = None
         \/ /\ UNCHANGED <<supplement, result>>
            /\ session # None => session' # None
            /\ \A k \in Slots : On(k, "analyze")' => On(k, "analyze")
  PROVE  Fits'
<1>1. /\ UnderWay("assisted")' => UnderWay("assisted")
      /\ UnderWay("assisted")' <=> \E k \in Slots : On(k, "assisted")'
  BY OnUnderWay DEF UnderWay, On
<1>2. UnderWay("assisted")' => supplement' = None
  BY <1>1 DEF Fits
<1>3. ASSUME "edit" \notin crossed', NEW k \in Slots, On(k, "assisted")'
      PROVE  call'[k].text = text'
  <2>1. UnderWay("assisted") /\ UnderWay("assisted")'
    BY <1>1, <1>3
  <2>2. "edit" \notin crossed
    BY <1>3, <2>1, NotCrossed DEF Crossings
  <2> QED
    BY <1>3, <2>2 DEF Fits
<1>4. ASSUME supplement' # None
      PROVE  /\ "analysis" \notin crossed' => ~UnderWay("analyze")'
             /\ SupplementFits'
  <2>1. supplement' = supplement /\ result' = result
        /\ (session # None => session' # None)
        /\ \A k \in Slots : On(k, "analyze")' => On(k, "analyze")
    BY <1>4
  <2>2. ~UnderWay("assisted") /\ ~UnderWay("assisted")'
    BY <1>1, <1>4, <2>1 DEF Fits
  <2>3. \A e \in Crossings : e \notin crossed' => e \notin crossed
    BY <1>4, <2>2, NotCrossed
  <2>4. "analysis" \notin crossed' => ~UnderWay("analyze")'
    BY <1>4, <2>1, <2>3 DEF Fits, UnderWay, On, Crossings
  <2> QED
    BY <1>4, <2>1, <2>3, <2>4 DEF Fits, SupplementFits, Crossings
<1>5. supplement' = None => SupplementFits'
  BY DEF SupplementFits
<1> QED
  BY <1>2, <1>3, <1>4, <1>5 DEF Fits

\* After a change of the page alone, or of calls that are not analyses.
LEMMA SameAnalyses ==
  ASSUME Typed, PageTyped', Next, NEW k \in Slots,
         \/ UNCHANGED <<call, stray, mounted>>
         \/ Ends(k)
         \/ \E c : Marks(k, c)
         \/ \E c : TurnsTo(k, c)
         \/ \E c : Starts(k, c) /\ c.op \notin {"analyze", "assisted"}
         \/ StrayArrives(k)
  PROVE  \A j \in Slots :
           /\ On(j, "assisted")' => On(j, "assisted") /\ call'[j].text = call[j].text
           /\ On(j, "analyze")' => On(j, "analyze")
<1> USE DEF Typed
<1>1. CASE UNCHANGED <<call, stray, mounted>>
  BY <1>1 DEF On
<1>2. CASE Ends(k)
  BY <1>2, EndsCalls DEF Others
<1>3. ASSUME NEW c, Marks(k, c)
      PROVE  \A j \in Slots :
               /\ On(j, "assisted")' => On(j, "assisted") /\ call'[j].text = call[j].text
               /\ On(j, "analyze")' => On(j, "analyze")
  <2>1. c.text = call[k].text
    BY <1>3 DEF Marks
  <2> QED
    BY <1>3, <2>1, MarksCalls DEF Others
<1>4. ASSUME NEW c, TurnsTo(k, c)
      PROVE  \A j \in Slots :
               /\ On(j, "assisted")' => On(j, "assisted") /\ call'[j].text = call[j].text
               /\ On(j, "analyze")' => On(j, "analyze")
  BY <1>4, TurnsCalls DEF Others
<1>5. ASSUME NEW c, Starts(k, c) /\ c.op \notin {"analyze", "assisted"}
      PROVE  \A j \in Slots :
               /\ On(j, "assisted")' => On(j, "assisted") /\ call'[j].text = call[j].text
               /\ On(j, "analyze")' => On(j, "analyze")
  BY <1>5, StartsCalls DEF Others
<1>6. CASE StrayArrives(k)
  <2>1. k \in stray /\ \A j \in Slots \ {k} : call'[j] = call[j]
    BY <1>6 DEF StrayArrives, Done, CallsTyped
  <2>2. \A op : ~On(k, op)
    BY <2>1 DEF On
  <2> QED
    BY <1>6, <2>1, <2>2, StrayCalls
<1> QED
  BY <1>1, <1>2, <1>3, <1>4, <1>5, <1>6, Zenon

LEMMA FitsTypes ==
  ASSUME Typed, Fits, Crosses, NEW t \in Texts, Type(t), UNCHANGED <<mounted, stray>>
  PROVE  Fits'
<1>1. supplement' = None /\ text' # text /\ UNCHANGED call
  BY DEF Type, ClearSupplemental
<1>2. UnderWay("assisted")' <=> UnderWay("assisted")
  BY <1>1 DEF UnderWay
<1>3. \A k \in Slots : On(k, "assisted")' => UnderWay("assisted")
  BY <1>1 DEF UnderWay, On
<1>4. "edit" \notin crossed' => ~UnderWay("assisted")
  BY <1>1, <1>2, NotCrossed, Meets DEF Crossings
<1> QED
  BY <1>1, <1>2, <1>3, <1>4 DEF Fits, SupplementFits

LEMMA FitsRuns ==
  ASSUME Typed, Fits, NEW k \in Slots, RunAssisted(k), mounted, UNCHANGED <<mounted, stray>>
  PROVE  Fits'
<1> DEFINE c == [Sent("assisted") EXCEPT !.text = text, !.profile = active,
                                         !.csrf = session]
<1>1. Starts(k, c) /\ c.op = "assisted" /\ c.text = text /\ ~UnderWay("assisted")
  BY RunAssistedStarts DEF Typed
<1>2. supplement' = None /\ text' = text
  BY DEF RunAssisted
<1> HIDE DEF c
<1>3. /\ call'[k] = c
      /\ \A j \in Slots \ {k} : On(j, "assisted")' <=> On(j, "assisted")
  BY <1>1, StartsCalls DEF Typed
<1>4. \A j \in Slots : On(j, "assisted")' => call'[j].text = text'
  BY <1>1, <1>2, <1>3, OnUnderWay
<1> QED
  BY <1>2, <1>4 DEF Fits, SupplementFits

LEMMA FitsAnalysed ==
  ASSUME Typed, PageTyped', Next, Fits, Crosses, NEW k \in Slots,
         AnalysisArrives(k), UNCHANGED <<mounted, stray>>
  PROVE  Fits'
<1>1. On(k, "analyze") /\ UNCHANGED <<text, supplement, session>>
  BY ArrivesOn DEF Typed, AnalysisArrives
<1>2. Ends(k)
  BY ArrivalsEnd
<1>3. \A j \in Slots : On(j, "assisted")' => On(j, "assisted") /\ call'[j].text = call[j].text
  BY <1>2, SameAnalyses
<1>4. UnderWay("analyze")
  BY <1>1, OnUnderWay
<1>5. (\E j \in Slots : On(j, "assisted")) <=> UnderWay("assisted")
  BY OnUnderWay
<1>6. UnderWay("assisted")' <=> \E j \in Slots : On(j, "assisted")'
  BY DEF UnderWay, On
<1>7. ASSUME NEW j \in Slots, On(j, "assisted")', "edit" \notin crossed'
      PROVE  call'[j].text = text'
  <2>1. UnderWay("assisted") /\ UnderWay("assisted")'
    BY <1>3, <1>5, <1>6, <1>7
  <2>2. "edit" \notin crossed
    BY <1>7, <2>1, NotCrossed DEF Crossings
  <2> QED
    BY <1>1, <1>3, <1>7, <2>2 DEF Fits
<1>8. ASSUME supplement' # None
      PROVE  "analysis" \in crossed' /\ SupplementFits'
  <2>1. ~UnderWay("assisted") /\ ~UnderWay("assisted")'
    BY <1>1, <1>3, <1>5, <1>6, <1>8 DEF Fits
  <2>2. \A e \in Crossings : e \notin crossed' => e \notin crossed
    BY <1>8, <2>1, NotCrossed
  <2>3. "analysis" \in crossed
    BY <1>1, <1>4, <1>8 DEF Fits
  <2> QED
    BY <1>1, <1>8, <2>2, <2>3 DEF Fits, SupplementFits, Crossings
<1>9. UnderWay("assisted")' => supplement' = None
  BY <1>1, <1>3, <1>5, <1>6 DEF Fits
<1>10. supplement' = None => SupplementFits'
  BY DEF SupplementFits
<1> QED
  BY <1>7, <1>8, <1>9, <1>10 DEF Fits

LEMMA FitsAssisted ==
  ASSUME Typed, PageTyped', Next, Fits, Crosses, NEW k \in Slots,
         AssistedArrives(k), UNCHANGED <<mounted, stray>>
  PROVE  Fits'
<1>1. On(k, "assisted") /\ UNCHANGED text
  BY ArrivesOn DEF Typed, AssistedArrives
<1>2. Ends(k)
  BY ArrivalsEnd
<1>3. \A j \in Slots :
        /\ On(j, "assisted")' => On(j, "assisted") /\ call'[j].text = call[j].text
        /\ On(j, "analyze")' => On(j, "analyze")
  BY <1>2, SameAnalyses
<1>4. CASE result' = call[k].text /\ supplement' = call[k].text
  <2>1. \A j \in Slots : ~On(j, "assisted")'
    <3>1. ~On(k, "assisted")'
      BY <1>2, EndsCalls DEF Typed
    <3>2. \A j \in Slots : On(j, "assisted") => j = k
      BY <1>1 DEF Typed, OneEach
    <3> QED
      BY <1>3, <3>1, <3>2
  <2>2. ~UnderWay("assisted")'
    BY <2>1 DEF UnderWay, On
  <2>3. UnderWay("assisted")
    BY <1>1, OnUnderWay
  <2>4. ASSUME supplement' # None
        PROVE  /\ "analysis" \notin crossed' => ~UnderWay("analyze")'
               /\ SupplementFits'
    <3>1. \A e \in Crossings : e \notin crossed' => e \notin Met /\ e \notin crossed
      BY <2>3, <2>4, NotCrossed
    <3>2. "edit" \notin crossed' => call[k].text = text
      BY <1>1, <3>1 DEF Fits, Crossings
    <3> QED
      BY <1>1, <1>4, <3>1, <3>2, Meets DEF SupplementFits, Crossings
  <2>5. supplement' = None => SupplementFits'
    BY DEF SupplementFits
  <2> QED
    BY <2>1, <2>2, <2>4, <2>5 DEF Fits
<1>5. CASE \/ ClearSessionState
           \/ UNCHANGED <<result, supplement, session, active, optIn>>
  BY <1>1, <1>3, <1>5, Clears, FitsStay DEF Typed
<1> QED
  BY <1>4, <1>5, Zenon DEF AssistedArrives

LEMMA FitsMounts ==
  ASSUME Typed, Left, NEW k \in Slots, Mount(k)
  PROVE  Fits'
<1>1. ~mounted /\ UNCHANGED supplement /\ supplement = None
  BY DEF Mount, Left
<1>2. \A j \in Slots, op \in Ops : ~On(j, op)
  BY <1>1 DEF Typed, CallsTyped, On
<1>3. Starts(k, Sent("restore")) /\ Sent("restore").op = "restore"
  BY MountStarts DEF Typed
<1>4. \A j \in Slots : ~On(j, "assisted")'
  BY <1>2, <1>3, StartsCalls DEF Typed, Ops
<1>5. ~UnderWay("assisted")'
  BY <1>4 DEF UnderWay, On
<1> QED
  BY <1>1, <1>4, <1>5 DEF Fits, SupplementFits
\* The steps that neither start an analysis nor show one.
LEMMA FitsOther ==
  ASSUME Typed, PageTyped', Next, Fits, Crosses, NEW k \in Slots,
         \/ UNCHANGED <<call, stray, mounted>>
         \/ Ends(k)
         \/ \E c : Marks(k, c)
         \/ \E c : TurnsTo(k, c)
         \/ \E c : Starts(k, c) /\ c.op \notin {"analyze", "assisted"}
         \/ StrayArrives(k),
         UNCHANGED text,
         \/ supplement' = None
         \/ UNCHANGED <<supplement, result>> /\ (session # None => session' # None)
  PROVE  Fits'
<1>1. \A j \in Slots :
        /\ On(j, "assisted")' => On(j, "assisted") /\ call'[j].text = call[j].text
        /\ On(j, "analyze")' => On(j, "analyze")
  BY SameAnalyses, Zenon
<1> QED
  BY <1>1, FitsStay DEF Typed

LEMMA FitsStep ==
  ASSUME Typed, PageTyped', Left, Fits, Next
  PROVE  Fits'
<1> DEFINE Quiet == /\ UNCHANGED text
                    /\ \/ supplement' = None
                       \/ /\ UNCHANGED <<supplement, result>>
                          /\ session # None => session' # None
<1>c. Crosses
  BY Zenon DEF Next
<1>q. UNCHANGED page => Quiet
  BY DEF page
<1>1. ASSUME NEW k \in Slots, Step(k), UNCHANGED <<mounted, stray>>, mounted
      PROVE  Fits'
  <2>1. CASE Analyze(k)
    <3>1. UNCHANGED <<text, session>> /\ supplement' = None
      BY <2>1 DEF Analyze, ClearSupplemental
    <3> DEFINE c == [Sent("analyze") EXCEPT !.text = text]
    <3>2. Starts(k, c) /\ c.op = "analyze"
      BY <1>1, <2>1, AnalyzeStarts DEF Typed
    <3> HIDE DEF c
    <3>3. /\ call'[k] = c /\ ~On(k, "assisted")'
          /\ \A j \in Slots \ {k} : On(j, "assisted")' <=> On(j, "assisted")
          /\ \A j \in Slots \ {k} : call'[j] = call[j]
      BY <3>2, StartsCalls DEF Typed, Others
    <3> QED
      BY <1>c, <3>1, <3>3, FitsStay DEF Typed
  <2>2. CASE RunAssisted(k)
    BY <1>1, <2>2, FitsRuns, Zenon
  <2>3. CASE Unlock(k)
    <3>1. Starts(k, Sent("unlock")) /\ Sent("unlock").op = "unlock"
      BY <1>1, <2>3, UnlockStarts, Zenon DEF Typed
    <3>2. \E c : Starts(k, c) /\ c.op \notin {"analyze", "assisted"}
      BY <3>1
    <3>3. Quiet
      BY <1>q, <2>3, Zenon DEF Unlock
    <3> QED
      BY <1>c, <3>2, <3>3, FitsOther, Zenon
  <2>4. CASE Logout(k)
    <3> DEFINE c == [Sent("logout") EXCEPT !.csrf = session]
    <3>1. Starts(k, c) /\ c.op = "logout"
      BY <1>1, <2>4, LogoutStarts, Zenon DEF Typed
    <3> HIDE DEF c
    <3>2. \E d : Starts(k, d) /\ d.op \notin {"analyze", "assisted"}
      BY <3>1
    <3>3. Quiet
      BY <1>q, <2>4, Zenon DEF Logout
    <3> QED
      BY <1>c, <3>2, <3>3, FitsOther, Zenon
  <2>5. CASE AnalysisArrives(k)
    BY <1>1, <1>c, <2>5, FitsAnalysed, Zenon
  <2>6. CASE AssistedArrives(k)
    BY <1>1, <1>c, <2>6, FitsAssisted, Zenon
  <2>7. CASE RestoreArrives(k) \/ UnlockArrives(k)
    <3>1. Ends(k) \/ \E c : TurnsTo(k, c)
      BY <1>1, <2>7, SetUpsTurnOrEnd, Zenon DEF Typed
    <3>2. Quiet
      <4>1. CASE SetUp(k, call[k].cookie) /\ Status(k) = "ok"
        <5>1. call[k].cookie # None
          BY <2>7, <4>1, ArrivesOn
             DEF Typed, RestoreArrives, UnlockArrives, Carries, On, Status
        <5> QED
          BY <4>1, <5>1 DEF SetUp
      <4>2. CASE ClearSessionState /\ UNCHANGED text
        BY <4>2, Clears
      <4> QED
        BY <2>7, <4>1, <4>2 DEF RestoreArrives, UnlockArrives
    <3> QED
      BY <1>c, <3>1, <3>2, FitsOther, Zenon
  <2>8. CASE ProfilesArrive(k) \/ LogoutArrives(k)
    <3>1. Ends(k)
      BY <1>1, <2>8, ArrivalsEnd, Zenon
    <3>2. ClearSessionState \/ UNCHANGED <<supplement, session, optIn>>
      BY <2>8, Zenon DEF ProfilesArrive, LogoutArrives
    <3>3. UNCHANGED <<text, result>>
      BY <2>8, Zenon DEF ProfilesArrive, LogoutArrives
    <3>4. Quiet
      BY <3>2, <3>3, Clears
    <3> QED
      BY <1>c, <3>1, <3>4, FitsOther, Zenon
  <2> QED
    BY <1>1, <2>1, <2>2, <2>3, <2>4, <2>5, <2>6, <2>7, <2>8, Zenon DEF Step
<1>2. ASSUME NEW t \in Texts, Type(t), UNCHANGED <<mounted, stray>>
      PROVE  Fits'
  BY <1>2, <1>c, FitsTypes, Zenon
<1>3. ASSUME \/ Consent
             \/ \E t \in Tokens : SessionEnds(t)
             \/ CookieExpires
             \/ \E ps \in SUBSET Profiles : Offer(ps),
             UNCHANGED <<mounted, stray>>
      PROVE  Fits'
  <2>1. UNCHANGED <<call, text, supplement, result, session>>
    BY <1>3, Zenon DEF Consent, SessionEnds, CookieExpires, Offer, page
  <2>2. \A k \in Slots :
          /\ On(k, "assisted")' => On(k, "assisted") /\ call'[k].text = call[k].text
          /\ On(k, "analyze")' => On(k, "analyze")
    BY <1>3, <2>1 DEF On
  <2> QED
    BY <1>c, <2>1, <2>2, FitsStay DEF Typed
<1>4. ASSUME NEW k \in Slots, Serve(k) \/ Lose(k), UNCHANGED <<mounted, stray>>
      PROVE  Fits'
  <2>1. \E c : Marks(k, c)
    BY <1>4, ServeMarks, LoseMarks, Zenon DEF Typed
  <2>2. Quiet
    BY <1>4, <1>q, Zenon DEF Serve, Lose
  <2> QED
    BY <1>c, <2>1, <2>2, FitsOther, Zenon
<1>5. ASSUME Leave
      PROVE  Fits'
  <2>1. supplement' = None /\ \A k \in Slots : ~On(k, "assisted")'
    BY <1>5, Clears, LeaveCalls DEF Leave, Typed
  <2>2. ~UnderWay("assisted")'
    BY <2>1 DEF UnderWay, On
  <2> QED
    BY <2>1, <2>2 DEF Fits, SupplementFits
<1>6. ASSUME NEW k \in Slots, Mount(k)
      PROVE  Fits'
  BY <1>6, FitsMounts, Zenon
<1>7. ASSUME NEW k \in Slots, StrayArrives(k)
      PROVE  Fits'
  <2>1. Quiet
    BY <1>7, <1>q, Zenon DEF StrayArrives
  <2> QED
    BY <1>7, <1>c, <2>1, FitsOther, Zenon
<1> QED
  BY <1>1, <1>2, <1>3, <1>4, <1>5, <1>6, <1>7, Zenon DEF Next

LEMMA FitsInv == Spec => [](Typed /\ Left /\ Fits)
<1>1. Init => Left /\ Fits
  <2> SUFFICES ASSUME Init
               PROVE  Left /\ Fits
    OBVIOUS
  <2>1. PICK k \in Slots : call = [j \in Slots |-> IF j = k THEN Sent("restore") ELSE None]
    BY DEF Init
  <2>2. Sent("restore").op = "restore"
    BY DEF Sent
  <2>3. \A j \in Slots : ~On(j, "assisted")
    BY <2>1, <2>2 DEF On
  <2>4. ~UnderWay("assisted")
    BY <2>3, OnUnderWay
  <2>5. supplement = None /\ session = None
    BY DEF Init
  <2> QED
    BY <2>3, <2>4, <2>5 DEF Fits, SupplementFits, Left
<1>2. Typed /\ Left /\ Fits /\ [Next]_vars => (Left /\ Fits)'
  <2>1. CASE Typed /\ Left /\ Fits /\ Next
    BY <2>1, PageStep, LeftStep, FitsStep, Zenon DEF Typed
  <2>2. CASE Left /\ Fits /\ UNCHANGED vars
    BY <2>2, Zenon DEF vars, page, Left, Fits, On, UnderWay, SupplementFits
  <2> QED
    BY <2>1, <2>2
<1> QED
  BY TypedInit, TypedStep, <1>1, <1>2, PTL DEF Spec

\* A supplemental result is about the text in the box and about the text of the
\* rule result beside it, in a session that is still unlocked, unless its
\* analysis met another one, an edit or the end of the session.
THEOREM SupplementAlwaysFits == Spec => []SupplementFits
<1>1. Fits => SupplementFits
  BY DEF Fits
<1> QED
  BY FitsInv, <1>1, PTL
(***************************************************************************)
(* The session of the page is that of the cookie, and a consent is for     *)
(* what a click would send.                                                *)
(***************************************************************************)
\* The call of slot k sets a session up.
SetsUp(k) == On(k, "restore") \/ On(k, "unlock") \/ On(k, "profiles")

\* The browser's cookie is that of session t, or has gone after its end.
Held(t) == cookie = t \/ (cookie = None /\ t \notin live)

\* One session at a time is set up, with the cookie of the browser, before the
\* page has one or, for its profiles, before it has an active profile.
OneSession ==
  /\ stray = {}
  /\ \A j, k \in Slots : SetsUp(j) /\ SetsUp(k) => j = k
  /\ \A k \in Slots :
       /\ On(k, "restore") \/ On(k, "unlock") => session = None
       /\ On(k, "restore") => Held(call[k].cookie)
       /\ On(k, "restore") => \A j \in Slots : ~On(j, "logout")
       /\ On(k, "profiles") => active = None /\ ~optIn
  /\ session # None => Held(session)
  /\ session # None /\ optIn /\ active # None => consented.profile = active

Clean == ~mixed => OneSession

LEMMA OnSettingUp == SettingUp <=> \E k \in Slots : SetsUp(k)
BY DEF SettingUp, UnderWay, On, SetsUp

\* What Mixes says of a step after which nothing is mixed.
LEMMA NotMixed ==
  ASSUME Mixes, PageTyped, ~mixed'
  PROVE  /\ stray' = {}
         /\ \/ session' = None /\ \A k \in Slots : ~SetsUp(k)'
            \/ ~mixed /\ (session = None /\ SettingUp => \A k \in Slots : ~Unlock(k))
<1>1. SettingUp' <=> \E k \in Slots : SetsUp(k)'
  BY DEF SettingUp, UnderWay, On, SetsUp
<1> QED
  BY <1>1 DEF Mixes, PageTyped

LEMMA NoSession ==
  ASSUME stray' = {}, session' = None, \A k \in Slots : ~SetsUp(k)'
  PROVE  OneSession'
BY DEF OneSession, SetsUp

\* A session that was held is held, unless it is a new one.
Holds == \A t : Held(t) /\ ~Fresh(t) => Held(t)'

LEMMA HoldsSame ==
  ASSUME UNCHANGED <<cookie, live>>
  PROVE  Holds
BY DEF Holds, Held

\* A step that sets no session up and loses none of the browser's, and either
\* ends the session or leaves it and the consent alone.
LEMMA OneSessionStays ==
  ASSUME OneSession, Holds, UNCHANGED stray,
         \A k \in Slots :
           /\ On(k, "restore")' => On(k, "restore") /\ call'[k].cookie = call[k].cookie
           /\ On(k, "unlock")' => On(k, "unlock")
           /\ On(k, "profiles")' => On(k, "profiles")
           /\ On(k, "logout")' => On(k, "logout") \/ session # None,
         \/ session' = None /\ active' = None /\ ~optIn'
         \/ UNCHANGED session /\ UNCHANGED active /\ ~optIn'
         \/ UNCHANGED <<session, active, optIn, consented>>
  PROVE  OneSession'
<1>1. \A k \in Slots : SetsUp(k)' => SetsUp(k)
  BY DEF SetsUp
<1>2. \A j, k \in Slots : SetsUp(j)' /\ SetsUp(k)' => j = k
  BY <1>1 DEF OneSession
<1>3. ASSUME NEW k \in Slots
      PROVE  /\ (On(k, "restore") \/ On(k, "unlock"))' => session' = None
             /\ On(k, "restore")' => Held(call[k].cookie)'
             /\ On(k, "restore")' => \A j \in Slots : ~On(j, "logout")'
             /\ On(k, "profiles")' => active' = None /\ ~optIn'
  <2>1. On(k, "restore")' => Held(call[k].cookie)'
    <3>1. On(k, "restore") => Held(call[k].cookie) /\ ~Fresh(call[k].cookie)
      BY DEF OneSession, Fresh, On
    <3> QED
      BY <3>1 DEF Holds, Held
  <2>2. /\ (On(k, "restore") \/ On(k, "unlock"))' => session' = None
        /\ On(k, "restore")' => \A j \in Slots : ~On(j, "logout")'
    BY DEF OneSession
  <2>3. On(k, "profiles")' => active' = None /\ ~optIn'
    BY DEF OneSession
  <2> QED
    BY <2>1, <2>2, <2>3
<1>4. session' # None => Held(session)'
  <2>1. session # None => Held(session) /\ ~Fresh(session)
    BY DEF OneSession, Fresh
  <2> QED
    BY <2>1 DEF Holds, Held
<1>5. session' # None /\ optIn' /\ active' # None => consented'.profile = active'
  BY DEF OneSession
<1> QED
  BY <1>2, <1>3, <1>4, <1>5 DEF OneSession

\* What the other steps do to the calls that set a session up.
LEMMA SameSetUp ==
  ASSUME Typed, PageTyped', Next, NEW k \in Slots,
         \/ UNCHANGED <<call, stray, mounted>>
         \/ Ends(k)
         \/ \E c : Marks(k, c)
         \/ \E c : Starts(k, c) /\ c.op \in {"analyze", "assisted"}
         \/ \E c : Starts(k, c) /\ c.op = "logout" /\ session # None
  PROVE  /\ UNCHANGED stray
         /\ \A j \in Slots :
              /\ On(j, "restore")' => On(j, "restore") /\ call'[j].cookie = call[j].cookie
              /\ On(j, "unlock")' => On(j, "unlock")
              /\ On(j, "profiles")' => On(j, "profiles")
              /\ On(j, "logout")' => On(j, "logout") \/ session # None
<1> DEFINE Same == /\ UNCHANGED stray
                   /\ \A j \in Slots :
                        /\ On(j, "restore")' =>
                             On(j, "restore") /\ call'[j].cookie = call[j].cookie
                        /\ On(j, "unlock")' => On(j, "unlock")
                        /\ On(j, "profiles")' => On(j, "profiles")
                        /\ On(j, "logout")' => On(j, "logout") \/ session # None
<1>1. CASE UNCHANGED <<call, stray, mounted>>
  BY <1>1 DEF On
<1>2. CASE Ends(k)
  BY <1>2, EndsCalls DEF Typed, Others, Ends
<1>3. ASSUME NEW c, Marks(k, c)
      PROVE  Same
  <2>1. /\ UNCHANGED stray
        /\ On(k, "restore") => c.cookie = call[k].cookie
    BY <1>3 DEF Marks, On
  <2> QED
    BY <1>3, <2>1, MarksCalls DEF Typed, Others
<1>4. ASSUME NEW c, Starts(k, c),
             \/ c.op \in {"analyze", "assisted"}
             \/ c.op = "logout" /\ session # None
      PROVE  Same
  <2>1. UNCHANGED stray
    BY <1>4 DEF Starts
  <2> QED
    BY <1>4, <2>1, StartsCalls DEF Typed, Others
<1> HIDE DEF Same
<1>5. Same
  BY <1>1, <1>2, <1>3, <1>4, Zenon DEF Same
<1> QED
  BY <1>5 DEF Same
\* A session is asked for while there is none, and no other is on its way.
LEMMA SessionAsked ==
  ASSUME Typed, OneSession, NEW k \in Slots, NEW c, Starts(k, c),
         \/ c.op = "unlock"
         \/ /\ c.op = "restore" /\ c.cookie = cookie
            /\ \A j \in Slots : ~On(j, "logout"),
         session = None, \A j \in Slots : ~SetsUp(j),
         UNCHANGED <<session, cookie, live>>
  PROVE  OneSession'
<1>1. /\ UNCHANGED stray
      /\ call'[k] = c
      /\ \A op : On(k, op)' <=> c.op = op
      /\ \A j \in Slots \ {k} : \A op : On(j, op)' <=> On(j, op)
  BY StartsCalls DEF Typed, Starts
<1>2. \A j \in Slots \ {k} : ~On(j, "restore")' /\ ~On(j, "unlock")' /\ ~On(j, "profiles")'
  BY <1>1 DEF SetsUp
<1>3. \A j \in Slots : SetsUp(j)' => j = k
  BY <1>2 DEF SetsUp
<1>4. ASSUME NEW i \in Slots
      PROVE  /\ (On(i, "restore") \/ On(i, "unlock"))' => session' = None
             /\ On(i, "restore")' => Held(call[i].cookie)'
             /\ On(i, "restore")' => \A j \in Slots : ~On(j, "logout")'
             /\ On(i, "profiles")' => active' = None /\ ~optIn'
  <2>1. On(i, "restore")' => i = k /\ c.op = "restore"
    BY <1>1, <1>2
  <2>2. ~On(i, "profiles")'
    BY <1>1, <1>2
  <2>3. c.op = "restore" => \A j \in Slots : ~On(j, "logout")'
    BY <1>1
  <2>4. On(i, "restore")' => Held(call[i].cookie)'
    BY <1>1, <2>1 DEF Held
  <2> QED
    BY <1>1, <2>1, <2>2, <2>3, <2>4
<1> QED
  BY <1>1, <1>3, <1>4 DEF OneSession

\* A session arrives, and its profiles are asked for.
LEMMA SessionArrives ==
  ASSUME Typed, PageTyped', OneSession, NEW k \in Slots,
         RestoreArrives(k) \/ UnlockArrives(k), SetUp(k, call[k].cookie),
         cookie' = call[k].cookie \/ (RestoreArrives(k) /\ UNCHANGED cookie),
         UNCHANGED <<mounted, stray>>
  PROVE  OneSession'
<1>1. On(k, "restore") \/ On(k, "unlock")
  BY ArrivesOn, Zenon DEF Typed, RestoreArrives, UnlockArrives
<1>2. PICK c : TurnsTo(k, c) /\ c.op = "profiles"
  BY <1>1, SetUpTurns DEF Typed
<1>3. /\ \A op : On(k, op)' <=> op = "profiles"
      /\ \A j \in Slots \ {k} : \A op : On(j, op)' <=> On(j, op)
  BY <1>2, TurnsCalls DEF Typed
<1>4. \A j \in Slots \ {k} : ~SetsUp(j)
  BY <1>1 DEF OneSession, SetsUp
<1>5. \A j \in Slots : SetsUp(j)' => j = k
  BY <1>3, <1>4 DEF SetsUp
<1>6. /\ session' = call[k].cookie /\ active' = None /\ live' = live
      /\ ~optIn /\ optIn' = optIn
  BY <1>1 DEF SetUp, OneSession, Typed, PageTyped
<1>8. Held(session)'
  <2>1. CASE cookie' = call[k].cookie
    BY <1>6, <2>1 DEF Held
  <2>2. CASE RestoreArrives(k) /\ UNCHANGED cookie
    <3>1. Held(call[k].cookie)
      BY <2>2, ArrivesOn DEF Typed, RestoreArrives, OneSession
    <3> QED
      BY <1>6, <2>2, <3>1 DEF Held
  <2> QED
    BY <2>1, <2>2
<1>7. \A j \in Slots : ~On(j, "restore")' /\ ~On(j, "unlock")'
  BY <1>3, <1>4 DEF SetsUp
<1> QED
  BY <1>5, <1>6, <1>7, <1>8 DEF OneSession

LEMMA LogoutAnswered ==
  ASSUME Typed, PageTyped', Next, OneSession, NEW k \in Slots,
         LogoutArrives(k), UNCHANGED <<mounted, stray>>
  PROVE  OneSession'
<1>1. Ends(k)
  BY ArrivalsEnd, Zenon
<1>2. \A j \in Slots :
        /\ On(j, "restore")' => On(j, "restore") /\ call'[j].cookie = call[j].cookie
        /\ On(j, "unlock")' => On(j, "unlock")
        /\ On(j, "profiles")' => On(j, "profiles")
        /\ On(j, "logout")' => On(j, "logout") \/ session # None
  BY <1>1, SameSetUp, Zenon
<1>3. CASE Status(k) = "ok"
  <2>1. /\ session' = None /\ active' = None /\ ~optIn'
    BY <1>3, Clears DEF LogoutArrives
  <2>2. On(k, "logout")
    BY ArrivesOn, Zenon DEF Typed, LogoutArrives
  <2>3. \A j \in Slots : ~On(j, "restore")'
    BY <1>2, <2>2 DEF OneSession
  <2>4. \A j, i \in Slots : SetsUp(j)' /\ SetsUp(i)' => j = i
    BY <1>2 DEF OneSession, SetsUp
  <2> QED
    BY <2>1, <2>3, <2>4 DEF OneSession
<1>4. CASE Status(k) # "ok"
  <2>1. UNCHANGED <<stray, cookie, live, consented>>
    BY <1>4 DEF LogoutArrives
  <2>2. ClearSessionState \/ UNCHANGED <<session, active, optIn>>
    BY Zenon DEF LogoutArrives
  <2> QED
    BY <1>2, <2>1, <2>2, Clears, HoldsSame, OneSessionStays
<1> QED
  BY <1>3, <1>4

LEMMA ProfilesAnswered ==
  ASSUME Typed, PageTyped', Next, OneSession, NEW k \in Slots,
         ProfilesArrive(k), UNCHANGED <<mounted, stray>>
  PROVE  OneSession'
<1>1. Ends(k) /\ On(k, "profiles") /\ UNCHANGED <<cookie, live>>
  BY ArrivalsEnd, ArrivesOn, Zenon DEF Typed, ProfilesArrive, server
<1>2. /\ \A op : ~On(k, op)'
      /\ \A j \in Slots \ {k} : \A op : On(j, op)' <=> On(j, op)
  BY <1>1, EndsCalls DEF Typed
<1>3. \A j \in Slots : ~On(j, "restore")' /\ ~On(j, "unlock")' /\ ~On(j, "profiles")'
  BY <1>1, <1>2 DEF OneSession, SetsUp
<1>4. ClearSessionState \/ UNCHANGED <<session, optIn>>
  BY Zenon DEF ProfilesArrive
<1>5. ~optIn
  BY <1>1 DEF OneSession
<1>6. ~optIn' /\ (session' = None \/ session' = session)
  BY <1>4, <1>5, Clears
<1>7. session' # None => Held(session)'
  BY <1>1, <1>6 DEF OneSession, Held
<1> QED
  BY <1>1, <1>3, <1>6, <1>7 DEF OneSession, SetsUp
LEMMA CleanPageStep ==
  ASSUME Typed, PageTyped', Next, OneSession, NEW k \in Slots, Step(k), mounted,
         UNCHANGED <<mounted, stray>>,
         session = None /\ SettingUp => ~Unlock(k)
  PROVE  OneSession'
<1>1. CASE Analyze(k)
  <2> DEFINE c == [Sent("analyze") EXCEPT !.text = text]
  <2>1. Starts(k, c) /\ c.op = "analyze"
    BY <1>1, AnalyzeStarts DEF Typed
  <2> HIDE DEF c
  <2>2. \E d : Starts(k, d) /\ d.op \in {"analyze", "assisted"}
    BY <2>1
  <2>3. UNCHANGED <<session, active, cookie, live>> /\ ~optIn'
    BY <1>1, Zenon DEF Analyze, ClearSupplemental, server
  <2> QED
    BY <2>2, <2>3, SameSetUp, HoldsSame, OneSessionStays
<1>2. CASE RunAssisted(k)
  <2> DEFINE c == [Sent("assisted") EXCEPT !.text = text, !.profile = active,
                                           !.csrf = session]
  <2>1. Starts(k, c) /\ c.op = "assisted"
    BY <1>2, RunAssistedStarts DEF Typed
  <2> HIDE DEF c
  <2>2. \E d : Starts(k, d) /\ d.op \in {"analyze", "assisted"}
    BY <2>1
  <2>3. UNCHANGED <<session, active, optIn, consented, cookie, live>>
    BY <1>2, Zenon DEF RunAssisted, server
  <2> QED
    BY <2>2, <2>3, SameSetUp, HoldsSame, OneSessionStays
<1>3. CASE Unlock(k)
  <2>1. Starts(k, Sent("unlock")) /\ Sent("unlock").op = "unlock"
    BY <1>3, UnlockStarts, Zenon DEF Typed
  <2>2. session = None /\ UNCHANGED <<session, cookie, live>>
    BY <1>3, Zenon DEF Unlock, page, server
  <2>3. \A j \in Slots : ~SetsUp(j)
    BY <1>3, <2>2, OnSettingUp
  <2> QED
    BY <2>1, <2>2, <2>3, SessionAsked
<1>4. CASE Logout(k)
  <2> DEFINE c == [Sent("logout") EXCEPT !.csrf = session]
  <2>1. Starts(k, c) /\ c.op = "logout"
    BY <1>4, LogoutStarts DEF Typed
  <2> HIDE DEF c
  <2>2. session # None
    BY <1>4 DEF Logout, Unlocked
  <2>3. \E d : Starts(k, d) /\ d.op = "logout" /\ session # None
    BY <2>1, <2>2
  <2>4. UNCHANGED <<session, active, optIn, consented, cookie, live>>
    BY <1>4, Zenon DEF Logout, page, server
  <2> QED
    BY <2>3, <2>4, SameSetUp, HoldsSame, OneSessionStays
<1>5. CASE AnalysisArrives(k)
  <2>1. UNCHANGED <<session, active, optIn, consented, cookie, live>>
    BY <1>5, Zenon DEF AnalysisArrives, server
  <2> QED
    BY <1>5, <2>1, ArrivalsEnd, SameSetUp, HoldsSame, OneSessionStays
<1>6. CASE AssistedArrives(k)
  <2>1. ClearSessionState \/ UNCHANGED <<session, active, optIn>>
    BY <1>6, Zenon DEF AssistedArrives
  <2>2. UNCHANGED <<consented, cookie, live>>
    BY <1>6, Zenon DEF AssistedArrives, server
  <2> QED
    BY <1>6, <2>1, <2>2, Clears, ArrivalsEnd, SameSetUp, HoldsSame, OneSessionStays
<1>7. CASE RestoreArrives(k) \/ UnlockArrives(k)
  <2>1. CASE SetUp(k, call[k].cookie) /\ cookie' = call[k].cookie
    BY <1>7, <2>1, SessionArrives
  <2>2. CASE RestoreArrives(k) /\ UNCHANGED cookie /\ SetUp(k, call[k].cookie)
    BY <2>2, SessionArrives
  <2>3. CASE Done(k) /\ ClearSessionState /\ UNCHANGED server
    <3>1. Ends(k)
      BY <1>7, <2>3, ArrivesOn, Zenon DEF Typed, RestoreArrives, UnlockArrives, Ends
    <3>2. UNCHANGED <<cookie, live>>
      BY <2>3 DEF server
    <3> QED
      BY <2>3, <3>1, <3>2, Clears, SameSetUp, HoldsSame, OneSessionStays
  <2>4. RestoreArrives(k) \/ UnlockArrives(k) =>
          \/ SetUp(k, call[k].cookie) /\ cookie' = call[k].cookie
          \/ RestoreArrives(k) /\ UNCHANGED cookie /\ SetUp(k, call[k].cookie)
          \/ Done(k) /\ ClearSessionState /\ UNCHANGED server
    <3>1. UNCHANGED <<text, result, server, consented>> => UNCHANGED server
      OBVIOUS
    <3> QED
      BY <3>1, Zenon DEF RestoreArrives, UnlockArrives
  <2> QED
    BY <1>7, <2>1, <2>2, <2>3, <2>4
<1>8. CASE ProfilesArrive(k)
  BY <1>8, ProfilesAnswered
<1>9. CASE LogoutArrives(k)
  BY <1>9, LogoutAnswered
<1> QED
  BY <1>1, <1>2, <1>3, <1>4, <1>5, <1>6, <1>7, <1>8, <1>9, Zenon DEF Step

LEMMA CleanStep ==
  ASSUME Typed, PageTyped', Left, Clean, Next
  PROVE  Clean'
<1> SUFFICES ASSUME ~mixed'
             PROVE  OneSession'
  BY DEF Clean
<1>0. Mixes
  BY Zenon DEF Next
<1>a. CASE session' = None /\ \A k \in Slots : ~SetsUp(k)'
  <2>1. stray' = {}
    BY <1>0, NotMixed DEF Typed
  <2> QED
    BY <1>a, <2>1, NoSession
<1>b. CASE ~mixed /\ (session = None /\ SettingUp => \A k \in Slots : ~Unlock(k))
  <2>0. OneSession
    BY <1>b DEF Clean
  <2>1. ASSUME NEW k \in Slots, Step(k), UNCHANGED <<mounted, stray>>, mounted
        PROVE  OneSession'
    <3>1. session = None /\ SettingUp => ~Unlock(k)
      BY <1>b
    <3> QED
      BY <2>0, <2>1, <3>1, CleanPageStep, Zenon
  <2>2. ASSUME NEW t \in Texts, Type(t), UNCHANGED <<mounted, stray>>
        PROVE  OneSession'
    <3>1. /\ UNCHANGED <<session, active, cookie, live>> /\ ~optIn'
          /\ UNCHANGED <<call, stray, mounted>>
      BY <2>2, Zenon DEF Type, ClearSupplemental, server
    <3> QED
      BY <2>0, <3>1, HoldsSame, OneSessionStays DEF On
  <2>3. ASSUME Consent, UNCHANGED <<mounted, stray>>
        PROVE  OneSession'
    <3>1. /\ session # None /\ active # None
          /\ UNCHANGED <<session, active, cookie, live>>
          /\ UNCHANGED <<call, stray>>
          /\ optIn' => consented' = [text |-> text, profile |-> active]
      BY <2>3 DEF Consent, Unlocked, server
    <3>2. \A k \in Slots : \A op : On(k, op)' <=> On(k, op)
      BY <3>1 DEF On
    <3> QED
      BY <2>0, <3>1, <3>2 DEF OneSession, SetsUp, Held
  <2>4. ASSUME \/ \E t \in Tokens : SessionEnds(t)
               \/ CookieExpires
               \/ \E ps \in SUBSET Profiles : Offer(ps),
               UNCHANGED <<mounted, stray>>
        PROVE  OneSession'
    <3>1. /\ UNCHANGED <<session, active, optIn, consented>>
          /\ UNCHANGED <<call, stray, mounted>>
      BY <2>4, Zenon DEF SessionEnds, CookieExpires, Offer, page
    <3>2. \/ cookie' = cookie /\ live' \subseteq live
          \/ cookie \notin live /\ cookie' = None /\ live' = live
      BY <2>4 DEF SessionEnds, CookieExpires, Offer
    <3>3. Holds
      BY <3>2 DEF Holds, Held
    <3> QED
      BY <2>0, <3>1, <3>3, OneSessionStays DEF On
  <2>5. ASSUME NEW k \in Slots, Serve(k) \/ Lose(k), UNCHANGED <<mounted, stray>>
        PROVE  OneSession'
    <3>1. \E c : Marks(k, c)
      BY <2>5, ServeMarks, LoseMarks, Zenon DEF Typed
    <3>2. UNCHANGED <<session, active, optIn, consented, cookie>>
      BY <2>5, Zenon DEF Serve, Lose, page, server
    <3>3. \A t \in live' \ live : Fresh(t)
      BY <2>5 DEF Serve, ServeAnalysis, Reject, Accept, Exchange, NotFound, Lose, server
    <3>4. Holds
      BY <3>2, <3>3 DEF Holds, Held
    <3> QED
      BY <2>0, <3>1, <3>2, <3>4, SameSetUp, OneSessionStays
  <2>6. ASSUME Leave
        PROVE  OneSession'
    <3>1. session' = None /\ \A k \in Slots : ~SetsUp(k)'
      BY <2>6, Clears, LeaveCalls DEF Leave, Typed, SetsUp
    <3> QED
      BY <1>a, <3>1
  <2>7. ASSUME NEW k \in Slots, Mount(k)
        PROVE  OneSession'
    <3>1. /\ Starts(k, Sent("restore"))
          /\ Sent("restore").op = "restore" /\ Sent("restore").cookie = cookie
      BY <2>7, MountStarts, Zenon DEF Typed
    <3>2. ~mounted /\ UNCHANGED <<session, cookie, live>> /\ session = None
      BY <2>7 DEF Mount, Left, server
    <3>3. \A j \in Slots : \A op : ~On(j, op)
      BY <3>2 DEF Typed, CallsTyped, On
    <3>4. \A j \in Slots : ~SetsUp(j)
      BY <3>3 DEF SetsUp
    <3> QED
      BY <2>0, <3>1, <3>2, <3>3, <3>4, SessionAsked
  <2>8. ASSUME NEW k \in Slots, StrayArrives(k)
        PROVE  OneSession'
    BY <2>0, <2>8 DEF StrayArrives, OneSession
  <2> QED
    BY <2>1, <2>2, <2>3, <2>4, <2>5, <2>6, <2>7, <2>8, Zenon DEF Next
<1> QED
  BY <1>0, <1>a, <1>b, NotMixed DEF Typed

LEMMA CleanInv == Spec => []Clean
<1>1. Init => Clean
  <2> SUFFICES ASSUME Init
               PROVE  OneSession
    BY DEF Clean
  <2>1. PICK k \in Slots : call = [j \in Slots |-> IF j = k THEN Sent("restore") ELSE None]
    BY DEF Init
  <2>2. Sent("restore").op = "restore" /\ Sent("restore").cookie = cookie
    BY DEF Sent
  <2>3. stray = {} /\ session = None
    BY DEF Init
  <2>4. \A j \in Slots :
          /\ SetsUp(j) => j = k
          /\ On(j, "restore") => call[j].cookie = cookie
          /\ ~On(j, "logout") /\ ~On(j, "profiles")
    BY <2>1, <2>2 DEF On, SetsUp
  <2> QED
    BY <2>3, <2>4 DEF OneSession, Held
<1>2. Typed /\ Left /\ Clean /\ [Next]_vars => Clean'
  <2>1. CASE Typed /\ Left /\ Clean /\ Next
    BY <2>1, PageStep, CleanStep, Zenon DEF Typed
  <2>2. CASE Clean /\ UNCHANGED vars
    <3>1. /\ UNCHANGED <<session, active, optIn, consented, cookie, live>>
          /\ UNCHANGED <<call, stray>> /\ UNCHANGED mixed
      BY <2>2, Zenon DEF vars, page, server
    <3> QED
      BY <2>2, <3>1, HoldsSame, OneSessionStays DEF Clean, On
  <2> QED
    BY <2>1, <2>2
<1> QED
  BY FitsInv, <1>1, <1>2, PTL DEF Spec

\* A page that kept out of the overlaps of two sessions never presents the CSRF
\* token of a session that is not the cookie's: unlocking, restoring, expiry and
\* logout keep the two together, whatever ends first.
THEOREM SessionKept == Spec => []SessionIsTheCookies
<1>1. Clean => SessionIsTheCookies
  BY DEF Clean, OneSession, Held, SessionIsTheCookies
<1> QED
  BY CleanInv, <1>1, PTL

\* The consent is for the text in the box.
ConsentedText == optIn => consented # None /\ consented.text = text

LEMMA ConsentedStep ==
  ASSUME Typed, Left, ConsentedText, Next
  PROVE  ConsentedText'
<1>1. \/ ~optIn'
      \/ UNCHANGED <<optIn, consented, text>>
      \/ Consent
  <2>1. ASSUME NEW k \in Slots, Step(k)
        PROVE  ~optIn' \/ UNCHANGED <<optIn, consented, text>>
    <3>1. CASE Analyze(k) \/ RunAssisted(k) \/ Unlock(k) \/ Logout(k) \/ AnalysisArrives(k)
      BY <3>1 DEF Analyze, ClearSupplemental, RunAssisted, Unlock, Logout, AnalysisArrives, page
    <3>2. CASE AssistedArrives(k) \/ ProfilesArrive(k) \/ LogoutArrives(k)
      <4>1. ClearSessionState \/ UNCHANGED optIn
        BY <3>2, Zenon DEF AssistedArrives, ProfilesArrive, LogoutArrives
      <4>2. UNCHANGED <<text, consented>>
        BY <3>2, Zenon DEF AssistedArrives, ProfilesArrive, LogoutArrives
      <4> QED
        BY <4>1, <4>2, Clears
    <3>3. CASE RestoreArrives(k) \/ UnlockArrives(k)
      <4>1. ClearSessionState \/ UNCHANGED optIn
        BY <3>3, Zenon DEF RestoreArrives, UnlockArrives, SetUp
      <4>2. UNCHANGED <<text, consented>>
        BY <3>3, Zenon DEF RestoreArrives, UnlockArrives, SetUp
      <4> QED
        BY <4>1, <4>2, Clears
    <3> QED
      BY <2>1, <3>1, <3>2, <3>3, Zenon DEF Step
  <2>2. ASSUME NEW t \in Texts, Type(t)
        PROVE  ~optIn'
    BY <2>2 DEF Type, ClearSupplemental
  <2>3. ASSUME \/ \E k \in Slots : Serve(k) \/ Lose(k)
               \/ \E t \in Tokens : SessionEnds(t)
               \/ CookieExpires
               \/ \E ps \in SUBSET Profiles : Offer(ps)
               \/ \E k \in Slots : StrayArrives(k)
        PROVE  UNCHANGED <<optIn, consented, text>>
    <3>1. UNCHANGED page /\ UNCHANGED consented
      BY <2>3, Zenon DEF Serve, Lose, SessionEnds, CookieExpires, Offer, StrayArrives
    <3> QED
      BY <3>1 DEF page
  <2>4. Leave => ~optIn'
    BY Clears, Zenon DEF Leave
  <2>5. ASSUME NEW k \in Slots, Mount(k)
        PROVE  ~optIn'
    BY <2>5 DEF Mount, Left, Typed, PageTyped
  <2> QED
    BY <2>1, <2>2, <2>3, <2>4, <2>5, Zenon DEF Next
<1>2. CASE Consent
  <2>1. optIn' => consented' = [text |-> text, profile |-> active] /\ text' = text
    BY <1>2 DEF Consent
  <2>2. text \in Texts /\ active \in Profiles
    BY <1>2 DEF Consent, Typed, PageTyped
  <2>3. [text |-> text, profile |-> active] # None
    BY <2>2, NoneAssumption DEF Shown
  <2> QED
    BY <2>1, <2>3 DEF ConsentedText
<1> QED
  BY <1>1, <1>2 DEF ConsentedText

\* A consent is always one for the text in the box, and for the active profile
\* unless two sessions were set up at once.
THEOREM ConsentStays == Spec => []ConsentIsForWhatIsSent
<1>1. Init => ConsentedText
  BY DEF Init, ConsentedText
<1>2. Typed /\ Left /\ ConsentedText /\ [Next]_vars => ConsentedText'
  <2>1. CASE Typed /\ Left /\ ConsentedText /\ Next
    BY <2>1, ConsentedStep
  <2>2. CASE ConsentedText /\ UNCHANGED vars
    BY <2>2 DEF vars, page, ConsentedText
  <2> QED
    BY <2>1, <2>2
<1>3. Typed /\ Clean /\ ConsentedText => ConsentIsForWhatIsSent
  BY DEF Typed, PageTyped, Clean, OneSession, ConsentedText, ConsentIsForWhatIsSent
<1> QED
  BY FitsInv, CleanInv, <1>1, <1>2, <1>3, PTL DEF Spec
=============================================================================
