-------------------------- MODULE ExtensionWorker --------------------------
(***************************************************************************)
(* The service worker of the browser extension (service-worker.mjs with    *)
(* core.mjs): every click on the context menu starts an analysis that runs *)
(* to its next await, whatever analyses of earlier clicks still wait for.  *)
(* All of them write one stored state and one toolbar badge.  A write      *)
(* takes effect when it is called; what follows it runs later.  The        *)
(* browser may reject a call and may end the worker, with every analysis   *)
(* in flight, at any await.  The popup (popup.mjs) asks for the stored     *)
(* state when it is opened and renders every change while it is open.      *)
(***************************************************************************)
EXTENDS Integers

CONSTANTS
  Texts,          \* trimmed selections, told apart
  MaxCodePoints,  \* MAX_SELECTION_CODE_POINTS
  TenthScores,    \* risk scores an answer may hold, in tenths
  MaxClicks,      \* bound on the clicks
  None            \* nothing stored, no text

ASSUME ExtensionAssumption ==
  /\ MaxCodePoints \in Nat /\ MaxClicks \in Nat
  /\ TenthScores \subseteq Int
  /\ None \notin Texts

Analyses == 1..MaxClicks

\* A selection after trim(): empty, accepted or too long.
Selection == [text : Texts, codePoints : 0..(MaxCodePoints + 1)]

\* The answer to a request about text t: an HTTP status, and a body that is
\* not JSON, not an envelope, an error envelope or a result for t.
Bodies    == {"not_json", "malformed", "api_error", "result"}
Result(t) == [text : {t}, score : TenthScores]
Answer(t) == [ok : BOOLEAN, body : Bodies, result : Result(t)]

ClientErrors == {"empty_selection", "selection_too_long",
                 "backend_unreachable", "invalid_response"}
Errors == ClientErrors \cup {"api_error"}

State ==
       [status : {"loading"}, text : Texts]
  \cup [status : {"error"}, text : Texts \cup {None}, error : Errors]
  \cup [status : {"success"}, text : Texts,
        result : UNION {Result(t) : t \in Texts}]

VARIABLES
  latest,   \* chrome.storage.session[LATEST_STATE_KEY]
  badge,    \* the text of the toolbar badge
  clicks,   \* analyses started so far
  pc,       \* where each analysis waits
  text,     \* its selectedText
  mark,     \* the badge it sets last
  overtaken,\* history: an older analysis wrote after the last one had written
  popup,    \* closed, or its storage.get is asked, answered, rendered or failed
  shown,    \* what it renders: nothing yet, an older state or the latest
  snapshot, \* what its storage.get has read, while that is on the way to it
  behind,   \* changes of the stored state that are on the way to it, in order
  outrun    \* the change rendered last came before the answer

window == <<popup, shown, snapshot, behind, outrun>>
vars == <<latest, badge, clicks, pc, text, mark, overtaken, window>>

Waiting == {"mark_loading", "fetch", "mark"}
Ended   == {"done", "dropped", "killed"}

\* The badge texts: "…", "!" and a score.
Badge    == [shows : {"nothing", "loading", "error"}]
              \cup [shows : {"score"}, score : 0..100]
NoBadge  == [shows |-> "nothing"]

TypeOK ==
  /\ latest \in State \cup {None}
  /\ badge \in Badge
  /\ clicks \in 0..MaxClicks
  /\ pc \in [Analyses -> {"idle"} \cup Waiting \cup Ended]
  /\ text \in [Analyses -> Texts \cup {None}]
  /\ mark \in [Analyses -> Badge]
  /\ overtaken \in BOOLEAN
  /\ popup \in {"closed", "asked", "answered", "rendered", "failed"}
  /\ shown \in {"nothing", "older", "latest"}
  /\ snapshot \in {"nothing", "older", "latest"}
  /\ behind \in 0..(2 * MaxClicks)
  /\ outrun \in BOOLEAN

InFlight == {a \in Analyses : pc[a] \in Waiting}
Lost     == {a \in Analyses : pc[a] \in {"dropped", "killed"}}

(***************************************************************************)
(* core.mjs.                                                               *)
(***************************************************************************)
\* Math.round rounds a half up.
FormatScoreBadge(tenths) ==
  LET rounded == (tenths + 5) \div 10
  IN  IF rounded < 0 THEN 0 ELSE IF rounded > 100 THEN 100 ELSE rounded

SelectionError(s) ==
  IF s.codePoints = 0 THEN "empty_selection"
  ELSE IF s.codePoints > MaxCodePoints THEN "selection_too_long" ELSE None

ErrorState(t, error) == [status |-> "error", text |-> t, error |-> error]

\* Mutant: the text of a result is read back from the stored state.
StoredTextOutcome(t, answer) ==
  IF answer.body = "result" /\ answer.ok
  THEN [status |-> "success",
        text |-> IF latest = None THEN t ELSE latest.text, result |-> answer.result]
  ELSE ErrorState(t, "invalid_response")

\* The state an answer leads to: an envelope is looked at before the status.
Outcome(t, answer) ==
  IF answer.body = "api_error" THEN ErrorState(t, "api_error")
  ELSE IF answer.body = "result" /\ answer.ok
  THEN [status |-> "success", text |-> t, result |-> answer.result]
  ELSE ErrorState(t, "invalid_response")

MarkOf(state) ==
  IF state.status = "success"
  THEN [shows |-> "score", score |-> FormatScoreBadge(state.result.score)]
  ELSE [shows |-> state.status]

(***************************************************************************)
(* analyzeSelection.                                                       *)
(***************************************************************************)
\* Mutant: the popup listens once it has its first state.
ListensLate == popup \in {"rendered", "failed"}

\* The popup's listener is added when it is opened.
Listens == popup # "closed"

\* The latest state is none any more when another is stored.
Aged(state) == IF state = "latest" THEN "older" ELSE state

\* storage.session.set, which tells the popup.
Store(s) ==
  /\ latest' = s
  /\ behind' = IF Listens THEN behind + 1 ELSE behind
  /\ shown' = Aged(shown)
  /\ snapshot' = Aged(snapshot)
  /\ UNCHANGED <<popup, outrun>>

\* storeState of an analysis that ends with state s; the badge comes next.
Conclude(a, s) ==
  /\ Store(s)
  /\ mark' = [mark EXCEPT ![a] = MarkOf(s)]
  /\ pc' = [pc EXCEPT ![a] = "mark"]

\* Analysis a writes what the last one had written: the stored state once that
\* has concluded, the badge once that is done.
Overtakes(a, written) ==
  overtaken' = (overtaken \/ (a # clicks /\ pc[clicks] \in written))

NewClick == clicks + 1

Started(t) ==
  /\ clicks < MaxClicks
  /\ clicks' = NewClick
  /\ text' = [text EXCEPT ![NewClick] = t]
  /\ overtaken' = FALSE

Click(s) ==
  /\ SelectionError(s) = None
  /\ Started(s.text)
  /\ Store([status |-> "loading", text |-> s.text])
  /\ pc' = [pc EXCEPT ![NewClick] = "mark_loading"]
  /\ UNCHANGED <<badge, mark>>

ClickInvalid(s) ==
  /\ SelectionError(s) # None
  /\ Started(None)
  /\ Conclude(NewClick, ErrorState(None, SelectionError(s)))
  /\ UNCHANGED badge

\* The first write is rejected.
ClickDropped ==
  /\ Started(None)
  /\ pc' = [pc EXCEPT ![NewClick] = "dropped"]
  /\ UNCHANGED <<latest, badge, mark, window>>

MarkLoading(a) ==
  /\ pc[a] = "mark_loading"
  /\ badge' = [shows |-> "loading"]
  /\ pc' = [pc EXCEPT ![a] = "fetch"]
  /\ Overtakes(a, {"done"})
  /\ UNCHANGED <<latest, clicks, text, mark, window>>

Unreachable(a) ==
  /\ pc[a] = "fetch"
  /\ Conclude(a, ErrorState(text[a], "backend_unreachable"))
  /\ Overtakes(a, {"mark", "done"})
  /\ UNCHANGED <<badge, clicks, text>>

\* Mutant: an HTTP error ends the analysis without a state.
AnsweredOk(a) ==
  /\ pc[a] = "fetch"
  /\ \E answer \in Answer(text[a]) :
       IF answer.ok THEN Conclude(a, Outcome(text[a], answer))
       ELSE /\ pc' = [pc EXCEPT ![a] = "done"]
            /\ UNCHANGED <<latest, mark, window>>
  /\ Overtakes(a, {"mark", "done"})
  /\ UNCHANGED <<badge, clicks, text>>

Answered(a) ==
  /\ pc[a] = "fetch"
  /\ \E answer \in Answer(text[a]) : Conclude(a, Outcome(text[a], answer))
  /\ Overtakes(a, {"mark", "done"})
  /\ UNCHANGED <<badge, clicks, text>>

Mark(a) ==
  /\ pc[a] = "mark"
  /\ badge' = mark[a]
  /\ pc' = [pc EXCEPT ![a] = "done"]
  /\ mark' = [mark EXCEPT ![a] = NoBadge]
  /\ Overtakes(a, {"done"})
  /\ UNCHANGED <<latest, clicks, text, window>>

\* The browser rejects the call that was next: the analysis ends there.
Rejected(a) ==
  /\ pc[a] \in Waiting
  /\ pc' = [pc EXCEPT ![a] = "dropped"]
  /\ mark' = [mark EXCEPT ![a] = NoBadge]
  /\ UNCHANGED <<latest, badge, clicks, text, overtaken, window>>

WorkerEnds ==
  /\ InFlight # {}
  /\ pc' = [a \in Analyses |-> IF a \in InFlight THEN "killed" ELSE pc[a]]
  /\ mark' = [a \in Analyses |-> NoBadge]
  /\ UNCHANGED <<latest, badge, clicks, text, overtaken, window>>

(***************************************************************************)
(* The popup.                                                              *)
(***************************************************************************)
worker == <<latest, badge, clicks, pc, text, mark, overtaken>>

\* loadState asks for the stored state, and the listener is added.
OpenPopup ==
  /\ popup = "closed"
  /\ popup' = "asked"
  /\ UNCHANGED <<worker, shown, snapshot, behind, outrun>>

ReadForPopup ==
  /\ popup = "asked"
  /\ popup' = "answered"
  /\ snapshot' = "latest"
  /\ UNCHANGED <<worker, shown, behind, outrun>>

\* The call is rejected: loadState ends.
ReadRejected ==
  /\ popup = "asked"
  /\ popup' = "failed"
  /\ UNCHANGED <<worker, shown, snapshot, behind, outrun>>

\* The answer is rendered whenever it comes.
RenderSnapshot ==
  /\ popup = "answered"
  /\ popup' = "rendered"
  /\ shown' = snapshot
  /\ snapshot' = "nothing"
  /\ UNCHANGED <<worker, behind, outrun>>

RenderChange ==
  /\ behind > 0
  /\ shown' = IF behind = 1 THEN "latest" ELSE "older"
  /\ behind' = behind - 1
  /\ outrun' = (popup = "answered")
  /\ UNCHANGED <<worker, popup, snapshot>>

ClosePopup ==
  /\ popup # "closed"
  /\ popup' = "closed"
  /\ shown' = "nothing" /\ snapshot' = "nothing" /\ behind' = 0 /\ outrun' = FALSE
  /\ UNCHANGED worker

Init ==
  /\ latest = None
  /\ badge = NoBadge
  /\ clicks = 0
  /\ pc = [a \in Analyses |-> "idle"]
  /\ text = [a \in Analyses |-> None]
  /\ mark = [a \in Analyses |-> NoBadge]
  /\ overtaken = FALSE
  /\ popup = "closed"
  /\ shown = "nothing" /\ snapshot = "nothing" /\ behind = 0 /\ outrun = FALSE

Next ==
  \/ \E s \in Selection : Click(s) \/ ClickInvalid(s)
  \/ ClickDropped
  \/ \E a \in Analyses :
       MarkLoading(a) \/ Unreachable(a) \/ Answered(a) \/ Mark(a) \/ Rejected(a)
  \/ WorkerEnds
  \/ OpenPopup \/ ReadForPopup \/ ReadRejected \/ RenderSnapshot \/ RenderChange \/ ClosePopup

Spec == Init /\ [][Next]_vars

-----------------------------------------------------------------------------
\* A stored result is an answer to the very text it is shown with, although
\* the stored state changes hands while the request is under way.
ResultBelongsToText ==
  latest # None /\ latest.status = "success" => latest.result.text = latest.text

\* A stored loading state is that of an analysis under way or of one that was
\* lost with the worker or by a rejected call; the badge says loading only while
\* there is one.  An analysis that was answered leaves neither behind, whatever
\* became of the others.
LoadingIsWorkedOn ==
  /\ latest # None /\ latest.status = "loading" =>
       \E a \in InFlight \cup Lost : text[a] = latest.text
  /\ badge.shows = "loading" => \E a \in InFlight \cup Lost : text[a] # None

\* Once the analysis of the last click is done, the stored state is the one of
\* that click and the badge is the one of that state, also if earlier analyses
\* were under way: unless one of them wrote after it.
LatestUnlessOvertaken ==
  clicks > 0 /\ ~overtaken /\ pc[clicks] = "done" =>
    /\ latest.text = text[clicks]
    /\ badge = MarkOf(latest)

\* Once everything on its way has arrived, the popup renders the stored state:
\* no change is lost while it asks, and one that comes later makes up for a
\* rejected question.  popup.mjs does not rule out that a change is rendered
\* before an answer that is older (outrun); the next change makes up for it.
PopupFollows ==
  popup \in {"rendered", "failed"} /\ behind = 0 /\ ~outrun =>
    shown = "latest" \/ (popup = "failed" /\ shown = "nothing")

=============================================================================
