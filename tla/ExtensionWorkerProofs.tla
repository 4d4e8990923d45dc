----------------------- MODULE ExtensionWorkerProofs -----------------------
(***************************************************************************)
(* ExtensionWorker for any number of clicks, any texts and any scores: the *)
(* results stay with their text, loading is worked on, the last click wins *)
(* unless it was overtaken, and the popup follows the stored state.        *)
(***************************************************************************)
EXTENDS ExtensionWorker, TLAPS

\* What the steps need of types.
Shaped ==
  /\ clicks \in 0..MaxClicks
  /\ DOMAIN pc = Analyses /\ DOMAIN text = Analyses /\ DOMAIN mark = Analyses
  /\ \A a \in Analyses : a > clicks <=> pc[a] = "idle"

\* The states an analysis ends with.
LEMMA OutcomeFits ==
  ASSUME NEW t, NEW answer \in Answer(t)
  PROVE  LET s == Outcome(t, answer) IN
         /\ s.text = t
         /\ s.status \in {"error", "success"}
         /\ s.status = "success" => s.result.text = t
<1>1. answer.result \in Result(t)
  BY DEF Answer
<1>2. answer.result.text = t
  BY <1>1 DEF Result
<1>3. CASE answer.body = "api_error"
  BY <1>3 DEF Outcome, ErrorState
<1>4. CASE answer.body = "result" /\ answer.ok
  BY <1>2, <1>4 DEF Outcome, ErrorState
<1>5. CASE answer.body # "api_error" /\ ~(answer.body = "result" /\ answer.ok)
  BY <1>5 DEF Outcome, ErrorState
<1> QED
  BY <1>3, <1>4, <1>5

\* An analysis that has stored its last state s.
Concludes(a, s) ==
  /\ \/ pc[a] = "fetch" /\ UNCHANGED <<clicks, text>> /\ Overtakes(a, {"mark", "done"})
     \/ a = NewClick /\ Started(None)
  /\ s.status \in {"error", "success"}
  /\ s.status = "success" => s.result.text = s.text
  /\ s.text = text'[a]
  /\ Conclude(a, s)
  /\ badge' = badge

\* The steps that matter to the worker.
LEMMA Steps ==
  ASSUME Shaped, [Next]_vars
  PROVE  \/ \E s \in Selection : Click(s)
         \/ \E a \in Analyses : \E s : Concludes(a, s)
         \/ ClickDropped
         \/ \E a \in Analyses : MarkLoading(a) \/ Mark(a) \/ Rejected(a)
         \/ WorkerEnds
         \/ UNCHANGED worker
<1>1. ASSUME NEW a \in Analyses, Unreachable(a)
      PROVE  Concludes(a, ErrorState(text[a], "backend_unreachable"))
  BY <1>1 DEF Unreachable, Concludes, ErrorState
<1>2. ASSUME NEW a \in Analyses, Answered(a)
      PROVE  \E s : Concludes(a, s)
  <2>1. PICK answer \in Answer(text[a]) : Conclude(a, Outcome(text[a], answer))
    BY <1>2 DEF Answered
  <2>2. Concludes(a, Outcome(text[a], answer))
    BY <1>2, <2>1, OutcomeFits DEF Answered, Concludes
  <2> QED
    BY <2>2
<1>3. ASSUME NEW s \in Selection, ClickInvalid(s)
      PROVE  /\ NewClick \in Analyses
             /\ Concludes(NewClick, ErrorState(None, SelectionError(s)))
  <2>1. NewClick \in Analyses /\ pc[NewClick] = "idle"
    BY <1>3, ExtensionAssumption DEF ClickInvalid, Started, NewClick, Analyses, Shaped
  <2>2. text'[NewClick] = None
    BY <1>3, <2>1 DEF ClickInvalid, Started, Shaped
  <2> QED
    BY <1>3, <2>1, <2>2 DEF ClickInvalid, Concludes, ErrorState
<1>4. ASSUME \/ OpenPopup \/ ReadForPopup \/ ReadRejected
             \/ RenderSnapshot \/ RenderChange \/ ClosePopup
      PROVE  UNCHANGED worker
  BY <1>4 DEF OpenPopup, ReadForPopup, ReadRejected,
              RenderSnapshot, RenderChange, ClosePopup
<1>5. CASE UNCHANGED vars
  BY <1>5 DEF vars, worker
<1> QED
  BY <1>1, <1>2, <1>3, <1>4, <1>5 DEF Next

-----------------------------------------------------------------------------
(***************************************************************************)
(* Results belong to their texts.                                          *)
(***************************************************************************)
LEMMA ShapedInv == Spec => []Shaped
<1>1. Init => Shaped
  BY ExtensionAssumption DEF Init, Shaped, Analyses
<1>2. Shaped /\ [Next]_vars => Shaped'
  <2> SUFFICES ASSUME Shaped, [Next]_vars PROVE Shaped'
    OBVIOUS
  <2> USE DEF Shaped
  <2>1. ASSUME NEW t, Started(t), NEW b, b # "idle", pc' = [pc EXCEPT ![NewClick] = b],
               DOMAIN mark' = DOMAIN mark
        PROVE  Shaped'
    BY <2>1, ExtensionAssumption DEF Started, NewClick, Analyses
  <2>2. ASSUME NEW a \in Analyses, pc[a] # "idle", NEW b, b # "idle",
               pc' = [pc EXCEPT ![a] = b], UNCHANGED <<clicks, text>>,
               DOMAIN mark' = DOMAIN mark
        PROVE  Shaped'
    BY <2>2
  <2>3. CASE \E s \in Selection : Click(s)
    BY <2>1, <2>3 DEF Click
  <2>4. CASE \E a \in Analyses : \E s : Concludes(a, s)
    BY <2>1, <2>2, <2>4 DEF Concludes, Conclude
  <2>5. CASE ClickDropped
    BY <2>1, <2>5 DEF ClickDropped
  <2>6. CASE \E a \in Analyses : MarkLoading(a) \/ Mark(a) \/ Rejected(a)
    BY <2>2, <2>6 DEF MarkLoading, Mark, Rejected, Waiting
  <2>7. CASE WorkerEnds
    BY <2>7 DEF WorkerEnds, InFlight, Waiting
  <2>8. CASE UNCHANGED worker
    BY <2>8 DEF worker
  <2> QED
    BY <2>3, <2>4, <2>5, <2>6, <2>7, <2>8, Steps
<1> QED
  BY <1>1, <1>2, PTL DEF Spec

\* A stored result stays with the text it was asked for, however many
\* analyses overlap (the answer handling of analyzeSelection).
THEOREM ResultsBelong == Spec => []ResultBelongsToText
<1>1. Init => ResultBelongsToText
  BY DEF Init, ResultBelongsToText
<1>2. Shaped /\ ResultBelongsToText /\ [Next]_vars => ResultBelongsToText'
  <2> SUFFICES ASSUME Shaped, ResultBelongsToText, [Next]_vars PROVE ResultBelongsToText'
    OBVIOUS
  <2>1. CASE \E s \in Selection : Click(s)
    BY <2>1 DEF Click, Store, ResultBelongsToText
  <2>2. CASE \E a \in Analyses : \E s : Concludes(a, s)
    BY <2>2 DEF Concludes, Conclude, Store, ResultBelongsToText
  <2>3. CASE UNCHANGED latest
    BY <2>3 DEF ResultBelongsToText
  <2> QED
    BY <2>1, <2>2, <2>3, Steps
       DEF ClickDropped, MarkLoading, Mark, Rejected, WorkerEnds, worker
<1> QED
  BY <1>1, <1>2, ShapedInv, PTL DEF Spec

-----------------------------------------------------------------------------
(***************************************************************************)
(* Loading.                                                                *)
(***************************************************************************)
\* An analysis that has not concluded, or was lost; one that has not set its last
\* badge, or was lost.
Unanswered(a) == pc[a] \in {"mark_loading", "fetch"} \/ a \in Lost
Unmarked(a)   == a \in InFlight \cup Lost

\* An analysis without its last state stands behind a stored loading state, one
\* with a text behind a loading badge; what an analysis marks last is never
\* loading, and one that waits for its answer has a text.
Worked ==
  /\ \A a \in Analyses : pc[a] = "mark" => mark[a].shows # "loading"
  /\ \A a \in Analyses : pc[a] \in {"mark_loading", "fetch"} => text[a] # None
  /\ latest # None /\ latest.status = "loading" =>
       \E a \in Analyses : Unanswered(a) /\ text[a] = latest.text
  /\ badge.shows = "loading" => \E a \in Analyses : Unmarked(a) /\ text[a] # None

\* A step that leaves the stored state, the badge and the analyses' texts alone
\* and ends no analysis but by losing it.
LEMMA WorkedStays ==
  ASSUME Worked, UNCHANGED <<latest, badge>>,
         \A a \in Analyses :
           /\ Unanswered(a) => Unanswered(a)' /\ text'[a] = text[a]
           /\ Unmarked(a) => Unmarked(a)' /\ text'[a] = text[a]
           /\ pc'[a] = "mark" => pc[a] = "mark" /\ mark'[a] = mark[a]
           /\ pc'[a] \in {"mark_loading", "fetch"} =>
                pc[a] \in {"mark_loading", "fetch"} /\ text'[a] = text[a]
  PROVE  Worked'
BY DEF Worked

LEMMA WorkedStep ==
  ASSUME Shaped, Worked, [Next]_vars
  PROVE  Worked'
<1> USE DEF Shaped, Analyses, NewClick
<1>0. \A a \in Analyses : pc[a] = "idle" => ~Unanswered(a) /\ ~Unmarked(a)
  BY DEF Unanswered, Unmarked, InFlight, Lost, Waiting
<1>1. CASE \E s \in Selection : Click(s)
  <2>1. PICK s \in Selection : Click(s)
    BY <1>1
  <2>2. NewClick \in Analyses /\ pc[NewClick] = "idle"
    BY <2>1, ExtensionAssumption DEF Click, Started
  <2>3. /\ pc' = [pc EXCEPT ![NewClick] = "mark_loading"] /\ UNCHANGED <<badge, mark>>
        /\ text' = [text EXCEPT ![NewClick] = s.text]
        /\ latest' = [status |-> "loading", text |-> s.text]
    BY <2>1 DEF Click, Started, Store
  <2>4. s.text # None
    BY ExtensionAssumption DEF Selection
  <2>5. \E a \in Analyses : Unanswered(a)' /\ text'[a] = latest'.text
    <3>1. PICK a \in Analyses : a = NewClick
      BY <2>2
    <3>2. pc'[a] = "mark_loading" /\ text'[a] = latest'.text
      BY <2>3, <3>1
    <3>3. Unanswered(a)'
      BY <3>2 DEF Unanswered
    <3> QED
      BY <3>1, <3>2, <3>3
  <2>6. \A a \in Analyses : Unmarked(a) => Unmarked(a)' /\ text'[a] = text[a]
    BY <1>0, <2>2, <2>3 DEF Unmarked, InFlight, Lost
  <2>7. \A a \in Analyses : pc'[a] = "mark" => mark'[a].shows # "loading"
    BY <2>3 DEF Worked
  <2>8. \A a \in Analyses : pc'[a] \in {"mark_loading", "fetch"} => text'[a] # None
    BY <2>2, <2>3, <2>4 DEF Worked
  <2> QED
    BY <2>2, <2>3, <2>5, <2>6, <2>7, <2>8 DEF Worked
<1>2. CASE \E a \in Analyses : \E s : Concludes(a, s)
  <2>0. PICK a \in Analyses : \E s : Concludes(a, s)
    BY <1>2
  <2>1. PICK s : Concludes(a, s)
    BY <2>0
  <2>2. /\ pc' = [pc EXCEPT ![a] = "mark"] /\ mark' = [mark EXCEPT ![a] = MarkOf(s)]
        /\ latest' = s /\ badge' = badge /\ s.status \in {"error", "success"}
    BY <2>1 DEF Concludes, Conclude, Store
  <2>3. MarkOf(s).shows # "loading"
    <3>1. CASE s.status = "success"
      BY <3>1 DEF MarkOf
    <3>2. CASE s.status = "error"
      BY <3>2 DEF MarkOf
    <3> QED
      BY <2>2, <3>1, <3>2
  <2>4. \A b \in Analyses : pc[b] # "idle" => text'[b] = text[b]
    BY <2>1, ExtensionAssumption DEF Concludes, Started
  <2>5. \A b \in Analyses : Unmarked(b) => Unmarked(b)' /\ text'[b] = text[b]
    BY <1>0, <2>2, <2>4 DEF Unmarked, InFlight, Lost, Waiting
  <2>6. \A b \in Analyses : pc'[b] \in {"mark_loading", "fetch"} =>
          pc[b] \in {"mark_loading", "fetch"} /\ text'[b] = text[b]
    BY <2>2, <2>4
  <2> QED
    BY <2>2, <2>3, <2>5, <2>6 DEF Worked
<1>3. CASE \E a \in Analyses : MarkLoading(a)
  <2>1. PICK a \in Analyses : MarkLoading(a)
    BY <1>3
  <2>2. /\ pc[a] = "mark_loading" /\ pc' = [pc EXCEPT ![a] = "fetch"]
        /\ UNCHANGED <<latest, text, mark>>
    BY <2>1 DEF MarkLoading
  <2>3. Unmarked(a)' /\ text'[a] # None
    BY <2>2 DEF Unmarked, InFlight, Waiting, Worked
  <2>4. \A b \in Analyses : Unanswered(b) => Unanswered(b)'
    BY <2>2 DEF Unanswered, Lost
  <2> QED
    BY <2>2, <2>3, <2>4 DEF Worked
<1>4. CASE \E a \in Analyses : Mark(a)
  <2>1. PICK a \in Analyses : Mark(a)
    BY <1>4
  <2>2. /\ pc[a] = "mark" /\ pc' = [pc EXCEPT ![a] = "done"]
        /\ UNCHANGED <<latest, text>> /\ badge'.shows # "loading"
        /\ mark' = [mark EXCEPT ![a] = NoBadge]
    BY <2>1 DEF Mark, Worked
  <2>3. \A b \in Analyses : Unanswered(b) => Unanswered(b)'
    BY <2>2 DEF Unanswered, Lost
  <2> QED
    BY <2>2, <2>3 DEF Worked
<1>5. CASE UNCHANGED worker
  BY <1>5 DEF worker, Worked, Unanswered, Unmarked, Lost, InFlight
<1>6. CASE ClickDropped
  <2>1. NewClick \in Analyses /\ pc[NewClick] = "idle"
    BY <1>6, ExtensionAssumption DEF ClickDropped, Started
  <2>2. /\ pc' = [pc EXCEPT ![NewClick] = "dropped"]
        /\ text' = [text EXCEPT ![NewClick] = None]
        /\ UNCHANGED <<latest, badge, mark>>
    BY <1>6 DEF ClickDropped, Started
  <2>3. \A b \in Analyses \ {NewClick} : pc'[b] = pc[b] /\ text'[b] = text[b]
    BY <2>2
  <2>4. pc'[NewClick] = "dropped"
    BY <2>1, <2>2
  <2> HIDE DEF NewClick
  <2> QED
    BY <1>0, <2>1, <2>2, <2>3, <2>4, WorkedStays DEF Unanswered, Unmarked, Lost, InFlight
<1>7. CASE WorkerEnds \/ \E a \in Analyses : Rejected(a)
  <2>1. UNCHANGED <<latest, badge, text>>
    BY <1>7 DEF WorkerEnds, Rejected
  <2>2. \A b \in Analyses : \/ pc'[b] = pc[b] /\ (pc[b] = "mark" => mark'[b] = mark[b])
                           \/ pc'[b] \in {"dropped", "killed"}
    BY <1>7 DEF WorkerEnds, Rejected, InFlight, Waiting
  <2>3. \A b \in Analyses :
          /\ Unanswered(b) => Unanswered(b)'
          /\ Unmarked(b) => Unmarked(b)'
    BY <2>2 DEF Unanswered, Unmarked, Lost, InFlight
  <2> QED
    BY <2>1, <2>2, <2>3, WorkedStays
<1> QED
  BY <1>1, <1>2, <1>3, <1>4, <1>5, <1>6, <1>7, Steps

\* A stored loading state or badge is that of an analysis under way or lost: the
\* writes of analyzeSelection on every path that ends take it away.
THEOREM LoadingIsWorked == Spec => []LoadingIsWorkedOn
<1>1. Init => Worked
  BY DEF Init, Worked, NoBadge
<1>2. Shaped /\ Worked /\ [Next]_vars => Worked'
  BY WorkedStep
<1>3. Worked => LoadingIsWorkedOn
  BY DEF Worked, LoadingIsWorkedOn, Unanswered, Unmarked, InFlight, Lost, Waiting
<1> QED
  BY <1>1, <1>2, <1>3, ShapedInv, PTL DEF Spec

-----------------------------------------------------------------------------
(***************************************************************************)
(* The last click.                                                         *)
(***************************************************************************)
\* What the analysis of the last click has written stands, unless an earlier one
\* has written after it.
Stands ==
  clicks > 0 /\ ~overtaken =>
    /\ pc[clicks] \in {"mark", "done"} => latest.text = text[clicks]
    /\ pc[clicks] = "mark" => mark[clicks] = MarkOf(latest)
    /\ pc[clicks] = "done" => badge = MarkOf(latest)

LEMMA StandsStep ==
  ASSUME Shaped, Stands, [Next]_vars
  PROVE  Stands'
<1> USE DEF Shaped, Analyses, NewClick
<1>1. ASSUME NEW t, Started(t), NEW b, b \notin {"mark", "done"},
             pc' = [pc EXCEPT ![NewClick] = b]
      PROVE  Stands'
  BY <1>1, ExtensionAssumption DEF Started, Stands
<1>2. CASE \E s \in Selection : Click(s)
  BY <1>1, <1>2 DEF Click
<1>3. CASE ClickDropped
  BY <1>1, <1>3, "dropped" \notin {"mark", "done"} DEF ClickDropped
<1>4. CASE \E a \in Analyses : \E s : Concludes(a, s)
  <2>0. PICK a \in Analyses : \E s : Concludes(a, s)
    BY <1>4
  <2>1. PICK s : Concludes(a, s)
    BY <2>0
  <2>2. /\ pc' = [pc EXCEPT ![a] = "mark"] /\ mark' = [mark EXCEPT ![a] = MarkOf(s)]
        /\ latest' = s /\ s.text = text'[a]
    BY <2>1 DEF Concludes, Conclude, Store
  <2>3. CASE pc[a] = "fetch" /\ UNCHANGED <<clicks, text>> /\ Overtakes(a, {"mark", "done"})
    <3>1. a = clicks \/ (~overtaken' => ~overtaken /\ pc[clicks] \notin {"mark", "done"})
      BY <2>3 DEF Overtakes
    <3>2. a # clicks => pc'[clicks] = pc[clicks]
      BY <2>2
    <3> QED
      BY <2>2, <2>3, <3>1, <3>2 DEF Stands
  <2>4. CASE a = clicks + 1 /\ Started(None)
    BY <2>2, <2>4, ExtensionAssumption DEF Started, Stands
  <2> QED
    BY <2>1, <2>3, <2>4 DEF Concludes
<1>5. CASE \E a \in Analyses : MarkLoading(a) \/ Mark(a)
  <2>1. PICK a \in Analyses : MarkLoading(a) \/ Mark(a)
    BY <1>5
  <2>2. /\ UNCHANGED <<latest, clicks, text>>
        /\ \A b \in Analyses \ {a} : pc'[b] = pc[b] /\ mark'[b] = mark[b]
        /\ pc[a] # "idle"
    BY <2>1 DEF MarkLoading, Mark
  <2>3. a = clicks \/ (~overtaken' => ~overtaken /\ pc[clicks] # "done")
    BY <2>1 DEF MarkLoading, Mark, Overtakes
  <2>4. CASE a = clicks
    <3>1. ~overtaken' => ~overtaken
      BY <2>1 DEF MarkLoading, Mark, Overtakes
    <3> QED
      BY <2>1, <2>2, <2>4, <3>1 DEF MarkLoading, Mark, Stands
  <2>5. CASE a # clicks
    BY <2>2, <2>3, <2>5 DEF Stands
  <2> QED
    BY <2>4, <2>5
<1>6. CASE WorkerEnds \/ \E a \in Analyses : Rejected(a)
  <2>1. UNCHANGED <<latest, badge, clicks, text, overtaken>>
    BY <1>6 DEF WorkerEnds, Rejected
  <2>2. \A b \in Analyses : \/ pc'[b] = pc[b] /\ (pc[b] = "mark" => mark'[b] = mark[b])
                           \/ pc'[b] \in {"dropped", "killed"}
    BY <1>6 DEF WorkerEnds, Rejected, InFlight, Waiting
  <2> QED
    BY <2>1, <2>2 DEF Stands
<1>7. CASE UNCHANGED worker
  BY <1>7 DEF worker, Stands
<1> QED
  BY <1>2, <1>3, <1>4, <1>5, <1>6, <1>7, Steps

\* Stored state and badge are those of the last click, however many analyses
\* overlap it, unless an earlier one wrote after it.
THEOREM LatestStands == Spec => []LatestUnlessOvertaken
<1>1. Init => Stands
  BY DEF Init, Stands
<1>2. Shaped /\ Stands /\ [Next]_vars => Stands'
  BY StandsStep
<1>3. Stands => LatestUnlessOvertaken
  BY DEF Stands, LatestUnlessOvertaken
<1> QED
  BY <1>1, <1>2, <1>3, ShapedInv, PTL DEF Spec

-----------------------------------------------------------------------------
(***************************************************************************)
(* The popup.                                                              *)
(***************************************************************************)
\* Something older than the stored state is shown, or on its way as an
\* answer, only while a change that will replace it is on its way, or after
\* a change that was rendered before that answer.
Following ==
  /\ behind \in Nat
  /\ snapshot # "nothing" => popup = "answered"
  /\ popup = "answered" => snapshot \in {"older", "latest"}
  /\ popup = "closed" => shown = "nothing" /\ behind = 0
  /\ behind = 0 =>
       /\ popup \in {"asked", "answered", "failed"} => shown \in {"nothing", "latest"}
       /\ popup = "answered" /\ snapshot = "older" => outrun
       /\ popup = "rendered" /\ ~outrun => shown = "latest"

LEMMA FollowingStep ==
  ASSUME Following, [Next]_vars
  PROVE  Following'
<1>1. ASSUME NEW s, Store(s) PROVE Following'
  BY <1>1 DEF Store, Listens, Aged, Following
<1>2. CASE UNCHANGED window
  BY <1>2 DEF window, Following
<1>3. CASE OpenPopup
  BY <1>3 DEF OpenPopup, Following
<1>4. CASE ReadForPopup
  BY <1>4 DEF ReadForPopup, Following
<1>5. CASE ReadRejected
  BY <1>5 DEF ReadRejected, Following
<1>6. CASE RenderSnapshot
  BY <1>6 DEF RenderSnapshot, Following
<1>7. CASE RenderChange
  <2>1. outrun' <=> popup = "answered"
    BY <1>7, Zenon DEF RenderChange
  <2> QED
    BY <1>7, <2>1 DEF RenderChange, Following
<1>8. CASE ClosePopup
  BY <1>8 DEF ClosePopup, Following
<1>9. CASE \E s \in Selection : Click(s) \/ ClickInvalid(s)
  BY <1>1, <1>9 DEF Click, ClickInvalid, Conclude
<1>10. CASE \E a \in Analyses : Unreachable(a) \/ Answered(a)
  BY <1>1, <1>10 DEF Unreachable, Answered, Conclude
<1> QED
  BY <1>2, <1>3, <1>4, <1>5, <1>6, <1>7, <1>8, <1>9, <1>10
     DEF Next, vars, ClickDropped, MarkLoading, Mark, Rejected, WorkerEnds

\* An open popup ends up with the stored state (loadState and the listener of
\* popup.mjs).
THEOREM PopupFollowsState == Spec => []PopupFollows
<1>1. Init => Following
  BY DEF Init, Following
<1>2. Following /\ [Next]_vars => Following'
  BY FollowingStep
<1>3. Following => PopupFollows
  BY DEF Following, PopupFollows
<1> QED
  BY <1>1, <1>2, <1>3, PTL DEF Spec
=============================================================================
