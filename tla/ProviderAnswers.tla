--------------------------- MODULE ProviderAnswers ---------------------------
(***************************************************************************)
(* What the three provider adapters and the service of                     *)
(* backend/internal/llmassist make of a provider's answer.  An answer says *)
(* whether it came (a 2xx status and a body of bounded JSON), whether the  *)
(* provider finished it, whether it refused, whether it is shaped unlike   *)
(* what was asked for (several choices, another role, tool calls), and the *)
(* texts in it.  A text is blank, does not decode as an assistance,        *)
(* decodes to one outside the bounds of the service, or is good.           *)
(***************************************************************************)
EXTENDS SequencesExt

Texts == {"blank", "malformed", "unbounded", "good"}

Answer == [came : BOOLEAN, finished : BOOLEAN, refused : BOOLEAN,
           odd : BOOLEAN, texts : BoundedSeq(Texts, 2)]

\* What an adapter returns for an error.
NoText == "error"

\* decode...Assistance: one strict JSON object and nothing behind it.
Decoded(text) == IF text = "malformed" THEN NoText ELSE text

NonBlank(texts) == {i \in DOMAIN texts : texts[i] # "blank"}

\* Items that are not messages of the assistant, and blank texts, are passed
\* over; a refusal anywhere in a message ends it.
ReadOpenAI(a) ==
  IF a.came /\ a.finished /\ ~a.refused /\ Cardinality(NonBlank(a.texts)) = 1
  THEN Decoded(a.texts[CHOOSE i \in NonBlank(a.texts) : TRUE]) ELSE NoText

\* One candidate with one part.
ReadGemini(a) ==
  IF /\ a.came /\ ~a.refused /\ ~a.odd /\ a.finished
     /\ Len(a.texts) = 1 /\ NonBlank(a.texts) = {1}
  THEN Decoded(a.texts[1]) ELSE NoText

\* One choice with one message.  DeepSeek tells a refusal by its finish reason.
ReadDeepSeek(a) ==
  IF /\ a.came /\ ~a.odd /\ a.finished
     /\ Len(a.texts) = 1 /\ NonBlank(a.texts) = {1}
  THEN Decoded(a.texts[1]) ELSE NoText

Read(provider, a) ==
  CASE provider = "openai" -> ReadOpenAI(a)
    [] provider = "gemini" -> ReadGemini(a)
    [] provider = "deepseek" -> ReadDeepSeek(a)

\* The answers a provider can give.  A choice of DeepSeek has one content, and
\* a refused one does not finish with "stop".
AnswersOf(provider) ==
  {a \in Answer : provider = "deepseek" =>
                    Len(a.texts) <= 1 /\ (a.refused => ~a.finished)}

\* validateAssistance, on what an adapter has returned.
ValidAssistance(text) == text = "good"

\* The provider answered what it was asked, once and to the end.
Whole(a) ==
  /\ a.came /\ a.finished /\ ~a.refused
  /\ \E i \in DOMAIN a.texts : NonBlank(a.texts) = {i} /\ a.texts[i] = "good"

=============================================================================
