----------------------------- MODULE RiskEngine -----------------------------
(***************************************************************************)
(* backend/internal/riskengine: what rules find in a text, and the verdict *)
(* this gives.  A text is the sequence of the terms that occur in it; a    *)
(* rule has the terms its pattern is made of.  A regular expression is an  *)
(* alternative of terms, without any when it does not compile.             *)
(***************************************************************************)
EXTENDS Integers, SequencesExt

CONSTANTS
  Blank,          \* a term of a pattern that is empty once it is trimmed
  DefaultAdvice,  \* the recommendation when no rule has one
  NoAdvice        \* a rule without a recommendation

TermKinds == {"keyword", "pattern", "semantic_placeholder"}

ScoreCap == 100

Holds(text, term) == term # Blank /\ Contains(text, term)

\* The first element of a sequence that is in S, as a sequence.
FirstIn(seq, S) ==
  LET i == SelectInSeq(seq, LAMBDA e : e \in S) IN IF i = 0 THEN <<>> ELSE <<seq[i]>>

\* matchEvidence: the terms shown to the user, none when the rule does not
\* match.  A "pattern" whose terms are joined by "+" needs all of them; terms
\* separated by commas, and a regular expression, need one.
Evidence(text, rule) ==
  CASE rule.kind = "pattern" /\ rule.joined ->
         IF \A term \in ToSet(rule.terms) : Holds(text, term)
         THEN rule.terms ELSE <<>>
    [] rule.kind \in TermKinds /\ ~(rule.kind = "pattern" /\ rule.joined) ->
         FirstIn(rule.terms, ToSet(text) \ {Blank})
    [] rule.kind = "regex" ->
         FirstIn(text, ToSet(rule.terms))
    [] OTHER -> <<>>

MatchRules(text, rules) ==
  FoldLeft(LAMBDA out, rule :
             IF Evidence(text, rule) = <<>> THEN out ELSE Append(out, rule),
           <<>>, rules)

TotalWeight(matches) == FoldLeft(LAMBDA n, m : n + m.weight, 0, matches)

Score(matches) ==
  IF TotalWeight(matches) > ScoreCap THEN ScoreCap ELSE TotalWeight(matches)

Level(score) ==
  CASE score >= 80 -> "critical"
    [] score \in 60..79 -> "high"
    [] score \in 30..59 -> "medium"
    [] OTHER -> "low"

\* Each recommendation once, in the order of the matches.
Given(matches) ==
  FoldLeft(LAMBDA out, m : IF m.advice = NoAdvice \/ Contains(out, m.advice) THEN out
                           ELSE Append(out, m.advice),
           <<>>, matches)

Recommendations(matches) ==
  IF Given(matches) = <<>> THEN <<DefaultAdvice>> ELSE Given(matches)

Analyze(text, rules) ==
  LET matches == MatchRules(text, rules)
  IN  [score |-> Score(matches),
       level |-> Level(Score(matches)),
       matched |-> [i \in DOMAIN matches |->
                      [code |-> matches[i].code,
                       evidence |-> Evidence(text, matches[i])]],
       advice |-> Recommendations(matches)]

=============================================================================
