---------------------------- MODULE SigmaEngine ----------------------------
(***************************************************************************)
(* SigmaEngine of user_space/detection: the matching of selections with    *)
(* fields, the recursive-descent evaluation of a rule's condition and the  *)
(* verdict it gives on a document.  A flattened document is a function     *)
(* from fields to the sequences of their values, which are texts; a rule   *)
(* is                                                                      *)
(*   [rule_id, detection, expr]                                            *)
(* where detection gives each selection's set of mappings, and expr is the *)
(* expression its author wrote: Tokens[expr] is the text the engine is     *)
(* given.  A parser's state is [ok, value, index]: ok is FALSE once        *)
(* SigmaConditionError is raised, index the next token.                    *)
(***************************************************************************)
EXTENDS TextValues

CONSTANTS
    Conditions, \* the expressions the rules' conditions are made of, operands among them
    Depth,      \* expression |-> how deep it nests
    RuleSets,   \* the sequences of rules load_rules() may have read
    Patterns    \* pattern of an "of" |-> the names fnmatch accepts

\* What the parser does not take for a name.
Reserved == {"", "(", ")", "not", "and", "or"}

IsOperand(f, e) == f \in Conditions /\ Depth[f] < Depth[e]

ASSUME ConditionsAssumption ==
    \A e \in Conditions :
        /\ Depth[e] \in Nat
        /\ \/ e[1] = "sel" /\ e[2] \notin Reserved
           \/ e[1] \in {"1", "all"} /\ e[2] \in DOMAIN Patterns
           \/ e[1] = "not" /\ IsOperand(e[2], e)
           \/ e[1] \in {"and", "or"} /\ IsOperand(e[2], e) /\ IsOperand(e[3], e)

ASSUME PatternsAssumption == "" \notin DOMAIN Patterns

ASSUME RulesAssumption == \A rs \in RuleSets : \A i \in DOMAIN rs : rs[i].expr \in Conditions

VARIABLES
    rules,      \* the engine's rules, in the order of their files
    detection   \* [evaluated, doc, matches]: the last document and the rules that matched it

sigmaVars == <<rules, detection>>

---------------------------------------------------------------------------
(* Expressions: <<"sel", name>>, <<quantifier, pattern>>, <<"not", e>>,    *)
(* <<"and", e, f>> and <<"or", e, f>>.  A recursion is a function on       *)
(* Conditions, and takes itself as the argument that it asks about the     *)
(* operands.                                                               *)

Binding(e) == CASE e[1] = "or" -> 1 [] e[1] = "and" -> 2 [] OTHER -> 3

Within(tokens, f, level) ==
    IF Binding(f) < level THEN <<"(">> \o tokens[f] \o <<")">> ELSE tokens[f]

TokensFrom(tokens, e) ==
    CASE e[1] = "sel" -> <<e[2]>>
      [] e[1] \in {"1", "all"} -> <<e[1], "of", e[2]>>
      [] e[1] = "not" -> <<"not">> \o Within(tokens, e[2], 3)
      [] e[1] = "and" -> Within(tokens, e[2], 2) \o <<"and">> \o Within(tokens, e[3], 3)
      [] e[1] = "or" -> Within(tokens, e[2], 1) \o <<"or">> \o Within(tokens, e[3], 2)

\* What _tokenize_condition makes of the expression, with the parentheses it needs.
Tokens[e \in Conditions] == TokensFrom(Tokens, e)

MeaningFrom(meaning, e, results) ==
    CASE e[1] = "sel" -> e[2] \in DOMAIN results /\ results[e[2]]
      [] e[1] = "1" -> \E n \in Patterns[e[2]] \cap DOMAIN results : results[n]
      [] e[1] = "all" -> LET named == Patterns[e[2]] \cap DOMAIN results
                         IN  named # {} /\ \A n \in named : results[n]
      [] e[1] = "not" -> ~meaning[e[2]]
      [] e[1] = "and" -> meaning[e[2]] /\ meaning[e[3]]
      [] e[1] = "or" -> meaning[e[2]] \/ meaning[e[3]]

\* What the expressions say of the selections' results.
Meanings(results) ==
    LET meaning[e \in Conditions] == MeaningFrom(meaning, e, results) IN meaning

Meaning(e, results) == Meanings(results)[e]

---------------------------------------------------------------------------
(* _ConditionParser: tokens t, selection_results s, next token i; calls    *)
(* gives what the methods' calls of each other and rounds of their loops   *)
(* come to.                                                                *)

Raised(i) == [ok |-> FALSE, value |-> FALSE, index |-> i]
Parsed(v, i) == [ok |-> TRUE, value |-> v, index |-> i]

Peek(t, i) == IF i <= Len(t) THEN t[i] ELSE ""

Consume(r) == [r EXCEPT !.index = @ + 1]

Call(method, v, i) == [method |-> method, value |-> v, index |-> i]

\* Calls of _parse_not, and rounds of the loops of _parse_and and _parse_or with their result.
Calls(t) == [method : {"not", "and", "or"}, value : BOOLEAN, index : 1..(Len(t) + 1)]

Continue(calls, method, r) == IF r.ok THEN calls[Call(method, r.value, r.index)] ELSE r

EvaluateOf(quantifier, pattern, s) ==
    LET matched_names == Patterns[pattern] \cap DOMAIN s
    IN  /\ matched_names # {}
        /\ IF quantifier = "all" THEN \A n \in matched_names : s[n]
                                 ELSE \E n \in matched_names : s[n]

ParseAnd(calls, i) == Continue(calls, "and", calls[Call("not", FALSE, i)])

ParseOr(calls, i) == Continue(calls, "or", ParseAnd(calls, i))

ParsePrimary(calls, t, s, i) ==
    CASE Peek(t, i) = "" -> Raised(i)
      [] Peek(t, i) = "(" ->
           LET r == ParseOr(calls, i + 1)
           IN  IF r.ok /\ Peek(t, r.index) = ")" THEN Consume(r) ELSE Raised(r.index)
      [] Peek(t, i) \in {"1", "all"} /\ Peek(t, i + 1) = "of" ->
           IF Peek(t, i + 2) = "" THEN Raised(i + 2)
           ELSE Parsed(EvaluateOf(t[i], t[i + 2], s), i + 3)
      [] OTHER -> Parsed(t[i] \in DOMAIN s /\ s[t[i]], i + 1)

\* The bug a refactoring of _parse_not could introduce: "not" is consumed and forgotten.
ParseNotForgotten(calls, t, s, i) ==
    IF Peek(t, i) = "not" THEN calls[Call("not", FALSE, i + 1)] ELSE ParsePrimary(calls, t, s, i)

ParseNot(calls, t, s, i) ==
    IF Peek(t, i) = "not"
    THEN LET r == calls[Call("not", FALSE, i + 1)] IN [r EXCEPT !.value = r.ok /\ ~@]
    ELSE ParsePrimary(calls, t, s, i)

\* result and self._parse_not(): Python evaluates, and parses, the operand only if result holds.
AndLoop(calls, t, result, i) ==
    IF Peek(t, i) = "and"
    THEN Continue(calls, "and",
                  IF result THEN calls[Call("not", FALSE, i + 1)] ELSE Parsed(FALSE, i + 1))
    ELSE Parsed(result, i)

\* result or self._parse_and(): likewise, only if result does not hold.
OrLoop(calls, t, result, i) ==
    IF Peek(t, i) = "or"
    THEN Continue(calls, "or", IF result THEN Parsed(TRUE, i + 1) ELSE ParseAnd(calls, i + 1))
    ELSE Parsed(result, i)

Outcome(calls, t, s, c) ==
    CASE c.method = "not" -> ParseNot(calls, t, s, c.index)
      [] c.method = "and" -> AndLoop(calls, t, c.value, c.index)
      [] c.method = "or" -> OrLoop(calls, t, c.value, c.index)

Outcomes(t, s) == LET calls[c \in Calls(t)] == Outcome(calls, t, s, c) IN calls

Parse(t, s) ==
    IF t = <<>> THEN Raised(1)
    ELSE LET r == ParseOr(Outcomes(t, s), 1)
         IN  IF r.ok /\ r.index # Len(t) + 1 THEN Raised(r.index) ELSE r

---------------------------------------------------------------------------
(* Selections.  What a mapping asks of a field is                          *)
(*   [operator, all, expected]                                             *)
(* with the operator _operator_from_modifiers picks and the words expected.*)

\* _compare a text of the document, case folded, with an expected word.
Compare(actual, expected, operator) ==
    CASE operator = "equals" -> actual = <<expected>>
      [] operator = "startswith" -> actual # <<>> /\ Holds(operator, expected, Head(actual))
      [] operator = "endswith" -> actual # <<>> /\ Holds(operator, expected, Last(actual))
      [] OTHER -> \E word \in ToSet(actual) : Holds(operator, expected, word)

SingleValueMatches(values, expected, operator) ==
    \E actual \in ToSet(values) : Compare(actual, expected, operator)

FieldMatches(doc, field, test) ==
    /\ field \in DOMAIN doc
    /\ IF test.all
       THEN \A e \in test.expected : SingleValueMatches(doc[field], e, test.operator)
       ELSE \E e \in test.expected : SingleValueMatches(doc[field], e, test.operator)

\* A list of mappings holds when one of them does, a mapping when all its fields match.
SelectionMatches(selection, doc) ==
    \E mapping \in selection : \A f \in DOMAIN mapping : FieldMatches(doc, f, mapping[f])

---------------------------------------------------------------------------
(* The engine.                                                             *)

\* selection_results: each of the rule's selections against the document.
SelectionResults(rule, doc) ==
    [n \in DOMAIN rule.detection |-> SelectionMatches(rule.detection[n], doc)]

Evaluated(rule, doc) == Parse(Tokens[rule.expr], SelectionResults(rule, doc))

\* The bug a hasty handler of SigmaConditionError would be: the error counts as a match.
RuleMatchesOnError(rule, doc) == ~Evaluated(rule, doc).ok \/ Evaluated(rule, doc).value

RuleMatches(rule, doc) == Evaluated(rule, doc).ok /\ Evaluated(rule, doc).value

NoDetection == [evaluated |-> FALSE, doc |-> <<>>, matches |-> {}]

InitSigma == rules \in RuleSets /\ detection = NoDetection

\* evaluate(): the rules that match are listed in their order, by their places in rules;
\* the first one names the alert.
Evaluate(doc) ==
    /\ detection' = [evaluated |-> TRUE, doc |-> doc,
                      matches |-> {i \in DOMAIN rules : RuleMatches(rules[i], doc)}]
    /\ UNCHANGED rules

---------------------------------------------------------------------------
(* Properties.                                                             *)

MeansMatch(rule) == Meaning(rule.expr, SelectionResults(rule, detection.doc))

\* An alert is never raised against the words of its rule: whatever tokens the parser
\* leaves unread, a rule that matched has a condition that holds (_rule_matches).
MatchesAreTrue == \A i \in detection.matches : MeansMatch(rules[i])

IsTerm(e) == e[1] \in {"sel", "1", "all"} \/ (e[1] = "not" /\ e[2][1] \in {"sel", "1", "all"})

ConjunctionFrom(conjunction, e) ==
    IsTerm(e) \/ (e[1] = "and" /\ conjunction[e[2]] /\ IsTerm(e[3]))

IsConjunction[e \in Conditions] == ConjunctionFrom(IsConjunction, e)

\* The shape of every rule under rules/: a conjunction of selections, negated or not,
\* matches exactly when it holds, although the parser stops reading at the first operand
\* that does not and reports what is left as an error (_parse_and, _rule_matches).
ConjunctionsExact ==
    detection.evaluated =>
        \A i \in DOMAIN rules :
            IsConjunction[rules[i].expr] => (MeansMatch(rules[i]) <=> i \in detection.matches)

\* A well-formed condition is never refused: SigmaConditionError("unexpected tokens at
\* end") and "expected )" are for text that is not an expression (_ConditionParser.parse).
WellFormedNeverRaises ==
    detection.evaluated => \A r \in ToSet(rules) : Evaluated(r, detection.doc).ok
=============================================================================
