-------------------------- MODULE ComplianceEngine --------------------------
(***************************************************************************)
(* compliance.py as operators: the verdict on one stored configuration.    *)
(*                                                                         *)
(* A parser turns a configuration into rows; a check asks for rows whose   *)
(* field satisfies an operator, in one of three modes; the verdict is the  *)
(* worst outcome of the checks that are not "info".  A parser, a pattern   *)
(* or a number is abstracted to what it answers: Parsed, Matches, NumberOf.*)
(* Rows are a set: no mode distinguishes a row from its copies.            *)
(***************************************************************************)
EXTENDS Integers

CONSTANTS
  Texts,      \* the strings a field can hold or be compared with
  Blank,      \* "", also what a missing field reads as
  None,       \* a field that is present and None; str(None) is NoneText
  NoneText,
  NumberOf,   \* float(t) for the texts Python reads as a number
  Within,     \* <<s, t>>: s occurs in t, whatever the case
  Matches,    \* <<p, t>>: re.search(p, t) finds something
  Patterns,   \* the texts that compile as a regular expression
  Parsers, Contents,
  Parsed      \* <<parser, content>> -> rows, where the parser does not raise

ASSUME EngineAssumption ==
  /\ {Blank, NoneText} \subseteq Texts /\ None \notin Texts
  /\ DOMAIN NumberOf \subseteq Texts \ {Blank, NoneText}
  /\ DOMAIN Parsed \subseteq Parsers \X Contents

Str(cell)        == IF cell = None THEN NoneText ELSE cell
Cell(row, field) == IF field \in DOMAIN row THEN row[field] ELSE Blank

\* _coerce: two texts are compared as numbers when both are numbers.
Equal(a, b) == IF {a, b} \subseteq DOMAIN NumberOf
               THEN NumberOf[a] = NumberOf[b] ELSE a = b

\* An order comparison of anything that is not a number is False.
Ordered(op, a, b) ==
  /\ {a, b} \subseteq DOMAIN NumberOf
  /\ LET x == NumberOf[a] y == NumberOf[b] IN
       CASE op = "gt" -> x > y [] op = "lt" -> x < y
         [] op = "ge" -> x >= y [] op = "le" -> x =< y

Satisfies(row, check) ==
  LET cell == Cell(row, check.field)
      text == Str(cell)
      exp  == check.expected
  IN CASE check.operator = "exists"       -> cell \notin {None, Blank}
       [] check.operator = "not_exists"   -> cell \in {None, Blank}
       [] check.operator = "eq"           -> Equal(text, exp)
       [] check.operator = "ne"           -> ~Equal(text, exp)
       [] check.operator = "contains"     -> <<exp, text>> \in Within
       [] check.operator = "not_contains" -> <<exp, text>> \notin Within
       [] check.operator = "regex"        -> <<exp, text>> \in Matches
       [] OTHER                           -> Ordered(check.operator, text, exp)

\* A mutant of Passes: the case of no rows is left to the modes.
PassesVacuously(check, rows) ==
  LET satisfying == {r \in rows : Satisfies(r, check)}
      failing    == {r \in rows : ~Satisfies(r, check)}
  IN CASE check.mode = "any" -> satisfying # {}
       [] check.mode = "all" -> failing = {}
       [] OTHER              -> satisfying = {}

\* _evaluate_check: without rows only "none" passes.
Passes(check, rows) ==
  LET satisfying == {r \in rows : Satisfies(r, check)}
      failing    == {r \in rows : ~Satisfies(r, check)}
  IN IF rows = {} THEN check.mode = "none"
     ELSE CASE check.mode = "any" -> satisfying # {}
            [] check.mode = "all" -> failing = {}
            [] OTHER              -> satisfying = {}

\* Only the parser runs inside evaluate_policy's try: a pattern that does
\* not compile raises out of it, once there is a row to try it on.
EvaluationRaises(parser, checks, content) ==
  /\ <<parser, content>> \in DOMAIN Parsed
  /\ Parsed[<<parser, content>>] # {}
  /\ \E c \in checks : c.operator = "regex" /\ c.expected \notin Patterns

\* A mutant of EvaluatePolicy: the policy fails when all its checks fail.
EvaluatePolicyByAll(parser, checks, content) ==
  IF <<parser, content>> \notin DOMAIN Parsed THEN "error"
  ELSE IF \A c \in checks : c.severity # "info" => ~Passes(c, Parsed[<<parser, content>>])
       THEN "fail" ELSE "pass"

\* Any failing check fails the policy, unless it is "info": "minor" too,
\* which the administrators' documentation exempts.
EvaluatePolicy(parser, checks, content) ==
  IF <<parser, content>> \notin DOMAIN Parsed THEN "error"
  ELSE IF \E c \in checks : /\ c.severity # "info"
                            /\ ~Passes(c, Parsed[<<parser, content>>])
       THEN "fail" ELSE "pass"
=============================================================================
