------------------------------ MODULE Evaluation ------------------------------
(***************************************************************************)
(* What the server evaluates: the formulas that a write sets columns with   *)
(* (Formulas), and the conditions of a query (Filters).  They share no       *)
(* state, so a behaviour is one of them.                                    *)
(***************************************************************************)
EXTENDS Integers, Sequences, TLC

CONSTANTS
  Column, Scopes, Lexed, Formulas, Currents, MinValue, CalcScale,
  Rows, Null, Word, Starts, Ends, Parts, TypeOf, SearchColumns, Queries, MaxDepth, MaxLeaves

VARIABLES
  part,
  formula, current, stored,
  query, selected, stage

formulas == <<formula, current, stored>>
filters == <<query, selected, stage>>

F == INSTANCE Formulas
Q == INSTANCE Filters WITH found <- selected

AnyOf(S) == CHOOSE x \in S : TRUE

\* The parts that do not run are at one of their initial states.
Init ==
  /\ part \in {"formulas", "filters"}
  /\ part = "formulas" \/ (formula = AnyOf(Formulas) /\ current = AnyOf(Currents))
  /\ part = "filters" \/ query = AnyOf(Queries)
  /\ F!Init /\ Q!Init

Next ==
  \/ part = "formulas" /\ F!Next /\ UNCHANGED <<part, filters>>
  \/ part = "filters" /\ Q!Next /\ UNCHANGED <<part, formulas>>

Spec == Init /\ [][Next]_<<part, formulas, filters>>

SetMeansItsFormula == F!SetMeansItsFormula
ShownIsAsked == Q!ShownIsAsked

===============================================================================
