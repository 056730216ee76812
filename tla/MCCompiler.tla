------------------------------ MODULE MCCompiler ------------------------------
(***************************************************************************)
(* Expressions and statements side by side.  They share no state: a        *)
(* behaviour exercises one of them, and the variables of the other stay as *)
(* they are.                                                               *)
(***************************************************************************)
EXTENDS Expressions

CONSTANT
    StatementEvents     \* bound: events of a statement with a free outcome

VARIABLES
    unit,                                           \* what is exercised
    program, at, values, exc, ret, events, outcome  \* of statements

Stmt == INSTANCE Statements WITH MaxEvents <- StatementEvents,
            prog <- program, pc <- at, stack <- values, log <- events,
            end <- outcome

stmtVars == <<program, at, values, exc, ret, events, outcome>>
allVars == <<unit, vars, stmtVars>>

Parked == "parked"

MCInit ==
    \/ /\ unit = "expressions" /\ Init
       /\ program = Parked /\ at = Parked /\ values = Parked /\ exc = Parked
       /\ ret = Parked /\ events = Parked /\ outcome = Parked
    \/ /\ unit = "statements" /\ Stmt!Init
       /\ prog = Parked /\ pc = 1 /\ stack = <<>> /\ raised = FALSE
       /\ log = <<>> /\ end = <<>>

MCNext ==
    \/ unit = "expressions" /\ Next /\ UNCHANGED <<unit, stmtVars>>
    \/ unit = "statements" /\ Stmt!Next /\ UNCHANGED <<unit, vars>>

MCSpec == MCInit /\ [][MCNext]_allVars

-----------------------------------------------------------------------------
(* Correctness. *)

\* js_parse_statement: statements complete as the completion records of the
\* language say, through break, continue, return and exceptions out of finally
\* blocks and iterators, but for a break in a labelled block and for a second
\* label; the stack is never deeper than compute_stack_size found.
CompletesAsLanguage ==
    unit = "statements" => Stmt!CompletesAsLanguage /\ Stmt!StackAsComputed

\* js_parse_assign_expr: expressions evaluate their parts once and in the order
\* of the language, but for the six departures of AsCompiled, to its value or
\* exception, and leave just their value on the stack.
ExpressionsAsLanguage == EvaluatesAsLanguage /\ []StackIsBalanced
=============================================================================
