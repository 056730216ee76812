-------------------------------- MODULE MCText --------------------------------
(***************************************************************************)
(* What the engine does with texts, side by side: JSON and regular         *)
(* expressions.  A behaviour exercises one of them, and the variables of   *)
(* the other one stay as they are.                                         *)
(***************************************************************************)
EXTENDS JSON, RegExpMatch

VARIABLE unit       \* what is exercised
allVars == <<unit, vars, reVars>>

Parked == "parked"

MCInit ==
    /\ Init
    /\ \/ unit = "regexp" /\ ReInit
       \/ /\ unit = "json" /\ job = Parked /\ pc = Parked /\ cptr = Parked
          /\ cap = Parked /\ stk = Parked /\ states = Parked /\ ret = Parked
          /\ steps = Parked

MCNext ==
    \/ unit = "json" /\ Next /\ UNCHANGED <<unit, reVars>>
    \/ unit = "regexp" /\ ReNext /\ UNCHANGED <<unit, vars>>

MCSpec == MCInit /\ [][MCNext]_allVars

-----------------------------------------------------------------------------
(* Correctness. *)

\* JS_ParseJSON2, JSON.parse with a reviver and JSON.stringify do what ECMA-262
\* and the JSON grammar say: what is accepted, what is read, what is printed,
\* and that what was printed is read again as it was.  LiteralsAsJSON and
\* TextIsJSON name the literals that are accepted beyond JSON, and the word NaN
\* that is printed for a Number object.
JSONAsLanguage ==
    unit = "json" =>
        /\ ParsesTheGrammar /\ LiteralsAsJSON /\ StringsComeBack /\ TextIsJSON
        /\ ParsedBack /\ DiesOnlyOnFailure /\ RevivedAsLanguage

\* lre_exec_backtrack finds the match, with the groups, that the pattern stands
\* for, and stays within the stack that compute_stack_size allows;
\* MatchesAsLanguage names the loops in which it does something else.
RegExpAsLanguage == unit = "regexp" => MatchesAsLanguage /\ StackBounded
=============================================================================
