------------------------------ MODULE Statements ------------------------------
(***************************************************************************)
(* Statements as QuickJS compiles and runs them.  The parser emits byte    *)
(* code while it reads (js_parse_statement_or_decl): break, continue and   *)
(* return unwind the blocks around them by dropping values, closing        *)
(* iterators and calling the finally blocks as subroutines (gosub, ret).   *)
(* JS_CallInternal runs the code and unwinds its stack on an exception.    *)
(*                                                                         *)
(* What an expression, or a method of an iterator, does is a choice made   *)
(* when it is evaluated: true, false, or an exception.  The list of these  *)
(* events, and how the program ends, is compared with the completion       *)
(* records of the language.  The n-th event has the value n.               *)
(*                                                                         *)
(* Labels stay in the code.  Scopes and variables are left out.            *)
(***************************************************************************)
EXTENDS Integers, Sequences, FiniteSets, SequencesExt

CONSTANTS
    MaxEvents       \* bound: events with a free outcome; later ones are false

Outcomes == {"true", "false", "throw"}
Undef == 0
Empty == -1     \* the value of a statement without a value
NoLabel == ""
Start == 101    \* events: an iterator is made, asked for the next value, closed
Nxt == 102
Closes == 103

(***************************************************************************)
(* Syntax.  Expressions are numbers; 0 is one that is left out.            *)
(***************************************************************************)
Expr(i) == [k |-> "expr", i |-> i]
Return(i) == [k |-> "return", i |-> i]
Throw(i) == [k |-> "throw", i |-> i]
If(i, a, b) == [k |-> "if", i |-> i, a |-> a, b |-> b]
While(i, s) == [k |-> "while", i |-> i, s |-> s]
DoWhile(s, i) == [k |-> "do", i |-> i, s |-> s]
For(test, inc, s) == [k |-> "for", test |-> test, inc |-> inc, s |-> s]
ForOf(i, s) == [k |-> "forof", i |-> i, s |-> s]
ForIn(i, s) == [k |-> "forin", i |-> i, s |-> s]
Break(l) == [k |-> "break", l |-> l]
Continue(l) == [k |-> "continue", l |-> l]
Switch(i, clauses) == [k |-> "switch", i |-> i, clauses |-> clauses]
Case(i, body) == [default |-> FALSE, i |-> i, body |-> body]
Default(body) == [default |-> TRUE, i |-> 0, body |-> body]
\* c, f: <<>>, or the statements of the block
Try(b, c, f) == [k |-> "try", b |-> b, c |-> c, f |-> f]
Labelled(l, s) == [k |-> "label", l |-> l, s |-> s]
Block(ss) == [k |-> "block", ss |-> ss]

IsLoop(s) == s.k \in {"while", "do", "for", "forof", "forin"}

(***************************************************************************)
(* The compiler.  st: the code so far, the number of labels, and whether   *)
(* values of statements are stored (eval_ret_idx >= 0).                    *)
(***************************************************************************)
Op(op) == [op |-> op]

\* js_is_live_code: looks only at the last opcode.
Live(st) == st.code = <<>> \/ Last(st.code).op \notin {"return", "return_undef", "throw", "goto", "ret"}

Emit(st, op) == [st EXCEPT !.code = Append(@, Op(op))]
EmitExpr(st, i) == [st EXCEPT !.code = Append(@, [op |-> "eval", i |-> i])]
EmitGoto(st, op, l) == IF Live(st) THEN [st EXCEPT !.code = Append(@, [op |-> op, l |-> l])] ELSE st
EmitLabel(st, l) == [st EXCEPT !.code = Append(@, [op |-> "label", l |-> l])]
NewLabels(st, n) == [st EXCEPT !.labels = @ + n]
Emits(st, ops) == FoldLeft(Emit, st, ops)

\* set_eval_ret_undefined
SetRetUndefined(st) == IF st.keep THEN Emits(st, <<"undefined", "put_ret">>) ELSE st

\* push_break_entry
Entry(name, brk, cont, drop) ==
    [name |-> name, brk |-> brk, cont |-> cont, drop |-> drop, fin |-> 0, iter |-> FALSE]
Finally(env, drop, fin) == Append(env, [Entry(NoLabel, 0, 0, drop) EXCEPT !.fin = fin])

Drops(st, n) == Emits(st, [j \in 1 .. n |-> "drop"])
\* A finally block in passing: a dummy value keeps the depth of the stack.
CallFinally(st, l) == Emit(EmitGoto(Emit(st, "undefined"), "gosub", l), "drop")

\* Mutant: leaving a loop over an iterator only drops it.
LeaveEntryDrops(st, e) ==
    LET dropped == Drops(st, e.drop)
    IN IF e.fin = 0 THEN dropped ELSE CallFinally(dropped, e.fin)

\* One block left by break or continue.
LeaveEntry(st, e) ==
    LET closed == IF e.iter THEN Emit(st, "iterator_close") ELSE st
        dropped == Drops(closed, e.drop - (IF e.iter THEN 3 ELSE 0))
    IN IF e.fin = 0 THEN dropped ELSE CallFinally(dropped, e.fin)

RECURSIVE EmitBreak(_, _, _, _), ReturnThrough(_, _, _, _), Stmt(_, _, _, _), Stmts(_, _, _),
          Clauses(_, _, _, _, _, _, _)

EmitBreak(st, env, name, isCont) ==
    LET top == Last(env)
        target == IF isCont THEN top.cont ELSE top.brk
    IN IF env = <<>> THEN [st EXCEPT !.err = TRUE]       \* "break/continue label not found"
       ELSE IF target # 0 /\ name \in {NoLabel, top.name} THEN EmitGoto(st, "goto", target)
       ELSE EmitBreak(LeaveEntry(st, top), Front(env), name, isCont)

\* emit_return: the finally blocks run before the function returns.
ReturnThrough(st, env, hasval, drop) ==
    IF env = <<>> THEN Emit(st, IF hasval THEN "return" ELSE "return_undef")
    ELSE LET e == Last(env)
             valued == IF e.iter /\ ~hasval THEN Emit(st, "undefined") ELSE st
             st1 == IF e.iter THEN Emits(valued, <<"iterator_close_return", "iterator_close">>) ELSE st
             has1 == hasval \/ e.iter
             drop1 == (IF e.iter THEN -3 ELSE drop) + e.drop
             st2 == Emits(st1, [j \in 1 .. drop1 |-> IF has1 THEN "nip" ELSE "drop"])
             st3 == IF has1 THEN st2 ELSE Emit(st2, "undefined")
         IN IF e.fin = 0 THEN ReturnThrough(st1, Front(env), has1, drop1)
            ELSE ReturnThrough(EmitGoto(st3, "gosub", e.fin), Front(env), TRUE, 0)

Stmts(ss, st, env) ==
    IF ss = <<>> THEN st ELSE Stmts(Tail(ss), Stmt(Head(ss), st, env, NoLabel), env)

\* js_parse_for_in_of: the code that stores the value is moved behind the head.
ForEach(s, st, env, name) ==
    LET n == st.labels
        of == s.k = "forof"
        lc == n + 1 lb == n + 2 lx == n + 3 ln == n + 4
        e == [Entry(name, lx, lc, IF of THEN 3 ELSE 1) EXCEPT !.iter = of]
        head == Emit(EmitExpr(NewLabels(st, 4), s.i), IF of THEN "for_of_start" ELSE "for_in_start")
        put == Emit(EmitLabel(EmitGoto(head, "goto", lc), ln), "drop")     \* scope_put_var
        body == Stmt(s.s, EmitLabel(EmitGoto(put, "goto", lb), lb), Append(env, e), NoLabel)
        next == Emit(EmitLabel(body, lc), IF of THEN "for_of_next" ELSE "for_in_next")
    IN Emit(EmitLabel(Emit(EmitGoto(next, "if_false", ln), "drop"), lx),
            IF of THEN "iterator_close" ELSE "drop")

\* for(;;): the increment is moved behind the body when there is also a test.
ForLoop(s, st, env, name) ==
    LET n == st.labels
        lt == IF s.test = 0 THEN n + 3 ELSE n + 1       \* label_test
        lc == IF s.inc = 0 THEN lt ELSE n + 2           \* label_cont
        lb == n + 3 lx == n + 4
        env1 == Append(env, Entry(name, lx, lc, 0))
        st0 == NewLabels(st, 4)
        test == IF s.test = 0 THEN st0
                ELSE EmitGoto(EmitExpr(EmitLabel(st0, lt), s.test), "if_false", lx)
        increment(x) == Emit(EmitExpr(EmitLabel(x, lc), s.inc), "drop")
        body(x) == Stmt(s.s, EmitLabel(x, lb), env1, NoLabel)
        moved == s.test # 0 /\ s.inc # 0
        skip == EmitGoto(test, "goto", lb)
        all == IF s.inc = 0 THEN EmitGoto(body(test), "goto", lc)
               ELSE IF moved THEN EmitGoto(increment(body(skip)), "goto", lt)
               ELSE EmitGoto(body(increment(skip)), "goto", lc)
    IN EmitLabel(all, lx)

\* The clauses of a switch.  lcase: label of the next test, 0 before the first;
\* l1: label behind the tests of a group "case a: case b:", 0 if there is none;
\* group: whether such a group is being read.  The place of default gets its
\* label in the end, when the label of the last test is known.
Clauses(cs, st, env, lcase, dflt, l1, group) ==
    IF cs = <<>> THEN [st |-> st, lcase |-> lcase, dflt |-> dflt]
    ELSE LET cl == Head(cs)
             n == st.labels
             \* the clause before falls through: over the test
             over == IF group THEN l1 ELSE IF lcase # 0 /\ Live(st) THEN n + 1 ELSE 0
             skip == IF ~group /\ over # 0 THEN EmitGoto(st, "goto", over) ELSE st
             placed == IF group \/ lcase = 0 THEN skip ELSE EmitLabel(skip, lcase)
             test == Emit(EmitExpr(Emit(NewLabels(placed, 2), "dup"), cl.i), "strict_eq")
             more == cl.body = <<>> /\ Len(cs) > 1 /\ ~cs[2].default
             l1x == IF over = 0 THEN n + 2 ELSE over
             failed == EmitGoto(test, "if_false", n + 2)
             start == IF over = 0 THEN failed ELSE EmitLabel(failed, over)
             dstart == IF lcase # 0 THEN st ELSE EmitGoto(NewLabels(st, 1), "goto", n + 1)
             mark == [dstart EXCEPT !.code = Append(@, [op |-> "default", of |-> Last(env).brk])]
         IN CASE cl.default ->
                 Clauses(Tail(cs), Stmts(cl.body, mark, env), env,
                         IF lcase = 0 THEN n + 1 ELSE lcase, TRUE, 0, FALSE)
              [] ~cl.default /\ more ->
                 Clauses(Tail(cs), EmitGoto(test, "if_true", l1x), env, 0, dflt, l1x, TRUE)
              [] ~cl.default /\ ~more ->
                 Clauses(Tail(cs), Stmts(cl.body, start, env), env, n + 2, dflt, 0, FALSE)

SwitchStmt(s, st, env) ==
    LET lx == st.labels + 1
        st0 == NewLabels(EmitExpr(st, s.i), 1)
        r == Clauses(s.clauses, st0, Append(env, Entry(NoLabel, lx, 0, 1)), 0, FALSE, 0, FALSE)
        placed == IF r.dflt
                  THEN [r.st EXCEPT !.code = [j \in DOMAIN @ |->
                                                IF @[j] = [op |-> "default", of |-> lx]
                                                THEN [op |-> "label", l |-> r.lcase] ELSE @[j]]]
                  ELSE IF r.lcase = 0 THEN r.st ELSE EmitLabel(r.st, r.lcase)
    IN Emit(EmitLabel(placed, lx), "drop")

\* The catch block, and the handler that calls finally when it throws.
CatchBlock(st, body, env, lfin, lcatch2, lend) ==
    LET guarded == Stmts(body, EmitGoto(Emit(st, "drop"), "catch", lcatch2), Finally(env, 1, lfin))
        ended == IF Live(guarded)
                 THEN EmitGoto(CallFinally(Emit(guarded, "drop"), lfin), "goto", lend) ELSE guarded
    IN Emit(EmitGoto(EmitLabel(ended, lcatch2), "gosub", lfin), "throw")

TryStmt(s, st, env) ==
    LET n == st.labels
        lcatch == n + 1 lcatch2 == n + 2 lfin == n + 3 lend == n + 4
        block == Stmts(s.b, EmitGoto(NewLabels(st, 4), "catch", lcatch), Finally(env, 1, lfin))
        ended == IF Live(block)
                 THEN EmitGoto(CallFinally(Emit(block, "drop"), lfin), "goto", lend) ELSE block
        caught == EmitLabel(ended, lcatch)
        thrown == IF s.c # <<>> THEN CatchBlock(caught, s.c[1], env, lfin, lcatch2, lend)
                  ELSE Emit(EmitGoto(caught, "gosub", lfin), "throw")
        fin == EmitLabel(thrown, lfin)
        inFinally == IF s.f = <<>> THEN fin
                     ELSE [Stmts(s.f[1], [fin EXCEPT !.keep = FALSE], Finally(env, 2, 0))
                              EXCEPT !.keep = st.keep]
    IN EmitLabel(Emit(inFinally, "ret"), lend)

\* js_parse_statement_or_decl.  name: the label in front of a loop.
Stmt(s, st, env, name) ==
    LET n == st.labels
        st0 == SetRetUndefined(st)
        loop(brk, cont) == Append(env, Entry(name, brk, cont, 0))
    IN CASE s.k = "expr" -> Emit(EmitExpr(st, s.i), IF st.keep THEN "put_ret" ELSE "drop")
         [] s.k = "block" -> Stmts(s.ss, st, env)
         [] s.k = "return" ->
            ReturnThrough(IF s.i = 0 THEN st ELSE EmitExpr(st, s.i), env, s.i # 0, 0)
         [] s.k = "throw" -> Emit(EmitExpr(st, s.i), "throw")
         [] s.k = "if" ->
            LET then == Stmt(s.a, EmitGoto(EmitExpr(NewLabels(st0, 2), s.i), "if_false", n + 1), env, NoLabel)
                else == Stmt(s.b, EmitLabel(EmitGoto(then, "goto", n + 2), n + 1), env, NoLabel)
            IN IF Live(then) THEN EmitLabel(else, n + 2) ELSE else
         [] s.k = "while" ->
            LET test == EmitExpr(EmitLabel(NewLabels(st0, 2), n + 1), s.i)
                body == Stmt(s.s, EmitGoto(test, "if_false", n + 2), loop(n + 2, n + 1), NoLabel)
            IN EmitLabel(EmitGoto(body, "goto", n + 1), n + 2)
         [] s.k = "do" ->
            LET body == Stmt(s.s, SetRetUndefined(EmitLabel(NewLabels(st, 3), n + 3)),
                             loop(n + 2, n + 1), NoLabel)
            IN EmitLabel(EmitGoto(EmitExpr(EmitLabel(body, n + 1), s.i), "if_true", n + 3), n + 2)
         [] s.k = "for" -> ForLoop(s, st0, env, name)
         [] s.k \in {"forof", "forin"} -> ForEach(s, st0, env, name)
         [] s.k = "break" -> EmitBreak(st, env, s.l, FALSE)
         [] s.k = "continue" -> EmitBreak(st, env, s.l, TRUE)
         [] s.k = "switch" -> SwitchStmt(s, st0, env)
         [] s.k = "try" -> TryStmt(s, st0, env)
         [] s.k = "label" ->
            IF IsLoop(s.s) THEN Stmt(s.s, st, env, s.l)
            ELSE EmitLabel(Stmt(s.s, NewLabels(st, 1), Append(env, Entry(s.l, n + 1, 0, 0)), NoLabel), n + 1)

\* The end of a function, or of the code of eval; no code after a syntax error.
Compile(program) ==
    LET st == Stmts(program.b, [code |-> <<>>, labels |-> 0, keep |-> program.eval, err |-> FALSE], <<>>)
    IN IF st.err THEN <<>>
       ELSE IF program.eval THEN Emits(st, <<"get_ret", "return">>).code
       ELSE IF Live(st) THEN Emit(st, "return_undef").code ELSE st.code

LabelPos(code, l) == SelectInSeq(code, LAMBDA ins : ins.op = "label" /\ ins.l = l)

(***************************************************************************)
(* compute_stack_size: the depth of the stack at every instruction.        *)
(***************************************************************************)
Delta(op) ==
    CASE op \in {"eval", "undefined", "dup", "catch", "get_ret"} -> 1
      [] op \in {"drop", "nip", "put_ret", "if_false", "if_true", "strict_eq", "return", "throw", "ret"} -> -1
      [] op \in {"for_of_start", "for_of_next", "for_in_next"} -> 2
      [] op = "iterator_close" -> -3
      [] OTHER -> 0

\* Pairs of an instruction and the depth with which it is reached from p at depth d.
Reached(code, p, d) ==
    LET ins == code[p]
        after == d + Delta(ins.op)
        jump == IF "l" \in DOMAIN ins /\ ins.op # "label"
                THEN {<<LabelPos(code, ins.l), IF ins.op = "gosub" THEN after + 1 ELSE after>>} ELSE {}
        next == IF ins.op \in {"return", "return_undef", "throw", "ret", "goto"} THEN {}
                ELSE {<<p + 1, after>>}
    IN jump \cup next

RECURSIVE Depths(_, _, _)
Depths(code, seen, todo) ==
    IF todo = {} THEN seen
    ELSE LET new == UNION {Reached(code, x[1], x[2]) : x \in todo} \ (seen \cup todo)
         IN IF Cardinality(seen) > 3 * Len(code) THEN seen ELSE Depths(code, seen \cup todo, new)

DepthsOf(code) == IF code = <<>> THEN {} ELSE Depths(code, {}, {<<1, 0>>})
\* "unconsistent stack size": the function is refused.
Consistent(depths) == \A x, y \in depths : x[1] = y[1] => x[2] = y[2]

(***************************************************************************)
(* The interpreter.                                                        *)
(***************************************************************************)
(***************************************************************************)
(* The programs that TLC runs: functions, and code of eval, which gives    *)
(* the value of its last statement.                                        *)
(***************************************************************************)
\* A statement that leaves, or may leave, what is around it.
Leaves == {Return(9), Return(0), Throw(9), Break("L"), Continue("L"), Expr(9)}
Maybe(s) == If(8, s, Expr(7))
In(s) == Block(<<Expr(6), Maybe(s)>>)

\* Inside one construct ...
Inner(s) == {Try(<<Maybe(s)>>, <<>>, <<<<Expr(5)>>>>), Try(<<Expr(4)>>, <<<<Maybe(s)>>>>, <<<<Expr(5)>>>>),
             Try(<<Expr(4)>>, <<<<Expr(5)>>>>, <<<<Maybe(s)>>>>), ForOf(4, Maybe(s)), ForIn(4, Maybe(s))}
\* ... inside a loop with the label L.
Outer(s) == {Labelled("L", ForOf(1, s)), Labelled("L", ForIn(1, s)), Labelled("L", While(1, s)),
             Labelled("L", DoWhile(s, 1)), Labelled("L", For(1, 2, s))}
Nested == {<<o, Expr(3)>> : o \in UNION {Outer(i) : i \in UNION {Inner(s) : s \in Leaves}}}

\* Exceptions and finally blocks within finally blocks.
Finals ==
    {<<Labelled("L", While(1, Try(<<Try(<<Maybe(s)>>, c, <<<<Maybe(t)>>>>)>>, <<>>, <<<<Expr(5)>>>>)))>> :
        s, t \in {Return(9), Break("L"), Throw(9)}, c \in {<<>>, <<<<Expr(4)>>>>}}

Branches ==
    {<<Switch(1, cs), Expr(3)>> : cs \in {
        <<Case(2, <<Expr(4), Break(NoLabel)>>), Case(5, <<>>), Case(6, <<Expr(7)>>), Default(<<Expr(8)>>)>>,
        <<Default(<<Expr(4)>>), Case(5, <<Break(NoLabel)>>), Case(6, <<Expr(7)>>)>>,
        <<Case(2, <<Return(4)>>), Default(<<Maybe(Break(NoLabel))>>), Case(5, <<Expr(7)>>)>>,
        <<Case(2, <<Expr(4)>>), Case(5, <<Return(0)>>), Case(6, <<Expr(7)>>)>>, <<>>,
        <<Default(<<Switch(4, <<Case(5, <<>>), Default(<<Expr(6)>>)>>)>>), Case(7, <<Expr(8)>>)>>}}
    \cup {<<For(t, n, Block(<<Maybe(Continue(NoLabel)), Maybe(Break(NoLabel)), Return(4)>>)), Expr(3)>> :
             t \in {0, 1}, n \in {0, 2}}
    \cup {<<Labelled("B", Block(<<Expr(1), Maybe(Break("B")), Expr(2)>>)), Expr(3)>>}
    \cup {<<While(1, Switch(2, <<Case(4, <<Maybe(s)>>), Default(<<Expr(5)>>)>>))>> :
             s \in {Continue(NoLabel), Break(NoLabel), Return(9)}}

\* A break without a label in a labelled statement that is no loop; two labels.
LabelledBreaks ==
    {<<w, Expr(3)>> : w \in
        UNION {{While(1, b), ForOf(1, b), Switch(1, <<Default(<<b>>)>>), b} :
                 b \in {Labelled("B", Block(<<Maybe(Break(NoLabel)), Expr(2)>>)),
                        Labelled("B", Try(<<Maybe(Break(NoLabel))>>, <<>>, <<<<Expr(5)>>>>))}}}
TwoLabels(s) == <<Labelled("M", Labelled("L", ForOf(1, Block(<<Maybe(s), Expr(2)>>)))), Expr(3)>>

FunctionPrograms ==
    Nested \cup Finals \cup Branches \cup LabelledBreaks
    \cup {TwoLabels(s) : s \in {Break("M"), Break("L"), Break(NoLabel), Continue("L"), Continue("M")}}

\* Programs of eval: no return.
EvalPrograms ==
    {<<Expr(1), s>> : s \in {
        If(2, Block(<<>>), Expr(3)), While(2, Block(<<Expr(3), Maybe(Break(NoLabel))>>)),
        DoWhile(Block(<<Expr(3), Maybe(Continue(NoLabel)), Expr(4)>>), 2), Block(<<>>),
        Labelled("B", Block(<<Break("B"), Expr(2)>>)), Labelled("B", Block(<<Expr(2), Break("B")>>)),
        For(2, 3, Block(<<Break(NoLabel)>>)), Switch(2, <<Case(3, <<Expr(4), Break(NoLabel)>>), Default(<<>>)>>),
        Try(<<Expr(2)>>, <<<<Expr(3)>>>>, <<<<Expr(4)>>>>), Try(<<>>, <<>>, <<<<Expr(4)>>>>),
        ForOf(2, Block(<<Expr(3), Try(<<Expr(4), Maybe(Break(NoLabel))>>, <<>>, <<<<Expr(5)>>>>)>>)),
        Try(<<Throw(2)>>, <<<<>>>>, <<>>), ForIn(2, Expr(3))}}

Programs == {[eval |-> FALSE, b |-> p] : p \in FunctionPrograms}
            \cup {[eval |-> TRUE, b |-> p] : p \in EvalPrograms}

VARIABLES
    prog,   \* the program, its code and depths
    pc,
    stack,  \* values, catch offsets, return positions, iterators
    exc,    \* the pending exception, or Empty
    ret,    \* the local variable eval_ret
    log,    \* history: the events and their outcomes
    end     \* how the program ended: its type and value

vars == <<prog, pc, stack, exc, ret, log, end>>
Running == [t |-> "running", v |-> Undef]
Refused == [t |-> "refused", v |-> Undef]

Init ==
    /\ \E p \in Programs :
         LET code == Compile(p)
         IN prog = [p |-> p, code |-> code, depths |-> DepthsOf(code)] /\ end = IF code = <<>> THEN Refused ELSE Running
    /\ pc = 1 /\ stack = <<>> /\ exc = Empty /\ ret = Undef /\ log = <<>>

Ins == prog.code[pc]
Val(v, b) == [tag |-> "val", v |-> v, b |-> b]
Top == Last(stack)
Run(ops) == end = Running /\ exc = Empty /\ Ins.op \in ops
Now == Len(log) + 1

\* The next event: what it is, and its outcome.
Happens(i, o) ==
    /\ o \in (IF Len(log) < MaxEvents THEN Outcomes ELSE {"false"})
    /\ log' = Append(log, <<i, o>>)
Raise(v) == exc' = v /\ UNCHANGED <<pc, ret, end, prog>>
Go(p) == pc' = p /\ UNCHANGED <<exc, ret, end, prog>>
Pop(n) == SubSeq(stack, 1, Len(stack) - n)

DoEval ==
    /\ Run({"eval"})
    /\ \E o \in Outcomes :
         /\ Happens(Ins.i, o)
         /\ IF o = "throw" THEN Raise(Now) /\ UNCHANGED stack
            ELSE stack' = Append(stack, Val(Now, o = "true")) /\ Go(pc + 1)

DoStack ==
    /\ Run({"undefined", "drop", "nip", "dup", "strict_eq", "label", "get_ret", "put_ret"})
    /\ stack' = CASE Ins.op = "undefined" -> Append(stack, Val(Undef, FALSE))
                  [] Ins.op = "drop" -> Pop(1)
                  [] Ins.op = "nip" -> Append(Pop(2), Top)
                  [] Ins.op = "dup" -> Append(stack, Top)
                  [] Ins.op = "strict_eq" -> Append(Pop(2), Top)
                  [] Ins.op = "label" -> stack
                  [] Ins.op = "get_ret" -> Append(stack, Val(ret, FALSE))
                  [] Ins.op = "put_ret" -> Pop(1)
    /\ ret' = IF Ins.op = "put_ret" THEN Top.v ELSE ret
    /\ pc' = pc + 1 /\ UNCHANGED <<exc, end, prog, log>>

DoJump ==
    /\ Run({"goto", "if_false", "if_true", "catch", "gosub", "ret"})
    /\ LET to == IF Ins.op = "ret" THEN Top.v ELSE LabelPos(prog.code, Ins.l)
           taken == CASE Ins.op = "if_false" -> ~Top.b
                      [] Ins.op = "if_true" -> Top.b
                      [] Ins.op = "catch" -> FALSE
                      [] OTHER -> TRUE
       IN /\ Go(IF taken THEN to ELSE pc + 1)
          /\ stack' = CASE Ins.op \in {"if_false", "if_true", "ret"} -> Pop(1)
                        [] Ins.op = "catch" -> Append(stack, [tag |-> "catch", v |-> to])
                        [] Ins.op = "gosub" -> Append(stack, [tag |-> "int", v |-> pc + 1])
                        [] OTHER -> stack
    /\ UNCHANGED log

\* for_of_start: iterator, next method and the offset 0 that marks them.
DoForStart ==
    /\ Run({"for_of_start", "for_in_start"})
    /\ \E o \in Outcomes :
         /\ Happens(Start, o)
         /\ IF o = "throw" THEN Raise(Now) /\ UNCHANGED stack
            ELSE /\ stack' = Pop(1) \o IF Ins.op = "for_in_start" THEN <<[tag |-> "iter", v |-> Now]>>
                                       ELSE <<[tag |-> "iter", v |-> Now], Val(Undef, FALSE),
                                              [tag |-> "catch", v |-> 0]>>
                 /\ Go(pc + 1)

\* The iterator is forgotten when it is done or has thrown.
DoForNext ==
    /\ Run({"for_of_next", "for_in_next"})
    /\ \E o \in Outcomes :
         LET of == Ins.op = "for_of_next"
             at == IF of THEN Len(stack) - 2 ELSE Len(stack)
             gone == [stack EXCEPT ![at] = Val(Undef, FALSE)]
         IN /\ Happens(Nxt, o)
            /\ IF o = "throw" THEN Raise(Now) /\ stack' = (IF of THEN gone ELSE stack)
               ELSE /\ stack' = (IF o = "false" /\ of THEN gone ELSE stack)
                                  \o <<Val(Now, FALSE), Val(Undef, o = "false")>>
                    /\ Go(pc + 1)

\* JS_IteratorClose without a pending exception: false is an object returned,
\* true another value, which is a TypeError.
DoIteratorClose ==
    /\ Run({"iterator_close"})
    /\ LET it == stack[Len(stack) - 2]
       IN IF it.tag # "iter" THEN stack' = Pop(3) /\ Go(pc + 1) /\ UNCHANGED log
          ELSE \E o \in Outcomes :
                 /\ Happens(Closes, o)
                 /\ IF o = "false" THEN stack' = Pop(3) /\ Go(pc + 1)
                    ELSE stack' = Pop(2) /\ Raise(Now)

\* Drops what is above the mark of the iterator, and puts the value below it.
DoCloseReturn ==
    /\ Run({"iterator_close_return"})
    /\ LET mark == CHOOSE k \in DOMAIN stack :
                     /\ stack[k].tag = "catch"
                     /\ \A j \in k + 1 .. Len(stack) : stack[j].tag # "catch"
       IN stack' = SubSeq(stack, 1, mark - 3) \o <<Top>> \o SubSeq(stack, mark - 2, mark)
    /\ Go(pc + 1) /\ UNCHANGED log

DoThrow == Run({"throw"}) /\ Raise(Top.v) /\ stack' = Pop(1) /\ UNCHANGED log

DoReturn ==
    /\ Run({"return", "return_undef"})
    /\ end' = [t |-> "return", v |-> IF Ins.op = "return" THEN Top.v ELSE Undef]
    /\ UNCHANGED <<prog, pc, stack, exc, ret, log>>

\* The exception label: unwind to the innermost catch, closing iterators; what
\* their methods do then is ignored.
Unwind ==
    /\ end = Running /\ exc # Empty
    /\ IF stack = <<>> THEN end' = [t |-> "throw", v |-> exc] /\ UNCHANGED <<pc, stack, exc, log>>
       ELSE IF Top.tag = "catch" /\ Top.v = 0
       THEN /\ IF stack[Len(stack) - 2].tag = "iter"
               THEN \E o \in Outcomes : Happens(Closes, o)
               ELSE UNCHANGED log
            /\ stack' = Pop(2) /\ UNCHANGED <<pc, exc, end>>
       ELSE IF Top.tag = "catch"
       THEN /\ stack' = Append(Pop(1), Val(exc, FALSE)) /\ exc' = Empty /\ pc' = Top.v
            /\ UNCHANGED <<log, end>>
       ELSE stack' = Pop(1) /\ UNCHANGED <<pc, exc, log, end>>
    /\ UNCHANGED <<prog, ret>>

Next ==
    \/ DoEval \/ DoStack \/ DoJump \/ DoForStart \/ DoForNext \/ DoIteratorClose
    \/ DoCloseReturn \/ DoThrow \/ DoReturn \/ Unwind
    \/ end # Running /\ UNCHANGED vars

Spec == Init /\ [][Next]_vars

(***************************************************************************)
(* The language: a statement gives a completion c: its type, its value     *)
(* (Empty if it has none), its target, and the events so far.              *)
(***************************************************************************)
Done(t, v, l, ev) == [t |-> t, v |-> v, l |-> l, ev |-> ev]
Normal(v, ev) == Done("normal", v, NoLabel, ev)
Outcome(ev) == IF Len(ev) < Len(log) THEN log[Len(ev) + 1][2] ELSE "false"
Event(ev, i) == Append(ev, <<i, Outcome(ev)>>)
ValueOr(c, v) == IF c.v = Empty THEN [c EXCEPT !.v = v] ELSE c

\* IteratorClose: an exception of the loop wins, then one of the method.
Close(c) ==
    LET o == Outcome(c.ev)
        ev == Event(c.ev, Closes)
    IN IF c.t = "throw" \/ o = "false" THEN [c EXCEPT !.ev = ev]
       ELSE Done("throw", Len(ev), NoLabel, ev)

RECURSIVE Means(_, _, _), MeansAll(_, _), Loop(_, _, _, _, _), FromClause(_, _, _), FindClause(_, _, _)
MeansAll(ss, ev) ==
    IF ss = <<>> THEN Normal(Empty, ev)
    ELSE LET c == Means(Head(ss), ev, NoLabel)
         IN IF c.t # "normal" THEN c
            ELSE ValueOr(MeansAll(Tail(ss), c.ev), c.v)

\* One more round of a loop.  phase: "test", "body" or "next"; v: the value so far.
Loop(s, phase, v, ev, name) ==
    LET ofin == s.k \in {"forof", "forin"}
        i == CASE s.k \in {"while", "do"} -> s.i [] s.k = "for" -> s.test [] OTHER -> Nxt
        o == Outcome(ev)
        ev1 == Event(ev, i)
        c == ValueOr(Means(s.s, ev, NoLabel), v)
        stays == c.t = "normal" \/ (c.t = "continue" /\ c.l \in {NoLabel, name})
        breaks == c.t = "break" /\ c.l = NoLabel
        out == IF s.k = "forof" THEN Close(c) ELSE c
    IN CASE phase = "test" /\ i = 0 -> Loop(s, "body", v, ev, name)
         [] phase = "test" /\ i # 0 /\ o = "throw" -> Done("throw", Len(ev1), NoLabel, ev1)
         [] phase = "test" /\ i # 0 /\ o = "false" -> Normal(v, ev1)
         [] phase = "test" /\ i # 0 /\ o = "true" -> Loop(s, "body", v, ev1, name)
         [] phase = "body" /\ stays -> Loop(s, IF s.k = "for" THEN "next" ELSE "test", c.v, c.ev, name)
         [] phase = "body" /\ ~stays ->
            IF breaks THEN (IF out.t = "break" THEN Normal(out.v, out.ev) ELSE out) ELSE out
         [] phase = "next" /\ s.inc = 0 -> Loop(s, "test", v, ev, name)
         [] phase = "next" /\ s.inc # 0 ->
            IF o = "throw" THEN Done("throw", Len(ev) + 1, NoLabel, Event(ev, s.inc))
            ELSE Loop(s, "test", v, Event(ev, s.inc), name)

\* The first clause whose test is true, else default, else none.
FindClause(cs, k, ev) ==
    IF k > Len(cs) THEN [at |-> SelectInSeq(cs, LAMBDA cl : cl.default), ev |-> ev, thrown |-> FALSE]
    ELSE IF cs[k].default THEN FindClause(cs, k + 1, ev)
    ELSE LET o == Outcome(ev)
             ev1 == Event(ev, cs[k].i)
         IN IF o = "false" THEN FindClause(cs, k + 1, ev1)
            ELSE [at |-> k, ev |-> ev1, thrown |-> o = "throw"]
FromClause(cs, k, ev) ==
    MeansAll(FlattenSeq([j \in 1 .. Len(cs) - k + 1 |-> cs[j + k - 1].body]), ev)

\* The code departs: a break without a label ends at the labelled statement s too.
BreaksHere(s, l) == l = NoLabel /\ ~IsLoop(s.s)

Means(s, ev, name) ==
    LET o == Outcome(ev)
        ev1 == IF "i" \in DOMAIN s THEN Event(ev, s.i) ELSE ev
        thrown == Done("throw", Len(ev1), NoLabel, ev1)
    IN CASE s.k = "block" -> MeansAll(s.ss, ev)
         [] s.k \in {"break", "continue"} -> Done(s.k, Empty, s.l, ev)
         [] s.k = "return" /\ s.i = 0 -> Done("return", Undef, NoLabel, ev)
         [] s.k \in {"expr", "return", "throw", "if", "switch", "forof", "forin"}
              /\ ~(s.k = "return" /\ s.i = 0) ->
            IF o = "throw" \/ s.k = "throw" THEN thrown
            ELSE (CASE s.k = "expr" -> Normal(Len(ev1), ev1)
                   [] s.k = "return" -> Done("return", Len(ev1), NoLabel, ev1)
                   [] s.k = "if" -> ValueOr(Means(IF o = "true" THEN s.a ELSE s.b, ev1, NoLabel), Undef)
                   [] s.k = "switch" ->
                      LET f == FindClause(s.clauses, 1, ev1)
                          c == ValueOr(IF f.at = 0 THEN Normal(Empty, f.ev)
                                       ELSE FromClause(s.clauses, f.at, f.ev), Undef)
                      IN IF f.thrown THEN Done("throw", Len(f.ev), NoLabel, f.ev)
                         ELSE IF c.t = "break" /\ c.l = NoLabel THEN Normal(c.v, c.ev) ELSE c
                   [] s.k \in {"forof", "forin"} ->
                      LET ev2 == Event(ev1, Start)
                      IN IF Outcome(ev1) = "throw" THEN Done("throw", Len(ev2), NoLabel, ev2)
                         ELSE Loop(s, "test", Undef, ev2, name))
         [] s.k \in {"while", "for"} -> Loop(s, "test", Undef, ev, name)
         [] s.k = "do" -> Loop(s, "body", Undef, ev, name)
         [] s.k = "try" ->
            LET b == MeansAll(s.b, ev)
                c == IF b.t = "throw" /\ s.c # <<>> THEN MeansAll(s.c[1], b.ev) ELSE b
                f == IF s.f = <<>> THEN Normal(Empty, c.ev) ELSE MeansAll(s.f[1], c.ev)
            IN ValueOr(IF f.t = "normal" THEN [c EXCEPT !.ev = f.ev] ELSE f, Undef)
         [] s.k = "label" ->
            LET c == Means(s.s, ev, s.l)
            IN IF c.t = "break" /\ (c.l = s.l \/ BreaksHere(s, c.l)) THEN Normal(c.v, c.ev) ELSE c

\* The code departs: continue with the first of two labels is refused.
ContinuesFirstLabel(b) == b = TwoLabels(Continue("M"))

\* A program does the events, in the order, that its statements stand for, and
\* ends as they say: by an exception, or with the value returned or, for eval,
\* the value of its last statement; but for BreaksHere and ContinuesFirstLabel.
CompletesAsLanguage ==
    /\ end = Refused <=> ContinuesFirstLabel(prog.p.b)
    /\ end \notin {Running, Refused} =>
        LET c == MeansAll(prog.p.b, <<>>)
            v == IF c.t = "normal" THEN (IF prog.p.eval /\ c.v # Empty THEN c.v ELSE Undef) ELSE c.v
        IN c.ev = log /\ end = [t |-> IF c.t = "normal" THEN "return" ELSE c.t, v |-> v]

\* compute_stack_size accepts the code, and whenever an instruction is reached
\* the stack is at most as deep as computed (less after a return that dropped
\* everything above an iterator).
StackAsComputed ==
    /\ Consistent(prog.depths)
    /\ (end = Running /\ exc = Empty) => \E x \in prog.depths : x[1] = pc /\ Len(stack) <= x[2]
=============================================================================
