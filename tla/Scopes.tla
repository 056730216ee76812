-------------------------------- MODULE Scopes --------------------------------
(***************************************************************************)
(* Variables as QuickJS declares, resolves and keeps them.  The parser     *)
(* records declarations in the scopes of a function and emits accesses by  *)
(* name; a second pass turns each access into a local, an argument, a      *)
(* reference shared with closures, a property of a `with' or eval object,  *)
(* or a global.  A closure shares a variable through a reference that      *)
(* points into the frame while the variable is live and keeps the value    *)
(* when the scope or the frame is left.                                    *)
(*                                                                         *)
(* Programs talk about the variable x (parameters may have other names).   *)
(* What they observe is the log, and an uncaught exception that ends them. *)
(* Both are compared with the environments of the language.                *)
(*                                                                         *)
(* `this', `arguments', new.target, private names and modules are left     *)
(* out, and the functions of declarations are called by nobody.            *)
(***************************************************************************)
EXTENDS Integers, Sequences, SequencesExt

(***************************************************************************)
(* Syntax.                                                                 *)
(***************************************************************************)
DeclVar(n) == [k |-> "var", n |-> n]        \* var x = n; 0: no initializer
DeclLet(n) == [k |-> "let", n |-> n]
DeclConst(n) == [k |-> "const", n |-> n]
DeclFn(n) == [k |-> "fn", n |-> n]          \* function x() {}
Get == [k |-> "get"]                        \* log(x)
Typeof == [k |-> "typeof"]                  \* log(typeof x)
Delete == [k |-> "delete"]                  \* log(delete x)
Put(n) == [k |-> "put", n |-> n]            \* x = n
PutLog(n) == [k |-> "putlog", n |-> n]      \* x = log(n)
Clo(n) == [k |-> "clo", n |-> n]            \* keep(() => { log(x); x = n }); 0: only the read
Run == [k |-> "run"]                        \* call all the kept closures
Block(b) == [k |-> "block", b |-> b]
For(d, b, cont) == [k |-> "for", d |-> d, b |-> b, cont |-> cont]   \* for (d x = 0; x < 2; x++) { b }
\* for (d x of [1, 2]) { b }; head: what the expression does with x before
ForOf(d, head, b, cont) == [k |-> "forof", d |-> d, head |-> head, b |-> b, cont |-> cont]
Catch(b) == [k |-> "catch", b |-> b]        \* try { throw 7 } catch (x) { b }
With(has, b) == [k |-> "with", has |-> has, b |-> b]    \* with ({x: 8} or {}) { b }
Call(name, ps, b) == [k |-> "call", name |-> name, ps |-> ps, b |-> b]  \* (function name(ps) { b })()
Eval(b) == [k |-> "eval", b |-> b]          \* eval("b")

\* Parameters: by name, with a default value that is used, or as a pattern.
Plain(x) == [k |-> "plain", x |-> x]
Default(x, e) == [k |-> "default", x |-> x, e |-> e]    \* e: "get", "clo" or "now" (a closure that is called at once)
Pat(x) == [k |-> "pat", x |-> x]

Undef == <<"undef">>
Uninit == <<"uninit">>
Num(n) == <<"num", n>>
Fn(n) == <<"fn", n>>
NumOrUndef(n) == IF n = 0 THEN Undef ELSE Num(n)

Below2(v) == v[1] = "num" /\ v[2] < 2
Incremented(v) == IF v[1] = "num" THEN Num(v[2] + 1) ELSE <<"nan">>
TypeName(v) == <<"typeof", v[1]>>

\* The argument values: a default value is taken for an argument that is undefined.
ArgValues(ps) == [i \in 1..Len(ps) |-> CASE ps[i].k = "plain" -> Num(20 + i) [] ps[i].k = "pat" -> Num(30 + i) [] OTHER -> Undef]

(***************************************************************************)
(* Early errors.                                                           *)
(***************************************************************************)
Members(b) == {b[i] : i \in 1..Len(b)}
Count(b, Test(_)) == Len(SelectSeq(b, Test))
HasBody(t) == t.k \in {"block", "for", "forof", "catch", "with"}

RECURSIVE DeclaresVar(_)
DeclaresVar(b) ==
    \E t \in Members(b) :
        \/ t.k = "var"
        \/ t.k \in {"for", "forof"} /\ t.d = "var"
        \/ HasBody(t) /\ DeclaresVar(t.b)
Lets(b) == Count(b, LAMBDA t : t.k \in {"let", "const"})
Fns(b) == Count(b, LAMBDA t : t.k = "fn")
BlockNameError(b, strict) ==
    \/ Lets(b) > 1
    \/ Lets(b) = 1 /\ Fns(b) > 0
    \/ Fns(b) > 1 /\ strict
    \/ Lets(b) + Fns(b) > 0 /\ DeclaresVar(b)
TopNameError(b) == Lets(b) > 1 \/ (Lets(b) = 1 /\ (Fns(b) > 0 \/ DeclaresVar(b)))
IsParam(ps, x) == \E i \in 1..Len(ps) : ps[i].x = x
ParamError(t, strict) ==
    \/ Lets(t.b) > 0 /\ IsParam(t.ps, "x")
    \/ /\ strict \/ \E i \in 1..Len(t.ps) : t.ps[i].k # "plain"
       /\ \E i, j \in 1..Len(t.ps) : i # j /\ t.ps[i].x = t.ps[j].x

RECURSIVE EarlyError(_, _)
EarlyError(b, strict) ==
    \E t \in Members(b) :
        \/ strict /\ t.k \in {"with", "delete"}
        \/ HasBody(t) /\ (BlockNameError(t.b, strict) \/ EarlyError(t.b, strict))
        \/ t.k \in {"for", "forof"} /\ t.d # "var" /\ DeclaresVar(t.b)
        \/ t.k = "catch" /\ Lets(t.b) + Fns(t.b) > 0
        \/ t.k = "call" /\ (TopNameError(t.b) \/ ParamError(t, strict) \/ EarlyError(t.b, strict))
ProgramError(b, strict) == TopNameError(b) \/ EarlyError(b, strict)

\* The functions in blocks that the function around them gets to see too: those
\* that could have been declared with var.  b: statements below no declaration of x.
RECURSIVE HoistedFns(_, _)
HoistedFns(b, block) ==
    IF Lets(b) > 0 THEN {}
    ELSE (IF block THEN {t \in Members(b) : t.k = "fn"} ELSE {})
         \cup IF block /\ Fns(b) > 0 THEN {}
              ELSE UNION {HoistedFns(t.b, TRUE) : t \in
                            {u \in Members(b) : HasBody(u) /\ (u.k \in {"for", "forof"} => u.d = "var")}}

(***************************************************************************)
(* Environment records.  S: [envs, log, kept, out].  C: the environments   *)
(* of the running code, strictness, and the block functions it hoists.     *)
(***************************************************************************)
Global == 1
GlobalLexical == 2
NewEnv(kind, par) == [kind |-> kind, par |-> par, has |-> FALSE, v |-> Undef, const |-> "no", del |-> FALSE]
AddEnv(S, kind, par) == [S EXCEPT !.envs = Append(@, NewEnv(kind, par))]
LastEnv(S) == Len(S.envs)
Bind(S, e, v, del) == [S EXCEPT !.envs[e] = [@ EXCEPT !.has = TRUE, !.v = v, !.del = del]]
Bound(S, e) == S.envs[e].has
Error(S, e) == [S EXCEPT !.out = e]
Log(S, v) == [S EXCEPT !.log = Append(@, v)]

RECURSIVE Resolve(_, _)
Resolve(S, e) == IF e = 0 \/ Bound(S, e) THEN e ELSE Resolve(S, S.envs[e].par)

Read(S, e) == IF e = 0 \/ S.envs[e].v = Uninit THEN Error(S, "Ref") ELSE S
Write(S, e, v, strict) ==
    CASE e = 0 -> IF strict THEN Error(S, "Ref") ELSE Bind(S, Global, v, TRUE)
      [] e # 0 /\ S.envs[e].v = Uninit -> Error(S, "Ref")
      [] e # 0 /\ S.envs[e].v # Uninit /\ S.envs[e].const = "yes" -> Error(S, "Type")
      [] e # 0 /\ S.envs[e].v # Uninit /\ S.envs[e].const = "name" -> IF strict THEN Error(S, "Type") ELSE S
      [] OTHER -> [S EXCEPT !.envs[e].v = v]
LogRead(S, e) == LET R == Read(S, e) IN IF R.out # "" THEN R ELSE Log(R, S.envs[e].v)

\* What the closures and the heads do.
CallClosure(S, c) ==
    LET e == Resolve(S, c.env)
        R == LogRead(S, e)
    IN IF R.out # "" \/ c.n = 0 THEN R ELSE Write(R, e, Num(c.n), c.strict)
RunAll(S) == FoldLeft(LAMBDA R, c : IF R.out # "" THEN R ELSE CallClosure(R, c), S, S.kept)
Keep(S, C, n) == [S EXCEPT !.kept = Append(@, [env |-> C.lex, n |-> n, strict |-> C.strict])]
HeadOf(S, C, e) ==
    CASE e \in {"get", "now"} -> LogRead(S, Resolve(S, C.lex))
      [] e = "clo" -> Keep(S, C, 0)
      [] OTHER -> S

\* The lexical declarations of statements, made in a given environment.
BindLexicals(S, b, e, block) ==
    LET fns == SelectSeq(b, LAMBDA t : t.k = "fn")
        const == Count(b, LAMBDA t : t.k = "const") > 0
    IN CASE Lets(b) > 0 -> [Bind(S, e, Uninit, FALSE) EXCEPT !.envs[e].const = IF const THEN "yes" ELSE "no"]
         [] Lets(b) = 0 /\ block /\ fns # <<>> -> Bind(S, e, Fn(Last(fns).n), FALSE)
         [] OTHER -> S

\* The var declarations of the body of a function, and its own functions.
BindVars(S, b, e, hoist, initial) ==
    LET fns == SelectSeq(b, LAMBDA t : t.k = "fn")
        V == IF Bound(S, e) \/ ~(DeclaresVar(b) \/ fns # <<>> \/ hoist # {}) THEN S ELSE Bind(S, e, initial, FALSE)
    IN IF fns = <<>> THEN V ELSE [V EXCEPT !.envs[e].v = Fn(Last(fns).n)]

(***************************************************************************)
(* Evaluation.                                                             *)
(***************************************************************************)
RECURSIVE ExecAll(_, _, _)
RECURSIVE Exec(_, _, _)
ExecAll(S, C, b) == FoldLeft(LAMBDA R, t : IF R.out # "" THEN R ELSE Exec(R, C, t), S, b)
ExecBlock(S, C, b) ==
    LET E == AddEnv(S, "decl", C.lex)
    IN ExecAll(BindLexicals(E, b, LastEnv(E), TRUE), [C EXCEPT !.lex = LastEnv(E)], b)
InitLexical(S, C, v) == [S EXCEPT !.envs[C.lex].v = v]

\* for (d x = 0; x < 2; x++): every round has its own copy of a let variable.
RECURSIVE ForRounds(_, _, _, _)
CopyEnv(S, t, e) ==
    IF t.d # "let" THEN S ELSE [S EXCEPT !.envs = Append(@, S.envs[e])]
ForRounds(S, C, t, update) ==
    LET cur == IF t.d = "let" THEN CopyEnv(S, t, C.lex) ELSE S
        D == IF t.d = "let" THEN [C EXCEPT !.lex = LastEnv(cur)] ELSE C
        e == Resolve(cur, D.lex)
        R == IF update THEN Read(cur, e) ELSE cur
        U == IF update /\ R.out = "" THEN Write(R, e, Incremented(R.envs[e].v), D.strict) ELSE R
        e2 == Resolve(U, D.lex)
        T == IF U.out # "" THEN U ELSE Read(U, e2)
        B == ExecBlock(T, D, t.b)
    IN CASE T.out # "" \/ ~Below2(T.envs[e2].v) -> T
         [] T.out = "" /\ Below2(T.envs[e2].v) /\ B.out # "" -> B
         [] OTHER -> ForRounds(B, D, t, TRUE)
ForStmt(S, C, t) ==
    IF t.d = "var" THEN
        LET W == Write(S, Resolve(S, C.lex), Num(0), C.strict) IN IF W.out # "" THEN W ELSE ForRounds(W, C, t, FALSE)
    ELSE LET E == AddEnv(S, "decl", C.lex)
             e == LastEnv(E)
             I == [Bind(E, e, Num(0), FALSE) EXCEPT !.envs[e].const = IF t.d = "const" THEN "yes" ELSE "no"]
         IN ForRounds(I, [C EXCEPT !.lex = e], t, FALSE)

ForOfRound(S, C, t, n) ==
    LET E == AddEnv(S, "decl", C.lex)
        e == LastEnv(E)
        I == [Bind(E, e, Num(n), FALSE) EXCEPT !.envs[e].const = IF t.d = "const" THEN "yes" ELSE "no"]
        W == Write(S, Resolve(S, C.lex), Num(n), C.strict)
    IN CASE S.out # "" -> S
         [] S.out = "" /\ t.d = "var" -> IF W.out # "" THEN W ELSE ExecBlock(W, C, t.b)
         [] OTHER -> ExecBlock(I, [C EXCEPT !.lex = e], t.b)
ForOfStmt(S, C, t) ==
    LET E == AddEnv(S, "decl", C.lex)
        H == IF t.d = "var" THEN HeadOf(S, C, t.head)
             ELSE HeadOf(Bind(E, LastEnv(E), Uninit, FALSE), [C EXCEPT !.lex = LastEnv(E)], t.head)
    IN ForOfRound(ForOfRound(H, C, t, 1), C, t, 2)

CatchBlock(S, C, b) ==
    LET E == AddEnv(S, "catch", C.lex) IN ExecBlock(Bind(E, LastEnv(E), Num(7), FALSE), [C EXCEPT !.lex = LastEnv(E)], b)
WithBlock(S, C, t) ==
    LET E == AddEnv(S, "obj", C.lex)
        e == LastEnv(E)
    IN ExecBlock(IF t.has THEN Bind(E, e, Num(8), TRUE) ELSE E, [C EXCEPT !.lex = e], t.b)

\* A function's parameters, then its body: with default values the body's variables
\* are in an environment of their own.
BindParam(S, C, p, arg) ==
    LET H == IF p.k = "default" THEN HeadOf(S, C, p.e) ELSE S
    IN CASE S.out # "" \/ H.out # "" -> H
         [] H.out = "" /\ p.x = "x" -> Bind(H, C.lex, arg, FALSE)
         [] OTHER -> H
CallFunction(S, C, t) ==
    LET N == AddEnv(S, "decl", C.lex)
        named == [Bind(N, LastEnv(N), Fn(90), FALSE) EXCEPT !.envs[LastEnv(N)].const = "name"]
        A == AddEnv(IF t.name = "x" THEN named ELSE N, "fun", LastEnv(N))
        a == LastEnv(A)
        simple == \A i \in 1..Len(t.ps) : t.ps[i].k = "plain"
        exprs == \E i \in 1..Len(t.ps) : t.ps[i].k = "default"
        P0 == IF IsParam(t.ps, "x") THEN Bind(A, a, IF simple THEN Undef ELSE Uninit, FALSE) ELSE A
        D == [lex |-> a, var |-> a, strict |-> C.strict,
              hoist |-> IF C.strict \/ IsParam(t.ps, "x") THEN {} ELSE HoistedFns(t.b, FALSE)]
        P == FoldLeft(LAMBDA R, i : BindParam(R, D, t.ps[i], ArgValues(t.ps)[i]), P0, [i \in 1..Len(t.ps) |-> i])
        V == IF exprs THEN AddEnv(P, "fun", a) ELSE P
        v == LastEnv(IF exprs THEN V ELSE P)
        B == BindVars(V, t.b, IF exprs THEN v ELSE a, D.hoist, IF exprs /\ IsParam(t.ps, "x") THEN P.envs[a].v ELSE Undef)
        L == AddEnv(B, "decl", IF exprs THEN v ELSE a)
        l == LastEnv(L)
    IN IF P.out # "" THEN P
       ELSE ExecAll(BindLexicals(L, t.b, l, FALSE), [D EXCEPT !.lex = l, !.var = IF exprs THEN v ELSE a], t.b)

\* Direct eval: its variables go to the function around it, where nothing lexical
\* on the way may have the name.
RECURSIVE LexicalBetween(_, _, _)
LexicalBetween(S, e, var) ==
    /\ e # var
    /\ \/ S.envs[e].kind = "decl" /\ Bound(S, e)
       \/ LexicalBetween(S, S.envs[e].par, var)
EvalVars(S, C, b) ==
    LET fns == SelectSeq(b, LAMBDA t : t.k = "fn")
        value == IF fns = <<>> THEN Undef ELSE Fn(Last(fns).n)
    IN CASE ~Bound(S, C.var) -> Bind(S, C.var, value, TRUE)
         [] Bound(S, C.var) /\ fns # <<>> ->
            [S EXCEPT !.envs[C.var].v = value]
         [] OTHER -> S
EvalCode(S, C, b) ==
    LET conflict == LexicalBetween(S, C.lex, C.var)
        hoist == IF C.strict \/ conflict THEN {} ELSE HoistedFns(b, FALSE)
        own == DeclaresVar(b) \/ Fns(b) > 0
        E == AddEnv(S, "decl", C.lex)
        e == LastEnv(E)
        Strict == BindLexicals(BindVars(E, b, e, {}, Undef), b, e, FALSE)
        Sloppy == BindLexicals(IF own \/ hoist # {} THEN EvalVars(E, C, b) ELSE E, b, e, FALSE)
    IN CASE ProgramError(b, C.strict) -> Error(S, "Syntax")
         [] ~ProgramError(b, C.strict) /\ C.strict -> ExecAll(Strict, [C EXCEPT !.lex = e, !.var = e, !.hoist = {}], b)
         [] ~ProgramError(b, C.strict) /\ ~C.strict /\ own /\ conflict -> Error(S, "Syntax")
         [] OTHER -> ExecAll(Sloppy, [C EXCEPT !.lex = e, !.hoist = hoist], b)

DeleteName(S, C) ==
    LET e == Resolve(S, C.lex)
    IN CASE e = 0 -> Log(S, <<"bool", TRUE>>)
         [] e # 0 /\ S.envs[e].del -> Log([S EXCEPT !.envs[e].has = FALSE], <<"bool", TRUE>>)
         [] OTHER -> Log(S, <<"bool", FALSE>>)
TypeofName(S, C) ==
    LET e == Resolve(S, C.lex) IN
    IF e = 0 THEN Log(S, TypeName(Undef))
    ELSE LET R == Read(S, e) IN IF R.out # "" THEN R ELSE Log(R, TypeName(S.envs[e].v))

\* The function of a block is given to the variable, which is made again if it was deleted.
HoistValue(S, C) ==
    LET v == S.envs[C.lex].v IN IF Bound(S, C.var) THEN Write(S, C.var, v, FALSE) ELSE Bind(S, C.var, v, TRUE)

Exec(S, C, t) ==
    CASE t.k = "var" -> IF t.n = 0 THEN S ELSE Write(S, Resolve(S, C.lex), Num(t.n), C.strict)
      [] t.k \in {"let", "const"} -> InitLexical(S, C, NumOrUndef(t.n))
      [] t.k = "fn" -> IF t \in C.hoist THEN HoistValue(S, C) ELSE S
      [] t.k = "get" -> LogRead(S, Resolve(S, C.lex))
      [] t.k = "typeof" -> TypeofName(S, C)
      [] t.k = "delete" -> DeleteName(S, C)
      [] t.k = "put" -> Write(S, Resolve(S, C.lex), NumOrUndef(t.n), C.strict)
      [] t.k = "putlog" -> Write(Log(S, Num(t.n)), Resolve(S, C.lex), Num(t.n), C.strict)
      [] t.k = "clo" -> Keep(S, C, t.n)
      [] t.k = "run" -> RunAll(S)
      [] t.k = "block" -> ExecBlock(S, C, t.b)
      [] t.k = "for" -> ForStmt(S, C, t)
      [] t.k = "forof" -> ForOfStmt(S, C, t)
      [] t.k = "catch" -> CatchBlock(S, C, t.b)
      [] t.k = "with" -> WithBlock(S, C, t)
      [] t.k = "call" -> CallFunction(S, C, t)
      [] t.k = "eval" -> EvalCode(S, C, t.b)

\* [log, out] of a script.
Language(p) ==
    LET S == [envs |-> <<NewEnv("global", 0), NewEnv("decl", Global)>>, log |-> <<>>, kept |-> <<>>, out |-> ""]
        C == [lex |-> GlobalLexical, var |-> Global, strict |-> p.strict,
              hoist |-> IF p.strict THEN {} ELSE HoistedFns(p.b, FALSE)]
        V == BindVars(S, p.b, Global, C.hoist, Undef)
        L == BindLexicals(V, p.b, GlobalLexical, FALSE)
        R == ExecAll(L, C, p.b)
    IN IF ProgramError(p.b, p.strict) THEN [log |-> <<>>, out |-> "refused"]
       ELSE [log |-> R.log, out |-> IF R.out = "" THEN "done" ELSE R.out]

(***************************************************************************)
(* The parser.  P: the functions, the one being parsed, the variable that  *)
(* define_var gave, and whether an error was found.                        *)
(***************************************************************************)
NewFunction(parent, scope, strict, eval, name, isExpr) ==
    [parent |-> parent, pscope |-> scope, strict |-> strict, eval |-> eval,
     global |-> eval = "global" \/ (eval = "direct" /\ ~strict),
     name |-> name, expr |-> isExpr, args |-> <<>>, vars |-> <<>>, scopes |-> <<-1>>, level |-> 0,
     code |-> <<>>, hoisted |-> <<>>, hasEval |-> FALSE, closure |-> <<>>, simple |-> TRUE,
     funcVar |-> 0, varObj |-> 0]

Fd(P) == P.f[P.cur]
Emit(P, ops) == [P EXCEPT !.f[P.cur].code = @ \o ops]
Failed(P) == [P EXCEPT !.err = TRUE]
ParentScope(fd, s) == fd.scopes[s + 1]

\* The variables visible in a scope: its own, the last first, then those of the
\* scopes around it, without the function's own variables.
RECURSIVE Chain(_, _)
Chain(fd, s) ==
    Reverse(SelectSeq([i \in 1..Len(fd.vars) |-> i], LAMBDA i : fd.vars[i].level = s))
    \o IF s > 1 THEN Chain(fd, ParentScope(fd, s)) ELSE <<>>

RECURSIVE IsChildScope(_, _, _)
IsChildScope(fd, s, p) == s >= 0 /\ (s = p \/ IsChildScope(fd, ParentScope(fd, s), p))

Least(S) == IF S = {} THEN 0 ELSE CHOOSE i \in S : \A j \in S : i <= j
Greatest(S) == IF S = {} THEN 0 ELSE CHOOSE i \in S : \A j \in S : i >= j
None == <<"none">>
Place(kind, i) == IF i = 0 THEN None ELSE <<kind, i>>
OrElse(v, w) == IF v # None THEN v ELSE w
FindArg(fd, x) == Place("arg", Greatest({i \in 1..Len(fd.args) : fd.args[i] = x}))
FindVar(fd, x) ==
    OrElse(Place("loc", Greatest({i \in 1..Len(fd.vars) : fd.vars[i].name = x /\ fd.vars[i].level = 0})), FindArg(fd, x))
FindVarInChildScope(fd, x, s) ==
    \E i \in 1..Len(fd.vars) : fd.vars[i].name = x /\ fd.vars[i].level = 0 /\ IsChildScope(fd, fd.vars[i].at, s)
FindHoistedDef(fd, x) == Least({h \in 1..Len(fd.hoisted) : fd.hoisted[h].name = x})
\* The position in a scope chain of its first variable among S.
FirstOf(ch, S) == Least({i \in 1..Len(ch) : ch[i] \in S})
InChain(ch, i) == IF i = 0 THEN None ELSE <<"loc", ch[i]>>
LexicalOf(fd, ch, x, catch) ==
    InChain(ch, FirstOf(ch, {j \in 1..Len(fd.vars) :
                    fd.vars[j].name = x /\ (fd.vars[j].lexical \/ (catch /\ fd.vars[j].kind = "catch"))}))
GlobalLexicalDef(fd, h) == IF fd.eval = "global" /\ h > 0 /\ fd.hoisted[h].lexical THEN <<"global">> ELSE None
FindLexicalDecl(fd, x, catch) ==
    OrElse(LexicalOf(fd, Chain(fd, fd.level), x, catch), GlobalLexicalDef(fd, FindHoistedDef(fd, x)))

\* at: the scope of the declaration of a var, the function of a declaration in a block
NewVar(x, level, kind, lexical, const, at) ==
    [name |-> x, level |-> level, kind |-> kind, lexical |-> lexical, const |-> const, cap |-> FALSE, at |-> at, func |-> FALSE]
AddVar(P, v) ==
    [P EXCEPT !.f[P.cur].vars = Append(@, v), !.idx = <<"loc", Len(Fd(P).vars) + 1>>]
AddScopeVar(P, x, kind, lexical, const) == AddVar(P, NewVar(x, Fd(P).level, kind, lexical, const, 0))
AddHoistedDef(P, x, fn, idx, lexical, const, level) ==
    [P EXCEPT !.f[P.cur].hoisted =
        Append(@, [name |-> x, fn |-> fn, idx |-> idx, lexical |-> lexical, const |-> const, level |-> level]),
              !.idx = <<"global">>]

PushScope(P) ==
    LET s == Len(Fd(P).scopes)
    IN Emit([P EXCEPT !.f[P.cur].scopes = Append(@, Fd(P).level), !.f[P.cur].level = s], << <<"enter", s>> >>)
PopScope(P) ==
    Emit([P EXCEPT !.f[P.cur].level = ParentScope(Fd(P), @)], << <<"leave", Fd(P).level>> >>)
RECURSIVE CloseScopes(_, _, _)
CloseScopes(P, s, stop) ==
    IF s <= stop THEN P ELSE CloseScopes(Emit(P, << <<"leave", s>> >>), ParentScope(Fd(P), s), stop)

\* A lexical declaration: let, const, or a function in a block.
RedefinesAt(fd, d, type) ==
    \/ d = <<"global">> /\ fd.level = 1
    \/ /\ d[1] = "loc"
       /\ LET v == fd.vars[d[2]]
          IN IF v.level = fd.level THEN fd.strict \/ type # "fn" \/ v.kind # "fn"
             ELSE v.kind = "catch" /\ v.level + 2 = fd.level
RedefinesLexical(fd, x, type) == RedefinesAt(fd, FindLexicalDecl(fd, x, TRUE), type)
RedefinesHoisted(fd, h) == h > 0 /\ IsChildScope(fd, fd.hoisted[h].level, fd.level)
RedefinesGlobal(fd, x) == fd.global /\ RedefinesHoisted(fd, FindHoistedDef(fd, x))
DefineLexical(P, x, type) ==
    LET fd == Fd(P)
    IN CASE \/ RedefinesLexical(fd, x, type)
            \/ type # "fn" /\ fd.level = 1 /\ FindArg(fd, x) # None
            \/ FindVarInChildScope(fd, x, fd.level)
            \/ RedefinesGlobal(fd, x) -> Failed(P)
         [] fd.eval = "global" /\ fd.level = 1 -> AddHoistedDef(P, x, <<>>, None, TRUE, type = "const", fd.level)
         [] OTHER -> AddScopeVar(P, x, IF type = "fn" THEN "fn" ELSE "normal", TRUE, type = "const")
OldOrNewVar(P, x, old) ==
    IF old # None THEN [P EXCEPT !.idx = old] ELSE AddVar(P, NewVar(x, 0, "normal", FALSE, FALSE, Fd(P).level))
DefineVarDecl(P, x) ==
    CASE FindLexicalDecl(Fd(P), x, FALSE) # None -> Failed(P)
      [] FindLexicalDecl(Fd(P), x, FALSE) = None /\ Fd(P).global -> AddHoistedDef(P, x, <<>>, None, FALSE, FALSE, Fd(P).level)
      [] OTHER -> OldOrNewVar(P, x, FindVar(Fd(P), x))
DefineVar(P, x, type) ==
    CASE type = "with" -> AddScopeVar(P, x, "normal", FALSE, FALSE)
      [] type = "catch" -> AddScopeVar(P, x, "catch", FALSE, FALSE)
      [] type = "var" -> DefineVarDecl(P, x)
      [] OTHER -> DefineLexical(P, x, type)

\* An assignment makes a reference first; the pair of operations is what the
\* second pass may replace.
AssignOps(x, s, value) == << <<"makeref", x, s>> >> \o value \o << <<"putref">> >>
PushNum(n) == << <<"push", NumOrUndef(n)>> >>

\* var, let, const with their initializer
InitDeclared(D, d, n) ==
    CASE D.err \/ (d = "var" /\ n = 0) -> D
      [] ~D.err /\ d = "var" /\ n # 0 -> Emit(D, AssignOps("x", Fd(D).level, PushNum(n)))
      [] OTHER -> Emit(D, PushNum(n) \o << <<"init", "x", Fd(D).level>> >>)
Declare(P, d, n) == InitDeclared(DefineVar(P, "x", d), d, n)

\* A function declaration at the top level of a function or a script.
HoistInto(D, n) == IF D.err THEN D ELSE AddHoistedDef(D, "", Fn(n), D.idx, FALSE, FALSE, Fd(D).level)
TopFunction(P, n) ==
    IF Fd(P).global THEN AddHoistedDef(P, "x", Fn(n), None, FALSE, FALSE, Fd(P).level)
    ELSE HoistInto(DefineVar(P, "x", "var"), n)
\* In a block it is lexical; in sloppy mode the function gets the name too.
CreatesFuncVar(fd) ==
    ~fd.strict /\ FindLexicalDecl(fd, "x", FALSE) = None /\ FindVar(fd, "x")[1] # "arg"
FuncVar(P) ==
    IF Fd(P).global THEN AddHoistedDef(P, "x", <<>>, None, FALSE, FALSE, 0)
    ELSE IF FindVar(Fd(P), "x") # None THEN P ELSE AddVar(P, NewVar("x", 0, "normal", FALSE, FALSE, 0))
OfFunction(D, n) == [D EXCEPT !.f[D.cur].vars[D.idx[2]].at = n]
BlockFunctionVar(D, n, both) ==
    CASE D.err -> D
      [] ~D.err /\ both -> Emit(FuncVar(OfFunction(D, n)), << <<"push", Fn(n)>>, <<"put", "x", 0>> >>)
      [] OTHER -> OfFunction(D, n)
BlockFunction(P, n) == BlockFunctionVar(DefineVar(P, "x", "fn"), n, CreatesFuncVar(Fd(P)))

RECURSIVE ParseStmt(_, _, _), ParseAll(_, _, _)
ParseAll(P, b, top) == IF P.err \/ b = <<>> THEN P ELSE ParseAll(ParseStmt(P, Head(b), top), Tail(b), top)
EndScope(P) == IF P.err THEN P ELSE PopScope(P)
ParseBlock(P, b) == IF b = <<>> THEN P ELSE EndScope(ParseAll(PushScope(P), b, FALSE))

\* An arrow function that reads x and may assign it; its index is the last one.
Arrow(P, n) ==
    LET new == NewFunction(P.cur, Fd(P).level, Fd(P).strict, "no", "", TRUE)
        In == PushScope([P EXCEPT !.f = Append(@, new), !.cur = Len(P.f) + 1])
        Body == << <<"get", "x", 1>>, <<"log">> >> \o IF n = 0 THEN <<>> ELSE AssignOps("x", 1, PushNum(n))
    IN [Emit(In, Append(Body, <<"ret">>)) EXCEPT !.cur = P.cur]
KeepLast(A) == Emit(A, << <<"closure", Len(A.f)>> >>)
CallLast(A) == Emit(A, << <<"call", Len(A.f), <<>> >> >>)
CloStmt(P, n) == KeepLast(Arrow(P, n))
\* What a default value, or the head of a loop, does with x.
HeadExpr(P, e) ==
    CASE e = "get" -> Emit(P, << <<"get", "x", Fd(P).level>>, <<"log">> >>)
      [] e = "clo" -> CloStmt(P, 0)
      [] e = "now" -> CallLast(Arrow(P, 0))
      [] OTHER -> P

\* A continue leaves the scopes up to the one that the loop's entry names, and jumps.
Continue(P, stop, label) == Emit(CloseScopes(P, Fd(P).level, stop), << <<"goto", label>> >>)
LoopBody(P, b, cont, stop, label) ==
    LET Body == ParseAll(PushScope(P), b, FALSE)
    IN EndScope(IF cont /\ ~Body.err THEN Continue(Body, stop, label) ELSE Body)

\* l: the loop, of which labels are made; out: the scope around it; s: its own.
ForStart(D, t, out, s, l) ==
    Emit(CloseScopes(Emit(D, IF t.d = "var" THEN AssignOps("x", s, << <<"push", Num(0)>> >>)
                             ELSE << <<"push", Num(0)>>, <<"init", "x", s>> >>), s, out),
         << <<"label", <<l, "test">> >>, <<"get", "x", s>>, <<"below2">>, <<"iffalse", <<l, "break">> >> >>)
ForEnd(B, out, s, l) ==
    IF B.err THEN B
    ELSE PopScope(Emit(CloseScopes(B, s, out),
            << <<"label", <<l, "cont">> >>, <<"makeref", "x", s>>, <<"getref">>, <<"inc">>, <<"putref">>,
               <<"goto", <<l, "test">> >>, <<"label", <<l, "break">> >> >>))
ForDeclared(D, t, out, s, l) ==
    IF D.err THEN D ELSE ForEnd(LoopBody(ForStart(D, t, out, s, l), t.b, t.cont, s, <<l, "cont">>), out, s, l)
ForScope(In, t, out, l) == ForDeclared(DefineVar(In, "x", t.d), t, out, Fd(In).level, l)
ForLoop(P, t) == ForScope(PushScope(P), t, Fd(P).level, Len(Fd(P).code))

ForOfStart(D, t, out, s, l) ==
    Emit(CloseScopes(HeadExpr(D, t.head), s, out),
         << <<"iter">>, <<"label", <<l, "cont">> >>, <<"next", <<l, "break">> >>,
            <<IF t.d = "var" THEN "put" ELSE "init", "x", s>> >>)
ForOfEnd(B, out, s, l) ==
    IF B.err THEN B
    ELSE PopScope(Emit(CloseScopes(B, s, out), << <<"goto", <<l, "cont">> >>, <<"label", <<l, "break">> >> >>))
ForOfDeclared(D, t, out, s, l) ==
    IF D.err THEN D ELSE ForOfEnd(LoopBody(ForOfStart(D, t, out, s, l), t.b, t.cont, out, <<l, "cont">>), out, s, l)
ForOfScope(In, t, out, l) == ForOfDeclared(DefineVar(In, "x", t.d), t, out, Fd(In).level, l)
ForOfLoop(P, t) == ForOfScope(PushScope(P), t, Fd(P).level, Len(Fd(P).code))

CatchScope(In, b) ==
    EndScope(EndScope(ParseBlock(PushScope(Emit(DefineVar(In, "x", "catch"), << <<"put", "x", Fd(In).level>> >>)), b)))
CatchStmt(P, b) == CatchScope(PushScope(Emit(P, << <<"push", Num(7)>> >>)), b)

WithScope(In, b) == EndScope(ParseBlock(Emit(In, << <<"put_loc", In.idx[2], FALSE>> >>), b))
WithStmt(P, has, b) == WithScope(DefineVar(PushScope(Emit(P, << <<"object", has>> >>)), "_with_", "with"), b)

\* The code of a parameter runs in scope 0, before the body.
Param(P, p) ==
    LET fd == Fd(P)
        i == Len(fd.args) + 1
        Arg == [P EXCEPT !.f[P.cur].args = Append(@, IF p.k = "pat" THEN "" ELSE p.x),
                         !.f[P.cur].simple = @ /\ p.k = "plain"]
    IN CASE p.k = "plain" -> Arg
         [] p.k = "default" ->
            Emit(HeadExpr(Emit(Arg, << <<"valid", i - 1>> >>), p.e), << <<"push", Undef>>, <<"put_arg", i>> >>)
         [] p.k = "pat" -> Emit(DefineVar(Emit(Arg, << <<"get_arg", i>> >>), p.x, "var"), << <<"put", p.x, 0>> >>)
CheckNames(fd) ==
    (fd.strict \/ ~fd.simple) =>
        \A i \in 1..Len(fd.args) : fd.args[i] # "" =>
            /\ \A j \in 1..(i - 1) : fd.args[j] # fd.args[i]
            /\ \A j \in 1..Len(fd.vars) : fd.vars[j].name # fd.args[i]
EndFunction(B) == IF B.err THEN B ELSE Emit(B, << <<"ret">> >>)
FunctionBody(P, b) ==
    IF CheckNames(Fd(P)) THEN EndFunction(ParseAll(PushScope(P), b, TRUE)) ELSE Failed(P)
RECURSIVE ParseParams(_, _)
ParseParams(P, ps) == IF P.err \/ ps = <<>> THEN P ELSE ParseParams(Param(P, Head(ps)), Tail(ps))
CallStmt(P, t) ==
    LET new == NewFunction(P.cur, Fd(P).level, Fd(P).strict, "no", t.name, TRUE)
        In == [P EXCEPT !.f = Append(@, new), !.cur = Len(P.f) + 1]
        Out == [FunctionBody(ParseParams(In, t.ps), t.b) EXCEPT !.cur = P.cur]
    IN Emit(Out, << <<"call", Len(P.f) + 1, ArgValues(t.ps)>> >>)

ParseStmt(P, t, top) ==
    CASE t.k \in {"var", "let", "const"} -> Declare(P, t.k, t.n)
      [] t.k = "fn" -> IF top THEN TopFunction(P, t.n) ELSE BlockFunction(P, t.n)
      [] t.k \in {"get", "typeof"} -> Emit(P, << <<t.k, "x", Fd(P).level>>, <<IF t.k = "get" THEN "log" ELSE "logtype">> >>)
      [] t.k = "delete" -> IF Fd(P).strict THEN Failed(P) ELSE Emit(P, << <<"delete", "x", Fd(P).level>>, <<"log">> >>)
      [] t.k = "put" -> Emit(P, AssignOps("x", Fd(P).level, PushNum(t.n)))
      [] t.k = "putlog" -> Emit(P, AssignOps("x", Fd(P).level, PushNum(t.n) \o << <<"peek">> >>))
      [] t.k = "clo" -> CloStmt(P, t.n)
      [] t.k = "run" -> Emit(P, << <<"run">> >>)
      [] t.k = "block" -> ParseBlock(P, t.b)
      [] t.k = "for" -> ForLoop(P, t)
      [] t.k = "forof" -> ForOfLoop(P, t)
      [] t.k = "catch" -> CatchStmt(P, t.b)
      [] t.k = "with" -> IF Fd(P).strict THEN Failed(P) ELSE WithStmt(P, t.has, t.b)
      [] t.k = "call" -> CallStmt(P, t)
      [] t.k = "eval" -> Emit([P EXCEPT !.f[P.cur].hasEval = TRUE], << <<"eval", Fd(P).level, t.b>> >>)

(***************************************************************************)
(* The second pass: where a name is found.  F: all the functions.          *)
(***************************************************************************)
AddClosureVar(F, f, cv) == [F EXCEPT ![f].closure = Append(@, cv)]
\* cv: [name, local, arg, idx, const, lexical].  The index of the reference in
\* the closure of f for a variable of an outer function; every function between
\* them gets one too.
RECURSIVE GetClosureVar(_, _, _, _)
ShareOrAdd(F, f, cv, old) ==
    IF old > 0 THEN [F |-> F, i |-> old] ELSE [F |-> AddClosureVar(F, f, cv), i |-> Len(F[f].closure) + 1]
SameClosure(fd, cv) ==
    Least({i \in 1..Len(fd.closure) :
              fd.closure[i].idx = cv.idx /\ fd.closure[i].arg = cv.arg /\ fd.closure[i].local = cv.local})
AddOnce(F, f, cv) == ShareOrAdd(F, f, cv, SameClosure(F[f], cv))
ThroughParent(up, f, cv) == AddOnce(up.F, f, [cv EXCEPT !.idx = up.i, !.local = FALSE])
GetClosureVar(F, f, owner, cv) ==
    IF F[f].parent = owner THEN AddOnce(F, f, cv)
    ELSE ThroughParent(GetClosureVar(F, F[f].parent, owner, cv), f, cv)
ClosureOfVar(fd, i) ==
    [name |-> fd.vars[i].name, local |-> TRUE, arg |-> FALSE, idx |-> i, const |-> fd.vars[i].const, lexical |-> fd.vars[i].lexical]
PlainClosure(x, arg, i) == [name |-> x, local |-> TRUE, arg |-> arg, idx |-> i, const |-> FALSE, lexical |-> FALSE]

\* The name of a function expression is a variable of its own, constant in strict code.
AddFuncVar(F, f) ==
    IF F[f].funcVar > 0 THEN F
    ELSE [F EXCEPT ![f].vars = Append(@, [NewVar(F[f].name, 0, "normal", FALSE, F[f].strict, 0) EXCEPT !.func = TRUE]),
                   ![f].funcVar = Len(F[f].vars) + 1]
IsFuncName(fd, x) == fd.expr /\ x = fd.name /\ x # ""

\* What a lookup gives: the objects to ask first (of `with' and of eval), then the
\* variable: a local, an argument, a reference, a global, or the error of a write
\* to a constant.
Found(F, hops, target) == [F |-> F, hops |-> hops, target |-> target, func |-> FALSE]
IsFuncVarAt(fd, v) == v[1] = "loc" /\ fd.vars[v[2]].func
Writes(op) == op \in {"put", "makeref"}

\* The first variable of the name in a scope chain, and the with objects in front of it.
WithsOf(fd, ch) == SelectSeq(ch, LAMBDA j : fd.vars[j].name = "_with_")
ScanTo(fd, ch, i) ==
    IF i = 0 THEN [var |-> None, withs |-> WithsOf(fd, ch)]
    ELSE [var |-> <<"loc", ch[i]>>, withs |-> WithsOf(fd, SubSeq(ch, 1, i - 1))]
ScanChain(fd, ch, x) == ScanTo(fd, ch, FirstOf(ch, {j \in 1..Len(fd.vars) : fd.vars[j].name = x}))
Scan(fd, s, x) == ScanChain(fd, Chain(fd, s), x)

\* An object variable of an outer function becomes a reference of f.
WithHop(r, c, isWith) == [r EXCEPT !.F = c.F, !.hops = Append(@, <<"ref", c.i, isWith>>)]
Capturing(F, owner, j) == [F EXCEPT ![owner].vars[j].cap = TRUE]
CaptureHop(r, f, owner, j) ==
    WithHop(r, GetClosureVar(Capturing(r.F, owner, j), f, owner, PlainClosure(r.F[owner].vars[j].name, FALSE, j)),
            r.F[owner].vars[j].name = "_with_")
RECURSIVE CaptureHops(_, _, _, _)
CaptureHops(r, f, owner, js) ==
    IF js = <<>> THEN r ELSE CaptureHops(CaptureHop(r, f, owner, Head(js)), f, owner, Tail(js))
ToReference(r, c, func) == [r EXCEPT !.F = c.F, !.target = <<"ref", c.i>>, !.func = func]
Captured(r, f, owner, v) ==
    ToReference(r, IF v[1] = "loc" THEN GetClosureVar(Capturing(r.F, owner, v[2]), f, owner, ClosureOfVar(r.F[owner], v[2]))
                   ELSE GetClosureVar(r.F, f, owner, PlainClosure(r.F[owner].args[v[2]], TRUE, v[2])),
                IsFuncVarAt(r.F[owner], v))

\* The closure of direct eval code holds the variables of the function around it, in
\* the order of their scopes.
RECURSIVE SearchEval(_, _, _, _, _)
FromEval(r, f, top, i) ==
    IF f = top THEN [F |-> r.F, i |-> i]
    ELSE GetClosureVar(r.F, f, top, [r.F[top].closure[i] EXCEPT !.local = FALSE, !.idx = i])
SearchEval(r, f, top, x, i) ==
    LET cv == r.F[top].closure[i]
    IN CASE i > Len(r.F[top].closure) -> r
         [] i <= Len(r.F[top].closure) /\ cv.name = x -> ToReference(r, FromEval(r, f, top, i), FALSE)
         [] i <= Len(r.F[top].closure) /\ cv.name \in {"_var_", "_with_"} ->
            SearchEval(WithHop(r, FromEval(r, f, top, i), cv.name = "_with_"), f, top, x, i + 1)
         [] OTHER -> SearchEval(r, f, top, x, i + 1)

\* The functions around f: a function that is made by the code of parameters sees
\* only the arguments.
RECURSIVE SearchParents(_, _, _, _, _)
CapturedName(r, f, p, F) == [Captured([r EXCEPT !.F = F], f, p, <<"loc", F[p].funcVar>>) EXCEPT !.func = TRUE]
PastFunction(r, f, p) == IF r.F[p].varObj > 0 THEN CaptureHop(r, f, p, r.F[p].varObj) ELSE r
InParent(r, f, p, x, op, v, const) ==
    CASE v # None /\ const /\ Writes(op) -> [r EXCEPT !.target = <<"ro">>]
      [] v # None /\ ~(const /\ Writes(op)) -> Captured(r, f, p, v)
      [] v = None /\ IsFuncName(r.F[p], x) -> CapturedName(r, f, p, AddFuncVar(r.F, p))
      [] OTHER -> SearchParents(PastFunction(r, f, p), f, p, x, op)
ConstAt(fd, v) == v # None /\ fd.vars[v[2]].const
InScanned(r, f, p, x, op, sc) ==
    InParent(CaptureHops(r, f, p, sc.withs), f, p, x, op, OrElse(sc.var, FindVar(r.F[p], x)), ConstAt(r.F[p], sc.var))
SearchParents(r, f, g, x, op) ==
    LET p == r.F[g].parent
    IN CASE p = 0 -> IF r.F[g].eval # "no" THEN SearchEval(r, f, g, x, 1) ELSE r
         [] p # 0 /\ r.F[g].pscope = 0 -> InParent(r, f, p, x, op, FindArg(r.F[p], x), FALSE)
         [] OTHER -> InScanned(r, f, p, x, op, Scan(r.F[p], r.F[g].pscope, x))

ReadOnlyRef(r, f, op) ==
    IF Writes(op) /\ r.target[1] = "ref" /\ r.F[f].closure[r.target[2]].const THEN [r EXCEPT !.target = <<"ro">>] ELSE r

LocalHops(withs) == [i \in 1..Len(withs) |-> <<"loc", withs[i], TRUE>>]
FuncNameFound(F, f, hops) == [Found(F, hops, <<"loc", F[f].funcVar>>) EXCEPT !.func = TRUE]
PastLocals(fd, hops) == IF fd.varObj > 0 THEN Append(hops, <<"loc", fd.varObj, FALSE>>) ELSE hops
LookupFrom(F, f, x, op, hops, v, const) ==
    CASE v # None /\ const /\ Writes(op) -> Found(F, hops, <<"ro">>)
      [] v # None /\ ~(const /\ Writes(op)) -> [Found(F, hops, v) EXCEPT !.func = IsFuncVarAt(F[f], v)]
      [] v = None /\ IsFuncName(F[f], x) -> FuncNameFound(AddFuncVar(F, f), f, hops)
      [] OTHER -> ReadOnlyRef(SearchParents(Found(F, PastLocals(F[f], hops), <<"global">>), f, f, x, op), f, op)
LookupScanned(F, f, x, op, sc) ==
    LookupFrom(F, f, x, op, LocalHops(sc.withs), OrElse(sc.var, FindVar(F[f], x)), ConstAt(F[f], sc.var))
Lookup(F, f, x, s, op) == LookupScanned(F, f, x, op, Scan(F[f], s, x))

(***************************************************************************)
(* The second pass: the code of an access.                                 *)
(***************************************************************************)
IsLexical(fd, target) ==
    CASE target[1] = "loc" -> fd.vars[target[2]].lexical
      [] target[1] = "ref" -> fd.closure[target[2]].lexical
      [] OTHER -> FALSE
GetOp(fd, target, x) ==
    CASE target[1] = "loc" -> <<"get_loc", target[2], IsLexical(fd, target)>>
      [] target[1] = "arg" -> <<"get_arg", target[2]>>
      [] target[1] = "ref" -> <<"get_ref", target[2], IsLexical(fd, target)>>
      [] OTHER -> <<"get_var", x, TRUE>>
PutOp(fd, target, x, init) ==
    CASE target[1] = "loc" -> <<"put_loc", target[2], ~init /\ IsLexical(fd, target)>>
      [] target[1] = "arg" -> <<"put_arg", target[2]>>
      [] target[1] = "ref" -> <<"put_ref", target[2], ~init /\ IsLexical(fd, target)>>
      [] OTHER -> <<"put_var", x, IF init THEN 1 ELSE 0>>

\* The reference of an assignment, when it cannot be replaced by plain accesses.
MakeRefOp(target, x) ==
    CASE target[1] = "loc" -> <<"make_loc_ref", FALSE, target[2]>>
      [] target[1] = "arg" -> <<"make_loc_ref", TRUE, target[2]>>
      [] target[1] = "ref" -> <<"make_var_ref_ref", target[2]>>
      [] OTHER -> <<"make_var_ref", x>>
NoPatch == [get |-> <<"get_ref_value">>, put |-> <<"put_ref_value">>]
\* The operations of a reference, and what replaces the read and the write that use it.
MakeRef(fd, r, x) ==
    CASE r.target = <<"ro">> -> [ops |-> << <<"throw", "Type">> >>, patch |-> NoPatch]
      [] r.func -> [ops |-> << <<"dummy_ref">> >>, patch |-> NoPatch]
      [] ~r.func /\ r.target # <<"ro">> /\ r.hops # <<>> -> [ops |-> <<MakeRefOp(r.target, x)>>, patch |-> NoPatch]
      [] ~r.func /\ r.hops = <<>> /\ r.target = <<"global">> /\ fd.strict ->
         [ops |-> << <<"check_var", x>> >>, patch |-> [get |-> GetOp(fd, r.target, x), put |-> <<"put_var_strict", x>>]]
      [] OTHER -> [ops |-> <<>>, patch |-> [get |-> GetOp(fd, r.target, x), put |-> PutOp(fd, r.target, x, FALSE)]]

Access(fd, r, op, x) ==
    CASE op = "makeref" -> MakeRef(fd, r, x)
      [] op # "makeref" /\ r.target = <<"ro">> -> [ops |-> << <<"throw", "Type">> >>, patch |-> NoPatch]
      [] op = "get" -> [ops |-> <<GetOp(fd, r.target, x)>>, patch |-> NoPatch]
      [] op = "typeof" -> [ops |-> <<IF r.target = <<"global">> THEN <<"get_var", x, FALSE>> ELSE GetOp(fd, r.target, x)>>, patch |-> NoPatch]
      [] op = "delete" -> [ops |-> <<IF r.target = <<"global">> THEN <<"delete_var", x>> ELSE <<"push", <<"bool", FALSE>> >> >>, patch |-> NoPatch]
      [] OTHER -> [ops |-> <<PutOp(fd, r.target, x, op = "init")>>, patch |-> NoPatch]

\* S: [F, out, patch, valid].  An argument that is not set yet may not be read.
EmitAccess(S, F, ops, a, labels) ==
    [S EXCEPT !.F = F, !.patch = a.patch, !.out = @ \o ops \o a.ops \o labels]
AccessFound(S, r, f, op, x, s, done) ==
    EmitAccess(S, r.F,
        [i \in 1..Len(r.hops) |-> <<"with", op, r.hops[i], x, done>>]
            \o IF s = 0 /\ r.target[1] = "arg" /\ r.target[2] > S.valid THEN << <<"throw", "Ref">> >> ELSE <<>>,
        Access(r.F[f], r, op, x),
        IF r.hops = <<>> THEN <<>> ELSE << <<"label", done>> >>)
ResolveScopeVar(S, f, op, x, s) == AccessFound(S, Lookup(S.F, f, x, s, op), f, op, x, s, <<Len(S.out), "done">>)

\* The variables and functions of the top level, made on entry to the body.
EvalClosure(fd, x) == Least({i \in 1..Len(fd.closure) : fd.closure[i].name \in {x, "_var_"}})
HoistGlobal(fd, h) ==
    LET i == EvalClosure(fd, h.name)
        value == IF h.fn = <<>> THEN Undef ELSE h.fn
        config == fd.eval # "global"
    IN CASE i > 0 /\ fd.closure[i].name = "_var_" -> << <<"push", value>>, <<"define_field", i, h.name>> >>
         [] i > 0 /\ fd.closure[i].name = h.name ->
            IF h.fn = <<>> THEN <<>> ELSE << <<"push", h.fn>>, <<"put_ref", i, FALSE>> >>
         [] i = 0 /\ h.fn # <<>> /\ ~h.lexical -> << <<"push", h.fn>>, <<"define_func", h.name, config>> >>
         [] OTHER -> << <<"define_var", h.name, h.lexical, ~h.const, config>> >>
HoistLocal(h) ==
    IF h.fn = <<>> THEN <<>>
    ELSE << <<"push", h.fn>>, IF h.idx[1] = "arg" THEN <<"put_arg", h.idx[2]>> ELSE <<"put_loc", h.idx[2], FALSE>> >>
InstantiateHoistedDefinitions(fd) ==
    FlattenSeq([i \in 1..Len(fd.hoisted) |-> IF fd.global THEN HoistGlobal(fd, fd.hoisted[i]) ELSE HoistLocal(fd.hoisted[i])])
\* Redeclarations are refused before anything is made.
CheckGlobal(fd, h) ==
    LET i == EvalClosure(fd, h.name)
    IN CASE i = 0 -> << <<"check_define_var", h.name, h.lexical, h.fn # <<>> >> >>
         [] i > 0 /\ fd.closure[i].name = h.name /\ fd.closure[i].lexical /\ fd.eval = "direct" -> << <<"throw", "Syntax">> >>
         [] OTHER -> <<>>
RuntimeChecks(fd) ==
    IF fd.global THEN FlattenSeq([i \in 1..Len(fd.hoisted) |-> CheckGlobal(fd, fd.hoisted[i])]) ELSE <<>>

OwnVars(fd, s) == SelectSeq(Chain(fd, s), LAMBDA i : fd.vars[i].level = s)
EnterVar(fd, i) ==
    IF fd.vars[i].kind = "fn" THEN << <<"push", Fn(fd.vars[i].at)>>, <<"put_loc", i, FALSE>> >>
    ELSE << <<"set_loc_uninitialized", i>> >>
EnterScope(fd, s) ==
    (IF s = 1 THEN InstantiateHoistedDefinitions(fd) ELSE <<>>)
    \o FlattenSeq([j \in 1..Len(OwnVars(fd, s)) |-> EnterVar(fd, OwnVars(fd, s)[j])])
LeaveScope(fd, s) ==
    LET caps == SelectSeq(OwnVars(fd, s), LAMBDA i : fd.vars[i].cap)
    IN [j \in 1..Len(caps) |-> <<"close_loc", caps[j]>>]
MarkEvalCaptured(F, f, s) ==
    [F EXCEPT ![f].vars = [i \in 1..Len(@) |-> IF Contains(Chain(F[f], s), i) THEN [@[i] EXCEPT !.cap = TRUE] ELSE @[i]]]

ResolveOne(S, f, o) ==
    LET fd == S.F[f]
    IN CASE o[1] \in {"get", "typeof", "delete", "put", "init", "makeref"} -> ResolveScopeVar(S, f, o[1], o[2], o[3])
         [] o[1] = "getref" -> [S EXCEPT !.out = Append(@, S.patch.get)]
         [] o[1] = "putref" -> [S EXCEPT !.out = Append(@, S.patch.put), !.patch = NoPatch]
         [] o[1] = "enter" -> [S EXCEPT !.out = @ \o EnterScope(fd, o[2])]
         [] o[1] = "leave" -> [S EXCEPT !.out = @ \o LeaveScope(fd, o[2])]
         [] o[1] = "valid" -> [S EXCEPT !.valid = o[2]]
         [] o[1] = "eval" -> [S EXCEPT !.out = Append(@, o), !.F = MarkEvalCaptured(S.F, f, o[2])]
         [] OTHER -> [S EXCEPT !.out = Append(@, o)]

\* The hidden variables that the function fills itself.
Prologue(fd) ==
    (IF fd.funcVar > 0 THEN << <<"push", Fn(90)>>, <<"put_loc", fd.funcVar, FALSE>> >> ELSE <<>>)
    \o (IF fd.varObj > 0 THEN << <<"object", FALSE>>, <<"put_loc", fd.varObj, FALSE>> >> ELSE <<>>)
RECURSIVE ResolveAll(_, _, _)
ResolveAll(S, f, ops) == IF ops = <<>> THEN S ELSE ResolveAll(ResolveOne(S, f, Head(ops)), f, Tail(ops))
WithCode(S, f) == [S.F EXCEPT ![f].code = Prologue(S.F[f]) \o S.out]
ResolveVariables(F, f) ==
    WithCode(ResolveAll([F |-> F, out |-> RuntimeChecks(F[f]), patch |-> NoPatch, valid |-> 0], f, F[f].code), f)

\* A function that calls eval keeps everything that the code could name.
RECURSIVE AddAll(_, _, _, _)
AddAll(F, f, owner, cvs) ==
    IF cvs = <<>> THEN F ELSE AddAll(GetClosureVar(F, f, owner, Head(cvs)).F, f, owner, Tail(cvs))
CaptureAll(F, f, ch) ==
    [F EXCEPT ![f].vars = [i \in 1..Len(@) |-> IF Contains(ch, i) THEN [@[i] EXCEPT !.cap = TRUE] ELSE @[i]]]
NamedArgs(fd) == SelectSeq([i \in 1..Len(fd.args) |-> PlainClosure(fd.args[i], TRUE, i)], LAMBDA c : c.name # "")
IsOwn(fd, cv) == fd.vars[cv.idx].level = 0
OwnVariables(fd) ==
    SelectSeq([i \in 1..Len(fd.vars) |-> PlainClosure(fd.vars[i].name, FALSE, i)], LAMBDA c : IsOwn(fd, c))
Nameable(fd, ch) == [i \in 1..Len(ch) |-> ClosureOfVar(fd, ch[i])] \o NamedArgs(fd) \o OwnVariables(fd)
NameItself(F, f) == IF F[f].expr /\ F[f].name # "" THEN AddFuncVar(F, f) ELSE F
AddFrom(F, f, p, ch) == AddAll(CaptureAll(F, p, ch), f, p, Nameable(F[p], ch))
RECURSIVE AddEnclosing(_, _, _)
AddEnclosing(F, f, g) ==
    LET p == F[g].parent
    IN IF p = 0 THEN F ELSE AddEnclosing(AddFrom(NameItself(F, p), f, p, Chain(F[p], F[g].pscope)), f, p)
AddEvalVariables(F, f) ==
    LET obj == IF F[f].eval # "no" \/ F[f].strict THEN F
               ELSE [F EXCEPT ![f].vars = Append(@, NewVar("_var_", 0, "normal", FALSE, FALSE, 0)),
                              ![f].varObj = Len(F[f].vars) + 1]
    IN AddEnclosing(NameItself(obj, f), f, f)

\* The functions in f come first, from the one with index i on.
RECURSIVE CreateFunction(_, _), CreateChildren(_, _, _)
CreateChildren(F, f, i) ==
    IF i > Len(F) THEN F ELSE CreateChildren(IF F[i].parent = f THEN CreateFunction(F, i) ELSE F, f, i + 1)
CreateFunction(F, f) ==
    ResolveVariables(CreateChildren(IF F[f].hasEval THEN AddEvalVariables(F, f) ELSE F, f, 1), f)

(***************************************************************************)
(* Scripts and direct eval.                                                *)
(***************************************************************************)
ParseProgram(F, fd, b) ==
    Emit(ParseAll(PushScope([f |-> Append(F, fd), cur |-> Len(F) + 1, idx |-> None, err |-> FALSE]), b, TRUE), << <<"ret">> >>)

AddClosureVariables(fd, s) ==
    LET ch == SelectSeq(Chain(fd, s), LAMBDA i : fd.vars[i].level > 0)
        own == SelectSeq([i \in 1..Len(fd.vars) |-> i], LAMBDA i : fd.vars[i].level = 0)
    IN [i \in 1..Len(ch) |-> ClosureOfVar(fd, ch[i])]
       \o [i \in 1..Len(fd.args) |-> PlainClosure(fd.args[i], TRUE, i)]
       \o [i \in 1..Len(own) |-> PlainClosure(fd.vars[own[i]].name, FALSE, own[i])]
       \o [i \in 1..Len(fd.closure) |-> [fd.closure[i] EXCEPT !.local = FALSE, !.idx = i]]
\* The code of an eval, compiled in the scope of the call; 0 for a syntax error.
EvalCompiled(F, f, pos, P) ==
    IF P.err THEN [F EXCEPT ![f].code[pos] = <<"eval", 0>>]
    ELSE [CreateFunction(P.f, Len(F) + 1) EXCEPT ![f].code[pos] = <<"eval", Len(F) + 1>>]
CompileEval(F, f, pos) ==
    LET o == F[f].code[pos]
        fd == [NewFunction(0, 0, F[f].strict, "direct", "_eval_", FALSE) EXCEPT !.closure = AddClosureVariables(F[f], o[2])]
    IN EvalCompiled(F, f, pos, ParseProgram(F, fd, o[3]))
EvalSites(F) == {w \in UNION {{<<f, i>> : i \in 1..Len(F[f].code)} : f \in 1..Len(F)} :
                    LET o == F[w[1]].code[w[2]] IN o[1] = "eval" /\ Len(o) = 3}
RECURSIVE CompileEvals(_)
CompileEvals(F) ==
    IF EvalSites(F) = {} THEN F ELSE LET w == CHOOSE w \in EvalSites(F) : TRUE IN CompileEvals(CompileEval(F, w[1], w[2]))

CompileParsed(P) == IF P.err THEN <<>> ELSE CompileEvals(CreateFunction(P.f, 1))
Compile(p) == CompileParsed(ParseProgram(<<>>, NewFunction(0, 0, p.strict, "global", "_eval_", FALSE), p.b))

(***************************************************************************)
(* The machine.                                                            *)
(***************************************************************************)
(***************************************************************************)
(* The programs that TLC runs, [strict, b]: a statement, a compound        *)
(* statement around at most two statements, another statement; then every  *)
(* kept closure runs and x is read.                                        *)
(***************************************************************************)
Tail1 == <<Run, Typeof, Get>>
Around(A, Compounds, Z) == {a \o <<c>> \o z \o Tail1 : a \in A, c \in Compounds, z \in Z}
Bodies(Atoms) == {<<>>} \cup {<<a>> : a \in Atoms} \cup {<<a, b>> : a, b \in Atoms}
AsScript(B, strict) == {[strict |-> s, b |-> b] : s \in strict, b \in B}
AsFunction(B, strict) == {[strict |-> s, b |-> <<Call("", <<>>, b)>>] : s \in strict, b \in B}

Decls == {<<DeclVar(1)>>, <<DeclLet(2)>>, <<DeclFn(4)>>, <<>>}

InBlock == {DeclVar(11), DeclLet(12), DeclConst(13), DeclFn(14), Get, Put(15), Clo(16)}
BlockPrograms ==
    LET Bs == Bodies(InBlock)
        B == Around(Decls, {Block(b) : b \in Bs} \cup {Catch(b) : b \in Bs}, {<<>>})
    IN AsScript(B, {TRUE, FALSE}) \cup AsFunction(B, {TRUE, FALSE})

InLoop == {DeclVar(11), DeclLet(12), Get, Put(1), Clo(16)}
LoopPrograms ==
    LET Bs == Bodies(InLoop)
        Loops == {For(d, b, FALSE) : d \in {"let", "const", "var"}, b \in Bs}
                 \cup {ForOf(d, "", b, c) : d \in {"let", "const", "var"}, b \in Bs, c \in {TRUE, FALSE}}
                 \cup {ForOf(d, h, <<Get>>, FALSE) : d \in {"let", "const", "var"}, h \in {"get", "clo", "now"}}
    IN AsScript(Around({<<DeclLet(2)>>}, Loops, {<<>>}), {FALSE})
       \cup AsFunction(Around({<<>>}, Loops, {<<>>}), {TRUE, FALSE})

InFunction == {DeclVar(11), DeclLet(12), DeclFn(14), Get, Put(15), Clo(16)}
FunctionBodies == Bodies(InFunction)
Calls ==
    {Call("", ps, b) : ps \in {<<>>, <<Plain("x")>>, <<Plain("x"), Plain("x")>>}, b \in FunctionBodies}
    \cup {Call(n, <<Pat("x")>>, b) : n \in {"", "x"}, b \in FunctionBodies}
    \cup {Call("", ps, b) : ps \in {<<Default("x", "get")>>, <<Default("y", "get")>>, <<Default("y", "clo")>>,
                                     <<Plain("x"), Default("y", "get")>>, <<Plain("x"), Default("y", "clo")>>,
                                     <<Plain("x"), Default("y", "now")>>, <<Pat("x"), Default("y", "get")>>,
                                     <<Pat("x"), Default("y", "clo")>>, <<Pat("x"), Default("y", "now")>>},
                             b \in FunctionBodies}
NamedCalls == {Call("x", ps, b) : ps \in {<<>>, <<Plain("x")>>}, b \in FunctionBodies}
OuterDecls == {<<>>, <<DeclLet(2)>>}
FunctionPrograms ==
    AsScript(Around({<<>>, <<DeclLet(2)>>}, Calls, {<<>>}), {TRUE, FALSE})
    \cup AsScript(Around({<<DeclVar(1)>>}, NamedCalls, {<<>>}), {FALSE})

InWith == {DeclVar(11), DeclLet(12), DeclFn(14), Get, Typeof, Put(15), PutLog(17), Clo(16), Delete}
WithPrograms ==
    LET Ws == {With(h, b) : h \in BOOLEAN, b \in Bodies(InWith)}
              \cup {With(h, <<For("var", <<b>>, FALSE)>>) : h \in BOOLEAN, b \in {Get, Clo(16)}}
    IN AsScript(Around({<<>>, <<DeclVar(1)>>}, Ws, {<<>>}), {FALSE})
       \cup AsFunction(Around({<<DeclVar(1)>>, <<DeclLet(2)>>}, Ws, {<<>>}), {FALSE})
InEval == {DeclVar(11), DeclVar(0), DeclLet(12), DeclFn(14), Get, Put(15), Clo(16), Delete, Block(<<DeclFn(24)>>)}
EvalBodies == {<<x>> : x \in InEval} \cup {<<x, Clo(16)>> : x \in InEval}
TopEvals ==
    LET Es == {Eval(b) : b \in Bodies(InEval)}
        B == Around({<<>>, <<DeclVar(1)>>, <<DeclFn(4)>>}, Es, {<<>>, <<Delete>>})
             \cup Around({<<DeclLet(2)>>}, {Eval(b) : b \in EvalBodies}, {<<>>})
    IN AsScript(B, {FALSE}) \cup AsFunction(B, {FALSE})
       \cup AsScript(Around(OuterDecls, {Eval(b) : b \in EvalBodies}, {<<>>}), {TRUE})
NestedEvals ==
    LET Es == UNION {{Block(<<Clo(6), Eval(b), Clo(7)>>), With(FALSE, <<Eval(b)>>),
                      Call("", <<Plain("x")>>, <<Eval(b), Clo(9)>>), Block(<<DeclLet(5), Eval(b)>>),
                      With(TRUE, <<Eval(b)>>), Catch(<<Eval(b)>>), Call("x", <<>>, <<Eval(b), Get>>)} : b \in EvalBodies}
        B == Around({<<>>, <<DeclVar(1)>>}, Es, {<<>>})
    IN AsScript(B, {FALSE}) \cup AsFunction(B, {FALSE})

StaticPrograms == BlockPrograms \cup FunctionPrograms
DynamicPrograms == WithPrograms \cup TopEvals \cup NestedEvals

Programs == StaticPrograms \cup LoopPrograms \cup DynamicPrograms

VARIABLES
    prog,   \* the program
    code,   \* its functions; none if it is refused
    fr,     \* the frames: [f, pc, loc, arg, cl, open, stk, it]
    refs,   \* the variable references: [fr, arg, idx, det, val]
    objs,   \* the objects of with and eval: the value of x, or none
    gobj,   \* x on the global object: [v, conf]
    gvar,   \* x among the global lexical variables: [v, const]
    kept,   \* closures: [f, cl]
    log,
    end     \* "", "done" or the exception

NoProperty == [v |-> None, conf |-> FALSE]
NoVariable == [v |-> None, const |-> FALSE]

vars == <<prog, code, fr, refs, objs, gobj, gvar, kept, log, end>>
heap == <<objs, gobj, gvar, kept>>

Top == fr[Len(fr)]
Op == code[Top.f].code[Top.pc]
Running == end = "" /\ fr # <<>>
At(names) == Running /\ Op[1] \in names
Sp == Last(Top.stk)

\* The top frame after its operation: its stack changed, the next operation.
Moved(stk) == [fr EXCEPT ![Len(fr)] = [@ EXCEPT !.pc = @ + 1, !.stk = stk]]
Pushed(v) == Moved(Append(Top.stk, v))
Popped == Moved(Front(Top.stk))
Next1 == Moved(Top.stk)
JumpTo(label) == Least({i \in 1..Len(code[Top.f].code) : code[Top.f].code[i] = <<"label", label>>})
Raise(e) == end' = e /\ UNCHANGED <<prog, code, fr, refs, heap, log>>

NewFrame(f, args, cl) ==
    [f |-> f, pc |-> 1, loc |-> [i \in 1..Len(code[f].vars) |-> Undef], arg |-> args, cl |-> cl, open |-> <<>>, stk |-> <<>>, it |-> 0]

\* References: one for each variable that is still in its frame.
RefOrNew(S, k, arg, i, j) ==
    IF j > 0 THEN [S EXCEPT !.got = S.open[j]]
    ELSE [refs |-> Append(S.refs, [fr |-> k, arg |-> arg, idx |-> i, det |-> FALSE, val |-> Undef]),
          open |-> Append(S.open, Len(S.refs) + 1), got |-> Len(S.refs) + 1]
GetVarRef(S, k, arg, i) ==
    RefOrNew(S, k, arg, i, Least({j \in 1..Len(S.open) : S.refs[S.open[j]].arg = arg /\ S.refs[S.open[j]].idx = i}))
\* The references of a new closure: [refs, open, cl].
GetRefs(S, c) == IF c.local THEN GetVarRef(S, Len(fr), c.arg, c.idx) ELSE [S EXCEPT !.got = Top.cl[c.idx]]
RECURSIVE MakeRefs(_, _)
MakeRefs(S, cvs) ==
    IF cvs = <<>> THEN S
    ELSE LET g == GetRefs([refs |-> S.refs, open |-> S.open, got |-> 0], Head(cvs))
         IN MakeRefs([refs |-> g.refs, open |-> g.open, cl |-> Append(S.cl, g.got)], Tail(cvs))
MakeClosure(f) == MakeRefs([refs |-> refs, open |-> Top.open, cl |-> <<>>], code[f].closure)

SlotOf(r) == IF r.arg THEN fr[r.fr].arg[r.idx] ELSE fr[r.fr].loc[r.idx]
RefValue(i) == IF refs[i].det THEN refs[i].val ELSE SlotOf(refs[i])
\* A write through a reference goes to the frame or to the reference itself; then the top frame moves on.
PutThrough(i, v, stk) ==
    IF refs[i].det THEN refs' = [refs EXCEPT ![i].val = v] /\ fr' = Moved(stk)
    ELSE /\ UNCHANGED refs
         /\ LET M == Moved(stk) r == refs[i]
            IN fr' = IF r.arg THEN [M EXCEPT ![r.fr].arg[r.idx] = v] ELSE [M EXCEPT ![r.fr].loc[r.idx] = v]
Detach(r) == [refs[r] EXCEPT !.det = TRUE, !.val = SlotOf(refs[r])]
CloseVarRefs == [r \in 1..Len(refs) |-> IF Contains(Top.open, r) THEN Detach(r) ELSE refs[r]]
MutantCloseLexicalVar(i) ==
    LET mine(r) == ~refs[r].arg /\ refs[r].idx = i
    IN /\ refs' = [r \in 1..Len(refs) |-> IF Contains(Top.open, r) /\ mine(r) THEN Detach(r) ELSE refs[r]]
       /\ fr' = Next1
CloseLexicalVar(i) ==
    LET mine(r) == ~refs[r].arg /\ refs[r].idx = i
    IN /\ refs' = [r \in 1..Len(refs) |-> IF Contains(Top.open, r) /\ mine(r) THEN Detach(r) ELSE refs[r]]
       /\ fr' = [Next1 EXCEPT ![Len(fr)].open = SelectSeq(@, LAMBDA r : ~mine(r))]

DoStack ==
    /\ At({"push", "log", "logtype", "peek", "below2", "inc", "label", "object"})
    /\ LET old == IF Op[1] \in {"push", "label", "object"} THEN Undef ELSE Sp
       IN CASE Op[1] = "push" -> fr' = Pushed(Op[2]) /\ UNCHANGED <<log, objs>>
            [] Op[1] = "log" -> fr' = Popped /\ log' = Append(log, old) /\ UNCHANGED objs
            [] Op[1] = "logtype" -> fr' = Popped /\ log' = Append(log, TypeName(old)) /\ UNCHANGED objs
            [] Op[1] = "peek" -> fr' = Next1 /\ log' = Append(log, old) /\ UNCHANGED objs
            [] Op[1] = "below2" -> fr' = Moved(Append(Front(Top.stk), <<"bool", Below2(old)>>)) /\ UNCHANGED <<log, objs>>
            [] Op[1] = "inc" -> fr' = Moved(Append(Front(Top.stk), Incremented(old))) /\ UNCHANGED <<log, objs>>
            [] Op[1] = "label" -> fr' = Next1 /\ UNCHANGED <<log, objs>>
            [] Op[1] = "object" -> fr' = Pushed(<<"obj", Len(objs) + 1>>) /\ objs' = Append(objs, IF Op[2] THEN Num(8) ELSE None) /\ UNCHANGED log
    /\ UNCHANGED <<prog, code, refs, gobj, gvar, kept, end>>

DoJump ==
    /\ At({"goto", "iffalse", "iter", "next"})
    /\ CASE Op[1] = "goto" -> fr' = [fr EXCEPT ![Len(fr)].pc = JumpTo(Op[2])]
         [] Op[1] = "iffalse" ->
            fr' = IF Sp = <<"bool", TRUE>> THEN Popped ELSE [Popped EXCEPT ![Len(fr)].pc = JumpTo(Op[2])]
         [] Op[1] = "iter" -> fr' = Pushed(Num(0))
         [] Op[1] = "next" ->
            fr' = IF Sp = Num(2) THEN [Popped EXCEPT ![Len(fr)].pc = JumpTo(Op[2])]
                  ELSE Moved(Front(Top.stk) \o <<Num(Sp[2] + 1), Num(Sp[2] + 1)>>)
    /\ UNCHANGED <<prog, code, refs, heap, log, end>>

DoThrow == At({"throw"}) /\ Raise(Op[2])

DoLocal ==
    /\ At({"get_loc", "put_loc", "get_arg", "put_arg", "set_loc_uninitialized"})
    /\ LET k == Len(fr)
       IN \/ /\ Op[1] \in {"get_loc", "put_loc"} /\ Op[3] /\ Top.loc[Op[2]] = Uninit
             /\ Raise("Ref")
          \/ /\ ~(Op[1] \in {"get_loc", "put_loc"} /\ Op[3] /\ Top.loc[Op[2]] = Uninit)
             /\ fr' = CASE Op[1] = "get_loc" -> Pushed(Top.loc[Op[2]])
                        [] Op[1] = "get_arg" -> Pushed(Top.arg[Op[2]])
                        [] Op[1] = "put_loc" -> [Popped EXCEPT ![k].loc[Op[2]] = Sp]
                        [] Op[1] = "put_arg" -> [Popped EXCEPT ![k].arg[Op[2]] = Sp]
                        [] OTHER -> [Next1 EXCEPT ![k].loc[Op[2]] = Uninit]
             /\ UNCHANGED <<prog, code, refs, heap, log, end>>

DoClose == At({"close_loc"}) /\ CloseLexicalVar(Op[2]) /\ UNCHANGED <<prog, code, heap, log, end>>

DoRef ==
    /\ At({"get_ref", "put_ref"})
    /\ LET i == Top.cl[Op[2]]
       IN \/ Op[3] /\ RefValue(i) = Uninit /\ Raise("Ref")
          \/ /\ ~(Op[3] /\ RefValue(i) = Uninit)
             /\ IF Op[1] = "get_ref" THEN fr' = Pushed(RefValue(i)) /\ UNCHANGED refs ELSE PutThrough(i, Sp, Front(Top.stk))
             /\ UNCHANGED <<prog, code, heap, log, end>>

\* Global variables: the lexical ones hide the global object.
SetGlobalVar(v, flag, stk) ==
    \/ gvar.v # None /\ flag # 1 /\ gvar.v = Uninit /\ Raise("Ref")
    \/ gvar.v # None /\ flag # 1 /\ gvar.v # Uninit /\ gvar.const /\ Raise("Type")
    \/ /\ gvar.v # None /\ (flag = 1 \/ (gvar.v # Uninit /\ ~gvar.const))
       /\ gvar' = [gvar EXCEPT !.v = v] /\ fr' = Moved(stk) /\ UNCHANGED <<prog, code, refs, objs, gobj, kept, log, end>>
    \/ gvar.v = None /\ gobj.v = None /\ flag # 2 /\ code[Top.f].strict /\ Raise("Ref")
    \/ /\ gvar.v = None /\ ~(gobj.v = None /\ flag # 2 /\ code[Top.f].strict)
       /\ gobj' = IF gobj.v = None THEN [v |-> v, conf |-> TRUE] ELSE [gobj EXCEPT !.v = v]
       /\ fr' = Moved(stk) /\ UNCHANGED <<prog, code, refs, objs, gvar, kept, log, end>>
GetGlobalVar(throw) ==
    \/ gvar.v # None /\ gvar.v = Uninit /\ Raise("Ref")
    \/ gvar.v # None /\ gvar.v # Uninit /\ fr' = Pushed(gvar.v) /\ UNCHANGED <<prog, code, refs, heap, log, end>>
    \/ gvar.v = None /\ gobj.v = None /\ throw /\ Raise("Ref")
    \/ /\ gvar.v = None /\ ~(gobj.v = None /\ throw)
       /\ fr' = Pushed(IF gobj.v = None THEN Undef ELSE gobj.v) /\ UNCHANGED <<prog, code, refs, heap, log, end>>
DeclaredGlobal == gvar.v # None \/ gobj.v # None
DoGlobal ==
    \/ At({"get_var"}) /\ GetGlobalVar(Op[3])
    \/ At({"put_var"}) /\ SetGlobalVar(Sp, Op[3], Front(Top.stk))
    \/ /\ At({"put_var_strict"})
       /\ LET under == Front(Top.stk)
          IN IF Last(under) = <<"bool", FALSE>> THEN Raise("Ref") ELSE SetGlobalVar(Sp, 2, Front(under))
    \/ /\ At({"check_var"})
       /\ fr' = Pushed(<<"bool", DeclaredGlobal>>) /\ UNCHANGED <<prog, code, refs, heap, log, end>>
    \/ /\ At({"delete_var"})
       /\ LET ok == gobj.v = None \/ gobj.conf
          IN fr' = Pushed(<<"bool", ok>>) /\ gobj' = IF ok THEN NoProperty ELSE gobj
       /\ UNCHANGED <<prog, code, refs, objs, gvar, kept, log, end>>

\* The declarations of a script.  The global object is extensible.
CheckDefineGlobalVar(lexical) == IF lexical THEN (gobj.v # None => gobj.conf) /\ gvar.v = None ELSE gvar.v = None
DoDefine ==
    \/ /\ At({"check_define_var"})
       /\ IF CheckDefineGlobalVar(Op[3]) THEN fr' = Next1 /\ UNCHANGED <<prog, code, refs, heap, log, end>> ELSE Raise("Syntax")
    \/ /\ At({"define_var"})
       /\ fr' = Next1
       /\ gvar' = IF Op[3] /\ gvar.v = None THEN [v |-> Uninit, const |-> ~Op[4]] ELSE gvar
       /\ gobj' = IF ~Op[3] /\ gobj.v = None THEN [v |-> Undef, conf |-> Op[5]] ELSE gobj
       /\ UNCHANGED <<prog, code, refs, objs, kept, log, end>>
    \/ /\ At({"define_func"})
       /\ fr' = Popped
       /\ gobj' = IF gobj.v = None \/ gobj.conf THEN [v |-> Sp, conf |-> Op[3]] ELSE [gobj EXCEPT !.v = Sp]
       /\ UNCHANGED <<prog, code, refs, objs, gvar, kept, log, end>>
    \/ /\ At({"define_field"})
       /\ fr' = Popped /\ objs' = [objs EXCEPT ![RefValue(Top.cl[Op[2]])[2]] = Sp]
       /\ UNCHANGED <<prog, code, refs, gobj, gvar, kept, log, end>>

\* The reference to a global, checked when it is made; undefined for a name that nobody has.
GetGlobalVarRef ==
    \/ gvar.v = Uninit /\ Raise("Ref")
    \/ gvar.v \notin {None, Uninit} /\ gvar.const /\ Raise("Type")
    \/ /\ gvar.v = None \/ (gvar.v # Uninit /\ ~gvar.const)
       /\ fr' = Pushed(CASE gvar.v # None -> <<"glex">> [] gvar.v = None /\ gobj.v # None -> <<"gobj">> [] OTHER -> Undef)
       /\ UNCHANGED <<prog, code, refs, heap, log, end>>
\* References on the stack: a property of an object, a variable, a global, or nothing.
DoMakeRef ==
    \/ /\ At({"make_loc_ref"})
       /\ LET g == GetVarRef([refs |-> refs, open |-> Top.open, got |-> 0], Len(fr), Op[2], Op[3])
          IN refs' = g.refs /\ fr' = [Pushed(<<"varref", g.got>>) EXCEPT ![Len(fr)].open = g.open]
       /\ UNCHANGED <<prog, code, heap, log, end>>
    \/ /\ At({"make_var_ref_ref", "dummy_ref"})
       /\ fr' = Pushed(IF Op[1] = "dummy_ref" THEN <<"dummy">> ELSE <<"varref", Top.cl[Op[2]]>>)
       /\ UNCHANGED <<prog, code, refs, heap, log, end>>
    \/ At({"make_var_ref"}) /\ GetGlobalVarRef
ValueAt(ref) ==
    CASE ref[1] = "varref" -> RefValue(ref[2])
      [] ref[1] = "obj" -> IF objs[ref[2]] = None THEN Undef ELSE objs[ref[2]]
      [] ref[1] = "glex" -> gvar.v
      [] ref[1] = "gobj" -> IF gobj.v = None THEN Undef ELSE gobj.v
      [] OTHER -> Fn(90)
PutRefValue(ref, v, stk) ==
    CASE ref[1] = "varref" -> PutThrough(ref[2], v, stk) /\ UNCHANGED <<prog, code, heap, log, end>>
      [] ref[1] = "obj" -> /\ objs' = [objs EXCEPT ![ref[2]] = v] /\ fr' = Moved(stk)
                           /\ UNCHANGED <<prog, code, refs, gobj, gvar, kept, log, end>>
      [] ref[1] = "glex" -> /\ gvar' = [gvar EXCEPT !.v = v] /\ fr' = Moved(stk)
                            /\ UNCHANGED <<prog, code, refs, objs, gobj, kept, log, end>>
      [] ref[1] \in {"gobj", "undef"} ->
         /\ gobj' = IF gobj.v = None THEN [v |-> v, conf |-> TRUE] ELSE [gobj EXCEPT !.v = v]
         /\ fr' = Moved(stk) /\ UNCHANGED <<prog, code, refs, objs, gvar, kept, log, end>>
      [] OTHER -> fr' = Moved(stk) /\ UNCHANGED <<prog, code, refs, heap, log, end>>
DoRefValue ==
    \/ /\ At({"get_ref_value"})
       /\ IF Sp = Undef THEN Raise("Ref") ELSE fr' = Pushed(ValueAt(Sp)) /\ UNCHANGED <<prog, code, refs, heap, log, end>>
    \/ /\ At({"put_ref_value"})
       /\ LET under == Front(Top.stk)
          IN IF Last(under) = Undef /\ code[Top.f].strict THEN Raise("Ref") ELSE PutRefValue(Last(under), Sp, Front(under))

\* An object that has the name takes the access, and the rest is jumped over.
DoWith ==
    /\ At({"with"})
    /\ LET obj == IF Op[3][1] = "loc" THEN Top.loc[Op[3][2]] ELSE RefValue(Top.cl[Op[3][2]])
           i == obj[2]
           after(stk) == [Moved(stk) EXCEPT ![Len(fr)].pc = JumpTo(Op[5])]
       IN CASE objs[i] = None -> fr' = Next1 /\ UNCHANGED objs
            [] objs[i] # None /\ Op[2] \in {"get", "typeof"} -> fr' = after(Append(Top.stk, objs[i])) /\ UNCHANGED objs
            [] objs[i] # None /\ Op[2] = "makeref" -> fr' = after(Append(Top.stk, obj)) /\ UNCHANGED objs
            [] objs[i] # None /\ Op[2] = "delete" -> fr' = after(Append(Top.stk, <<"bool", TRUE>>)) /\ objs' = [objs EXCEPT ![i] = None]
            [] OTHER -> fr' = after(Front(Top.stk)) /\ objs' = [objs EXCEPT ![i] = Sp]
    /\ UNCHANGED <<prog, code, refs, gobj, gvar, kept, log, end>>

DoClosure ==
    /\ At({"closure"})
    /\ LET c == MakeClosure(Op[2])
       IN /\ refs' = c.refs
          /\ fr' = [Next1 EXCEPT ![Len(fr)].open = c.open]
          /\ kept' = Append(kept, [f |-> Op[2], cl |-> c.cl])
    /\ UNCHANGED <<prog, code, objs, gobj, gvar, log, end>>

\* A function, or the code of an eval, that is made and called at once.
DoCall ==
    /\ At({"call", "eval"})
    /\ IF Op[2] = 0 THEN Raise("Syntax")
       ELSE /\ LET c == MakeClosure(Op[2])
               IN /\ refs' = c.refs
                  /\ fr' = Append([Next1 EXCEPT ![Len(fr)].open = c.open],
                                  NewFrame(Op[2], IF Op[1] = "call" THEN Op[3] ELSE <<>>, c.cl))
            /\ UNCHANGED <<prog, code, heap, log, end>>
DoRun ==
    /\ At({"run"})
    /\ fr' = IF Top.it = Len(kept) THEN [Next1 EXCEPT ![Len(fr)].it = 0]
             ELSE LET c == kept[Top.it + 1] IN Append([fr EXCEPT ![Len(fr)].it = @ + 1], NewFrame(c.f, <<>>, c.cl))
    /\ UNCHANGED <<prog, code, refs, heap, log, end>>
DoReturn ==
    /\ At({"ret"})
    /\ refs' = CloseVarRefs
    /\ fr' = Front(fr)
    /\ end' = IF Len(fr) = 1 THEN "done" ELSE ""
    /\ UNCHANGED <<prog, code, heap, log>>

Init ==
    /\ \E p \in Programs : prog = p /\ code = Compile(p)
    /\ fr = <<>> /\ refs = <<>> /\ objs = <<>> /\ gobj = NoProperty /\ gvar = NoVariable /\ kept = <<>>
    /\ log = <<>> /\ end = ""
\* A program with a syntax error is not run at all.
Start ==
    /\ fr = <<>> /\ end = ""
    /\ IF code = <<>> THEN end' = "refused" /\ UNCHANGED fr ELSE fr' = <<NewFrame(1, <<>>, <<>>)>> /\ UNCHANGED end
    /\ UNCHANGED <<prog, code, refs, heap, log>>
Next ==
    \/ Start \/ DoStack \/ DoJump \/ DoThrow \/ DoLocal \/ DoClose \/ DoRef \/ DoGlobal \/ DoDefine \/ DoMakeRef \/ DoRefValue
    \/ DoWith \/ DoClosure \/ DoCall \/ DoRun \/ DoReturn
    \/ end # "" /\ UNCHANGED vars
Spec == Init /\ [][Next]_vars

\* The open list of a frame holds exactly the references that still point into
\* it: close_var_refs and close_lexical_var find them there.
OpenReferencesListed ==
    end = "" => \A r \in 1..Len(refs) :
         (~refs[r].det) <=> \E k \in 1..Len(fr) : refs[r].fr = k /\ Contains(fr[k].open, r)

(***************************************************************************)
(* Where the code departs from the language.  c: the compound statement of *)
(* a program, which stands among the statements b of a script or function. *)
(***************************************************************************)
Has(b, kinds) == \E t \in Members(b) : t.k \in kinds
Earlier(b, first, second) == \E i, j \in 1..Len(b) : i < j /\ b[i].k \in first /\ b[j].k \in second
Declared(b) == Has(b, {"var", "fn"})
LoopsOver(c, d) == c.k \in {"for", "forof"} /\ c.d = d

\* x = 1; const x = 2 in a block: a TypeError where x is not initialized yet.
ConstTooEarly(c) == c.k = "block" /\ Earlier(c.b, {"put", "putlog"}, {"const"})
\* x = 1; function x() {} in a block: the function around gets the function, not 1.
FunctionAgain(c, b) ==
    Lets(b) = 0 /\ c.k \in {"block", "with"} /\ Earlier(c.b, {"put", "putlog"}, {"fn"})
\* var x; let x in a block is let through if x was a variable before: its scope is
\* that of the first declaration.
VarBeforeLexical(c, b) ==
    /\ (c.k \in {"block", "with"} /\ Declared(b)) \/ (LoopsOver(c, "var") /\ Lets(b) = 0)
    /\ Earlier(c.b, {"var"}, {"let", "const", "fn"})
\* Default values see the variables of the body: there is no scope of their own.
DefaultsSeeBody(c) ==
    /\ c.k = "call" /\ Declared(c.b) /\ ~TopNameError(c.b)
    /\ c.ps \in {<<Default("y", "get")>>, <<Plain("x"), Default("y", "clo")>>}
\* A let of the body may have the name of a parameter that is a pattern.
PatternAndLet(c) ==
    /\ c.k = "call" /\ Pat("x") \in Members(c.ps) /\ Has(c.b, {"let"})
    /\ ~Earlier(c.b, {"let"}, {"let", "var", "fn"})
\* A closure in a default value does not find the variables of a pattern before it.
PatternHidden(c) ==
    /\ c.k = "call" /\ Pat("x") \in Members(c.ps) /\ ~Earlier(c.b, {"let"}, {"let", "var", "fn"})
    /\ \E e \in {"clo", "now"} : Default("y", e) \in Members(c.ps)
\* Eval code assigns to the name of the function expression around it, and what it
\* declares is not found behind that name.
EvalMeetsName(c) ==
    /\ c.k = "call" /\ c.name = "x"
    /\ \E t \in Members(c.b) : t.k = "eval" /\ (Has(t.b, {"var", "fn", "block", "put"}) \/ t.b = <<Clo(16), Clo(16)>>)
\* What eval code in a catch block declares is given to the caught variable.
EvalInCatch(c, b) ==
    c.k = "catch" /\ \E t \in Members(c.b) : t.k = "eval" /\ Has(t.b, {"fn", "block"} \cup IF Declared(b) THEN {} ELSE {"var"})
\* A function in a block of eval code is a var declaration like any other: refused
\* behind a let, and given to the object of a with statement.
EvalHoists(c, b, strict) ==
    /\ ~strict
    /\ \/ c.k = "eval" /\ Lets(b) > 0 /\ Has(c.b, {"block"})
       \/ \E t \in Members(c.b) : /\ t.k = "eval" /\ Has(t.b, {"block"})
                                  /\ (c.k = "with" /\ c.has) \/ (c.k = "block" /\ Has(c.b, {"let"}))
\* The declarations of eval code are not compared with each other, and come in the
\* order of the text.
EvalDeclares(c, b, function) ==
    /\ c.k = "eval" /\ Lets(b) = 0
    /\ \/ Earlier(c.b, {"let"}, {"fn"})
       \/ Earlier(c.b, {"block"}, {"let"}) /\ (Declared(b) \/ ~Has(b, {"delete"}))
       \/ c.b = <<DeclFn(14), DeclVar(0)>> /\ function /\ ~Declared(b) /\ ~Has(b, {"delete"})
\* delete of a let of the script, in eval code, says true.
EvalDeletesLet(c, b, function, strict) ==
    c.k = "eval" /\ ~function /\ ~strict /\ Lets(b) > 0 /\ Has(c.b, {"delete"})

DepartsAt(c, b, function, strict) ==
    \/ ConstTooEarly(c) \/ VarBeforeLexical(c, b) \/ DefaultsSeeBody(c) \/ PatternAndLet(c) \/ PatternHidden(c)
    \/ ~strict /\ FunctionAgain(c, b)
    \/ EvalMeetsName(c) \/ EvalInCatch(c, b) \/ EvalHoists(c, b, strict)
    \/ EvalDeclares(c, b, function) \/ EvalDeletesLet(c, b, function, strict)
InOneFunction(p) == Len(p.b) = 1
Departs(p) ==
    LET b == IF InOneFunction(p) THEN p.b[1].b ELSE p.b
    IN \E c \in {t \in Members(b) : "b" \in DOMAIN t} : DepartsAt(c, b, InOneFunction(p), p.strict)

\* The program does what the language says, the same log, the same exception, refused
\* exactly when it has an early error; but for the programs above, and those do not.
ResolvesAsLanguage ==
    [][end' # "" => LET R == Language(prog) IN (end' = R.out /\ log' = R.log) <=> ~Departs(prog)]_vars

\* Two closures of one variable share one reference while the variable is in its frame.
OneReferencePerVariable ==
    \A i, j \in 1..Len(refs) :
        (i # j /\ ~refs[i].det /\ ~refs[j].det) =>
            <<refs[i].fr, refs[i].arg, refs[i].idx>> # <<refs[j].fr, refs[j].arg, refs[j].idx>>

\* resolve_variables, get_var_ref and close_lexical_var: programs do what the
\* language says, except exactly in the eleven cases of Departs (PatternHidden is the
\* XXX at 29404); closures of one variable share it, and a reference is in the list of its
\* frame exactly as long as it points there.
VariablesAsLanguage ==
    ResolvesAsLanguage /\ [](OpenReferencesListed /\ OneReferencePerVariable)
=============================================================================
