------------------------------ MODULE Expressions ------------------------------
(***************************************************************************)
(* Expressions as QuickJS compiles and runs them.  The parser emits byte   *)
(* code for a stack machine while it reads, and patches the last opcode    *)
(* when it learns that a value was meant as a reference: the target of an  *)
(* assignment, the callee of a method call, the operand of delete.         *)
(*                                                                         *)
(* Everything a program can observe is an event: a variable or property    *)
(* that is read or written, a conversion, a call.  Its outcome is chosen   *)
(* when it happens: an object, undefined, or an exception.  The object     *)
(* that the n-th event gives is <<"obj", n>>.  The list of events and the  *)
(* result are compared with the order of evaluation of the language.       *)
(*                                                                         *)
(* Private names, yield, the names of functions, and the later passes over *)
(* the byte code are left out.                                             *)
(***************************************************************************)
EXTENDS Integers, Sequences, SequencesExt

CONSTANTS
    MaxEvents   \* bound: an iterator is done when so many events have happened

(***************************************************************************)
(* Syntax.                                                                 *)
(***************************************************************************)
Var(x) == [k |-> "var", x |-> x]
This == [k |-> "this"]
Const == [k |-> "const"]
Super == [k |-> "super"]            \* only in front of a property
Dot(e, p) == [k |-> "dot", e |-> e, p |-> p, opt |-> FALSE]
Index(e, i) == [k |-> "index", e |-> e, i |-> i, opt |-> FALSE]
Call(e, args) == [k |-> "call", e |-> e, args |-> args, opt |-> FALSE]
Opt(e) == [e EXCEPT !.opt = TRUE]   \* ?. in front of the last part
New(e, args) == [k |-> "new", e |-> e, args |-> args]
Spread(e) == [k |-> "spread", e |-> e]
Paren(e) == [k |-> "paren", e |-> e]
Comma(a, b) == [k |-> "comma", a |-> a, b |-> b]
Assign(t, e) == [k |-> "assign", t |-> t, e |-> e]
OpAssign(t, e) == [k |-> "opassign", t |-> t, e |-> e]
Pre(t) == [k |-> "pre", t |-> t]
Post(t) == [k |-> "post", t |-> t]
Delete(e) == [k |-> "delete", e |-> e]
Unary(op, e) == [k |-> "unary", op |-> op, e |-> e]     \* neg, lnot, typeof, void
Binary(a, b) == [k |-> "binary", a |-> a, b |-> b]
Logical(op, a, b) == [k |-> "logical", op |-> op, a |-> a, b |-> b]     \* and, or, coalesce
Cond(a, b, c) == [k |-> "cond", a |-> a, b |-> b, c |-> c]
Template(es) == [k |-> "template", es |-> es]
ArrayLit(es) == [k |-> "array", es |-> es]
ObjectLit(ps) == [k |-> "object", ps |-> ps]
\* tok: "" for an assignment, "var" or "let" for a declaration
Destruct(tok, pat, e) == [k |-> "destruct", tok |-> tok, pat |-> pat, e |-> e]

\* Patterns.  init: <<>>, or the expression of the default value.
ObjPat(props, rest) == [k |-> "objpat", props |-> props, rest |-> rest]
ArrPat(els) == [k |-> "arrpat", els |-> els]
Short(x, init) == [k |-> "short", x |-> x, init |-> init]
Named(p, t, init) == [k |-> "named", p |-> p, t |-> t, init |-> init]
Computed(e, t, init) == [k |-> "computed", e |-> e, t |-> t, init |-> init]
Elem(t, init) == [k |-> "elem", t |-> t, init |-> init]
Rest(t) == [k |-> "rest", t |-> t, init |-> <<>>]
Hole == [k |-> "hole"]
IsPattern(t) == t.k \in {"objpat", "arrpat"}

(***************************************************************************)
(* The compiler.  st: the code; the number of labels; last: whether the    *)
(* last opcode may be patched (last_opcode_pos >= 0); opt: the label of    *)
(* the optional chain, 0 if there is none.                                 *)
(***************************************************************************)
EmitOp(st, ins) == [st EXCEPT !.code = Append(@, ins), !.last = TRUE]
Emit(st, op) == EmitOp(st, [op |-> op])
Emits(st, ops) == [st EXCEPT !.code = @ \o [i \in 1 .. Len(ops) |-> [op |-> ops[i]]], !.last = TRUE]
EmitP(st, op, p) == EmitOp(st, [op |-> op, p |-> p])       \* with an atom
EmitN(st, op, n) == EmitOp(st, [op |-> op, n |-> n])       \* with a count or a depth
EmitL(st, op, l) == EmitOp(st, [op |-> op, l |-> l])       \* with a label
NewLabels(st, n) == [st EXCEPT !.labels = @ + n]
EmitConst(st, p) == EmitP(st, "const", p)

\* get_prev_opcode
Prev(st) == IF st.last THEN Last(st.code).op ELSE "invalid"
RemoveLast(st) == [st EXCEPT !.code = Front(@), !.last = FALSE]
Patch(st, op) == [st EXCEPT !.code[Len(st.code)].op = op]

\* The last opcode becomes a reference.  keep: its value is also read.
GetLvalue(st, keep) ==
    LET ins == Last(st.code)
        op == Prev(st)
        s0 == RemoveLast(st)
    IN CASE op = "get_var" ->
            LET s1 == EmitP(NewLabels(s0, 1), "make_ref", ins.p)
            IN [st |-> IF keep THEN Emit(s1, "get_ref_value") ELSE s1, op |-> "get_ref_value",
                p |-> ins.p, l |-> s1.labels, depth |-> 2]
         [] op = "get_field" ->
            [st |-> IF keep THEN EmitP(s0, "get_field2", ins.p) ELSE s0, op |-> op,
             p |-> ins.p, l |-> 0, depth |-> 1]
         [] op = "get_array_el" ->
            [st |-> Emits(s0, IF keep THEN <<"to_propkey2", "dup2", "get_array_el">> ELSE <<"to_propkey2">>),
             op |-> op, p |-> "", l |-> 0, depth |-> 2]
         [] op = "get_super_value" ->
            [st |-> Emits(s0, IF keep THEN <<"to_propkey", "dup3", "get_super_value">> ELSE <<"to_propkey">>),
             op |-> op, p |-> "", l |-> 0, depth |-> 3]

\* Stores the value and leaves it on the stack; special: leaves the one below.
PutLvalue(st, lv, special) ==
    CASE lv.op = "get_field" -> EmitP(Emit(st, IF special THEN "perm3" ELSE "insert2"), "put_field", lv.p)
      [] lv.op = "get_array_el" -> Emits(st, <<IF special THEN "perm4" ELSE "insert3", "put_array_el">>)
      [] lv.op = "get_ref_value" ->
         EmitP(Emit(EmitL(st, "label", lv.l), IF special THEN "perm4" ELSE "insert3"), "put_ref_value", lv.p)
      [] lv.op = "get_super_value" -> Emits(st, <<IF special THEN "perm5" ELSE "insert4", "put_super_value">>)

PutLvalueNokeep(st, lv) ==
    CASE lv.op = "get_var" -> EmitP(st, "put_var", lv.p)
      [] lv.op = "get_field" -> EmitP(st, "put_field", lv.p)
      [] lv.op = "get_array_el" -> Emit(st, "put_array_el")
      [] lv.op = "get_ref_value" -> EmitP(EmitL(st, "label", lv.l), "put_ref_value", lv.p)
      [] lv.op = "get_super_value" -> Emit(st, "put_super_value")

\* The rest of an iterator as an array; depth: values between the two.
SpreadCode(st, depth) ==
    LET n == st.labels
        s0 == EmitL(EmitN(EmitN(NewLabels(st, 2), "array_from", 0), "push_i32", 0), "label", n + 1)
        s1 == EmitL(EmitN(s0, "for_of_next", 2 + depth), "if_true", n + 2)
        s2 == EmitL(EmitL(Emits(s1, <<"define_array_el", "inc">>), "goto", n + 1), "label", n + 2)
    IN Emits(s2, <<"drop", "drop">>)

\* optional_chain_test.  drop: values to drop when the chain ends here.
OptionalChainTest(st, opt, drop) ==
    LET s0 == IF st.opt = 0 THEN [NewLabels(st, 1) EXCEPT !.opt = st.labels + 1] ELSE st
        next == s0.labels + 1
        s1 == EmitL(Emits(NewLabels(s0, 1), <<"dup", "is_undefined_or_null">>), "if_false", next)
        s2 == Emit(Emits(s1, [j \in 1 .. drop |-> "drop"]), "undefined")
    IN IF opt THEN EmitL(EmitL(s2, "goto", s0.opt), "label", next) ELSE st

RECURSIVE Expr(_, _), Chain(_, _), Args(_, _), SpreadArgs(_, _), Pattern(_, _, _, _, _), Property(_, _, _, _),
          Element(_, _, _), Default(_, _), TemplateParts(_, _), Fields(_, _)

\* The arguments in front of the first spread stay on the stack ...
Args(args, st) == FoldLeft(LAMBDA s, e : Expr(e, s), st, args)
\* ... the others go to an array.
SpreadArgs(args, st) ==
    FoldLeft(LAMBDA s, e : IF e.k = "spread" THEN Emit(Expr(e.e, s), "append")
                           ELSE Emits(Expr(e, s), <<"define_array_el", "inc">>), st, args)

\* The callee: its last opcode keeps the object on the stack.
Callee(st) ==
    CASE Prev(st) = "get_field" -> [st |-> Patch(st, "get_field2"), method |-> TRUE, drop |-> 2]
      [] Prev(st) = "get_array_el" -> [st |-> Patch(st, "get_array_el2"), method |-> TRUE, drop |-> 2]
      [] Prev(st) = "get_super_value" -> [st |-> Patch(st, "get_array_el"), method |-> TRUE, drop |-> 2]
      [] OTHER -> [st |-> st, method |-> FALSE, drop |-> 1]

\* Arguments and call; kind: "call", "method" or "new".
EmitCall(st, kind, args) ==
    LET spreadAt == SelectInSeq(args, LAMBDA e : e.k = "spread")
        n == IF spreadAt = 0 THEN Len(args) ELSE spreadAt - 1
        plain == Args(SubSeq(args, 1, n), st)
        array == EmitN(EmitN(plain, "array_from", n), "push_i32", n)
        all == Emit(SpreadArgs(SubSeq(args, n + 1, Len(args)), array), "drop")
    IN CASE spreadAt = 0 /\ kind = "call" -> EmitN(plain, "call", n)
         [] spreadAt = 0 /\ kind = "method" -> EmitN(plain, "call_method", n)
         [] spreadAt = 0 /\ kind = "new" -> EmitN(plain, "call_constructor", n)
         [] spreadAt # 0 /\ kind = "call" -> EmitN(Emits(all, <<"undefined", "swap">>), "apply", 0)
         [] spreadAt # 0 /\ kind = "method" -> EmitN(Emit(all, "perm3"), "apply", 0)
         [] spreadAt # 0 /\ kind = "new" -> EmitN(Emit(all, "perm3"), "apply", 1)

\* The loop of js_parse_postfix_expr over .p, [i] and (args).
Chain(e, st) ==
    CASE e.k = "dot" ->
         LET s0 == Chain(e.e, st)
         IN IF Prev(s0) = "get_super" THEN Emit(EmitConst(s0, e.p), "get_super_value")
            ELSE EmitP(OptionalChainTest(s0, e.opt, 1), "get_field", e.p)
      [] e.k = "index" ->
         LET s0 == Chain(e.e, st)
             s1 == Expr(e.i, OptionalChainTest(s0, e.opt, 1))
         IN Emit(s1, IF Prev(s0) = "get_super" THEN "get_super_value" ELSE "get_array_el")
      [] e.k = "call" ->
         LET c == Callee(Chain(e.e, st))
         IN EmitCall(OptionalChainTest(c.st, e.opt, c.drop), IF c.method THEN "method" ELSE "call", e.args)
      [] e.k = "super" -> Emits(st, <<"this", "home_object", "get_super">>)
      [] OTHER -> Expr(e, st)

\* js_parse_template: the method concat of the first string.
TemplateParts(es, st) ==
    LET s0 == Emit(EmitConst(st, "str"), "get_concat")
    IN EmitN(FoldLeft(LAMBDA s, e : Expr(e, s), s0, es), "call_method", Len(es))

\* js_parse_object_literal
Fields(ps, st) ==
    FoldLeft(LAMBDA s, p :
               CASE p.k = "spread" ->
                    Emits(EmitOp(Emit(Expr(p.e, s), "null"),
                                 [op |-> "copy_data_properties", target |-> 2, source |-> 1, excl |-> 0]),
                          <<"drop", "drop">>)
                 [] p.k = "short" -> EmitP(EmitP(s, "get_var", p.x), "define_field", p.x)
                 [] p.k = "named" -> EmitP(Expr(p.t, s), "define_field", p.p)
                 [] p.k = "computed" -> Emits(Expr(p.t, Expr(p.e, s)), <<"define_array_el", "drop">>),
             Emit(st, "object"), ps)

\* js_parse_array_literal, without holes
Elements(es, st) ==
    LET spreadAt == SelectInSeq(es, LAMBDA e : e.k = "spread")
        n == IF spreadAt = 0 THEN Len(es) ELSE spreadAt - 1
        s0 == EmitN(Args(SubSeq(es, 1, n), st), "array_from", n)
    IN IF spreadAt = 0 THEN s0
       ELSE Emit(SpreadArgs(SubSeq(es, n + 1, Len(es)), EmitN(s0, "push_i32", n)), "drop")

\* js_parse_delete
EmitDelete(st) ==
    CASE Prev(st) = "get_field" -> Emit(EmitConst(RemoveLast(st), Last(st.code).p), "delete")
      [] Prev(st) = "get_array_el" -> Emit(RemoveLast(st), "delete")
      [] Prev(st) = "get_var" -> Patch(st, "delete_var")
      [] Prev(st) = "get_super_value" -> Emit(st, "throw_delete_super")
      [] OTHER -> Emits(st, <<"drop", "push_true">>)

\* A default value, when the value on the stack is undefined.
Default(init, st) ==
    IF init = <<>> THEN st
    ELSE LET l == st.labels + 1
             s0 == EmitL(Emits(NewLabels(st, 1), <<"dup", "undefined", "strict_eq">>), "if_false", l)
         IN EmitL(Expr(init[1], Emit(s0, "drop")), "label", l)

DeclaredVar(x) == [op |-> "get_var", p |-> x, l |-> 0, depth |-> 0]

\* "swap ref and lvalue object if any": source and key above the reference.
UnderLvalue(st, computed, depth) ==
    Emits(st, IF computed THEN (CASE depth = 1 -> <<"rot3r">> [] depth = 2 -> <<"swap2">>
                                  [] depth = 3 -> <<"rot5l", "rot5l">> [] OTHER -> <<>>)
              ELSE (CASE depth = 1 -> <<"swap">> [] depth = 2 -> <<"rot3l">>
                      [] depth = 3 -> <<"rot4l">> [] OTHER -> <<>>))

\* The key on the stack, or the name p, goes to the list of excluded keys.
Exclude(st, computed, p) ==
    IF computed THEN Emits(st, <<"perm3", "null", "define_array_el", "perm3">>)
    ELSE Emit(EmitP(Emits(st, <<"swap", "null">>), "define_field", p), "swap")

\* One property of an object pattern.  excl: there is a rest property.
Property(pr, st, tok, excl) ==
    LET computed == pr.k = "computed"
        p == IF pr.k = "short" THEN pr.x ELSE IF computed THEN "" ELSE pr.p
        s0 == IF computed THEN Expr(pr.e, st) ELSE st
        nested == pr.k # "short" /\ IsPattern(pr.t)
        direct == pr.k = "short" /\ tok = "let"
        keyed == IF ~computed THEN s0 ELSE IF ~nested THEN Emit(s0, "to_propkey2")
                 ELSE IF excl THEN Emit(s0, "to_propkey") ELSE s0
        s1 == IF excl THEN Exclude(keyed, computed, p) ELSE keyed
        s2 == Emit(s1, IF computed THEN "dup1" ELSE "dup")
        declared == tok # "" /\ pr.k # "short"
        lv == IF pr.k = "short" THEN GetLvalue(EmitP(s2, "get_var", p), FALSE)
              ELSE GetLvalue(Expr(pr.t, s2), FALSE)
        target == IF declared THEN DeclaredVar(pr.t.x) ELSE IF direct THEN DeclaredVar(p) ELSE lv
        under == IF declared THEN s2 ELSE UnderLvalue(lv.st, computed, lv.depth)
        got == IF direct THEN EmitP(s1, "get_field2", p)
               ELSE IF computed THEN Emit(under, "get_array_el") ELSE EmitP(under, "get_field", p)
    IN IF nested
       THEN Pattern(pr.t, IF computed THEN Emit(s1, "get_array_el2") ELSE EmitP(s1, "get_field2", p),
                    tok, TRUE, pr.init)
       ELSE PutLvalueNokeep(Default(pr.init, got), target)

RestProperty(t, st, tok) ==
    LET lv == IF tok = "" THEN GetLvalue(Expr(t, st), FALSE) ELSE [DeclaredVar(t.x) EXCEPT !.op = "get_var"]
        s0 == IF tok = "" THEN lv.st ELSE st
    IN PutLvalueNokeep(EmitOp(Emit(s0, "object"),
                              [op |-> "copy_data_properties", target |-> 0, source |-> lv.depth + 1,
                               excl |-> lv.depth + 2]), lv)

\* One element of an array pattern.
Element(el, st, tok) ==
    LET lv == IF tok = "" THEN GetLvalue(Expr(el.t, st), FALSE) ELSE DeclaredVar(el.t.x)
        s0 == IF tok = "" THEN lv.st ELSE st
        depth == IF tok = "" THEN lv.depth ELSE 0
        next(s, d) == IF el.k = "rest" THEN SpreadCode(s, d) ELSE Emit(EmitN(s, "for_of_next", d), "drop")
    IN IF el.k = "hole" THEN Emits(EmitN(st, "for_of_next", 0), <<"drop", "drop">>)
       ELSE IF IsPattern(el.t) THEN Pattern(el.t, next(st, 0), tok, TRUE, el.init)
       ELSE PutLvalueNokeep(Default(el.init, next(s0, depth)), lv)

\* js_parse_destructuring_element.  hasval: the value is on the stack and is
\* consumed; init: the expression behind "=".
Pattern(pat, st, tok, hasval, init) ==
    LET lp == st.labels + 1 la == st.labels + 2 ld == st.labels + 3
        s0 == NewLabels(st, 3)
        head == IF hasval
                THEN IF init = <<>> THEN s0
                     ELSE EmitL(EmitL(Emits(s0, <<"dup", "undefined", "strict_eq">>), "if_true", lp), "label", la)
                ELSE Emit(EmitL(EmitL(s0, "goto", lp), "label", la), "dup")
        excl == pat.k = "objpat" /\ pat.rest # <<>>
        object == IF excl THEN Emits(head, <<"to_object", "object", "swap">>) ELSE Emit(head, "to_object")
        props == FoldLeft(LAMBDA s, pr : Property(pr, s, tok, excl), object, pat.props)
        rest == IF excl THEN Emits(RestProperty(pat.rest[1], props, tok), <<"drop", "drop">>)
                ELSE Emit(props, "drop")
        els == FoldLeft(LAMBDA s, el : Element(el, s, tok), Emit(head, "for_of_start"), pat.els)
        body == IF pat.k = "objpat" THEN rest ELSE Emit(els, "iterator_close")
        parse == EmitL(EmitL(body, "goto", ld), "label", lp)
        value == Expr(init[1], IF hasval THEN Emit(parse, "drop") ELSE parse)
    IN IF init = <<>> THEN body ELSE EmitL(EmitL(value, "goto", la), "label", ld)

Expr(e, st) ==
    LET n == st.labels
    IN CASE e.k = "var" -> EmitP(st, "get_var", e.x)
         [] e.k = "this" -> Emit(st, "this")
         [] e.k = "const" -> EmitConst(st, "c")
         [] e.k \in {"dot", "index", "call"} ->
            LET s0 == Chain(e, [st EXCEPT !.opt = 0])
            IN [(IF s0.opt # 0 THEN EmitL(s0, "label", s0.opt) ELSE s0) EXCEPT !.opt = st.opt]
         [] e.k = "new" -> EmitCall(Emit(Expr(e.e, st), "dup"), "new", e.args)
         [] e.k = "paren" -> Expr(e.e, st)
         [] e.k = "comma" -> [Expr(e.b, Emit(Expr(e.a, st), "drop")) EXCEPT !.last = FALSE]
         [] e.k = "assign" ->
            LET lv == GetLvalue(Expr(e.t, st), FALSE) IN PutLvalue(Expr(e.e, lv.st), lv, FALSE)
         [] e.k = "opassign" ->
            LET lv == GetLvalue(Expr(e.t, st), TRUE) IN PutLvalue(Emit(Expr(e.e, lv.st), "add"), lv, FALSE)
         [] e.k = "pre" ->
            LET lv == GetLvalue(Expr(e.t, st), TRUE) IN PutLvalue(Emit(lv.st, "inc"), lv, FALSE)
         [] e.k = "post" ->
            LET lv == GetLvalue(Expr(e.t, st), TRUE) IN PutLvalue(Emit(lv.st, "post_inc"), lv, TRUE)
         [] e.k = "delete" -> EmitDelete(Expr(e.e, st))
         [] e.k = "unary" ->
            LET s0 == Expr(e.e, st)
            IN IF e.op = "void" THEN Emits(s0, <<"drop", "undefined">>)
               ELSE Emit(IF e.op = "typeof" /\ Prev(s0) = "get_var" THEN Patch(s0, "get_var_undef") ELSE s0, e.op)
         [] e.k = "binary" -> Emit(Expr(e.b, Expr(e.a, st)), "add")
         [] e.k = "logical" ->
            LET s0 == Emit(Expr(e.a, NewLabels(st, 1)), "dup")
                s1 == CASE e.op = "and" -> EmitL(s0, "if_false", n + 1)
                        [] e.op = "or" -> EmitL(s0, "if_true", n + 1)
                        [] e.op = "coalesce" -> EmitL(Emit(s0, "is_undefined_or_null"), "if_false", n + 1)
            IN EmitL(Expr(e.b, Emit(s1, "drop")), "label", n + 1)
         [] e.k = "cond" ->
            LET s0 == Expr(e.b, EmitL(Expr(e.a, NewLabels(st, 2)), "if_false", n + 1))
            IN EmitL(Expr(e.c, EmitL(EmitL(s0, "goto", n + 2), "label", n + 1)), "label", n + 2)
         [] e.k = "template" -> TemplateParts(e.es, st)
         [] e.k = "array" -> Elements(e.es, st)
         [] e.k = "object" -> Fields(e.ps, st)
         [] e.k = "destruct" ->
            IF e.tok = "" THEN Pattern(e.pat, st, "", FALSE, <<e.e>>)
            ELSE Emit(Pattern(e.pat, Emit(st, "undefined"), e.tok, TRUE, <<e.e>>), "undefined")

Compile(e) == Emit(Expr(e, [code |-> <<>>, labels |-> 0, last |-> FALSE, opt |-> 0]), "return").code
LabelPos(code, l) == SelectInSeq(code, LAMBDA ins : ins.op = "label" /\ ins.l = l)

(***************************************************************************)
(* The stack machine.  Values are tuples with a tag; a converted key is    *)
(* <<"key", n>>, a fresh array or object is its contents.                  *)
(***************************************************************************)
(***************************************************************************)
(* The expressions that TLC runs.                                          *)
(***************************************************************************)
X == Var("x")
Y == Var("y")
Z == Var("z")

\* Targets of assignments whose objects are never undefined.
Targets == {X, Dot(This, "p"), Index(This, Y), Dot(Super, "p"), Index(Super, Y), Paren(Dot(This, "p")), Paren(X)}
\* The object may be undefined: the key is looked at later.
Checked == {Index(X, Y), Index(Dot(X, "p"), Y)}

Assignments ==
    {Assign(t, Z) : t \in Targets \cup Checked \cup {Dot(X, "p"), Paren(Dot(X, "p"))}} \cup {OpAssign(t, Z) : t \in Targets \cup Checked \cup {Dot(X, "p")}}
    \cup {Pre(t) : t \in Targets \cup Checked} \cup {Post(t) : t \in Targets \cup Checked \cup {Dot(X, "p")}}
    \cup {Assign(t, Assign(u, Z)) : t \in Targets, u \in {X, Index(This, Y)}}

Bases == {X, Dot(X, "p"), Index(X, Const), Index(X, Y), Call(X, <<Y>>), Opt(Dot(X, "p")), Opt(Index(X, Y)), Opt(Call(X, <<Y>>)),
          Opt(Call(Dot(X, "p"), <<>>)), Paren(Dot(X, "p")), Comma(Y, Dot(X, "p")), Paren(Comma(Y, Dot(X, "p"))), Opt(Dot(Opt(Dot(X, "p")), "q"))}
Chains ==
    Bases \cup {Dot(b, "r") : b \in Bases \ {Comma(Y, Dot(X, "p"))}}
    \cup {Call(b, args) : b \in Bases \ {Comma(Y, Dot(X, "p"))},
                          args \in {<<>>, <<Z>>, <<Z, Spread(Y), Const>>}}
    \cup {New(X, <<Y>>), New(Dot(X, "p"), <<Spread(Y)>>), New(X, <<>>), Index(Dot(This, "p"), Const),
           Index(This, Binary(X, Y)), Dot(Super, "p"), Index(Super, Y)}
    \cup {Delete(e) : e \in {X, Dot(X, "p"), Index(This, Y), Index(X, Y), Call(X, <<>>), Paren(Dot(X, "p")), This,
                             Opt(Dot(X, "p")), Opt(Index(X, Y)), Dot(Opt(Dot(X, "p")), "q"), Opt(Call(X, <<>>)),
                             Paren(Opt(Dot(X, "p"))), Dot(Paren(Opt(Dot(X, "p"))), "q"), Paren(Comma(Y, Dot(X, "p"))),
                             Dot(Super, "p"), Index(Super, Y)}}

Operators ==
    {Unary(op, e) : op \in {"neg", "lnot", "typeof", "void"}, e \in {X, Dot(X, "p")}}
    \cup {Logical(op, a, b) : op \in {"and", "or", "coalesce"}, a \in {X, Logical("and", X, Y)}, b \in {Z, Assign(Y, Z)}}
    \cup {Cond(X, Y, Z), Binary(X, Binary(Y, Z)), Comma(X, Y), Template(<<X>>), Template(<<Const, X>>), Template(<<X, Y>>),
           Template(<<X, Const, Call(Y, <<>>)>>)}
    \cup {ArrayLit(<<X, Y>>), ArrayLit(<<X, Spread(Y), Z>>),
           ObjectLit(<<Short("x", <<>>), Spread(Y), Named("p", Z, <<>>)>>), ObjectLit(<<Computed(X, Const, <<>>), Named("p", Y, <<>>)>>),
           ObjectLit(<<Computed(X, Y, <<>>), Computed(Z, X, <<>>)>>)}

Inits == {<<>>, <<Y>>}
Pats ==
    UNION {{ObjPat(<<Named("p", t, i)>>, <<>>), ObjPat(<<Computed(Y, t, i)>>, <<>>), ArrPat(<<Elem(t, i)>>)} :
             t \in {X, Dot(This, "p"), Index(This, Y), Dot(Super, "p"), Dot(X, "p"), Index(X, Y)}, i \in Inits}
    \cup {ObjPat(<<Short("x", i)>>, r) : i \in Inits, r \in {<<>>, <<X>>, <<Index(This, Y)>>, <<Dot(Super, "q")>>, <<Dot(X, "q")>>}}
    \cup {ObjPat(<<Computed(Y, t, <<>>), Named("q", X, <<>>)>>, <<X>>) : t \in {X, Dot(This, "p")}}
    \cup {ObjPat(<<Named("p", ArrPat(<<Elem(X, <<>>)>>), <<Y>>)>>, r) : r \in {<<>>, <<X>>}}
    \cup {ObjPat(<<Computed(Y, ObjPat(<<Short("x", <<>>)>>, <<>>), <<>>)>>, r) : r \in {<<>>, <<X>>}}
    \cup {ArrPat(<<Hole, Elem(X, <<>>)>>), ArrPat(<<Elem(X, <<>>), Rest(Index(This, Y))>>), ArrPat(<<Rest(X)>>),
           ArrPat(<<Rest(ArrPat(<<Elem(X, <<>>)>>))>>), ArrPat(<<Elem(ObjPat(<<Short("x", <<>>)>>, <<>>), <<Y>>)>>),
           ArrPat(<<>>), ObjPat(<<>>, <<>>)}
\* Patterns of declarations: all targets are names.
DeclPats ==
    {ObjPat(<<Short("x", <<Y>>), Named("p", X, i)>>, r) : i \in Inits, r \in {<<>>, <<X>>}}
    \cup {ObjPat(<<Computed(Y, X, <<>>)>>, <<X>>), ArrPat(<<Elem(X, <<Y>>), Rest(X)>>)}
Destructurings ==
    {Destruct("", p, Z) : p \in Pats} \cup {Destruct(tok, p, Z) : tok \in {"var", "let"}, p \in DeclPats}

Programs == Assignments \cup Chains \cup Operators \cup Destructurings

VARIABLES
    prog,   \* the expression and its code
    pc,
    stack,
    raised, \* whether an exception is pending
    log,    \* history: events and outcomes
    end     \* <<>>, or how the expression ended

vars == <<prog, pc, stack, raised, log, end>>

Undef == <<"undef">>
ThisValue == <<"this">>
Obj(n) == <<"obj", n>>
Bool(b) == <<"bool", b>>
Truthy(v) == v # Undef /\ v # Bool(FALSE)
\* Values that are converted to a key, a number or a string without any effect.
IsPrimitive(v) == v[1] # "obj"

\* The n-th event ev with outcome o.
ResultOf(n, o) == IF o = "object" THEN Obj(n) ELSE Undef
OutcomesOf(ev) ==
    CASE ev[1] \in {"getvar", "typeofvar", "get", "call", "append"} -> {"object", "undefined", "throw"}
      [] ev[1] = "next" -> IF Len(log) < MaxEvents THEN {"object", "undefined", "done", "throw"} ELSE {"done", "throw"}
      [] OTHER -> {"object", "throw"}

Init ==
    /\ \E e \in Programs : prog = [e |-> e, code |-> Compile(e)]
    /\ pc = 1 /\ stack = <<>> /\ raised = FALSE /\ log = <<>> /\ end = <<>>

Ins == prog.code[pc]
Run(ops) == end = <<>> /\ ~raised /\ Ins.op \in ops
At(k) == stack[Len(stack) - k]          \* sp[-1 - k]
Pop(n) == SubSeq(stack, 1, Len(stack) - n)
Now == Len(log) + 1
Go(p) == pc' = p /\ UNCHANGED <<prog, raised, end>>
Raise == raised' = TRUE /\ UNCHANGED <<prog, pc, end>>
Quiet == UNCHANGED log

\* The event ev happens: an exception, or result(o) is the new stack.
Happens(ev, result(_)) ==
    \E o \in OutcomesOf(ev) :
        /\ log' = Append(log, <<ev, o>>)
        /\ IF o = "throw" THEN Raise /\ UNCHANGED stack
           ELSE stack' = result(o) /\ Go(pc + 1)

\* OP_drop ... OP_swap2, and the constants.
DoStack ==
    /\ Run({"drop", "dup", "dup1", "dup2", "dup3", "insert2", "insert3", "insert4", "perm3", "perm4", "perm5",
            "rot3l", "rot4l", "rot5l", "rot3r", "swap", "swap2", "undefined", "null", "this", "home_object",
            "get_super", "const", "push_true", "push_i32", "object", "make_ref", "label", "is_undefined_or_null",
            "strict_eq", "lnot", "typeof", "get_concat"})
    /\ stack' =
        LET op == Ins.op
            put(n, s) == Pop(n) \o s
        IN CASE op = "drop" -> Pop(1)
             [] op = "dup" -> put(1, <<At(0), At(0)>>)
             [] op = "dup1" -> put(2, <<At(1), At(1), At(0)>>)
             [] op = "dup2" -> put(2, <<At(1), At(0), At(1), At(0)>>)
             [] op = "dup3" -> put(3, <<At(2), At(1), At(0), At(2), At(1), At(0)>>)
             [] op = "insert2" -> put(2, <<At(0), At(1), At(0)>>)
             [] op = "insert3" -> put(3, <<At(0), At(2), At(1), At(0)>>)
             [] op = "insert4" -> put(4, <<At(0), At(3), At(2), At(1), At(0)>>)
             [] op = "perm3" -> put(3, <<At(1), At(2), At(0)>>)
             [] op = "perm4" -> put(4, <<At(1), At(3), At(2), At(0)>>)
             [] op = "perm5" -> put(5, <<At(1), At(4), At(3), At(2), At(0)>>)
             [] op = "rot3l" -> put(3, <<At(1), At(0), At(2)>>)
             [] op = "rot4l" -> put(4, <<At(2), At(1), At(0), At(3)>>)
             [] op = "rot5l" -> put(5, <<At(3), At(2), At(1), At(0), At(4)>>)
             [] op = "rot3r" -> put(3, <<At(0), At(2), At(1)>>)
             [] op = "swap" -> put(2, <<At(0), At(1)>>)
             [] op = "swap2" -> put(4, <<At(1), At(0), At(3), At(2)>>)
             [] op \in {"undefined", "null"} -> put(0, <<Undef>>)
             [] op = "this" -> put(0, <<ThisValue>>)
             [] op = "home_object" -> put(0, <<<<"home">>>>)
             [] op = "get_super" -> put(1, <<<<"super">>>>)
             [] op = "const" -> put(0, <<<<"name", Ins.p>>>>)
             [] op = "push_true" -> put(0, <<Bool(TRUE)>>)
             [] op = "push_i32" -> put(0, <<<<"int", Ins.n>>>>)
             [] op = "object" -> put(0, <<<<"lit", <<>>>>>>)
             [] op = "make_ref" -> put(0, <<<<"scope">>, <<"name", Ins.p>>>>)
             [] op = "label" -> stack
             [] op = "is_undefined_or_null" -> put(1, <<Bool(At(0) = Undef)>>)
             [] op = "strict_eq" -> put(2, <<Bool(At(0) = At(1))>>)
             [] op = "lnot" -> put(1, <<Bool(~Truthy(At(0)))>>)
             [] op = "typeof" -> put(1, <<<<"type", At(0)>>>>)
             [] op = "get_concat" -> put(0, <<<<"concat">>>>)
    /\ Go(pc + 1) /\ Quiet

DoJump ==
    /\ Run({"goto", "if_false", "if_true"})
    /\ LET taken == CASE Ins.op = "goto" -> TRUE [] Ins.op = "if_false" -> ~Truthy(At(0)) [] OTHER -> Truthy(At(0))
       IN Go(IF taken THEN LabelPos(prog.code, Ins.l) ELSE pc + 1)
    /\ stack' = (IF Ins.op = "goto" THEN stack ELSE Pop(1)) /\ Quiet

DoVar ==
    \/ Run({"get_var"}) /\ Happens(<<"getvar", Ins.p>>, LAMBDA o : Append(stack, ResultOf(Now, o)))
    \/ Run({"get_var_undef"}) /\ Happens(<<"typeofvar", Ins.p>>, LAMBDA o : Append(stack, ResultOf(Now, o)))
    \/ Run({"get_ref_value"}) /\ Happens(<<"getvar", At(0)[2]>>, LAMBDA o : Append(stack, ResultOf(Now, o)))
    \/ Run({"put_var"}) /\ Happens(<<"setvar", Ins.p, At(0)>>, LAMBDA o : Pop(1))
    \/ Run({"put_ref_value"}) /\ Happens(<<"setvar", At(1)[2], At(0)>>, LAMBDA o : Pop(3))
    \/ Run({"delete_var"}) /\ Happens(<<"deletevar", Ins.p>>, LAMBDA o : Append(stack, Bool(TRUE)))

\* A key that is an object is converted, in a step of its own; then the opcode
\* finds it converted.
KeyAt == [get_array_el |-> 0, get_array_el2 |-> 0, get_super_value |-> 0, to_propkey |-> 0, to_propkey2 |-> 0,
          put_array_el |-> 1, put_super_value |-> 1, delete |-> 0, define_array_el |-> 1]
\* "must be tested first": to_propkey2 looks at the object before the key.
NoObject == ~raised /\ Ins.op = "to_propkey2" /\ At(1) = Undef
NeedsKey == ~raised /\ Ins.op \in DOMAIN KeyAt /\ ~IsPrimitive(At(KeyAt[Ins.op])) /\ ~NoObject
DoKey ==
    /\ Run(DOMAIN KeyAt) /\ NeedsKey
    /\ \E o \in {"object", "throw"} :
         /\ log' = Append(log, <<<<"key", At(KeyAt[Ins.op])>>, o>>)
         /\ IF o = "throw" THEN Raise /\ UNCHANGED stack
            ELSE stack' = [stack EXCEPT ![Len(stack) - KeyAt[Ins.op]] = <<"key", Now>>] /\ Go(pc)

\* JS_GetProperty and JS_SetProperty: undefined has no properties.
Access(o, ev, result(_)) ==
    IF o = Undef THEN Raise /\ UNCHANGED stack /\ Quiet ELSE Happens(ev, result)

DoProperty ==
    /\ ~NeedsKey
    /\ \/ /\ Run({"get_field"})
          /\ Access(At(0), <<"get", At(0), <<"name", Ins.p>>, At(0)>>, LAMBDA o : Append(Pop(1), ResultOf(Now, o)))
       \/ /\ Run({"get_field2"})
          /\ Access(At(0), <<"get", At(0), <<"name", Ins.p>>, At(0)>>, LAMBDA o : Append(stack, ResultOf(Now, o)))
       \/ /\ Run({"put_field"})
          /\ Access(At(1), <<"set", At(1), <<"name", Ins.p>>, At(0), At(1)>>, LAMBDA o : Pop(2))
       \/ /\ Run({"get_array_el"})
          /\ Access(At(1), <<"get", At(1), At(0), At(1)>>, LAMBDA o : Append(Pop(2), ResultOf(Now, o)))
       \/ /\ Run({"get_array_el2"})
          /\ Access(At(1), <<"get", At(1), At(0), At(1)>>, LAMBDA o : Append(Pop(1), ResultOf(Now, o)))
       \/ /\ Run({"put_array_el"})
          /\ Access(At(2), <<"set", At(2), At(1), At(0), At(2)>>, LAMBDA o : Pop(3))
       \/ /\ Run({"get_super_value"})
          /\ Happens(<<"get", At(1), At(0), At(2)>>, LAMBDA o : Append(Pop(3), ResultOf(Now, o)))
       \/ /\ Run({"put_super_value"})
          /\ Happens(<<"set", At(2), At(1), At(0), At(3)>>, LAMBDA o : Pop(4))
       \/ /\ Run({"delete"})
          /\ Access(At(1), <<"delete", At(1), At(0)>>, LAMBDA o : Append(Pop(2), Bool(TRUE)))
       \/ /\ Run({"to_propkey", "to_propkey2", "to_object", "throw_delete_super"})
          /\ Quiet /\ UNCHANGED stack
          /\ IF NoObject \/ Ins.op = "throw_delete_super" \/ (Ins.op = "to_object" /\ At(0) = Undef)
             THEN Raise ELSE Go(pc + 1)

\* Arithmetic: operands that are objects are converted.
DoArith ==
    \/ Run({"neg"}) /\ Happens(<<"num", At(0)>>, LAMBDA o : Append(Pop(1), <<"neg", Now>>))
    \/ Run({"inc"}) /\ At(0)[1] # "int" /\ Happens(<<"num", At(0)>>, LAMBDA o : Append(Pop(1), <<"inc", Now>>))
    \/ Run({"inc"}) /\ At(0)[1] = "int" /\ stack' = Append(Pop(1), <<"int", At(0)[2] + 1>>) /\ Go(pc + 1) /\ Quiet
    \/ Run({"post_inc"}) /\ Happens(<<"num", At(0)>>, LAMBDA o : Pop(1) \o <<<<"num", Now>>, <<"inc", Now>>>>)
    \/ Run({"add"}) /\ Happens(<<"add", At(1), At(0)>>, LAMBDA o : Append(Pop(2), <<"sum", Now>>))

Argv(n) == SubSeq(stack, Len(stack) - n + 1, Len(stack))
\* JS_CallInternal: only functions can be called.
Calls(f, ev, n) ==
    IF f = Undef THEN Raise /\ UNCHANGED stack /\ Quiet
    ELSE Happens(ev, LAMBDA o : Append(Pop(n), ResultOf(Now, o)))

\* String.prototype.concat converts its arguments from left to right.
DoConcat ==
    /\ Run({"call_method"}) /\ At(Ins.n) = <<"concat">>
    /\ LET todo == SelectInSeq(Argv(Ins.n), LAMBDA v : ~IsPrimitive(v))
       IN IF todo = 0 THEN stack' = Append(Pop(Ins.n + 2), <<"string", Argv(Ins.n)>>) /\ Go(pc + 1) /\ Quiet
          ELSE \E o \in {"object", "throw"} :
                 /\ log' = Append(log, <<<<"str", Argv(Ins.n)[todo]>>, o>>)
                 /\ IF o = "throw" THEN Raise /\ UNCHANGED stack
                    ELSE stack' = [stack EXCEPT ![Len(stack) - Ins.n + todo] = <<"str", Now>>] /\ Go(pc)

DoCall ==
    \/ /\ Run({"call"})
       /\ Calls(At(Ins.n), <<"call", At(Ins.n), Undef, Argv(Ins.n)>>, Ins.n + 1)
    \/ /\ Run({"call_method"}) /\ At(Ins.n) # <<"concat">>
       /\ Calls(At(Ins.n), <<"call", At(Ins.n), At(Ins.n + 1), Argv(Ins.n)>>, Ins.n + 2)
    \/ /\ Run({"call_constructor"})
       /\ Calls(At(Ins.n + 1), <<"new", At(Ins.n + 1), Argv(Ins.n)>>, Ins.n + 2)
    \/ /\ Run({"apply"})
       /\ Calls(At(2), IF Ins.n = 1 THEN <<"new", At(2), At(0)[2]>> ELSE <<"call", At(2), At(1), At(0)[2]>>, 3)

\* Fresh arrays and objects.  append gives one value or none.
DoBuild ==
    \/ /\ Run({"array_from"})
       /\ stack' = Append(Pop(Ins.n), <<"arr", Argv(Ins.n)>>) /\ Go(pc + 1) /\ Quiet
    \/ /\ Run({"define_array_el"}) /\ ~NeedsKey
       /\ stack' = Pop(3) \o <<IF At(2)[1] = "arr" THEN <<"arr", Append(At(2)[2], At(0))>>
                                ELSE <<"lit", Append(At(2)[2], <<At(1), At(0)>>)>>, At(1)>>
       /\ Go(pc + 1) /\ Quiet
    \/ /\ Run({"define_field"})
       /\ stack' = Append(Pop(2), <<"lit", Append(At(1)[2], <<<<"name", Ins.p>>, At(0)>>)>>) /\ Go(pc + 1) /\ Quiet
    \/ /\ Run({"append"})
       /\ Happens(<<"append", At(0)>>,
                  LAMBDA o : IF o = "undefined" THEN Pop(1)
                             ELSE Pop(3) \o <<<<"arr", Append(At(2)[2], Obj(Now))>>, <<"int", At(1)[2] + 1>>>>)

\* Keys in the list of excluded keys.
Keys(excl) == IF excl = Undef THEN <<>> ELSE [j \in DOMAIN excl[2] |-> excl[2][j][1]]

DoCopy ==
    /\ Run({"copy_data_properties"})
    /\ LET at == Len(stack) - Ins.target
           source == At(Ins.source)
           copied == [stack EXCEPT ![at] = <<"lit", Append(@[2], <<<<"copy", source>>, Undef>>)>>]
       IN IF source = Undef THEN UNCHANGED stack /\ Go(pc + 1) /\ Quiet
          ELSE Happens(<<"copy", source, Keys(At(Ins.excl))>>, LAMBDA o : copied)

\* Iterators of array patterns, as in for-of loops.
DoIterator ==
    \/ /\ Run({"for_of_start"})
       /\ Access(At(0), <<"iter", At(0)>>, LAMBDA o : Pop(1) \o <<<<"iter", Now>>, Undef, <<"catch">>>>)
    \/ /\ Run({"for_of_next"})
       /\ LET at == Len(stack) - 2 - Ins.n
              gone == [stack EXCEPT ![at] = Undef]
              next(o) == IF o = "done" THEN gone \o <<Undef, Bool(TRUE)>>
                         ELSE stack \o <<ResultOf(Now, o), Bool(FALSE)>>
          IN IF stack[at] = Undef THEN stack' = stack \o <<Undef, Bool(TRUE)>> /\ Go(pc + 1) /\ Quiet
             ELSE \E o \in OutcomesOf(<<"next">>) :
                    /\ log' = Append(log, <<<<"next", stack[at]>>, o>>)
                    /\ IF o = "throw" THEN Raise /\ stack' = gone
                       ELSE stack' = next(o) /\ Go(pc + 1)
    \/ /\ Run({"iterator_close"})
       /\ IF At(2) = Undef THEN stack' = Pop(3) /\ Go(pc + 1) /\ Quiet
          ELSE \E o \in {"object", "throw"} :
                 /\ log' = Append(log, <<<<"close", At(2)>>, o>>)
                 /\ IF o = "throw" THEN Raise /\ stack' = Pop(2)
                    ELSE stack' = Pop(3) /\ Go(pc + 1)

\* Mutant: iterators are left open.
UnwindLeaves ==
    /\ end = <<>> /\ raised
    /\ IF stack = <<>> THEN end' = <<"throw">> /\ UNCHANGED stack ELSE stack' = Pop(1) /\ UNCHANGED end
    /\ Quiet /\ UNCHANGED <<prog, pc, raised>>

\* The exception label: iterators are closed on the way.
Unwind ==
    /\ end = <<>> /\ raised
    /\ IF stack = <<>> THEN end' = <<"throw">> /\ UNCHANGED stack /\ Quiet
       ELSE /\ stack' = Pop(1) /\ UNCHANGED end
            /\ IF At(0) = <<"catch">> /\ At(2) # Undef
               THEN \E o \in {"object", "throw"} : log' = Append(log, <<<<"close", At(2)>>, o>>)
               ELSE Quiet
    /\ UNCHANGED <<prog, pc, raised>>

DoReturn ==
    /\ Run({"return"}) /\ end' = <<"return", At(0)>>
    /\ UNCHANGED <<prog, pc, stack, raised, log>>

Next ==
    \/ DoStack \/ DoJump \/ DoVar \/ DoKey \/ DoProperty \/ DoArith \/ DoConcat \/ DoCall
    \/ DoBuild \/ DoCopy \/ DoIterator \/ Unwind \/ DoReturn
    \/ end # <<>> /\ UNCHANGED vars

Spec == Init /\ [][Next]_vars

(***************************************************************************)
(* The language.  r: how an evaluation went (ok, throw, or short: the rest *)
(* of an optional chain is skipped), its value, the object it was found    *)
(* in, and the events so far.                                              *)
(***************************************************************************)
Ok(v, ev) == [t |-> "ok", v |-> v, this |-> Undef, ev |-> ev]
Thrown(ev) == [Ok(Undef, ev) EXCEPT !.t = "throw"]
Then(r, F(_)) == IF r.t = "ok" THEN F(r) ELSE r
With(r, v) == [r EXCEPT !.v = v]

\* How the event after ev went, as the step to the end has logged it.
Outcome(ev) == IF Len(ev) < Len(log') THEN log'[Len(ev) + 1][2] ELSE "throw"
Do(event, ev) ==
    LET all == Append(ev, <<event, Outcome(ev)>>)
    IN IF Outcome(ev) = "throw" THEN Thrown(all) ELSE Ok(ResultOf(Len(all), Outcome(ev)), all)
\* The n-th event as a value with this tag.
Tagged(tag, event, ev) == Then(Do(event, ev), LAMBDA r : With(r, <<tag, Len(r.ev)>>))

ToPropertyKey(v, ev) == IF IsPrimitive(v) THEN Ok(v, ev) ELSE Tagged("key", <<"key", v>>, ev)
\* A reference <<"prop", base, key, receiver>> or <<"name", x>>.
PropertyRef(base, key, receiver, ev) ==
    IF base = Undef THEN Thrown(ev)
    ELSE Then(ToPropertyKey(key, ev), LAMBDA r : With(r, <<"prop", base, r.v, receiver>>))
\* The reference of base[key] in e.
IndexRef(e, base, key, ev) ==
    IF e.k = "index" THEN PropertyRef(base, key, base, ev)
    ELSE Then(ToPropertyKey(key, ev), LAMBDA r : PropertyRef(base, r.v, base, r.ev))
GetValue(ref, ev) ==
    IF ref[1] = "name" THEN Do(<<"getvar", ref[2]>>, ev)
    ELSE Then(Do(<<"get", ref[2], ref[3], ref[4]>>, ev), LAMBDA r : [r EXCEPT !.this = ref[4]])
PutValue(ref, v, ev) ==
    IF ref[1] = "prop" /\ ref[2] = Undef THEN Thrown(ev)
    ELSE Then(Do(IF ref[1] = "name" THEN <<"setvar", ref[2], v>> ELSE <<"set", ref[2], ref[3], v, ref[4]>>, ev),
              LAMBDA r : With(r, v))

RECURSIVE Eval(_, _), Link(_, _), RefOf(_, _), ArgsOf(_, _), Bind(_, _, _, _), BindProperty(_, _, _, _),
          BindElement(_, _, _, _), TakeRest(_, _, _)

RefOf(e, ev) ==
    CASE e.k = "var" -> Ok(<<"name", e.x>>, ev)
      [] e.k = "paren" -> RefOf(e.e, ev)
      [] e.k = "dot" ->
         IF e.e.k = "super" THEN PropertyRef(<<"super">>, <<"name", e.p>>, ThisValue, ev)
         ELSE Then(Eval(e.e, ev), LAMBDA r : PropertyRef(r.v, <<"name", e.p>>, r.v, r.ev))
      [] e.k = "latedot" -> Then(Eval(e.e, ev), LAMBDA r : With(r, <<"prop", r.v, <<"name", e.p>>, r.v>>))
      [] e.k = "index" ->
         IF e.e.k = "super" THEN Then(Eval(e.i, ev), LAMBDA r : PropertyRef(<<"super">>, r.v, ThisValue, r.ev))
         ELSE Then(Eval(e.e, ev), LAMBDA o : Then(Eval(e.i, o.ev), LAMBDA i : PropertyRef(o.v, i.v, o.v, i.ev)))

\* Arguments, or the elements of an array literal, as a sequence.
ArgsOf(args, ev) ==
    FoldLeft(LAMBDA all, e :
               Then(all, LAMBDA a :
                 IF e.k # "spread" THEN Then(Eval(e, a.ev), LAMBDA r : Ok(Append(a.v, r.v), r.ev))
                 ELSE Then(Eval(e.e, a.ev), LAMBDA r :
                        Then(Do(<<"append", r.v>>, r.ev), LAMBDA x :
                          Ok(IF x.v = Undef THEN a.v ELSE Append(a.v, x.v), x.ev)))),
             Ok(<<>>, ev), args)

CallWith(f, this, args, ev) ==
    Then(ArgsOf(args, ev), LAMBDA a :
           IF f = Undef THEN Thrown(a.ev) ELSE Do(<<"call", f, this, a.v>>, a.ev))

\* A link of a chain: with ?. the chain ends at undefined.
Link(e, ev) ==
    LET skips(r) == e.opt /\ r.v = Undef
        short(r) == [r EXCEPT !.t = "short"]
    IN CASE e.k \in {"dot", "index"} /\ e.e.k = "super" -> Then(RefOf(e, ev), LAMBDA r : GetValue(r.v, r.ev))
         [] e.k = "dot" /\ e.e.k # "super" ->
            Then(Link(e.e, ev), LAMBDA o :
              IF skips(o) THEN short(o)
              ELSE Then(PropertyRef(o.v, <<"name", e.p>>, o.v, o.ev), LAMBDA r : GetValue(r.v, r.ev)))
         [] e.k \in {"index", "lateindex"} /\ e.e.k # "super" ->
            Then(Link(e.e, ev), LAMBDA o :
              IF skips(o) THEN short(o)
              ELSE Then(Eval(e.i, o.ev), LAMBDA i :
                     Then(IndexRef(e, o.v, i.v, i.ev), LAMBDA r : GetValue(r.v, r.ev))))
         [] e.k = "call" ->
            Then(Link(e.e, ev), LAMBDA f : IF skips(f) THEN short(f) ELSE CallWith(f.v, f.this, e.args, f.ev))
         [] e.k = "paren" -> LET r == Link(e.e, ev) IN IF r.t = "short" THEN Ok(Undef, r.ev) ELSE r
         [] OTHER -> Eval(e, ev)

\* The value, or the default when it is undefined.
OrDefault(init, r) == IF init = <<>> \/ r.t # "ok" \/ r.v # Undef THEN r ELSE Eval(init[1], r.ev)

\* The reference of a target (none for a pattern), before its value is known.
TargetRef(t, tok, ev) ==
    IF IsPattern(t) THEN Ok(Undef, ev) ELSE IF tok = "" THEN RefOf(t, ev) ELSE Ok(<<"name", t.x>>, ev)
Store(t, ref, v, tok, ev) == IF IsPattern(t) THEN Bind(t, v, tok, ev) ELSE PutValue(ref, v, ev)

\* The value of r is the list of keys seen so far.
BindProperty(pr, v, tok, seen) ==
    LET t == IF pr.k = "short" THEN Var(pr.x) ELSE pr.t
        key == CASE pr.k = "short" -> Ok(<<"name", pr.x>>, seen.ev)
                 [] pr.k = "named" -> Ok(<<"name", pr.p>>, seen.ev)
                 [] pr.k = "computed" -> Then(Eval(pr.e, seen.ev), LAMBDA r : ToPropertyKey(r.v, r.ev))
    IN Then(key, LAMBDA k :
         Then(TargetRef(t, tok, k.ev), LAMBDA ref :
           Then(OrDefault(pr.init, GetValue(<<"prop", v, k.v, v>>, ref.ev)), LAMBDA x :
             Then(Store(t, ref.v, x.v, tok, x.ev), LAMBDA r : With(r, Append(seen.v, k.v))))))

\* The other values of iterator it, as <<"arr", values>>.
TakeRest(it, values, ev) ==
    LET r == Do(<<"next", it>>, ev)
    IN IF r.t # "ok" THEN r
       ELSE IF Outcome(ev) = "done" THEN Ok(<<"arr", values>>, r.ev)
       ELSE TakeRest(it, Append(values, r.v), r.ev)

\* s: the evaluation so far, and whether the iterator is done.
BindElement(el, it, tok, s) ==
    LET ref == IF el.k = "hole" THEN Ok(Undef, s.r.ev) ELSE TargetRef(el.t, tok, s.r.ev)
        step == IF s.done THEN Ok(IF el.k = "rest" THEN <<"arr", <<>>>> ELSE Undef, ref.ev)
                ELSE IF el.k = "rest" THEN TakeRest(it, <<>>, ref.ev) ELSE Do(<<"next", it>>, ref.ev)
        done == s.done \/ el.k = "rest" \/ step.t = "throw" \/ Outcome(ref.ev) = "done"
    IN IF s.r.t # "ok" THEN s
       ELSE IF ref.t # "ok" THEN [s EXCEPT !.r = ref]
       ELSE IF el.k = "hole" THEN [r |-> step, done |-> done]
       ELSE [r |-> Then(OrDefault(el.init, step), LAMBDA x : Store(el.t, ref.v, x.v, tok, x.ev)), done |-> done]

Bind(pat, v, tok, ev) ==
    IF v = Undef THEN Thrown(ev)
    ELSE IF pat.k = "objpat"
    THEN LET props == FoldLeft(LAMBDA r, pr : Then(r, LAMBDA seen : BindProperty(pr, v, tok, seen)),
                               Ok(<<>>, ev), pat.props)
         IN IF pat.rest = <<>> THEN props
            ELSE Then(props, LAMBDA seen :
                   Then(TargetRef(pat.rest[1], tok, seen.ev), LAMBDA ref :
                     Then(Do(<<"copy", v, seen.v>>, ref.ev), LAMBDA c :
                       PutValue(ref.v, <<"lit", <<<<<<"copy", v>>, Undef>>>>>>, c.ev))))
    ELSE Then(Tagged("iter", <<"iter", v>>, ev), LAMBDA it :
           LET s == FoldLeft(LAMBDA x, el : BindElement(el, it.v, tok, x), [r |-> it, done |-> FALSE], pat.els)
               close == Do(<<"close", it.v>>, s.r.ev)
           IN IF s.done THEN s.r
              ELSE IF s.r.t = "ok" THEN close ELSE Thrown(close.ev))

FieldsOf(ps, ev) ==
    FoldLeft(LAMBDA all, p :
               Then(all, LAMBDA a :
                 CASE p.k = "spread" ->
                      Then(Eval(p.e, a.ev), LAMBDA r :
                        IF r.v = Undef THEN With(r, a.v)
                        ELSE Then(Do(<<"copy", r.v, <<>>>>, r.ev), LAMBDA c :
                               With(c, Append(a.v, <<<<"copy", r.v>>, Undef>>))))
                   [] p.k = "short" ->
                      Then(Eval(Var(p.x), a.ev), LAMBDA r : With(r, Append(a.v, <<<<"name", p.x>>, r.v>>)))
                   [] p.k = "named" ->
                      Then(Eval(p.t, a.ev), LAMBDA r : With(r, Append(a.v, <<<<"name", p.p>>, r.v>>)))
                   [] p.k = "computed" ->
                      Then(Eval(p.e, a.ev), LAMBDA k0 :
                        Then(ToPropertyKey(k0.v, k0.ev), LAMBDA k :
                          Then(Eval(p.t, k.ev), LAMBDA r : With(r, Append(a.v, <<k.v, r.v>>)))))
                   [] p.k = "latekey" ->
                      Then(Eval(p.e, a.ev), LAMBDA k :
                        Then(Eval(p.t, k.ev), LAMBDA r :
                          Then(ToPropertyKey(k.v, r.ev), LAMBDA x : With(x, Append(a.v, <<x.v, r.v>>)))))),
             Ok(<<>>, ev), ps)

ToStr(v, ev) == IF IsPrimitive(v) THEN Ok(v, ev) ELSE Tagged("str", <<"str", v>>, ev)
\* Every substitution is converted when it has been evaluated.
TemplateOf(es, ev) ==
    FoldLeft(LAMBDA all, e :
               Then(all, LAMBDA a :
                 Then(Eval(e, a.ev), LAMBDA r : Then(ToStr(r.v, r.ev), LAMBDA x : With(x, Append(a.v, x.v))))),
             Ok(<<>>, ev), es)
\* The arguments of concat are all evaluated, then all converted.
ConcatOf(es, ev) ==
    Then(ArgsOf(es, ev), LAMBDA args :
      FoldLeft(LAMBDA all, v : Then(all, LAMBDA a : Then(ToStr(v, a.ev), LAMBDA x : With(x, Append(a.v, x.v)))),
               Ok(<<>>, args.ev), args.v))

RECURSIVE DeleteOf(_, _)
DeleteOf(e, ev) ==
    CASE e.k = "paren" -> DeleteOf(e.e, ev)
      [] e.k = "var" -> Then(Do(<<"deletevar", e.x>>, ev), LAMBDA r : With(r, Bool(TRUE)))
      [] e.k \in {"dot", "index", "lateindex"} ->
         LET o == IF e.e.k = "super" THEN Ok(<<"super">>, ev) ELSE Link(e.e, ev)
             ref == IF e.k = "dot" THEN PropertyRef(o.v, <<"name", e.p>>, o.v, o.ev)
                    ELSE Then(Eval(e.i, o.ev), LAMBDA i : IndexRef(e, o.v, i.v, i.ev))
         IN IF o.t = "throw" THEN o
            ELSE IF o.t = "short" \/ (e.opt /\ o.v = Undef) THEN Ok(Bool(TRUE), o.ev)
            ELSE Then(ref, LAMBDA r : IF e.e.k = "super" THEN Thrown(r.ev)
                                      ELSE Then(Do(<<"delete", r.v[2], r.v[3]>>, r.ev), LAMBDA x : With(x, Bool(TRUE))))
      [] OTHER -> Then(Eval(e, ev), LAMBDA r : With(r, Bool(TRUE)))

\* A read, a change and a write of the same reference.
Update(t, ev, new(_)) ==
    Then(RefOf(t, ev), LAMBDA ref : Then(GetValue(ref.v, ref.ev), LAMBDA old :
      Then(new(old), LAMBDA x : PutValue(ref.v, x.v, x.ev))))

Eval(e, ev) ==
    CASE e.k = "var" -> Do(<<"getvar", e.x>>, ev)
      [] e.k = "this" -> Ok(ThisValue, ev)
      [] e.k = "const" -> Ok(<<"name", "c">>, ev)
      [] e.k \in {"dot", "index", "lateindex", "call", "paren"} ->
         LET r == Link(e, ev) IN IF r.t = "short" THEN Ok(Undef, r.ev) ELSE [r EXCEPT !.this = Undef]
      [] e.k = "new" ->
         Then(Eval(e.e, ev), LAMBDA f : Then(ArgsOf(e.args, f.ev), LAMBDA a :
           IF f.v = Undef THEN Thrown(a.ev) ELSE Do(<<"new", f.v, a.v>>, a.ev)))
      [] e.k = "comma" -> Then(Eval(e.a, ev), LAMBDA r : Eval(e.b, r.ev))
      [] e.k = "assign" ->
         Then(RefOf(e.t, ev), LAMBDA ref : Then(Eval(e.e, ref.ev), LAMBDA r : PutValue(ref.v, r.v, r.ev)))
      [] e.k = "opassign" ->
         Update(e.t, ev, LAMBDA old : Then(Eval(e.e, old.ev), LAMBDA r : Tagged("sum", <<"add", old.v, r.v>>, r.ev)))
      [] e.k = "pre" -> Update(e.t, ev, LAMBDA old : Tagged("inc", <<"num", old.v>>, old.ev))
      [] e.k = "post" ->
         Then(Update(e.t, ev, LAMBDA old : Tagged("inc", <<"num", old.v>>, old.ev)),
              LAMBDA r : With(r, <<"num", r.v[2]>>))
      [] e.k = "delete" -> DeleteOf(e.e, ev)
      [] e.k = "kept" -> Then(Eval(e.e, ev), LAMBDA r : With(r, Bool(TRUE)))
      [] e.k = "refused" -> Then(Eval(e.e, ev), LAMBDA r : Thrown(r.ev))
      [] e.k = "unary" ->
         Then(IF e.op = "typeof" /\ e.e.k = "var" THEN Do(<<"typeofvar", e.e.x>>, ev) ELSE Eval(e.e, ev),
              LAMBDA r : CASE e.op = "neg" -> Tagged("neg", <<"num", r.v>>, r.ev)
                           [] e.op = "lnot" -> With(r, Bool(~Truthy(r.v)))
                           [] e.op = "typeof" -> With(r, <<"type", r.v>>)
                           [] e.op = "void" -> With(r, Undef))
      [] e.k = "binary" ->
         Then(Eval(e.a, ev), LAMBDA a : Then(Eval(e.b, a.ev), LAMBDA b : Tagged("sum", <<"add", a.v, b.v>>, b.ev)))
      [] e.k = "logical" ->
         Then(Eval(e.a, ev), LAMBDA a :
           IF (CASE e.op = "and" -> Truthy(a.v) [] e.op = "or" -> ~Truthy(a.v) [] OTHER -> a.v = Undef)
           THEN Eval(e.b, a.ev) ELSE a)
      [] e.k = "cond" -> Then(Eval(e.a, ev), LAMBDA a : Eval(IF Truthy(a.v) THEN e.b ELSE e.c, a.ev))
      [] e.k = "template" -> Then(TemplateOf(e.es, ev), LAMBDA r : With(r, <<"string", r.v>>))
      [] e.k = "concat" -> Then(ConcatOf(e.es, ev), LAMBDA r : With(r, <<"string", r.v>>))
      [] e.k = "array" -> Then(ArgsOf(e.es, ev), LAMBDA r : With(r, <<"arr", r.v>>))
      [] e.k = "object" -> Then(FieldsOf(e.ps, ev), LAMBDA r : With(r, <<"lit", r.v>>))
      [] e.k = "destruct" ->
         Then(Eval(e.e, ev), LAMBDA r :
           Then(Bind(e.pat, r.v, e.tok, r.ev), LAMBDA x : With(x, IF e.tok = "" THEN r.v ELSE Undef)))

(***************************************************************************)
(* Where the code departs from the language: the expression e as compiled. *)
(***************************************************************************)
\* The parts of a template are arguments of concat: converted after the last
\* is evaluated.
LateStrings(e) == [e EXCEPT !.k = "concat"]
\* A computed key of a literal is converted after the value behind it.
LateKey(p) == IF p.k = "computed" THEN [p EXCEPT !.k = "latekey"] ELSE p
\* x.p = e: that x is undefined is seen after e is evaluated.
RECURSIVE LateBase(_)
LateBase(t) ==
    CASE t.k = "paren" -> [t EXCEPT !.e = LateBase(@)]
      [] t.k = "dot" /\ t.e.k # "super" -> [t EXCEPT !.k = "latedot"]
      [] OTHER -> t
LateBases(ts) == [i \in DOMAIN ts |-> IF "t" \in DOMAIN ts[i] THEN [ts[i] EXCEPT !.t = LateBase(@)] ELSE ts[i]]
LateTargets(pat) ==
    IF pat.k = "objpat" THEN [pat EXCEPT !.props = LateBases(@), !.rest = [i \in DOMAIN @ |-> LateBase(@[i])]]
    ELSE [pat EXCEPT !.els = LateBases(@)]
\* x[y] read or deleted: y is converted before x is found to be undefined.
RECURSIVE KeyFirst(_)
KeyFirst(e) ==
    CASE e.k \in {"dot", "call", "paren"} -> [e EXCEPT !.e = KeyFirst(@)]
      [] e.k = "index" /\ e.e.k # "super" -> [e EXCEPT !.k = "lateindex", !.e = KeyFirst(@)]
      [] OTHER -> e
\* delete of an optional chain reads its value, deletes nothing and gives true;
\* delete of super.p reads the property before the ReferenceError.
RECURSIVE HasOptional(_), Bare(_)
HasOptional(e) == e.k \in {"dot", "index", "call"} /\ (e.opt \/ HasOptional(e.e))
Bare(e) == IF e.k = "paren" THEN Bare(e.e) ELSE e
DeleteMissed(e) ==
    CASE HasOptional(Bare(e)) -> [k |-> "kept", e |-> KeyFirst(e)]
      [] Bare(e).k \in {"dot", "index"} /\ Bare(e).e.k = "super" -> [k |-> "refused", e |-> e]
      [] OTHER -> Delete(KeyFirst(e))

AsCompiled(e) ==
    CASE e.k = "template" -> LateStrings(e)
      [] e.k = "object" -> [e EXCEPT !.ps = [i \in DOMAIN @ |-> LateKey(@[i])]]
      [] e.k = "assign" -> [e EXCEPT !.t = LateBase(@)]
      [] e.k = "destruct" -> [e EXCEPT !.pat = LateTargets(@)]
      [] e.k = "delete" -> DeleteMissed(e.e)
      [] OTHER -> KeyFirst(e)

\* An expression does what the language says of AsCompiled, that is of itself but
\* for the six departures above, in its order, and nothing else: the same variables
\* and properties are read and written, the same conversions and calls made with the
\* same operands, iterators closed, and it has the same value or exception.
EvaluatesAsLanguage ==
    [][end' # <<>> =>
          LET r == Eval(AsCompiled(prog.e), <<>>)
          IN r.ev = log' /\ end' = IF r.t = "throw" THEN <<"throw">> ELSE <<"return", r.v>>]_vars

\* When an expression ends, its value is all that it has left on the stack.
StackIsBalanced == end # <<>> => Len(stack) = IF end = <<"throw">> THEN 0 ELSE 1
=============================================================================
