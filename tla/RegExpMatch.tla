----------------------------- MODULE RegExpMatch -----------------------------
(***************************************************************************)
(* Regular expressions: libregexp compiles a pattern to byte code          *)
(* (re_parse_disjunction down to re_parse_term) and runs it on a machine   *)
(* that backtracks (lre_exec_backtrack).  A pattern is given here as its   *)
(* syntax tree; the machine does one opcode a step, and what it finds is   *)
(* compared with the matchers of the language.                             *)
(*                                                                         *)
(* Offsets count instructions, not bytes.  A character class is the set of *)
(* its characters: the binary search over its ranges is left out, and so   *)
(* is the growth of the machine's stack, which ends a match that never     *)
(* finishes and pushes states with an error when memory runs out.          *)
(***************************************************************************)
EXTENDS Integers, Sequences, FiniteSets, SequencesExt, FiniteSetsExt

CONSTANT MaxSteps   \* the steps that a match is followed for

Inf == 99           \* INT32_MAX as a quantifier's maximum
NoPos == -1          \* a NULL capture

(***************************************************************************)
(* Syntax.  A disjunction is a sequence of alternatives, an alternative a  *)
(* sequence of terms.                                                      *)
(***************************************************************************)
Chr(c) == [k |-> "char", c |-> c]
AnyChar == [k |-> "dot"]
CharClass(S, inv) == [k |-> "class", set |-> S, inv |-> inv]
Place(op) == [k |-> "assert", op |-> op]
Group(d) == [k |-> "group", d |-> d]
Cap(n, d) == [k |-> "cap", n |-> n, d |-> d]
LookAround(neg, behind, d) == [k |-> "look", neg |-> neg, behind |-> behind, d |-> d]
BackRef(n) == [k |-> "ref", n |-> n]
Quant(t, min, max, greedy) == [k |-> "quant", t |-> t, min |-> min, max |-> max, greedy |-> greedy]

AllChars == {"a", "A", "b", "nl", "hi", "lo", "pair"}
Canon(c, fl) == IF "i" \in fl /\ c = "a" THEN "A" ELSE c
IsWord(c) == c \in {"a", "A", "b"}

(***************************************************************************)
(* The patterns, subjects and flags that are tried.                        *)
(***************************************************************************)
PlainOps == {"line_start", "line_end", "word_boundary", "not_word_boundary"}
A == Chr("a")
B == Chr("b")
NotA == CharClass({"a"}, TRUE)
Only(t) == <<<<t>>>>
Or(t, u) == <<<<t>>, <<u>>>>

Bounds == {<<0, Inf>>, <<1, Inf>>, <<2, Inf>>, <<0, 1>>, <<0, 2>>, <<1, 2>>, <<2, 2>>, <<1, 3>>, <<0, 0>>}
Times(t) == {Quant(t, b[1], b[2], g) : b \in Bounds, g \in BOOLEAN}
Few(t) == {Quant(t, b[1], b[2], g) : b \in {<<0, Inf>>, <<1, 2>>}, g \in BOOLEAN}

\* Quantified characters and groups, and greedy loops that may be empty.
QuantPatterns ==
    {Only(Cap(1, <<<<q, AnyChar>>>>)) : q \in Times(A) \cup Times(NotA)}
    \cup {<<<<q, r>>>> : q \in Times(A), r \in Few(AnyChar)}
    \cup {<<<<q, B>>>> : q \in Times(Group(<<<<A>>, <<B, A>>>>))}
    \cup {<<<<q, BackRef(1)>>>> : q \in Times(Cap(1, Or(A, B)))}
    \cup {Only(q) : q \in UNION {Few(Group(<<<<r, B>>>>)) : r \in Few(A) \cup Few(Group(Or(A, B)))}}
    \cup {<<<<Quant(Group(<<<<r>>>>), b[1], b[2], TRUE), B>>>> :
             r \in Few(A) \cup {Group(<<<<>>, <<A>>>>)}, b \in {<<0, Inf>>, <<1, Inf>>}}

\* Loops whose rounds may be empty, or may leave out a group that an earlier
\* round has set, or read it.
LoopAtoms ==
    {Cap(1, <<<<q>>>>) : q \in Few(A)}
    \cup {Cap(1, <<<<>>, <<A>>>>), Group(<<<<>>, <<A>>>>), Group(<<<<Quant(A, 0, Inf, TRUE)>>>>),
          Group(Or(Cap(1, Only(A)), B)), Group(Or(Cap(1, Only(A)), Cap(2, Only(B)))),
          Group(<<<<Cap(1, <<<<Quant(A, 0, 1, TRUE)>>>>), BackRef(1)>>>>),
          Group(<<<<BackRef(1), Cap(1, Or(A, B))>>>>),
          Cap(1, <<<<Quant(A, 0, 1, TRUE), BackRef(1), B>>>>)}
    \cup {Group(<<<<q, AnyChar>>>>) : q \in Few(Cap(1, Only(A)))}
LoopPatterns ==
    UNION {{<<<<q>>>>, <<<<q, B>>>>} :
             q \in {Quant(t, b[1], b[2], g) : t \in LoopAtoms, g \in BOOLEAN,
                       b \in {<<0, Inf>>, <<1, Inf>>, <<0, 1>>, <<0, 2>>, <<1, 2>>, <<2, 2>>}}}

\* Lookaheads, lookbehinds, references and assertions.
Places == {Place(op) : op \in PlainOps}
LookPatterns ==
    {<<<<l, t>>>> : t \in {A, AnyChar},
        l \in {LookAround(n, b, <<<<x, y>>>>) : n, b \in BOOLEAN, x \in {AnyChar, NotA} \cup Few(A), y \in {A, B}}}
    \cup {<<<<LookAround(n, b, Only(Cap(1, <<<<x, y>>>>))), AnyChar, BackRef(1)>>>> :
             n, b \in BOOLEAN, x \in Few(AnyChar), y \in {A, Group(Or(A, B))}}
    \cup {<<<<Cap(1, Or(A, AnyChar)), LookAround(FALSE, TRUE, <<<<BackRef(1), x>>>>), B>>>> : x \in {A, AnyChar}}
    \cup {<<<<x, p, y>>, <<B>>>> : p \in Places, x, y \in {A, CharClass({"nl"}, FALSE)} \cup Few(AnyChar)}

\* Code points: a pair of surrogates is one character with the flag "u".
UnicodePatterns ==
    {<<<<x, y>>>> : x \in {AnyChar, NotA} \cup Few(NotA), y \in {AnyChar, Chr("pair"), Chr("lo"), A}}
    \cup {<<<<LookAround(n, TRUE, Only(Cap(1, <<<<x>>>>))), y>>>> : n \in BOOLEAN, x \in {NotA} \cup Few(AnyChar), y \in {A, AnyChar}}
    \cup {<<<<Cap(1, Only(AnyChar)), LookAround(FALSE, TRUE, Only(BackRef(1))), BackRef(1)>>>>}

Texts(S, n) == UNION {[1 .. k -> S] : k \in 0 .. n}
AB == Texts({"a", "b"}, 3)
Lines == Texts({"a", "b"}, 3) \cup Texts({"a", "nl"}, 3) \cup Texts({"a", "A"}, 2)
Surrogates == Texts({"a", "hi", "lo"}, 3)

PlainFlags == {{}, {"y"}}
LineFlags == {{}, {"m", "s"}, {"i"}}
UnicodeFlags == {{}, {"u"}}

Matches ==
    QuantPatterns \X AB \X PlainFlags \cup LoopPatterns \X AB \X {{"y"}} \cup LookPatterns \X Lines \X LineFlags
        \cup UnicodePatterns \X Surrogates \X UnicodeFlags

(***************************************************************************)
(* The compiler.  A compiled piece has its code and the number of captures *)
(* seen so far.                                                            *)
(***************************************************************************)
Op(op) == [op |-> op]
Jump(op, off) == [op |-> op, off |-> off]
Counter(op, n) == [op |-> op, n |-> n]
SaveOp(op, n) == [op |-> op, n |-> n]

CharOps == {"char", "range", "dot", "any"}

\* Number of characters of an atom without control flow, or -1.
IsSimpleQuantifier(code) ==
    IF \E i \in DOMAIN code : code[i].op \notin CharOps \cup PlainOps THEN -1
    ELSE Cardinality({i \in DOMAIN code : code[i].op \in CharOps})

\* 1: always advances, 0: may stay, -1: depends on a capture made inside.
CheckAdvance(code) ==
    LET quiet == PlainOps \cup {"push_i32", "push_char_pos", "drop", "prev", "save_start",
                                "save_end", "save_reset", "back_reference", "backward_back_reference"}
        first == {i \in DOMAIN code : code[i].op \notin quiet}
        \* "while (val < last)": the last one of save_reset is not counted
        made == UNION {CASE code[i].op \in {"save_start", "save_end"} -> {code[i].n}
                         [] code[i].op = "save_reset" -> code[i].first .. (code[i].last - 1)
                         [] OTHER -> {} : i \in DOMAIN code}
        read == {code[i].n : i \in {j \in DOMAIN code :
                                       code[j].op \in {"back_reference", "backward_back_reference"}}}
    IN IF made \cap read # {} THEN -1
       ELSE IF first # {} /\ code[Min(first)].op \in CharOps THEN 1 ELSE 0

\* Mutant: the optional atom is tried last, as if the quantifier were lazy.
SplitSwapped(greedy, off) == Jump(IF greedy THEN "split_goto_first" ELSE "split_next_first", off)

\* REOP_split_goto_first + greedy: jumps out of the loop, or tries it, first.
Split(greedy, off) == Jump(IF greedy THEN "split_next_first" ELSE "split_goto_first", off)

\* The atom up to max - min times more.
Bounded(code, min, max, greedy) ==
    <<Counter("push_i32", max - min), Split(greedy, Len(code) + 1)>> \o code
        \o <<Jump("loop", -(Len(code) + 2)), Op("drop")>>

\* The atom any number of times; check: stop when a round did not advance.
Forever(code, greedy, check) ==
    LET n == Len(code) + (IF check THEN 1 ELSE 0)
    IN <<Split(greedy, n + 1)>> \o (IF check THEN <<Op("push_char_pos")>> ELSE <<>>) \o code
           \o <<Jump(IF check THEN "bne_char_pos" ELSE "goto", -(n + 2))>>

\* Code of a quantified atom: before, after: captures before and after it.
Quantified(code, min, max, greedy, before, after) ==
    LET n == Len(code)
        simple == IF greedy /\ max > 0 THEN IsSimpleQuantifier(code) ELSE -1
        check == greedy /\ CheckAdvance(code) = 0
        reset == IF before = after THEN <<>>
                 ELSE <<[op |-> "save_reset", first |-> before, last |-> after - 1]>>
        least == IF min = 1 THEN code
                 ELSE <<Counter("push_i32", min)>> \o code \o <<Jump("loop", -(n + 1)), Op("drop")>>
    IN CASE simple > 0 ->
            <<[op |-> "simple_greedy_quant", off |-> n + 1, min |-> min, max |-> max,
               count |-> simple]>> \o code \o <<Op("match")>>
         [] simple <= 0 /\ min = 0 ->
            reset \o (CASE max = 0 -> <<>>
                        [] max = 1 -> <<Split(greedy, n)>> \o code
                        [] max = Inf -> Forever(code, greedy, check)
                        [] OTHER -> Bounded(code, 0, max, greedy))
         [] simple <= 0 /\ min = 1 /\ max = Inf /\ ~check ->
            code \o <<Split(~greedy, -(n + 1))>>
         [] OTHER ->
            least \o (IF max = Inf THEN Forever(code, greedy, check)
                      ELSE IF max > min THEN Bounded(code, min, max, greedy) ELSE <<>>)

\* Reading backwards: step back, read the character, step back over it again.
OneChar(op, back) == IF back THEN <<Op("prev"), op, Op("prev")>> ELSE <<op>>

RECURSIVE Disjunction(_, _, _, _), Alternative(_, _, _, _), Term(_, _, _, _)
\* re_parse_term
Term(t, cc, back, fl) ==
    LET piece(code) == [code |-> code, cc |-> cc]
        inside(d, c0, b) == Disjunction(d, c0, b, fl)
    IN CASE t.k = "char" -> piece(OneChar([op |-> "char", c |-> Canon(t.c, fl)], back))
         [] t.k = "dot" -> piece(OneChar(Op(IF "s" \in fl THEN "any" ELSE "dot"), back))
         [] t.k = "class" ->
            LET canonical == {Canon(c, fl) : c \in t.set}
            IN piece(OneChar([op |-> "range", set |-> IF t.inv THEN AllChars \ canonical
                                                      ELSE canonical], back))
         [] t.k = "assert" -> piece(<<Op(t.op)>>)
         [] t.k = "ref" ->
            piece(<<SaveOp(IF back THEN "backward_back_reference" ELSE "back_reference", t.n)>>)
         [] t.k = "group" -> inside(t.d, cc, back)
         [] t.k = "cap" ->
            LET in == inside(t.d, cc + 1, back)
            IN [code |-> <<SaveOp(IF back THEN "save_end" ELSE "save_start", cc)>> \o in.code
                            \o <<SaveOp(IF back THEN "save_start" ELSE "save_end", cc)>>,
                cc |-> in.cc]
         [] t.k = "look" ->
            LET in == inside(t.d, cc, t.behind)
            IN [code |-> <<Jump(IF t.neg THEN "negative_lookahead" ELSE "lookahead",
                                Len(in.code) + 1)>> \o in.code \o <<Op("match")>>,
                cc |-> in.cc]
         [] t.k = "quant" ->
            LET in == Term(t.t, cc, back, fl)
            IN [code |-> Quantified(in.code, t.min, t.max, t.greedy, cc, in.cc), cc |-> in.cc]
\* re_parse_alternative: the terms of a lookbehind come in reverse order.
Alternative(terms, cc, back, fl) ==
    IF terms = <<>> THEN [code |-> <<>>, cc |-> cc]
    ELSE LET init == Alternative(Front(terms), cc, back, fl)
             last == Term(Last(terms), init.cc, back, fl)
         IN [code |-> IF back THEN last.code \o init.code ELSE init.code \o last.code,
             cc |-> last.cc]
\* re_parse_disjunction: a split before what precedes, a goto behind it.
Disjunction(alts, cc, back, fl) ==
    IF Len(alts) = 1 THEN Alternative(alts[1], cc, back, fl)
    ELSE LET init == Disjunction(Front(alts), cc, back, fl)
             last == Alternative(Last(alts), init.cc, back, fl)
         IN [code |-> <<Jump("split_next_first", Len(init.code) + 1)>> \o init.code
                         \o <<Jump("goto", Len(last.code))>> \o last.code,
             cc |-> last.cc]

\* lre_compile: unless sticky, every position is tried in turn.
Compile(pattern, fl) ==
    LET in == Disjunction(pattern, 1, FALSE, fl)
    IN [code |-> (IF "y" \in fl THEN <<>>
                  ELSE <<Jump("split_goto_first", 2), Op("any"), Jump("goto", -3)>>)
                 \o <<SaveOp("save_start", 0)>> \o in.code \o <<SaveOp("save_end", 0), Op("match")>>,
        cc |-> in.cc]

\* compute_stack_size: one pass over the code, whatever the jumps.
StackSize(code) ==
    LET step(acc, ins) ==
            LET n == acc[1] + (CASE ins.op \in {"push_i32", "push_char_pos"} -> 1
                                 [] ins.op \in {"drop", "bne_char_pos"} -> -1
                                 [] OTHER -> 0)
            IN <<n, IF n > acc[2] THEN n ELSE acc[2]>>
    IN FoldLeft(step, <<0, 0>>, code)[2]

(***************************************************************************)
(* The machine.                                                            *)
(***************************************************************************)
VARIABLES
    job,    \* pattern, subject, flags and the compiled code
    pc,     \* the next instruction
    cptr,   \* position in the subject, in code units
    cap,    \* capture: 2 * i is the start and 2 * i + 1 the end of group i
    stk,    \* counters and positions
    states, \* state_stack: where to go back to
    ret,    \* "run", or what the recurse loop goes back with, or the result
    steps   \* the steps taken

reVars == <<job, pc, cptr, cap, stk, states, ret, steps>>

Input == job.subject
IsPair(s, i, fl) == "u" \in fl /\ i + 1 < Len(s) /\ s[i + 1] = "hi" /\ s[i + 2] = "lo"

\* GET_CHAR, PREV_CHAR: the character at i, and where the next, the previous one starts
CharAt(s, i, fl) == IF IsPair(s, i, fl) THEN "pair" ELSE s[i + 1]
NextPos(s, i, fl) == IF IsPair(s, i, fl) THEN i + 2 ELSE i + 1
PrevPos(s, i, fl) == IF i >= 2 /\ IsPair(s, i - 2, fl) THEN i - 2 ELSE i - 1

ReInit ==
    /\ \E m \in Matches :
         /\ job = [pattern |-> m[1], subject |-> m[2], flags |-> m[3],
                   prog |-> Compile(m[1], m[3])]
         /\ cap = [i \in 0 .. 2 * job.prog.cc - 1 |-> NoPos]
    /\ pc = 1 /\ cptr = 0 /\ stk = <<>> /\ states = <<>> /\ ret = "run"
    /\ steps = 0

Code == job.prog.code
Ins == Code[pc]
Char == CharAt(Input, cptr, job.flags)
AtEnd(i) == i >= Len(Input)

\* Whether one character passes the test of an instruction.
Passes(ins, c) ==
    CASE ins.op = "char" -> Canon(c, job.flags) = ins.c
      [] ins.op = "range" -> Canon(c, job.flags) \in ins.set
      [] ins.op = "dot" -> c # "nl"
      [] ins.op = "any" -> TRUE

\* line_start, line_end, word_boundary and its opposite at position i
Holds(op, i) ==
    LET before == CharAt(Input, PrevPos(Input, i, job.flags), job.flags)
        here == CharAt(Input, i, job.flags)
        edge == (i # 0 /\ IsWord(before)) # (~AtEnd(i) /\ IsWord(here))
    IN CASE op = "line_start" -> i = 0 \/ ("m" \in job.flags /\ before = "nl")
         [] op = "line_end" -> AtEnd(i) \/ ("m" \in job.flags /\ here = "nl")
         [] op = "word_boundary" -> edge
         [] op = "not_word_boundary" -> ~edge

Goto(p) == pc' = p /\ UNCHANGED <<job, states, ret>>
Fail == ret' = "fail" /\ UNCHANGED <<job, pc, cptr, cap, stk, states>>
PushState(type, p, count) ==
    states' = Append(states, [type |-> type, pc |-> p, cptr |-> cptr, cap |-> cap,
                              stk |-> stk, count |-> count])

ReadChar ==
    /\ Ins.op \in CharOps
    /\ IF AtEnd(cptr) \/ ~Passes(Ins, Char) THEN Fail
       ELSE cptr' = NextPos(Input, cptr, job.flags) /\ Goto(pc + 1) /\ UNCHANGED <<cap, stk>>

TestPlace ==
    /\ Ins.op \in PlainOps
    /\ IF Holds(Ins.op, cptr) THEN Goto(pc + 1) /\ UNCHANGED <<cptr, cap, stk>> ELSE Fail

Prev ==
    /\ Ins.op = "prev"
    /\ IF cptr = 0 THEN Fail
       ELSE cptr' = PrevPos(Input, cptr, job.flags) /\ Goto(pc + 1) /\ UNCHANGED <<cap, stk>>

DoSplit ==
    /\ Ins.op \in {"split_goto_first", "split_next_first"}
    /\ LET far == pc + 1 + Ins.off
           next == Ins.op = "split_next_first"
       IN PushState("split", IF next THEN far ELSE pc + 1, 0)
          /\ pc' = IF next THEN pc + 1 ELSE far
    /\ UNCHANGED <<job, cptr, cap, stk, ret>>

DoLookahead ==
    /\ Ins.op \in {"lookahead", "negative_lookahead"}
    /\ PushState(Ins.op, pc + 1 + Ins.off, 0) /\ pc' = pc + 1
    /\ UNCHANGED <<job, cptr, cap, stk, ret>>

DoGoto == Ins.op = "goto" /\ Goto(pc + 1 + Ins.off) /\ UNCHANGED <<cptr, cap, stk>>

Save ==
    /\ Ins.op \in {"save_start", "save_end", "save_reset"}
    /\ cap' = IF Ins.op = "save_reset"
              THEN [i \in DOMAIN cap |-> IF i \div 2 \in Ins.first .. Ins.last THEN NoPos ELSE cap[i]]
              ELSE [cap EXCEPT ![2 * Ins.n + (IF Ins.op = "save_end" THEN 1 ELSE 0)] = cptr]
    /\ Goto(pc + 1) /\ UNCHANGED <<cptr, stk>>

UseStack ==
    /\ Ins.op \in {"push_i32", "push_char_pos", "drop", "loop", "bne_char_pos"}
    /\ CASE Ins.op = "push_i32" -> stk' = Append(stk, Ins.n) /\ Goto(pc + 1)
         [] Ins.op = "push_char_pos" -> stk' = Append(stk, cptr) /\ Goto(pc + 1)
         [] Ins.op = "drop" -> stk' = Front(stk) /\ Goto(pc + 1)
         [] Ins.op = "loop" -> /\ stk' = [stk EXCEPT ![Len(stk)] = @ - 1]
                               /\ Goto(IF Last(stk) = 1 THEN pc + 1 ELSE pc + 1 + Ins.off)
         [] Ins.op = "bne_char_pos" -> /\ stk' = Front(stk)
                                       /\ Goto(IF Last(stk) = cptr THEN pc + 1 ELSE pc + 1 + Ins.off)
    /\ UNCHANGED <<cptr, cap>>

RECURSIVE Same(_, _, _, _, _, _)
\* The text of from .. to again at i, in either direction: its other end, or NoPos.
Same(s, from, to, i, back, fl) ==
    IF from >= to THEN i
    ELSE IF back
    THEN IF i = 0 THEN NoPos
         ELSE LET f == PrevPos(s, to, fl)
                  j == PrevPos(s, i, fl)
              IN IF Canon(CharAt(s, f, fl), fl) = Canon(CharAt(s, j, fl), fl)
                 THEN Same(s, from, f, j, back, fl) ELSE NoPos
    ELSE IF i >= Len(s) \/ Canon(CharAt(s, from, fl), fl) # Canon(CharAt(s, i, fl), fl) THEN NoPos
    ELSE Same(s, NextPos(s, from, fl), to, NextPos(s, i, fl), back, fl)

DoBackReference ==
    /\ Ins.op \in {"back_reference", "backward_back_reference"}
    /\ LET from == cap[2 * Ins.n]
           to == cap[2 * Ins.n + 1]
           i == IF NoPos \in {from, to} THEN cptr
                ELSE Same(Input, from, to, cptr, Ins.op = "backward_back_reference", job.flags)
       IN IF i = NoPos THEN Fail ELSE cptr' = i /\ Goto(pc + 1) /\ UNCHANGED <<cap, stk>>

RECURSIVE RunSimple(_, _), Rounds(_, _, _, _)
\* lre_exec_backtrack with no_recurse: where the simple atom ends, or NoPos.
RunSimple(p, i) ==
    LET ins == Code[p]
    IN CASE ins.op = "match" -> i
         [] ins.op \in CharOps ->
            IF AtEnd(i) \/ ~Passes(ins, CharAt(Input, i, job.flags)) THEN NoPos
            ELSE RunSimple(p + 1, NextPos(Input, i, job.flags))
         [] ins.op \in PlainOps -> IF Holds(ins.op, i) THEN RunSimple(p + 1, i) ELSE NoPos
\* As many rounds as match, up to max: where they end and how many they are.
Rounds(p, i, q, max) ==
    LET j == RunSimple(p, i)
    IN IF j = NoPos THEN <<i, q>>
       ELSE IF q + 1 >= max /\ max # Inf THEN <<j, q + 1>> ELSE Rounds(p, j, q + 1, max)

SimpleGreedyQuant ==
    /\ Ins.op = "simple_greedy_quant"
    /\ LET r == Rounds(pc + 1, cptr, 0, Ins.max)
       IN IF r[2] < Ins.min THEN Fail
          ELSE /\ states' = IF r[2] = Ins.min THEN states
                            ELSE Append(states, [type |-> "greedy", pc |-> pc, cptr |-> r[1],
                                                 cap |-> cap, stk |-> stk, count |-> r[2] - Ins.min])
               /\ cptr' = r[1] /\ pc' = pc + 1 + Ins.off
               /\ UNCHANGED <<job, cap, stk, ret>>

Match == Ins.op = "match" /\ ret' = "match" /\ UNCHANGED <<job, pc, cptr, cap, stk, states>>

Top == Last(states)
RECURSIVE BackBy(_, _)
BackBy(i, n) == IF n = 0 THEN i ELSE BackBy(PrevPos(Input, i, job.flags), n - 1)

\* pop_state, pop_state1: go on from the top state; keep: with the captures made since.
Resume(keep) ==
    /\ pc' = Top.pc /\ cptr' = Top.cptr /\ stk' = Top.stk /\ ret' = "run"
    /\ cap' = IF keep THEN cap ELSE Top.cap
    /\ states' = Front(states) /\ UNCHANGED job

\* A greedy run gives back one round, down to the minimum.
OneRoundLess(i) ==
    IF Top.count = 1 THEN Front(states)
    ELSE Append(Front(states), [Top EXCEPT !.cptr = i, !.count = @ - 1])

Recurse ==
    /\ ret \in {"match", "fail"} /\ states # <<>>
    /\ LET ok == ret = "match"
       IN \/ /\ Top.type = "split" /\ ~ok /\ Resume(FALSE)
          \/ /\ Top.type = "greedy" /\ ~ok
             /\ LET i == BackBy(Top.cptr, Code[Top.pc].count)
                IN /\ cptr' = i /\ pc' = Top.pc + 1 + Code[Top.pc].off
                   /\ cap' = Top.cap /\ stk' = Top.stk /\ ret' = "run"
                   /\ states' = OneRoundLess(i)
                   /\ UNCHANGED job
          \/ /\ Top.type \in {"split", "greedy"} /\ ok
             /\ states' = Front(states) /\ UNCHANGED <<job, pc, cptr, cap, stk, ret>>
          \/ /\ Top.type = "lookahead"
             /\ \/ ok /\ Resume(TRUE)
                \/ ~ok /\ states' = Front(states) /\ UNCHANGED <<job, pc, cptr, cap, stk, ret>>
          \/ /\ Top.type = "negative_lookahead"
             /\ \/ ~ok /\ Resume(FALSE)
                \/ /\ ok /\ ret' = "fail" /\ states' = Front(states)
                   /\ UNCHANGED <<job, pc, cptr, cap, stk>>

Over == ret \in {"match", "fail"} /\ states = <<>>

Step ==
    /\ ret = "run"
    /\ \/ ReadChar \/ TestPlace \/ Prev \/ DoSplit \/ DoLookahead \/ DoGoto \/ Save \/ UseStack
       \/ DoBackReference \/ SimpleGreedyQuant \/ Match

ReNext == steps < MaxSteps /\ steps' = steps + 1 /\ (Step \/ Recurse)

ReSpec == ReInit /\ [][ReNext]_reVars

(***************************************************************************)
(* What is to be found: all ways to match, in the order in which they are  *)
(* tried.  e has the subject s, the flags fl, and as: whether quantifiers  *)
(* are read as the "language" says or as the "code" has them.              *)
(***************************************************************************)
RECURSIVE GroupsOf(_), RefsOf(_), MayBeEmpty(_), EmptyFirst(_), SetsAlways(_)

Terms(d) == UNION {ToSet(d[i]) : i \in DOMAIN d}
Inside(t) == CASE t.k \in {"cap", "group", "look"} -> Terms(t.d)
               [] t.k = "quant" -> {t.t}
               [] OTHER -> {}
GroupsOf(t) == (IF t.k = "cap" THEN {t.n} ELSE {}) \cup UNION {GroupsOf(u) : u \in Inside(t)}
RefsOf(t) == (IF t.k = "ref" THEN {t.n} ELSE {}) \cup UNION {RefsOf(u) : u \in Inside(t)}
EmptyAlternative(terms) == \A u \in ToSet(terms) : MayBeEmpty(u)
MayBeEmpty(t) ==
    CASE t.k \in {"assert", "look", "ref"} -> TRUE
      [] t.k \in {"cap", "group"} -> \E i \in DOMAIN t.d : EmptyAlternative(t.d[i])
      [] t.k = "quant" -> t.min = 0 \/ MayBeEmpty(t.t)
      [] OTHER -> FALSE
\* The empty way to match may come before another one.
EmptyFirst(t) ==
    \/ t.k = "quant" /\ ~t.greedy
    \/ t.k \in {"cap", "group"} /\ \E i \in 1 .. Len(t.d) - 1 : EmptyAlternative(t.d[i])
    \/ \E u \in Inside(t) : EmptyFirst(u)
\* The groups that every way to match sets, or sets back.
SetsAlways(t) ==
    LET each(terms) == UNION {SetsAlways(u) : u \in ToSet(terms)}
        all(d) == {n \in GroupsOf(t) : \A i \in DOMAIN d : n \in each(d[i])} IN
    CASE t.k = "cap" -> {t.n} \cup all(t.d)
      [] t.k \in {"group", "look"} -> all(t.d)
      [] t.k = "quant" -> IF t.min = 0 THEN GroupsOf(t) ELSE SetsAlways(t.t)
      [] OTHER -> {}

OwnReference(t) == GroupsOf(t) \cap RefsOf(t) # {}
\* In the language the groups of an atom are undefined when a round begins, and
\* a round that is not required and does not advance is not taken.  The code
\* sets groups back only in front of a loop that need not run, so that a round
\* sees and leaves those of the round before; it looks for rounds that do not
\* advance only in greedy loops without a limit, and then leaves the loop.
KeepsGroups(q) == q.max > 1 /\ (OwnReference(q.t) \/ GroupsOf(q.t) \ SetsAlways(q.t) # {})
TakesEmpty(q) == /\ q.max > q.min /\ MayBeEmpty(q.t)
                 /\ GroupsOf(q.t) # {} \/ EmptyFirst(q.t) \/ (~q.greedy /\ q.max = Inf)
RECURSIVE DepartsIn(_)
DepartsIn(t) == (t.k = "quant" /\ (KeepsGroups(t) \/ TakesEmpty(t))) \/ \E u \in Inside(t) : DepartsIn(u)
Departs(d) == \E t \in Terms(d) : DepartsIn(t)

\* A way has a position and groups; Never: the search does not come to an end.
Undef == <<NoPos, NoPos>>
Never == [p |-> -2, g |-> <<>>]
Each(ways, F(_)) ==
    FlattenSeq([i \in DOMAIN ways |-> IF ways[i] = Never THEN <<Never>> ELSE F(ways[i])])
Forget(w, t) == [w EXCEPT !.g = [n \in DOMAIN w.g |-> IF n \in GroupsOf(t) THEN Undef ELSE w.g[n]]]
Less(max) == IF max = Inf THEN Inf ELSE max - 1

RECURSIVE WaysTerm(_, _, _, _), WaysSeq(_, _, _, _), WaysAny(_, _, _, _),
          Repeat(_, _, _, _, _, _), Required(_, _, _, _, _), Optional(_, _, _, _, _, _)

\* back: the direction.
WaysTerm(t, w, back, e) ==
    LET s == e.s
        fl == e.fl
        one(test(_)) ==
            IF back THEN IF w.p = 0 \/ ~test(CharAt(s, PrevPos(s, w.p, fl), fl)) THEN <<>>
                         ELSE <<[w EXCEPT !.p = PrevPos(s, @, fl)]>>
            ELSE IF w.p = Len(s) \/ ~test(CharAt(s, w.p, fl)) THEN <<>>
                 ELSE <<[w EXCEPT !.p = NextPos(s, @, fl)]>>
        \* the code notes where a group begins when it is entered
        entered(n) == IF e.as = "language" THEN w ELSE [w EXCEPT !.g[n][IF back THEN 2 ELSE 1] = w.p]
    IN CASE t.k = "char" -> one(LAMBDA c : Canon(c, fl) = Canon(t.c, fl))
         [] t.k = "dot" -> one(LAMBDA c : "s" \in fl \/ c # "nl")
         [] t.k = "class" ->
            one(LAMBDA c : (\E d \in t.set : Canon(d, fl) = Canon(c, fl)) # t.inv)
         [] t.k = "assert" -> IF Holds(t.op, w.p) THEN <<w>> ELSE <<>>
         [] t.k = "group" -> WaysAny(t.d, w, back, e)
         [] t.k = "cap" ->
            Each(WaysAny(t.d, entered(t.n), back, e), LAMBDA v :
                 <<[v EXCEPT !.g[t.n] = IF back THEN <<v.p, w.p>> ELSE <<w.p, v.p>>]>>)
         [] t.k = "look" ->
            LET in == WaysAny(t.d, w, t.behind, e)
            IN CASE in # <<>> /\ in[1] = Never -> <<Never>>
                 [] (in = <<>>) # t.neg -> <<>>
                 [] t.neg -> <<w>>
                 [] OTHER -> <<[w EXCEPT !.g = in[1].g]>>
         [] t.k = "ref" ->
            IF NoPos \in ToSet(w.g[t.n]) THEN <<w>>
            ELSE LET i == Same(s, w.g[t.n][1], w.g[t.n][2], w.p, back, fl)
                 IN IF i = NoPos THEN <<>> ELSE <<[w EXCEPT !.p = i]>>
         [] t.k = "quant" ->
            IF e.as = "language" THEN Repeat(t, t.min, t.max, w, back, e)
            ELSE Required(t, t.min, IF t.min = 0 THEN Forget(w, t) ELSE w, back, e)

WaysSeq(terms, w, back, e) ==
    CASE terms = <<>> -> <<w>>
      [] back -> Each(WaysTerm(Last(terms), w, back, e), LAMBDA v : WaysSeq(Front(terms), v, back, e))
      [] OTHER -> Each(WaysTerm(Head(terms), w, back, e), LAMBDA v : WaysSeq(Tail(terms), v, back, e))

WaysAny(alts, w, back, e) ==
    FlattenSeq([i \in DOMAIN alts |-> WaysSeq(alts[i], w, back, e)])

\* The language: RepeatMatcher.
Repeat(q, min, max, w, back, e) ==
    LET more == Each(WaysTerm(q.t, Forget(w, q.t), back, e), LAMBDA v :
                     IF min = 0 /\ v.p = w.p THEN <<>>
                     ELSE Repeat(q, IF min = 0 THEN 0 ELSE min - 1, Less(max), v, back, e))
    IN CASE max = 0 -> <<w>>
         [] min > 0 -> more
         [] OTHER -> IF q.greedy THEN more \o <<w>> ELSE <<w>> \o more

\* The code: n rounds that are required, then those that may follow.
Required(q, n, w, back, e) ==
    IF n = 0 THEN Optional(q, IF q.max = Inf THEN Inf ELSE q.max - q.min, w, {w}, back, e)
    ELSE Each(WaysTerm(q.t, w, back, e), LAMBDA v : Required(q, n - 1, v, back, e))
\* seen: the ways at this position that rounds have led to; the same one again
\* leads to itself for ever.
Optional(q, left, w, seen, back, e) ==
    LET stops == left = Inf /\ q.greedy /\ ~OwnReference(q.t)
        more == IF left = 0 THEN <<>> ELSE
                Each(WaysTerm(q.t, w, back, e), LAMBDA v :
                     CASE stops /\ v.p = w.p -> <<v>>
                       [] left = Inf /\ v \in seen -> <<Never>>
                       [] OTHER -> Optional(q, Less(left), v, {v} \cup {x \in seen : x.p = v.p}, back, e))
    IN IF q.greedy THEN more \o <<w>> ELSE <<w>> \o more

RECURSIVE FirstFrom(_, _)
\* What is found from position i on: all groups, <<>> if nothing, or Never.
FirstFrom(i, as) ==
    LET start == [p |-> i, g |-> [n \in 1 .. job.prog.cc - 1 |-> Undef]]
        ways == WaysAny(job.pattern, start, FALSE, [s |-> Input, fl |-> job.flags, as |-> as])
    IN CASE ways # <<>> -> IF ways[1] = Never THEN <<Never>>
                           ELSE <<<<i, ways[1].p>>>> \o [n \in DOMAIN start.g |-> ways[1].g[n]]
         [] "y" \in job.flags \/ i = Len(Input) -> <<>>
         [] OTHER -> FirstFrom(NextPos(Input, i, job.flags), as)

Found == CASE ~Over -> <<Never>>
           [] ret = "fail" -> <<>>
           [] OTHER -> [n \in 1 .. job.prog.cc |-> <<cap[2 * (n - 1)], cap[2 * (n - 1) + 1]>>]

\* The machine finds the match, with the groups, that the pattern stands for:
\* the first one in the order of alternatives and quantifiers, or none, within
\* MaxSteps steps.  The exception are loops in which a round may leave out or
\* read a group of the round before, or may be empty: there the groups are kept,
\* the empty round is taken, and the match may never end, exactly as the
\* matchers of the code say.
MatchesAsLanguage ==
    Over \/ steps = MaxSteps =>
        Found = FirstFrom(0, IF Departs(job.pattern) THEN "code" ELSE "language")

\* compute_stack_size: a single pass over the code bounds the stack of
\* counters and positions on every path, and the stack is empty in the end.
StackBounded == Len(stk) <= StackSize(Code) /\ (Over /\ ret = "match" => stk = <<>>)
=============================================================================
