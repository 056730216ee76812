------------------------------ MODULE JSON --------------------------------
(***************************************************************************)
(* JSON.parse and JSON.stringify of quickjs.c, through which the Dart side *)
(* reads every object and array (JSValue.toJSONString).                    *)
(*                                                                         *)
(* A text is a sequence of code points.  The value of a number is the text *)
(* that is given to js_strtod, with its radix unless that is ten; names of *)
(* properties are not array indexes.  Parsing                              *)
(* makes a tree.  Printing starts from a heap h of objects, which may have *)
(* cycles, toJSON methods, and callbacks that change the objects being     *)
(* printed; it returns the heap with the text or the exception.            *)
(***************************************************************************)
EXTENDS Integers, Sequences, SequencesExt, FiniteSetsExt

CONSTANTS       \* bounds of the calls that TLC makes
    MaxChunks,      \* length of the texts that are tried exhaustively
    MaxTree,        \* length of the texts of the grammar that are revived
    MaxBody,        \* length of the string literals
    MaxNumber,      \* length of the numbers
    MaxString       \* length of the strings that are printed

(***************************************************************************)
(* Characters and values.                                                  *)
(***************************************************************************)
NUL == 0
BS == 8
Tab == 9
LF == 10
VT == 11
FF == 12
CR == 13
Space == 32
Quote == 34
Dollar == 36
Apostrophe == 39
Star == 42
Plus == 43
Comma == 44
Minus == 45
Dot == 46
Slash == 47
Colon == 58
LBracket == 91
Backslash == 92
RBracket == 93
LowLine == 95
LBrace == 123
RBrace == 125
LS == 8232
PS == 8233
Digit == 48 .. 57
Letter == 65 .. 90 \cup 97 .. 122
Nought == 48
lower_b == 98
lower_e == 101
lower_f == 102
lower_n == 110
lower_o == 111
lower_p == 112
lower_r == 114
lower_t == 116
lower_u == 117
lower_v == 118
lower_x == 120
TrueWord == <<116, 114, 117, 101>>
FalseWord == <<102, 97, 108, 115, 101>>
NullWord == <<110, 117, 108, 108>>
NaNWord == <<78, 97, 78>>

Null == [t |-> "null"]
Undefined == [t |-> "undefined"]
BoolV(b) == [t |-> "bool", b |-> b]
Num(s) == [t |-> "num", s |-> s]
RadixNum(s, radix) == [t |-> "num", s |-> s, radix |-> radix]
Str(s) == [t |-> "str", s |-> s]
Obj(props) == [t |-> "obj", props |-> props]
Arr(els) == [t |-> "arr", els |-> els]
Hole == [t |-> "hole"]
Entry(k, v) == [k |-> k, v |-> v]

KeysOf(props) == [i \in DOMAIN props |-> props[i].k]
PlaceOf(props, k) == {i \in DOMAIN props : props[i].k = k}
WithProp(props, k, v) ==
    IF PlaceOf(props, k) = {} THEN Append(props, Entry(k, v))
    ELSE [i \in DOMAIN props |-> IF props[i].k = k THEN Entry(k, v) ELSE props[i]]
WithoutProp(props, k) == SelectSeq(props, LAMBDA e : e.k # k)

(***************************************************************************)
(* Tokens.  p is the place of the next character; the buffer ends with a   *)
(* zero that is not part of the text.                                      *)
(***************************************************************************)
TOK_NUMBER == -128
TOK_STRING == -127
TOK_IDENT == -125
TOK_ERROR == -124
TOK_EOF == -123
Tok(tok, p) == [tok |-> tok, v |-> Undefined, p |-> p]
TokWith(tok, v, p) == [tok |-> tok, v |-> v, p |-> p]
TokError == Tok(TOK_ERROR, 0)
At(s, p) == IF p <= Len(s) THEN s[p] ELSE NUL

from_hex(c) == CASE c \in Digit -> c - 48
                 [] c \in 97 .. 102 -> c - 87
                 [] c \in 65 .. 70 -> c - 55
                 [] OTHER -> -1
Hex(s, p, n) == [i \in 1 .. n |-> from_hex(At(s, p + i - 1))]
\* lre_parse_escape on \x, \u and the letters; -1 is an error, -2 no escape.
RECURSIVE BracedEscape(_, _, _)
BracedEscape(s, p, c) ==
    LET d == 16 * c + from_hex(At(s, p)) IN
    CASE from_hex(At(s, p)) < 0 \/ d > 1114111 -> [c |-> -1, p |-> p]
      [] At(s, p + 1) = RBrace -> [c |-> d, p |-> p + 2]
      [] OTHER -> BracedEscape(s, p + 1, d)
HexEscape(s, p, n) ==
    LET h == Hex(s, p, n) IN
    IF \E i \in 1 .. n : h[i] < 0 THEN [c |-> -1, p |-> p]
    ELSE [c |-> FoldLeft(LAMBDA c, d : 16 * c + d, 0, h), p |-> p + n]
lre_parse_escape(s, p) ==
    LET c == At(s, p)
        Is(r) == [c |-> r, p |-> p + 1] IN
    CASE c = lower_b -> Is(BS)
      [] c = lower_f -> Is(FF)
      [] c = lower_n -> Is(LF)
      [] c = lower_r -> Is(CR)
      [] c = lower_t -> Is(Tab)
      [] c = lower_v -> Is(VT)
      [] c \in {lower_x, lower_u} /\ At(s, p + 1) = LBrace -> BracedEscape(s, p + 2, 0)
      [] c = lower_x -> HexEscape(s, p + 1, 2)
      [] c = lower_u -> HexEscape(s, p + 1, 4)
      [] OTHER -> [c |-> -2, p |-> p]

\* Mutant: the characters below U+0020 may stand in a string.
RECURSIVE StringWithControls(_, _, _, _)
StringWithControls(s, sep, p, b) ==
    CASE p > Len(s) -> TokError
      [] s[p] = sep -> TokWith(TOK_STRING, Str(b), p + 1)
      [] OTHER -> StringWithControls(s, sep, p + 1, Append(b, s[p]))
\* A string that has been opened, b being what was read of it.
RECURSIVE js_parse_string(_, _, _, _)
WithEscape(s, sep, p, b, d, e) ==
    CASE e.c = -1 -> TokError
      [] e.c = -2 -> js_parse_string(s, sep, p + 2, Append(b, d))
      [] OTHER -> js_parse_string(s, sep, e.p, Append(b, e.c))
js_parse_string(s, sep, p, b) ==
    LET c == At(s, p)
        d == At(s, p + 1)
        Go(q, r) == js_parse_string(s, sep, q, r) IN
    CASE p > Len(s) \/ c < 32 -> TokError
      [] c = sep -> TokWith(TOK_STRING, Str(b), p + 1)
      [] c # Backslash -> Go(p + 1, Append(b, c))
      [] p + 1 > Len(s) -> TokError
      [] d \in {NUL, Apostrophe, Quote, Backslash} -> Go(p + 2, Append(b, d))
      [] d \in {CR, LF} -> Go(p + (IF d = CR /\ At(s, p + 2) = LF THEN 3 ELSE 2), b)
      [] d \in 48 .. 55 -> TokError
      [] d \in {LS, PS} -> Go(p + 2, b)
      [] OTHER -> WithEscape(s, sep, p, b, d, lre_parse_escape(s, p + 1))

\* js_atof: the number and the place behind it.  With radix 0 the text may say
\* the radix, but not behind a sign; a prefix without digits, and a fraction or
\* an exponent in another radix than ten, give NaN.
After(s, p, chars) == Min({q \in p .. Len(s) + 1 : At(s, q) \notin chars})
Digits(radix) == {c \in Digit : c - 48 < radix}
                 \cup {c \in Letter : (IF c < 97 THEN c - 55 ELSE c - 87) < radix}
RadixOf == [c \in {lower_x, lower_o, lower_b, 88, 79, 66} |->
                CASE c \in {lower_x, 88} -> 16 [] c \in {lower_o, 79} -> 8 [] OTHER -> 2]
Fraction(s, p, q, radix) ==
    IF At(s, q) = Dot /\ (q > p \/ At(s, q + 1) \in Digits(radix))
    THEN After(s, q + 1, Digits(radix)) ELSE q
ExponentLetters(radix) == IF radix = 10 THEN {lower_e, 69} ELSE {lower_p, 80}
ExponentDigits(s, q) == IF At(s, q + 1) \in {Plus, Minus} THEN q + 2 ELSE q + 1
Exponent(s, q, radix) ==
    IF At(s, q) \in ExponentLetters(radix) /\ At(s, ExponentDigits(s, q)) \in Digit
    THEN After(s, ExponentDigits(s, q), Digit) ELSE q
NumberTok(v, p) == TokWith(TOK_NUMBER, v, p)
PrefixedNumber(s, p, radix) ==
    LET q == After(s, p, Digits(radix))
        f == Fraction(s, p, q, radix)
        end == Exponent(s, f, radix) IN
    CASE q = p -> NumberTok(Num(NaNWord), p)
      [] end > q \/ At(s, f) \in ExponentLetters(radix) -> NumberTok(Num(NaNWord), end)
      [] OTHER -> NumberTok(RadixNum(SubSeq(s, p, q - 1), radix), q)
js_atof(s, p, radix) ==
    LET p0 == IF At(s, p) \in {Plus, Minus} THEN p + 1 ELSE p
        q == Exponent(s, Fraction(s, p0, After(s, p0, Digit), 10), 10) IN
    IF radix = 0 /\ At(s, p) = Nought /\ At(s, p + 1) \in DOMAIN RadixOf
    THEN PrefixedNumber(s, p + 2, RadixOf[At(s, p + 1)])
    ELSE NumberTok(Num(SubSeq(s, IF At(s, p) = Plus THEN p0 ELSE p, q - 1)), q)

json_parse_ident(s, p) ==
    LET q == After(s, p, Letter \cup Digit \cup {LowLine, Dollar}) IN
    TokWith(TOK_IDENT, Str(SubSeq(s, p, q - 1)), q)

CommentEnds(s, p) == {q \in p .. Len(s) - 1 : s[q] = Star /\ s[q + 1] = Slash}
LineEnds(s, p) == {q \in p .. Len(s) + 1 : \/ q > Len(s)
                                           \/ At(s, q) \in {CR, LF}
                                           \/ q > p /\ At(s, q - 1) \in {LS, PS}}
NumberStarts(s, ext, p) ==
    LET c == At(s, p)
        d == At(s, p + 1) IN
    \/ c = Plus /\ ext /\ d \in Digit
    \/ c = 48 /\ d \notin Digit
    \/ c = Minus /\ d \in Digit
    \/ c \in 49 .. 57
RECURSIVE json_next_token(_, _, _)
json_next_token(s, ext, p) ==
    LET c == At(s, p)
        d == At(s, p + 1) IN
    CASE p > Len(s) -> Tok(TOK_EOF, p)
      [] c = Quote \/ (c = Apostrophe /\ ext) -> js_parse_string(s, c, p + 1, <<>>)
      [] c \in {CR, LF, Space, Tab} \/ (c \in {VT, FF} /\ ext) -> json_next_token(s, ext, p + 1)
      [] c = Slash /\ ext /\ d = Star ->
            IF CommentEnds(s, p + 2) = {} THEN TokError
            ELSE json_next_token(s, ext, Min(CommentEnds(s, p + 2)) + 2)
      [] c = Slash /\ ext /\ d = Slash -> json_next_token(s, ext, Min(LineEnds(s, p + 2)))
      [] c \in Letter \cup {LowLine, Dollar} -> json_parse_ident(s, p)
      [] NumberStarts(s, ext, p) -> js_atof(s, p, IF ext THEN 0 ELSE 10)
      [] c >= 128 -> TokError
      [] OTHER -> Tok(c, p + 1)

(***************************************************************************)
(* Parsing.  A result has the value and the token behind it.               *)
(***************************************************************************)
NotParsed == [ok |-> FALSE]
Parsed(v, tk) == IF tk.tok = TOK_ERROR THEN NotParsed ELSE [ok |-> TRUE, v |-> v, tk |-> tk]
Expect(s, ext, v, tk, tok) ==
    IF tk.tok = tok THEN Parsed(v, json_next_token(s, ext, tk.p)) ELSE NotParsed
IsName(ext, tk) == tk.tok = TOK_STRING \/ (ext /\ tk.tok = TOK_IDENT)

\* JS_DefinePropertyValue on the new object.
Defined(props, k, v) == WithProp(props, k, v)

RECURSIVE json_parse_value(_, _, _), Members(_, _, _, _), Elements(_, _, _, _)
\* An object, tk being the token of a name: the colon, the value, what follows.
MembersGoOn(s, ext, props, next) ==
    IF ext /\ next.tok = RBrace THEN Expect(s, ext, Obj(props), next, RBrace)
    ELSE Members(s, ext, next, props)
MemberValue(s, ext, k, props, r) ==
    CASE ~r.ok -> NotParsed
      [] r.tk.tok # Comma -> Expect(s, ext, Obj(Defined(props, k, r.v)), r.tk, RBrace)
      [] OTHER -> MembersGoOn(s, ext, Defined(props, k, r.v),
                              json_next_token(s, ext, r.tk.p))
MemberColon(s, ext, tk, props, colon) ==
    IF ~IsName(ext, tk) \/ colon.tok # Colon THEN NotParsed
    ELSE MemberValue(s, ext, tk.v.s, props,
            json_parse_value(s, ext, json_next_token(s, ext, colon.p)))
Members(s, ext, tk, props) ==
    MemberColon(s, ext, tk, props, json_next_token(s, ext, tk.p))
\* An array, tk being the first token of an element.
ElementsGoOn(s, ext, els, next) ==
    IF ext /\ next.tok = RBracket THEN Expect(s, ext, Arr(els), next, RBracket)
    ELSE Elements(s, ext, next, els)
ElementValue(s, ext, els, r) ==
    CASE ~r.ok -> NotParsed
      [] r.tk.tok # Comma -> Expect(s, ext, Arr(Append(els, r.v)), r.tk, RBracket)
      [] OTHER -> ElementsGoOn(s, ext, Append(els, r.v),
                               json_next_token(s, ext, r.tk.p))
Elements(s, ext, tk, els) == ElementValue(s, ext, els, json_parse_value(s, ext, tk))
\* A value whose first token is tk, next being the one behind that.
ValueFrom(s, ext, tk, next) ==
    LET Word(w) == tk.tok = TOK_IDENT /\ tk.v.s = w IN
    CASE tk.tok = LBrace -> IF next.tok = RBrace THEN Expect(s, ext, Obj(<<>>), next, RBrace)
                            ELSE Members(s, ext, next, <<>>)
      [] tk.tok = LBracket -> IF next.tok = RBracket
                              THEN Expect(s, ext, Arr(<<>>), next, RBracket)
                              ELSE Elements(s, ext, next, <<>>)
      [] tk.tok \in {TOK_STRING, TOK_NUMBER} -> Parsed(tk.v, next)
      [] Word(TrueWord) -> Parsed(BoolV(TRUE), next)
      [] Word(FalseWord) -> Parsed(BoolV(FALSE), next)
      [] Word(NullWord) -> Parsed(Null, next)
      [] OTHER -> NotParsed
json_parse_value(s, ext, tk) == ValueFrom(s, ext, tk, json_next_token(s, ext, tk.p))

\* Mutant: what follows the value is not looked at.
PrefixParsed(r) == IF r.ok THEN [ok |-> TRUE, v |-> r.v] ELSE NotParsed
WholeParsed(r) == IF r.ok /\ r.tk.tok = TOK_EOF THEN [ok |-> TRUE, v |-> r.v] ELSE NotParsed
JS_ParseJSON2(s, ext) == WholeParsed(json_parse_value(s, ext, json_next_token(s, ext, 1)))

(***************************************************************************)
(* The reviver.  What it does: "same" gives the value back; "drop" gives   *)
(* undefined for the name k, "throw" an exception, and "cut" deletes the   *)
(* last property of the holder before it gives the value back.             *)
(***************************************************************************)
IsTree(v) == v.t \in {"obj", "arr"}
IndexName(i) == <<47 + i>>
Names(v) == IF v.t = "arr" THEN [i \in DOMAIN v.els |-> IndexName(i)] ELSE KeysOf(v.props)
GetProp(v, k) ==
    IF v.t = "arr" THEN LET i == k[1] - 47 IN
         IF i \in DOMAIN v.els /\ v.els[i] # Hole THEN v.els[i] ELSE Undefined
    ELSE IF PlaceOf(v.props, k) = {} THEN Undefined
    ELSE v.props[CHOOSE i \in PlaceOf(v.props, k) : TRUE].v
HasProp(v, k) == IF v.t = "arr" THEN v.els[k[1] - 47] # Hole ELSE PlaceOf(v.props, k) # {}
PutProp(v, k, x) == IF v.t = "arr" THEN Arr([v.els EXCEPT ![k[1] - 47] = x])
                    ELSE Obj(WithProp(v.props, k, x))
DelProp(v, k) == IF v.t = "arr" THEN Arr([v.els EXCEPT ![k[1] - 47] = Hole])
                 ELSE Obj(WithoutProp(v.props, k))

CallReviver(holder, name, val, reviver, log) ==
    LET hit == reviver.k = name IN
    [ok |-> ~(hit /\ reviver.does = "throw"),
     v |-> IF hit /\ reviver.does = "drop" THEN Undefined ELSE val,
     holder |-> IF hit /\ reviver.does = "cut" THEN DelProp(holder, Last(Names(holder))) ELSE holder,
     log |-> Append(log, Entry(name, val))]

\* Mutant: a property for which the reviver gives undefined stays as it was.
Revived(v, name, x) == IF x = Undefined THEN DelProp(v, name) ELSE PutProp(v, name, x)

RECURSIVE internalize_json_property(_, _, _, _), ReviveAll(_, _, _, _, _)
ReviveRest(v, names, i, reviver, r) ==
    IF r.ok THEN ReviveAll(Revived(r.holder, names[i], r.v), names, i + 1, reviver, r.log)
    ELSE [ok |-> FALSE, v |-> v, log |-> r.log]
ReviveAll(v, names, i, reviver, log) ==
    IF i > Len(names) THEN [ok |-> TRUE, v |-> v, log |-> log]
    ELSE ReviveRest(v, names, i, reviver,
                    internalize_json_property(v, names[i], reviver, log))
\* The holder keeps the tree r.v of the children, unless it lost the property.
ChildrenRevived(holder, name, reviver, r) ==
    IF r.ok THEN CallReviver(IF HasProp(holder, name) THEN PutProp(holder, name, r.v) ELSE holder,
                             name, r.v, reviver, r.log)
    ELSE [ok |-> FALSE, v |-> r.v, holder |-> holder, log |-> r.log]
ReviveValue(holder, name, val, reviver, log) ==
    IF IsTree(val)
    THEN ChildrenRevived(holder, name, reviver, ReviveAll(val, Names(val), 1, reviver, log))
    ELSE CallReviver(holder, name, val, reviver, log)
internalize_json_property(holder, name, reviver, log) ==
    ReviveValue(holder, name, GetProp(holder, name), reviver, log)

ReviveParsed(r, reviver) ==
    IF r.ok /\ reviver.does # "none"
    THEN internalize_json_property(Obj(<<Entry(<<>>, r.v)>>), <<>>, reviver, <<>>)
    ELSE r
js_json_parse(s, reviver) == ReviveParsed(JS_ParseJSON2(s, FALSE), reviver)

(***************************************************************************)
(* Printing.  An object of the heap has a class: "array" with elements,    *)
(* "plain" and "function" with properties, "wrapper" with a string, number *)
(* or boolean as its value, "bigint".  m is what its toJSON does:          *)
(* "none" if it has none, "throw", "give" some value, or "cut" the last    *)
(* property of an object and give itself.  rep is the replacer: a list of  *)
(* names, or a function that, at the name k, may give the "same" value,    *)
(* "drop" it, "throw" or "cut" the holder.                                 *)
(***************************************************************************)
Ref(o) == [t |-> "ref", o |-> o]
Wrapper == 0
Printed(text, h) == [ok |-> TRUE, text |-> text, h |-> h]
Thrown(e, h) == [ok |-> FALSE, e |-> e, h |-> h]
Checked(v, h) == [ok |-> TRUE, v |-> v, h |-> h]

HexDigit(d) == IF d < 10 THEN 48 + d ELSE 87 + d
FourDigits(c) == [i \in 1 .. 4 |-> HexDigit((c \div 16 ^ (4 - i)) % 16)]
Short == [c \in {Tab, CR, LF, BS, FF, Quote, Backslash} |->
            CASE c = Tab -> lower_t [] c = CR -> lower_r [] c = LF -> lower_n
              [] c = BS -> lower_b [] c = FF -> lower_f [] OTHER -> c]
Escaped(c) == CASE c \in DOMAIN Short -> <<Backslash, Short[c]>>
                [] c < 32 \/ c \in 55296 .. 57343 -> <<Backslash, lower_u>> \o FourDigits(c)
                [] OTHER -> <<c>>
\* Mutant: only quotes and backslashes are escaped.
JS_ToQuotedString(s) == <<Quote>> \o FlattenSeq([i \in DOMAIN s |-> Escaped(s[i])]) \o <<Quote>>

\* What a callback does that deletes the last property of o.
Cut(h, o) ==
    CASE o = Wrapper -> h
      [] h[o].class = "plain" /\ h[o].props # <<>> -> [h EXCEPT ![o].props = Front(@)]
      [] h[o].class = "array" /\ h[o].els # <<>> -> [h EXCEPT ![o].els = Front(@)]
      [] OTHER -> h

toJSON(h, val) ==
    IF val.t # "ref" THEN Checked(val, h)
    ELSE LET m == h[val.o].m IN
         CASE m.does = "none" -> Checked(val, h)
           [] m.does = "give" -> Checked(m.v, h)
           [] m.does = "cut" -> Checked(val, Cut(h, m.o))
           [] OTHER -> Thrown("user", h)
CallReplacer(h, rep, holder, val, key) ==
    LET hit == rep.k = key IN
    CASE rep.does = "drop" /\ hit -> Checked(Undefined, h)
      [] rep.does = "throw" /\ hit -> Thrown("user", h)
      [] rep.does = "cut" /\ hit -> Checked(val, Cut(h, holder))
      [] OTHER -> Checked(val, h)
\* Mutant: functions are printed like other objects.
NoFunction(h, v) == v.t = "function"
IsFunction(h, v) == v.t = "ref" /\ h[v.o].class = "function"
Shows(h, v) == v.t \in {"str", "num", "bool", "null", "bigint", "ref"} /\ ~IsFunction(h, v)
Undefinable(b) == IF b.ok /\ ~Shows(b.h, b.v) THEN Checked(Undefined, b.h) ELSE b
Replaced(a, rep, holder, key) ==
    IF a.ok THEN Undefinable(CallReplacer(a.h, rep, holder, a.v, key)) ELSE a
js_json_check(h, rep, holder, val, key) == Replaced(toJSON(h, val), rep, holder, key)

\* Mutant: null is printed as nothing.
PrimitiveText(v) == CASE v.t = "str" -> JS_ToQuotedString(v.s)
                      [] v.t = "num" -> IF v.s = NaNWord THEN NullWord ELSE v.s
                      [] v.t = "bool" -> IF v.b THEN TrueWord ELSE FalseWord
                      [] OTHER -> NullWord
WrappedText(v) == IF v.t = "num" THEN v.s ELSE PrimitiveText(v)
NewLine(gap, indent) == IF gap = <<>> THEN <<>> ELSE <<LF>> \o indent
\* Mutant: a comma in front of the first one, too.
CommaAfter(some) == IF some THEN <<Comma>> ELSE <<>>

\* Mutant: an object is taken for circular when two others refer to it.
Values(x) == CASE x.class = "array" -> x.els
               [] x.class = "plain" -> [i \in DOMAIN x.props |-> x.props[i].v]
               [] OTHER -> <<>>
Circular(h, stack, o) == o \in ToSet(stack)

RECURSIVE js_json_to_str(_, _, _), ElementsText(_, _, _, _, _), MembersText(_, _, _, _, _)
\* What is printed: the replacer, the objects around it, the indentation.
Deeper(ctx, o) == [ctx EXCEPT !.stack = Append(@, o), !.indent = @ \o ctx.gap]
Around(ctx) == SubSeq(ctx.indent, 1, Len(ctx.indent) - Len(ctx.gap))
\* The elements of o from the i-th of n, text being what has been printed.
ElementAt(x, i) == IF i <= Len(x.els) THEN x.els[i] ELSE Undefined
ElementPrinted(ctx, i, n, text, r) ==
    IF r.ok THEN ElementsText(r.h, ctx, i + 1, n,
                    text \o CommaAfter(i > 1) \o NewLine(ctx.gap, ctx.indent) \o r.text)
    ELSE r
ElementChecked(ctx, i, n, text, c) ==
    IF c.ok THEN ElementPrinted(ctx, i, n, text,
                    js_json_to_str(c.h, ctx, IF c.v = Undefined THEN Null ELSE c.v))
    ELSE c
ElementsText(h, ctx, i, n, text) ==
    LET o == Last(ctx.stack) IN
    IF i > n
    THEN Printed(text \o (IF n > 0 THEN NewLine(ctx.gap, Around(ctx)) ELSE <<>>) \o <<RBracket>>, h)
    ELSE ElementChecked(ctx, i, n, text,
            js_json_check(h, ctx.rep, o, ElementAt(h[o], i), IndexName(i)))
\* The properties of o from the i-th of the names.
MemberPrinted(ctx, i, names, text, r) ==
    IF r.ok THEN MembersText(r.h, ctx, i + 1, names,
                    text \o CommaAfter(text # <<LBrace>>) \o NewLine(ctx.gap, ctx.indent)
                         \o JS_ToQuotedString(names[i]) \o <<Colon>>
                         \o (IF ctx.gap = <<>> THEN <<>> ELSE <<Space>>) \o r.text)
    ELSE r
MemberChecked(ctx, i, names, text, c) ==
    CASE ~c.ok -> c
      [] c.v = Undefined -> MembersText(c.h, ctx, i + 1, names, text)
      [] OTHER -> MemberPrinted(ctx, i, names, text, js_json_to_str(c.h, ctx, c.v))
MembersText(h, ctx, i, names, text) ==
    LET o == Last(ctx.stack) IN
    IF i > Len(names)
    THEN Printed(text \o (IF text # <<LBrace>> THEN NewLine(ctx.gap, Around(ctx)) ELSE <<>>)
                      \o <<RBrace>>, h)
    ELSE MemberChecked(ctx, i, names, text,
            js_json_check(h, ctx.rep, o, GetProp(Obj(h[o].props), names[i]), names[i]))
NamesToPrint(h, rep, o) == IF rep.does = "list" THEN rep.list ELSE KeysOf(h[o].props)
js_json_to_str(h, ctx, val) ==
    LET o == val.o
        class == h[o].class IN
    CASE val.t = "bigint" -> Thrown("TypeError", h)
      [] val.t # "ref" -> Printed(PrimitiveText(val), h)
      [] class = "bigint" -> Thrown("TypeError", h)
      [] class = "wrapper" -> Printed(WrappedText(h[o].v), h)
      [] Circular(h, ctx.stack, o) -> Thrown("TypeError", h)
      [] class = "array" -> ElementsText(h, Deeper(ctx, o), 1, Len(h[o].els), <<LBracket>>)
      [] OTHER -> MembersText(h, Deeper(ctx, o), 1, NamesToPrint(h, ctx.rep, o), <<LBrace>>)

\* The list of names that an array makes, without repetitions.
NameOf(h, v) == IF v.t = "ref" THEN h[v.o].v ELSE v
NamesAName(h, v) == LET x == IF v.t = "ref" /\ h[v.o].class = "wrapper" THEN h[v.o].v ELSE v IN
                    x.t \in {"str", "num"}
PropertyList(h, items) ==
    FoldLeft(LAMBDA list, v : IF NamesAName(h, v) /\ NameOf(h, v).s \notin ToSet(list)
                              THEN Append(list, NameOf(h, v).s) ELSE list, <<>>, items)
GapLimit == 10
Gap(space) == CASE space.t = "count" -> [i \in 1 .. Max({0, Min({space.n, GapLimit})}) |-> Space]
                [] space.t = "str" -> SubSeq(space.s, 1, Min({Len(space.s), GapLimit}))
                [] OTHER -> <<>>
Replacer(h, rep) == IF rep.does = "list" THEN [rep EXCEPT !.list = PropertyList(h, rep.list)] ELSE rep
PrintChecked(c, rep, gap) ==
    CASE ~c.ok -> c
      [] c.v = Undefined -> [ok |-> TRUE, h |-> c.h]
      [] OTHER -> js_json_to_str(c.h, [rep |-> rep, stack |-> <<>>, gap |-> gap, indent |-> <<>>], c.v)
StringifyWith(h, obj, rep, gap) ==
    PrintChecked(js_json_check(h, rep, Wrapper, obj, <<>>), rep, gap)
JS_JSONStringify(h, obj, rep, space) ==
    StringifyWith(h, obj, Replacer(h, rep), Gap(space))

(***************************************************************************)
(* The Dart side.  toJSONStringVal prints the value and reads the result   *)
(* as a C string; toCString passes what JS_ToCString gives for an          *)
(* exception, a null pointer, to strlen.                                   *)
(***************************************************************************)
UndefinedWord == <<117, 110, 100, 101, 102, 105, 110, 101, 100>>
NoReplacer == [does |-> "none", k |-> <<>>, list |-> <<>>]
NoSpace == [t |-> "none"]
toCString(r) == CASE ~r.ok -> [dies |-> TRUE]
                  [] "text" \in DOMAIN r -> [dies |-> FALSE, text |-> r.text]
                  [] OTHER -> [dies |-> FALSE, text |-> UndefinedWord]
toJSONStringVal(h, obj) == toCString(JS_JSONStringify(h, obj, NoReplacer, NoSpace))

(***************************************************************************)
(* The calls that TLC makes.                                               *)
(***************************************************************************)
NameA == <<97>>
NameB == <<98>>
One == <<49>>
Quoted(s) == <<Quote>> \o s \o <<Quote>>

\* A word ends with a space, so that two do not become one.
Literals == {[s |-> One \o <<Space>>, v |-> Num(One)], [s |-> Quoted(NameA), v |-> Str(NameA)],
               [s |-> Quoted(NameB), v |-> Str(NameB)]}
Idents == {[s |-> NameA \o <<Space>>, v |-> Str(NameA)]}
Blank == <<Space, LF>>
TreeLiterals == {[s |-> One, v |-> Num(One)], [s |-> Quoted(NameA), v |-> Str(NameA)],
                 [s |-> Quoted(NameB), v |-> Str(NameB)], [s |-> NullWord, v |-> Null]}

\* A backslash with characters that may follow it and a digit that may not;
\* a control character and others that need no backslash.
BodyChars == {{Quote, Backslash, Slash, lower_n, lower_u, Nought}, {Quote, 31, 97, 8364}}
HexChars == {Nought, 100, 103}
\* What JavaScript lets follow a backslash, and JSON does not.
LooseChars == {NUL, Tab, LF, CR, Apostrophe, 55, 56, 113, lower_v, lower_x, LS, 8364}
BracedChars == {LBrace, RBrace, Nought, 103}
NumberChars == {{49, Nought, lower_e, Plus, Minus, Dot},
                {Nought, 49, lower_x, lower_b, lower_p, lower_e, Dot}}
StringChars == {NUL, Tab, 31, Quote, Backslash, Slash, 97, 55296, LS, 128512}

None == [does |-> "none", v |-> Null, o |-> 1]
Throws == [None EXCEPT !.does = "throw"]
Gives(v) == [None EXCEPT !.does = "give", !.v = v]
Cuts(o) == [None EXCEPT !.does = "cut", !.o = o]
PlainNode(props, m) == [class |-> "plain", props |-> props, m |-> m]
ArrayNode(els, m) == [class |-> "array", els |-> els, m |-> m]
BigNode == [class |-> "bigint", m |-> None]
FunctionNode == [class |-> "function", props |-> <<>>, m |-> None]
WrapperNode(v) == [class |-> "wrapper", v |-> v, m |-> None]
Function(k, does) == [does |-> does, k |-> k, list |-> <<>>]
List(items) == [does |-> "list", k |-> <<>>, list |-> items]
Count(n) == [t |-> "count", n |-> n]

Leaves == {Undefined, Null, BoolV(TRUE), Num(One), Num(NaNWord), Str(<<Quote, Tab>>),
           [t |-> "symbol"], Ref(3)}
\* Two containers that refer to each other, to themselves and to a leaf.
Graphs(ms) ==
    {<<x, y, z>> : x \in {PlainNode(<<Entry(NameA, v), Entry(NameB, w)>>, m) : v, w \in {Ref(1), Ref(2), Num(One)}, m \in ms}
                         \cup {ArrayNode(<<v, w>>, m) : v, w \in {Ref(2), Ref(3), Undefined}, m \in ms},
                   y \in {PlainNode(<<Entry(NameB, v)>>, m) : v \in {Ref(1), Ref(3), Str(NameA)}, m \in ms}
                         \cup {ArrayNode(<<v>>, m) : v \in {Ref(2), Ref(3)}, m \in ms},
                   z \in {FunctionNode, WrapperNode(Num(One)), BigNode, ArrayNode(<<>>, None)}}
\* Trees of leaves.
Trees == {<<PlainNode(<<Entry(NameA, v), Entry(NameB, Ref(2))>>, None), ArrayNode(<<v, w>>, None), z>> :
            v, w \in Leaves, z \in {FunctionNode, WrapperNode(Str(NameA)), WrapperNode(Num(NaNWord)),
                                    PlainNode(<<>>, None)}}
Lists == {List(<<Str(NameB), Num(One), Str(NameB), Null, Str(NameA)>>), List(<<Ref(3)>>), List(<<>>)}
Printouts ==
    {[h |-> Trees, v |-> {Ref(1)}, rep |-> {NoReplacer} \cup Lists,
      space |-> {NoSpace, Count(-1), Count(1), Count(11), Str(<<Tab>>)}],
     [h |-> Graphs({None, Throws, Gives(Num(One)), Gives(Ref(2)), Cuts(1), Cuts(2)}), v |-> {Ref(1)},
      rep |-> {NoReplacer, Function(NameA, "drop"), Function(NameB, "cut"), Function(<<48>>, "cut"),
               Function(NameB, "throw")}, space |-> {NoSpace, Count(1)}],
     [h |-> {<<FunctionNode>>}, v |-> (Leaves \ {Ref(3)}) \cup {Ref(1), [t |-> "bigint"]},
      rep |-> {NoReplacer}, space |-> {NoSpace}]}
Revivers == {[does |-> d, k |-> k] : d \in {"drop", "throw", "cut"}, k \in {<<>>, NameA, NameB, <<48>>, <<49>>}}
              \cup {[does |-> d, k |-> NameA] : d \in {"none", "same"}}

VARIABLES input, result
vars == <<input, result>>

ChunkTexts == {<<c>> : c \in {LBrace, RBrace, LBracket, RBracket, Comma, Colon}}
              \cup {l.s : l \in Literals \cup Idents} \cup {Blank}
Init == input = [op |-> "none"] /\ result = [ok |-> FALSE]
Idle == input.op = "none"
Call(i, r) == input' = i /\ result' = r

ParseCall ==
    /\ Idle
    /\ \E n \in 1 .. MaxChunks : \E chunks \in [1 .. n -> ChunkTexts] : \E ext \in BOOLEAN :
            Call([op |-> "parse", chunks |-> chunks, ext |-> ext],
                     JS_ParseJSON2(FlattenSeq(chunks), ext))
StringLiterals == UNION {[1 .. n -> C] : n \in 0 .. MaxBody, C \in BodyChars}
                  \cup {<<Backslash, lower_u>> \o d : d \in [1 .. 4 -> HexChars]}
                  \cup {<<Backslash, c, d, e>> : c \in LooseChars, d, e \in {Nought, 103, LF, Backslash}}
                  \cup {<<Backslash, c>> : c \in LooseChars}
                  \cup {<<Backslash, c>> \o d : c \in {lower_u, lower_x},
                                                d \in UNION {[1 .. n -> BracedChars] : n \in 1 .. MaxBody}}
                  \cup {<<Backslash, lower_u, LBrace>> \o d \o <<RBrace>> : d \in [1 .. 6 -> {Nought, 49}]}
NumberLiterals == UNION {[1 .. n -> C] : n \in 1 .. MaxNumber, C \in NumberChars}
StringCall ==
    /\ Idle
    /\ \E s \in StringLiterals :
        Call([op |-> "string", s |-> s], JS_ParseJSON2(<<Quote>> \o s \o <<Quote>>, FALSE))
NumberCall ==
    /\ Idle
    /\ \E s \in NumberLiterals, ext \in BOOLEAN :
        Call([op |-> "number", s |-> s, ext |-> ext], JS_ParseJSON2(s, ext))
QuoteCall == Idle /\ \E n \in 0 .. MaxString : \E s \in [1 .. n -> StringChars] :
                Call([op |-> "quote", s |-> s], JS_ParseJSON2(JS_ToQuotedString(s), FALSE))
StringifyCall == Idle /\ \E f \in Printouts : \E h \in f.h, v \in f.v, rep \in f.rep, space \in f.space :
                    Call([op |-> "stringify", h |-> h, v |-> v, rep |-> rep, space |-> space],
                         JS_JSONStringify(h, v, rep, space))
ReadCall == Idle /\ \E f \in Printouts : \E h \in f.h, v \in f.v :
                Call([op |-> "read", h |-> h, v |-> v], toJSONStringVal(h, v))

(***************************************************************************)
(* The grammar: for each number of chunks, the values, lists of elements   *)
(* and lists of members that long, with what they stand for.               *)
(***************************************************************************)
LastWins(entries) ==
    LET first == SelectSeq([i \in DOMAIN entries |-> i],
                           LAMBDA i : \A j \in 1 .. i - 1 : entries[j].k # entries[i].k)
        last(k) == Max({i \in DOMAIN entries : entries[i].k = k}) IN
    [i \in DOMAIN first |-> Entry(entries[first[i]].k, entries[last(entries[first[i]].k)].v)]
KeyTexts(literals, ext) == {l \in literals : l.v.t = "str"} \cup {x \in Idents : ext}
Bracketed(a, x, b, v) == [s |-> <<a>> \o x \o <<b>>, v |-> v]
Grammar(literals, ext, max) ==
    LET G[n \in 0 .. max] ==
        IF n = 0 THEN [val |-> {}, els |-> {}, mem |-> {}] ELSE
        LET inner == (IF n >= 2 THEN {[m |-> n - 2, c |-> <<>>]} ELSE {})
                     \cup (IF n >= 3 /\ ext THEN {[m |-> n - 3, c |-> <<Comma>>]} ELSE {})
            val == (IF n = 1 THEN literals ELSE {})
                \cup (IF n = 2 THEN {Bracketed(LBracket, <<>>, RBracket, Arr(<<>>)),
                                     Bracketed(LBrace, <<>>, RBrace, Obj(<<>>))} ELSE {})
                \cup UNION {{Bracketed(LBracket, e.s \o i.c, RBracket, Arr(e.v)) : e \in G[i.m].els} :
                            i \in inner}
                \cup UNION {{Bracketed(LBrace, e.s \o i.c, RBrace, Obj(LastWins(e.v))) : e \in G[i.m].mem} :
                            i \in inner}
            member(m) == {[s |-> k.s \o <<Colon>> \o x.s, v |-> <<Entry(k.v.s, x.v)>>] :
                            k \in KeyTexts(literals, ext), x \in G[m].val}
            pairs(A, B) == {[s |-> a.s \o <<Comma>> \o b.s, v |-> a.v \o b.v] : a \in A, b \in B}
            one(V) == {[s |-> x.s, v |-> <<x.v>>] : x \in V} IN
        [val |-> val,
         els |-> one(val) \cup UNION {pairs(G[i].els, one(G[n - 1 - i].val)) : i \in 1 .. n - 2},
         mem |-> (IF n >= 3 THEN member(n - 2) ELSE {})
                 \cup UNION {pairs(G[i].mem, member(n - 3 - i)) : i \in 1 .. n - 4}]
    IN [n \in 1 .. max |-> G[n].val]
StrictTexts == Grammar(Literals, FALSE, MaxChunks)
ExtendedTexts == Grammar(Literals, TRUE, MaxChunks)
TreeTexts == Grammar(TreeLiterals, FALSE, MaxTree)

ReviveCall == Idle /\ \E n \in 1 .. MaxTree : \E x \in TreeTexts[n] : \E r \in Revivers :
                Call([op |-> "revive", x |-> x, r |-> r], js_json_parse(x.s, r))

Next == ParseCall \/ StringCall \/ NumberCall \/ QuoteCall \/ StringifyCall \/ ReadCall \/ ReviveCall
Spec == Init /\ [][Next]_vars

\* JS_ParseJSON2 accepts exactly the texts of the JSON grammar, with white
\* space anywhere between its parts, and gives the tree they stand for; the
\* last of several properties of one name wins.  With the flag for extended
\* JSON it also accepts a comma at the end and names without quotes.
ParsesTheGrammar ==
    /\ input.op = "parse" =>
        LET chunks == SelectSeq(input.chunks, LAMBDA c : c # Blank)
            n == Len(chunks)
            all == IF n = 0 THEN {} ELSE (IF input.ext THEN ExtendedTexts ELSE StrictTexts)[n]
            fits == {x \in all : x.s = FlattenSeq(chunks)} IN
        IF fits = {} THEN ~result.ok
        ELSE result.ok /\ fits = {[s |-> FlattenSeq(chunks), v |-> result.v]}
    /\ input.op = "revive" /\ input.r.does = "none" => result = [ok |-> TRUE, v |-> input.x.v]

(***************************************************************************)
(* Literals.                                                               *)
(***************************************************************************)
EscapeLetters == {Quote, Backslash, Slash, lower_b, lower_f, lower_n, lower_r, lower_t}
HexDigits == Digit \cup 65 .. 70 \cup 97 .. 102
IsHex(s) == s # <<>> /\ ToSet(s) \subseteq HexDigits
HexNumber(s) == FoldLeft(LAMBDA n, c : 16 * n + from_hex(c), 0, s)
Unescaped(c) == CASE c = lower_b -> BS [] c = lower_f -> FF [] c = lower_n -> LF
                  [] c = lower_r -> CR [] c = lower_t -> Tab [] c = lower_v -> VT [] OTHER -> c
\* What one character or escape of JSON stands for.
JSONItem(s) ==
    CASE Len(s) = 1 /\ s[1] >= 32 /\ s[1] \notin {Quote, Backslash} -> {s}
      [] Len(s) = 2 /\ s[1] = Backslash /\ s[2] \in EscapeLetters -> {<<Unescaped(s[2])>>}
      [] Len(s) = 6 /\ s[1] = Backslash /\ s[2] = lower_u /\ IsHex(SubSeq(s, 3, 6)) ->
            {<<HexNumber(SubSeq(s, 3, 6))>>}
      [] OTHER -> {}
\* The escapes that js_parse_string takes beyond those of JSON: \v, a line end
\* that is skipped, \xHH, \u{H} and \x{H}, and any other character but the
\* digits 0 to 7, which stands for itself.
LooseItem(s) ==
    LET braced == SubSeq(s, 4, Len(s) - 1) IN
    CASE Len(s) < 2 \/ s[1] # Backslash -> {}
      [] Len(s) = 2 /\ s[2] \in {LF, CR, LS, PS} -> {<<>>}
      [] s = <<Backslash, CR, LF>> -> {<<>>}
      [] Len(s) = 2 /\ s[2] \notin 48 .. 55 \cup {lower_u, lower_x} -> {<<Unescaped(s[2])>>}
      [] Len(s) = 4 /\ s[2] = lower_x /\ IsHex(SubSeq(s, 3, 4)) -> {<<HexNumber(SubSeq(s, 3, 4))>>}
      [] Len(s) > 4 /\ s[2] \in {lower_u, lower_x} /\ s[3] = LBrace /\ Last(s) = RBrace
         /\ IsHex(braced) /\ HexNumber(braced) <= 1114111 -> {<<HexNumber(braced)>>}
      [] OTHER -> {}
\* What a body stands for; at lists where its characters and escapes start.
Body(s) ==
    UNION {LET ends == at \cup {Len(s) + 1}
               next(i) == Min({j \in ends : j > i})
               items == [i \in DOMAIN s |-> IF i \in at
                            THEN LET x == SubSeq(s, i, next(i) - 1) IN JSONItem(x) \cup LooseItem(x)
                            ELSE {<<>>}] IN
           IF (s # <<>> => 1 \in at) /\ \A i \in at : items[i] # {}
           THEN {FlattenSeq([i \in DOMAIN s |-> CHOOSE v \in items[i] : TRUE])} ELSE {} :
           at \in SUBSET DOMAIN s}
IsDigits(s) == s # <<>> /\ ToSet(s) \subseteq Digit
IsInteger(s) == IsDigits(s) /\ (Len(s) > 1 => s[1] # Nought)
IsSigned(s, P(_), signs) == s # <<>> /\ s[1] \in signs /\ P(Tail(s))
IsFraction(s) == s = <<>> \/ (s[1] = Dot /\ IsDigits(Tail(s)))
IsExponent(s, letter) == s = <<>> \/ (s[1] = letter /\ (IsDigits(Tail(s)) \/ IsSigned(Tail(s), IsDigits, {Plus, Minus})))
\* JSON's numbers; json_next_token and js_atof also take noughts in front,
\* behind a minus, and a dot without digits behind it.
IsNumber(s, signs) ==
    \E i \in 1 .. Len(s) : \E j \in i .. Len(s) :
        /\ IsInteger(SubSeq(s, 1, i)) \/ IsSigned(SubSeq(s, 1, i), IsDigits, signs)
        /\ IsFraction(SubSeq(s, i + 1, j)) \/ SubSeq(s, i + 1, j) = <<Dot>>
        /\ IsExponent(SubSeq(s, j + 1, Len(s)), lower_e)
\* Extended JSON: the numbers behind a prefix, NaN included.
IsRadixNumber(s) == Len(s) > 2 /\ s[1] = Nought /\ s[2] \in DOMAIN RadixOf
                    /\ \A i \in 3 .. Len(s) : s[i] \in Digits(RadixOf[s[2]])
IsRadixNaN(s) ==
    /\ Len(s) >= 2 /\ s[1] = Nought /\ s[2] \in DOMAIN RadixOf
    /\ \/ Len(s) = 2
       \/ \E i \in 3 .. Len(s) : \E j \in i .. Len(s) :
            /\ \A k \in 3 .. i : s[k] \in Digits(RadixOf[s[2]])
            /\ j = i \/ (s[i + 1] = Dot /\ \A k \in i + 2 .. j : s[k] \in Digits(RadixOf[s[2]]))
            /\ IsExponent(SubSeq(s, j + 1, Len(s)), lower_p)
            /\ i < Len(s)

\* js_parse_string and js_atof are shared with JavaScript.  What JSON has they
\* accept and read as JSON says.  Beyond that they accept the escapes of
\* LooseItem, as JavaScript reads them, noughts behind a minus, a dot at the end
\* of a number, and nothing else: no control character outside an escape, no
\* octal escape, no number that starts with a nought or a plus.  Extended JSON
\* adds the plus and the radix prefixes, of which a malformed one is NaN.
LiteralsAsJSON ==
    /\ input.op = "string" => Body(input.s) = IF result.ok THEN {result.v.s} ELSE {}
    /\ input.op = "number" /\ ~input.ext => (result.ok <=> IsNumber(input.s, {Minus}))
    /\ input.op = "number" /\ input.ext =>
        CASE IsRadixNumber(input.s) ->
                result = [ok |-> TRUE, v |-> RadixNum(SubSeq(input.s, 3, Len(input.s)), RadixOf[input.s[2]])]
          [] IsRadixNaN(input.s) -> result = [ok |-> TRUE, v |-> Num(NaNWord)]
          [] OTHER -> result.ok <=> IsNumber(input.s, {Minus, Plus})

\* A string printed by JS_ToQuotedString is read back as it was, control
\* characters, quotes and lone surrogates included.
StringsComeBack == input.op = "quote" => result = [ok |-> TRUE, v |-> Str(input.s)]

(***************************************************************************)
(* Printing.                                                               *)
(***************************************************************************)
\* A Number object of NaN is printed as NaN, where the language says null:
\* the text with these words mended.
HoldsNaN(h) == \E o \in DOMAIN h : h[o].class = "wrapper" /\ h[o].v = Num(NaNWord)
SaysNaN(text, i) == i \in 1 .. Len(text) - 2 /\ SubSeq(text, i, i + 2) = NaNWord
Mended(h, text) ==
    IF ~HoldsNaN(h) THEN text
    ELSE FlattenSeq([i \in DOMAIN text |-> CASE SaysNaN(text, i) -> NullWord
                                             [] SaysNaN(text, i - 1) \/ SaysNaN(text, i - 2) -> <<>>
                                             [] OTHER -> <<text[i]>>])
\* Whatever toJSON methods and replacers do to the objects while they are
\* printed, JS_JSONStringify gives a text that is JSON, but for the word NaN
\* where it prints a Number object of NaN.
TextIsJSON == input.op = "stringify" /\ result.ok /\ "text" \in DOMAIN result
                => JS_ParseJSON2(Mended(input.h, result.text), FALSE).ok

Plain(h) == \A o \in DOMAIN h : h[o].m.does = "none"
Visible(h, v) == v.t \notin {"undefined", "symbol"} /\ (v.t = "ref" => h[v.o].class # "function")
\* The names in the list of a replacer: strings, numbers and objects of them.
NamesIn(h, items) ==
    LET plain == [i \in DOMAIN items |-> IF items[i].t = "ref" /\ h[items[i].o].class = "wrapper"
                                         THEN h[items[i].o].v ELSE items[i]]
        names == SelectSeq(plain, LAMBDA x : x.t \in {"str", "num"})
        first == SelectSeq([i \in DOMAIN names |-> i],
                           LAMBDA i : \A j \in 1 .. i - 1 : names[j].s # names[i].s) IN
    [i \in DOMAIN first |-> names[first[i]].s]
RECURSIVE Shown(_, _, _)
Shown(h, v, rep) ==
    LET x == h[v.o]
        order == IF rep.does = "list" THEN NamesIn(h, rep.list) ELSE KeysOf(x.props)
        names == SelectSeq(order, LAMBDA k : \E e \in ToSet(x.props) : e.k = k /\ Visible(h, e.v)) IN
    CASE v.t = "num" /\ v.s = NaNWord -> Null
      [] v.t # "ref" -> v
      [] x.class = "wrapper" -> IF x.v = Num(NaNWord) THEN Null ELSE x.v
      [] x.class = "array" -> Arr([i \in DOMAIN x.els |->
                                    IF Visible(h, x.els[i]) THEN Shown(h, x.els[i], rep) ELSE Null])
      [] OTHER -> Obj([i \in DOMAIN names |-> Entry(names[i],
                        Shown(h, (CHOOSE e \in ToSet(x.props) : e.k = names[i]).v, rep))])
\* Without callbacks the text, read again, is the tree of the values that
\* JSON can show, in the order of the properties or of the replacer's list,
\* whatever the indentation (but for the Number objects of NaN).
ParsedBack ==
    input.op = "stringify" /\ Plain(input.h) /\ input.rep.does \in {"none", "list"} /\ result.ok =>
        IF "text" \in DOMAIN result
        THEN JS_ParseJSON2(Mended(input.h, result.text), FALSE) = [ok |-> TRUE, v |-> Shown(input.h, input.v, input.rep)]
        ELSE ~Visible(input.h, input.v)

\* A value is looked at first (its toJSON is called once), then shown.
Look(v) == [shown |-> FALSE, v |-> v]
Show(v) == [shown |-> TRUE, v |-> v]
Leads(h, n) ==
    CASE n.v.t # "ref" -> {}
      [] n.shown -> {Look(v) : v \in ToSet(Values(h[n.v.o]))}
      [] h[n.v.o].m.does = "give" -> {Show(h[n.v.o].m.v)}
      [] h[n.v.o].m.does = "throw" -> {}
      [] OTHER -> {Show(n.v)}
RECURSIVE ReachedIn(_, _, _)
ReachedIn(h, N, i) == IF i = 0 THEN N
                      ELSE ReachedIn(h, N \cup UNION {Leads(h, n) : n \in N}, i - 1)
Reached(h, N) == ReachedIn(h, N, 2 * Cardinality(DOMAIN h) + 1)
FailsAt(h, n) == IF n.v.t = "ref"
                 THEN IF n.shown THEN h[n.v.o].class = "bigint" \/ n \in Reached(h, Leads(h, n))
                      ELSE h[n.v.o].m.does = "throw"
                 ELSE n.v.t = "bigint"
\* The Dart side dies reading an object exactly when the object reaches
\* itself, a bigint or a toJSON that throws: toCString does not look at the
\* exception.  An object that is only reached twice does no harm.
DiesOnlyOnFailure ==
    input.op = "read" /\ (\A o \in DOMAIN input.h : input.h[o].m.does # "cut") =>
        (result.dies <=> \E n \in Reached(input.h, {Look(input.v)}) : FailsAt(input.h, n))

(***************************************************************************)
(* Reviving.                                                               *)
(***************************************************************************)
RECURSIVE Visits(_, _, _), Kept(_, _)
\* The tree with what the reviver takes away.  A cut takes the last property
\* of an object when the one named k is visited.
CutAt(v, r) == r.does = "cut" /\ IsTree(v) /\ r.k \in ToSet(Names(v))
Kept(v, r) ==
    LET names == IF ~IsTree(v) THEN <<>> ELSE
                 SelectSeq(Names(v), LAMBDA n : ~(r.does = "drop" /\ n = r.k)
                                                /\ ~(CutAt(v, r) /\ n = Last(Names(v)) /\ n # r.k)) IN
    CASE ~IsTree(v) -> v
      [] v.t = "arr" -> Arr([i \in DOMAIN v.els |-> IF IndexName(i) \in ToSet(names)
                                                    THEN Kept(v.els[i], r) ELSE Hole])
      [] OTHER -> Obj([i \in DOMAIN names |-> Entry(names[i], Kept(GetProp(v, names[i]), r))])
Visits(name, v, r) ==
    LET sub(n) == IF CutAt(v, r) /\ n = Last(Names(v)) /\ n # r.k THEN Undefined ELSE GetProp(v, n) IN
    IF ~IsTree(v) THEN <<Entry(name, v)>>
    ELSE Append(FlattenSeq([i \in DOMAIN Names(v) |-> Visits(Names(v)[i], sub(Names(v)[i]), r)]),
                Entry(name, Kept(v, r)))
\* internalize_json_property calls the reviver once for every property that
\* was there when its holder was entered, children first, and the tree keeps
\* what the reviver gave; a property that the reviver deleted from the holder
\* is still visited, as undefined.  An exception ends the walk.
RevivedAsLanguage ==
    input.op = "revive" /\ input.r.does # "none" =>
        LET all == Visits(<<>>, input.x.v, input.r)
            hits == {i \in DOMAIN all : all[i].k = input.r.k /\ input.r.does = "throw"} IN
        IF hits # {} THEN ~result.ok /\ result.log = SubSeq(all, 1, Min(hits))
        ELSE /\ result.ok
             /\ result.log = all
             /\ result.v = IF input.r.does = "drop" /\ input.r.k = <<>> THEN Undefined
                           ELSE Kept(input.x.v, input.r)
=============================================================================
