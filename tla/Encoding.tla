-------------------------------- MODULE Encoding -------------------------------
(***************************************************************************)
(* The texts that the Dart side turns into bytes and back: toArray, which  *)
(* callJSEncode uses for the JSON text of its parameters, the decoder that *)
(* scripts use on the other side, and trimQuote, which console output goes *)
(* through.  A string is a sequence of UTF-16 code units.                  *)
(***************************************************************************)
EXTENDS Integers, Sequences, FiniteSetsExt, SequencesExt

CONSTANTS
    Units,      \* code units that occur in strings
    HexUnits,   \* characters of a hex text
    MaxLen      \* bound: length of a string

VARIABLES
    job,        \* "send", "console" or "hex"
    text,       \* the string
    bytes,      \* what toArray gives
    out,        \* what arrives
    phase       \* "start", "sent", "done" or "exception"

vars == <<job, text, bytes, out, phase>>

Quote == 34
Backslash == 92
\* What a function returns, or that it throws.
Value(s) == [ok |-> TRUE, s |-> s]
Exception == [ok |-> FALSE]
Strings(A) == UNION {[1 .. k -> A] : k \in 0 .. MaxLen}

Init ==
    /\ job \in {"send", "console", "hex"}
    /\ text \in Strings(IF job = "hex" THEN HexUnits ELSE Units)
    /\ bytes = <<>> /\ out = <<>> /\ phase = "start"

\* jsonEncode, and JSON.stringify in toJSONString, of a string.
JSONText(s) ==
    LET esc(u) == IF u \in {Quote, Backslash} THEN <<Backslash, u>> ELSE <<u>>
    IN <<Quote>> \o FlattenSeq([i \in DOMAIN s |-> esc(s[i])]) \o <<Quote>>

\* toArray: one byte when the high one is zero.
ToArray(s) ==
    LET of(c) == IF c \div 256 > 0 THEN <<c \div 256, c % 256>> ELSE <<c % 256>>
    IN FlattenSeq([i \in DOMAIN s |-> of(s[i])])

\* toArray for "hex".  A digit is its value; LaterLetter is one that the filter
\* keeps and int.parse refuses, CapitalLetter one that the filter drops.
LaterLetter == 16
CapitalLetter == 17
\* Mutant: a text of odd length is not padded.
HexToArray(s) ==
    LET kept == SelectSeq(s, LAMBDA u : u # CapitalLetter)
        even == IF Len(kept) % 2 = 0 THEN kept ELSE <<0>> \o kept
    IN IF LaterLetter \in Range(even) THEN Exception
       ELSE Value([i \in 1 .. Len(even) \div 2 |-> even[2 * i - 1] * 16 + even[2 * i]])

\* Utf8ArrayToStr of the scripts; a byte that starts nothing is skipped, one
\* that is missing counts as 0.
RECURSIVE Utf8ArrayToStr(_)
Utf8ArrayToStr(b) ==
    LET c == b[1]
        low(i) == IF i > Len(b) THEN 0 ELSE b[i] % 64
        rest(n) == Utf8ArrayToStr(SubSeq(b, n + 1, Len(b)))
    IN IF b = <<>> THEN <<>>
       ELSE CASE c \div 16 < 8 -> <<c>> \o rest(1)
              [] c \div 16 \in {12, 13} -> <<(c % 32) * 64 + low(2)>> \o rest(2)
              [] c \div 16 = 14 -> <<(c % 16) * 4096 + low(2) * 64 + low(3)>> \o rest(3)
              [] OTHER -> rest(1)

\* Mutant: all quotes go.
TrimAll(s) == Value(SelectSeq(s, LAMBDA u : u # Quote))
TrimFront(s) == IF s # <<>> /\ s[1] = Quote THEN Tail(s) ELSE s
\* trimQuote: substring(0, -1) of an empty text throws.
TrimQuote(s) ==
    LET t == TrimFront(s)
    IN CASE t = <<>> -> Exception
         [] t # <<>> /\ Last(t) = Quote -> Value(Front(t))
         [] OTHER -> Value(t)

-----------------------------------------------------------------------------

\* _toUint8ArrayParams.
Send ==
    /\ job = "send" /\ phase = "start"
    /\ bytes' = ToArray(JSONText(text)) /\ phase' = "sent"
    /\ UNCHANGED <<job, text, out>>

\* The script gets the array buffer.
Receive ==
    /\ phase = "sent"
    /\ out' = Utf8ArrayToStr(bytes) /\ phase' = "done"
    /\ UNCHANGED <<job, text, bytes>>

\* A string argument of console.log.
ConsoleWrite ==
    LET r == TrimQuote(SelectSeq(JSONText(text), LAMBDA u : u # Backslash))
    IN /\ job = "console" /\ phase = "start"
       /\ phase' = IF r.ok THEN "done" ELSE "exception"
       /\ out' = IF r.ok THEN r.s ELSE out
       /\ UNCHANGED <<job, text, bytes>>

ParseHex ==
    LET r == HexToArray(text)
    IN /\ job = "hex" /\ phase = "start"
       /\ \/ r.ok /\ bytes' = r.s /\ phase' = "done"
          \/ ~r.ok /\ phase' = "exception" /\ UNCHANGED bytes
       /\ UNCHANGED <<job, text, out>>

Next == Send \/ Receive \/ ConsoleWrite \/ ParseHex

Spec == Init /\ [][Next]_vars

-----------------------------------------------------------------------------
(* Properties. *)

Arrived == job = "send" /\ phase = "done"

\* What callJSEncode sends is what the script reads, for texts of ASCII
\* characters, quotes among them.
AsciiArrives == Arrived /\ (\A i \in DOMAIN text : text[i] < 128) => out = JSONText(text)

\* Console output shows a string as it is, less its backslashes, also when it
\* begins or ends with quotes (trimQuote takes one pair) or is empty.
ConsoleShowsStrings ==
    job = "console" /\ phase # "start" =>
        phase = "done" /\ out = SelectSeq(text, LAMBDA u : u # Backslash)

\* Bytes of a hex text are the number that its digits write; a text with a
\* letter that is no digit is refused.
Number(digits, base) == FoldLeft(LAMBDA acc, d : acc * base + d, 0, digits)
HexIsTheNumber ==
    job = "hex" /\ phase # "start" =>
        IF LaterLetter \in Range(text) THEN phase = "exception"
        ELSE /\ phase = "done"
             /\ Number(bytes, 256) = Number(SelectSeq(text, LAMBDA u : u # CapitalLetter), 16)
================================================================================
