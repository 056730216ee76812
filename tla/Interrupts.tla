------------------------------ MODULE Interrupts ------------------------------
(***************************************************************************)
(* The interrupt handler, with which the host stops a script.  Every call  *)
(* and every branch of the bytecode counts down; at zero the handler of    *)
(* the runtime asks the Dart callback, and a nonzero answer throws an      *)
(* error that no catch block is to catch.  The stack of calls is modelled  *)
(* with the try blocks and for-of loops each of them is in, and with the   *)
(* native functions that call back into scripts and look at the outcome.   *)
(***************************************************************************)
EXTENDS Integers, Sequences, TLAPS

CONSTANTS
    CounterInit,    \* JS_INTERRUPT_COUNTER_INIT
    MaxDepth,       \* bound: nested calls
    MaxHandlers,    \* bound: nested try blocks and loops in one call
    MaxLine         \* bound: steps of a script between two branches

\* What scripts use besides calls and try blocks: native callers that keep an
\* exception to themselves, executor (new Promise) and async (an async
\* function), and for-of loops.
Features == {"executor", "async", "forof"}

VARIABLES
    uses,           \* the features that the scripts of this behaviour use
    frames,         \* the calls: who called, the handlers, what close holds back
    exc,            \* rt->current_exception while it unwinds
    counter,        \* ctx->interrupt_counter
    enabled,        \* rt->interrupt_handler is set
    bound,          \* bound_interrupt is set
    wanted,         \* what the Dart callback answers
    aborted,        \* where abort() was called
    line,           \* steps since the last branch
    ignored,        \* history: polls since the host wants the script to stop
    interrupted     \* history: the script the host called was interrupted

host == <<uses, enabled, bound, wanted, aborted>>
vars == <<frames, exc, counter, host, line, ignored, interrupted>>

Frame(caller, saved) == [caller |-> caller, handlers |-> <<>>, saved |-> saved]
Top == frames[Len(frames)]
Popped == SubSeq(frames, 1, Len(frames) - 1)
WithHandlers(hs) == [frames EXCEPT ![Len(frames)].handlers = hs]
DropHandler == WithHandlers(SubSeq(Top.handlers, 1, Len(Top.handlers) - 1))
Running == frames # <<>> /\ exc = "none" /\ aborted = "no"

Init ==
    /\ uses \in {{}, Features}
    /\ frames = <<>> /\ exc = "none" /\ counter = CounterInit
    /\ enabled = FALSE /\ bound = FALSE /\ wanted = FALSE /\ aborted = "no"
    /\ line = 0 /\ ignored = 0 /\ interrupted = FALSE

-----------------------------------------------------------------------------
(* Polling. *)

\* Mutant: the handler is asked once more often than the counter says.
CountedPastZero == IF counter = 0 THEN CounterInit ELSE counter - 1

\* js_poll_interrupts counts down and __js_poll_interrupts starts again.
Counted == IF counter <= 1 THEN CounterInit ELSE counter - 1
Asked == Counted = CounterInit /\ enabled

Stops == Asked /\ bound /\ wanted

\* A poll lets the script go on with the calls and the exception of one pair,
\* or interrupts it and leaves those of the other.
Poll(onFrames, onExc, cutFrames, cutExc) ==
    /\ counter' = Counted /\ line' = 0
    /\ frames' = IF Stops THEN cutFrames ELSE onFrames
    /\ exc' = IF Stops THEN cutExc ELSE onExc
    /\ interrupted' = (interrupted \/ Stops)
    /\ aborted' = IF Asked /\ ~bound THEN "handler" ELSE aborted
    /\ ignored' = IF enabled /\ wanted /\ ~Stops THEN ignored + 1 ELSE 0
    /\ UNCHANGED <<uses, enabled, bound, wanted>>

-----------------------------------------------------------------------------
(* The host. *)

SetInterruptCallback ==
    /\ aborted = "no" /\ bound' = TRUE
    /\ UNCHANGED <<uses, frames, exc, counter, enabled, wanted, aborted, line, ignored, interrupted>>

RuntimeEnableInterruptHandler ==
    /\ aborted = "no"
    /\ IF bound THEN enabled' = TRUE /\ UNCHANGED aborted
                ELSE aborted' = "enable" /\ UNCHANGED enabled
    /\ UNCHANGED <<uses, frames, exc, counter, bound, wanted, line, ignored, interrupted>>

RuntimeDisableInterruptHandler ==
    /\ aborted = "no" /\ enabled' = FALSE /\ ignored' = 0
    /\ UNCHANGED <<uses, frames, exc, counter, bound, wanted, aborted, line, interrupted>>

Want(b) ==
    /\ aborted = "no" /\ wanted # b /\ wanted' = b /\ ignored' = 0
    /\ UNCHANGED <<uses, frames, exc, counter, enabled, bound, aborted, line, interrupted>>

\* The host evaluates a script, calls a function or runs a job.
Enter ==
    /\ frames = <<>> /\ aborted = "no"
    /\ frames' = <<Frame("host", "none")>>
    /\ line' = 0
    /\ UNCHANGED <<exc, counter, host, ignored, interrupted>>

-----------------------------------------------------------------------------
(* The script. *)

\* OP_goto, OP_if_true, OP_if_false; also the poll at the start of a call.
Branch == Running /\ Poll(frames, "none", frames, "interrupted")

\* JS_CallInternal polls in the caller, before the new frame exists.
Call(caller) ==
    /\ Running /\ Len(frames) < MaxDepth
    /\ Poll(Append(frames, Frame(caller, "none")), "none", frames, "interrupted")

StraightLine ==
    /\ Running /\ line < MaxLine /\ line' = line + 1
    /\ UNCHANGED <<counter, host, ignored>>

EnterBlock(kind) ==
    /\ StraightLine /\ Len(Top.handlers) < MaxHandlers
    /\ frames' = WithHandlers(Append(Top.handlers, kind))
    /\ UNCHANGED <<exc, interrupted>>

LeaveTry ==
    /\ StraightLine /\ Top.handlers # <<>> /\ Top.handlers[Len(Top.handlers)] = "catch"
    /\ frames' = DropHandler
    /\ UNCHANGED <<exc, interrupted>>

\* OP_iterator_close calls the method return of the iterator.
LeaveForOf ==
    /\ Running /\ Top.handlers # <<>> /\ Top.handlers[Len(Top.handlers)] = "iter"
    /\ Len(frames) < MaxDepth
    /\ Poll(Append(DropHandler, Frame("script", "none")), "none", DropHandler, "interrupted")

Throw ==
    /\ StraightLine /\ exc' = "user"
    /\ UNCHANGED <<frames, interrupted>>

\* A method return called by JS_IteratorClose for an exception gives the
\* exception back to the frame that was being left.
Return ==
    /\ StraightLine /\ frames' = Popped
    /\ exc' = Top.saved
    /\ interrupted' = (interrupted /\ Len(frames) > 1)

-----------------------------------------------------------------------------
(* Exceptions. *)

Unwinding == exc # "none" /\ aborted = "no"

\* JS_IsUncatchableError decides whether the handlers are looked at.
Catchable == exc # "interrupted"

Handled(kind) ==
    /\ Unwinding /\ Catchable
    /\ Top.handlers # <<>> /\ Top.handlers[Len(Top.handlers)] = kind

Catch ==
    /\ Handled("catch")
    /\ frames' = DropHandler /\ exc' = "none"
    /\ UNCHANGED <<counter, host, line, ignored, interrupted>>

\* JS_IteratorClose with an exception pending: an exception of the method
\* return, an interruption included, gives way to the one that is pending.
CloseIterator ==
    /\ Handled("iter") /\ Len(frames) < MaxDepth
    /\ Poll(Append(DropHandler, Frame("close", exc)), "none", DropHandler, exc)

\* The iterator has no method return.
DropIterator ==
    /\ Handled("iter")
    /\ frames' = DropHandler
    /\ UNCHANGED <<exc, counter, host, line, ignored, interrupted>>

Unhandled == Unwinding /\ (Catchable => Top.handlers = <<>>)

\* A frame without a handler is left.
LeaveFrame ==
    /\ Unhandled /\ Top.caller \in {"host", "script", "close"}
    /\ frames' = Popped
    /\ exc' = IF Top.caller = "script" THEN exc ELSE Top.saved
    /\ interrupted' = (interrupted /\ Len(frames) > 1)
    /\ UNCHANGED <<counter, host, line, ignored>>

\* js_promise_constructor calls reject with the exception of the executor.
RejectExecutor ==
    /\ Unhandled /\ Top.caller = "executor"
    /\ Poll(Popped, "none", Popped, "interrupted")

\* js_async_function_resume calls reject with the exception of the body, and
\* drops what that call throws.
RejectAsync ==
    /\ Unhandled /\ Top.caller = "async"
    /\ Poll(Popped, "none", Popped, "none")

Script ==
    \/ Branch \/ LeaveTry \/ LeaveForOf \/ Throw \/ Return
    \/ \E k \in (uses \ {"forof"}) \cup {"script"} : Call(k)
    \/ \E k \in {"catch"} \cup (IF "forof" \in uses THEN {"iter"} ELSE {}) : EnterBlock(k)
    \/ Catch \/ CloseIterator \/ DropIterator
    \/ LeaveFrame \/ RejectExecutor \/ RejectAsync

Next ==
    \/ SetInterruptCallback \/ RuntimeEnableInterruptHandler
    \/ RuntimeDisableInterruptHandler \/ Enter
    \/ \E b \in BOOLEAN : Want(b)
    \/ Script

Spec == Init /\ [][Next]_vars

-----------------------------------------------------------------------------
(* Properties. *)

\* The frames, counters and flags that js_poll_interrupts and the exception
\* path of JS_CallInternal keep.
InterruptsTypeOK ==
    /\ counter \in 1 .. CounterInit /\ Len(frames) <= MaxDepth
    /\ exc \in {"none", "user", "interrupted"}
    /\ frames = <<>> => exc = "none" /\ ~interrupted

\* JS_IsUncatchableError, "used to avoid catching interrupt exceptions": a
\* script of calls and try blocks that was interrupted does not run on, in any
\* of its calls.
InterruptNotCaught == uses = {} /\ interrupted => exc = "interrupted"

\* A script does not get past as many polls as js_poll_interrupts counts while
\* the host wants it to stop, however calls, loops and natives are nested.
StopsWithinBudget == ignored < CounterInit

\* interrupt_handler finds the callback that runtimeEnableInterruptHandler
\* asked for: only enabling without one aborts, never a running script.
HandlerNeverUnbound == aborted # "handler"

\* js_poll_interrupts: a script stops within the polls that the counter
\* allows once the host wants it to, an interruption is not caught by scripts
\* of calls and try blocks, and the handler is never asked unbound.
InterruptStops ==
    /\ InterruptsTypeOK
    /\ StopsWithinBudget /\ InterruptNotCaught /\ HandlerNeverUnbound

-----------------------------------------------------------------------------
(* Proofs about polling.  What is left of the counter and the polls since    *)
(* the host wants the script to stop add up to no more than CounterInit,     *)
(* because a poll that resets the counter asks, and whoever is asked stops.  *)

\* The counter and the polls that were ignored.
Budget ==
    /\ counter \in 1 .. CounterInit /\ ignored \in Nat
    /\ ignored + counter <= CounterInit
\* Only a bound callback is enabled, and nothing but enabling aborts.
Bound ==
    /\ enabled \in BOOLEAN /\ bound \in BOOLEAN /\ wanted \in BOOLEAN
    /\ enabled = TRUE => bound = TRUE
    /\ aborted # "handler"

\* What the counter does in a poll.
LEMMA CountedRight ==
    ASSUME CounterInit \in Nat \ {0}, counter \in 1 .. CounterInit
    PROVE  /\ Counted \in 1 .. CounterInit
           /\ Counted # CounterInit => Counted = counter - 1
BY DEF Counted

\* js_poll_interrupts and __js_poll_interrupts.
LEMMA PollInBudget ==
    ASSUME CounterInit \in Nat \ {0}, Budget, Bound,
           NEW a, NEW b, NEW c, NEW d, Poll(a, b, c, d)
    PROVE  Budget' /\ Bound'
<1>1. /\ Counted \in 1 .. CounterInit
      /\ Counted # CounterInit => Counted = counter - 1
  BY CountedRight DEF Budget
<1>2. Asked => bound = TRUE
  BY DEF Asked, Bound
<1>3. aborted' = aborted /\ UNCHANGED <<enabled, bound, wanted>> /\ counter' = Counted
  BY <1>2 DEF Poll
<1>4. Bound'
  BY <1>3 DEF Bound
<1>5. CASE enabled /\ wanted /\ ~Stops
  <2>1. Counted # CounterInit
    BY <1>2, <1>5 DEF Stops, Asked
  <2>2. ignored' = ignored + 1
    BY <1>5 DEF Poll
  <2> QED
    BY <1>1, <1>3, <1>4, <2>1, <2>2 DEF Budget
<1>6. CASE ~(enabled /\ wanted /\ ~Stops)
  <2>1. ignored' = 0
    BY <1>6 DEF Poll
  <2> QED
    BY <1>1, <1>3, <1>4, <2>1 DEF Budget
<1> QED
  BY <1>5, <1>6

\* The actions that poll.
Polls == \E a, b, c, d : Poll(a, b, c, d)

\* Steps that neither poll nor belong to the host.
LEMMA ScriptPolls ==
    ASSUME Script
    PROVE  Polls \/ UNCHANGED <<counter, host, ignored>>
<1>1. CASE Branch \/ LeaveForOf \/ CloseIterator \/ RejectExecutor \/ RejectAsync
           \/ \E k \in (uses \ {"forof"}) \cup {"script"} : Call(k)
  BY <1>1 DEF Branch, LeaveForOf, CloseIterator, RejectExecutor, RejectAsync, Call,
              Polls
<1>2. CASE LeaveTry \/ Throw \/ Return
           \/ \E k \in {"catch"} \cup (IF "forof" \in uses THEN {"iter"} ELSE {}) :
                  EnterBlock(k)
  BY <1>2 DEF LeaveTry, Throw, Return, EnterBlock, StraightLine
<1>3. CASE Catch \/ DropIterator \/ LeaveFrame
  BY <1>3 DEF Catch, DropIterator, LeaveFrame
<1> QED
  BY <1>1, <1>2, <1>3 DEF Script

\* Every step stays in the budget.
LEMMA StepInBudget ==
    ASSUME CounterInit \in Nat \ {0}, Budget, Bound, [Next]_vars
    PROVE  Budget' /\ Bound'
<1>1. CASE Polls
  BY <1>1, PollInBudget DEF Polls
<1>2. CASE UNCHANGED <<counter, host, ignored>>
  BY <1>2 DEF host, Budget, Bound
<1>3. CASE SetInterruptCallback \/ RuntimeEnableInterruptHandler
  BY <1>3 DEF SetInterruptCallback, RuntimeEnableInterruptHandler, Budget, Bound
<1>4. CASE RuntimeDisableInterruptHandler \/ \E b \in BOOLEAN : Want(b)
  <2>1. UNCHANGED <<counter, bound, aborted>> /\ ignored' = 0
    BY <1>4 DEF RuntimeDisableInterruptHandler, Want
  <2>2. Budget'
    BY <2>1 DEF Budget
  <2>3. /\ enabled' \in {enabled, FALSE} /\ wanted' \in BOOLEAN
    BY <1>4 DEF RuntimeDisableInterruptHandler, Want, Bound
  <2> QED
    BY <2>1, <2>2, <2>3 DEF Bound
<1>5. CASE Enter
  BY <1>2, <1>5 DEF Enter
<1>6. CASE UNCHANGED vars
  BY <1>2, <1>6 DEF vars
<1> QED
  BY <1>1, <1>2, <1>3, <1>4, <1>5, <1>6, ScriptPolls DEF Next

\* The budget holds in every reachable state.
LEMMA AlwaysInBudget ==
    ASSUME CounterInit \in Nat \ {0} PROVE Spec => [](Budget /\ Bound)
<1>1. Init => Budget /\ Bound
  <2>1. Init => Budget
    BY DEF Init, Budget
  <2>2. Init => Bound
    BY DEF Init, Bound
  <2> QED
    BY <2>1, <2>2
<1>2. Budget /\ Bound /\ [Next]_vars => (Budget /\ Bound)'
  BY StepInBudget
<1> QED
  BY <1>1, <1>2, PTL DEF Spec

\* For the real length of the countdown as for every other: a script does not
\* get past as many polls as js_poll_interrupts counts while the host wants it
\* to stop, and interrupt_handler never finds bound_interrupt unset.
THEOREM ScriptsStopWithinBudget ==
    ASSUME CounterInit \in Nat \ {0}
    PROVE  Spec => [](StopsWithinBudget /\ HandlerNeverUnbound)
<1>1. Budget => StopsWithinBudget
  BY DEF Budget, StopsWithinBudget
<1>2. Bound => HandlerNeverUnbound
  BY DEF Bound, HandlerNeverUnbound
<1> QED
  BY <1>1, <1>2, AlwaysInBudget, PTL

-----------------------------------------------------------------------------
(* Proofs about interruptions, for scripts of calls and try blocks.  Their   *)
(* frames hold nothing back and are called by scripts, all but the first.    *)

\* The calls of such a script, and the exception that unwinds them.
PlainFrames == [caller : {"host", "script"}, handlers : Seq({"catch"}), saved : {"none"}]
PlainStack ==
    /\ frames \in Seq(PlainFrames)
    /\ \A j \in 1 .. Len(frames) : frames[j].caller = "host" <=> j = 1
Uncaught ==
    /\ interrupted \in BOOLEAN
    /\ interrupted = TRUE => exc = "interrupted"
    /\ frames = <<>> => exc = "none"
PlainScript == uses = {} => PlainStack /\ Uncaught

\* The running frame.
LEMMA PlainTop ==
    ASSUME PlainStack, frames # <<>>
    PROVE  /\ Top \in PlainFrames /\ Len(frames) \in Nat /\ Len(frames) >= 1
           /\ Top.caller = "host" <=> Len(frames) = 1
           /\ Top.handlers \in Seq({"catch"}) /\ Top.saved = "none"
           /\ Top.handlers # <<>> => Top.handlers[Len(Top.handlers)] = "catch"
           /\ Len(frames) = 1 \/ Len(frames) > 1
<1>1. /\ Top \in PlainFrames /\ Len(frames) \in Nat /\ Len(frames) >= 1
      /\ Top.caller = "host" <=> Len(frames) = 1
  <2>1. frames \in Seq(PlainFrames) /\ Len(frames) \in Nat /\ Len(frames) >= 1
    BY DEF PlainStack
  <2>2. frames[Len(frames)].caller = "host" <=> Len(frames) = 1
    <3>1. Len(frames) \in 1 .. Len(frames)
      BY <2>1
    <3>2. \A j \in 1 .. Len(frames) : frames[j].caller = "host" <=> j = 1
      BY DEF PlainStack
    <3> QED
      BY <3>1, <3>2, Zenon
  <2> QED
    BY <2>1, <2>2 DEF Top
<1>2. Top.handlers \in Seq({"catch"}) /\ Top.saved = "none"
  BY <1>1 DEF PlainFrames
<1>3. Top.handlers # <<>> => Top.handlers[Len(Top.handlers)] = "catch"
  BY <1>2
<1>4. Len(frames) = 1 \/ Len(frames) > 1
  <2>1. \A n \in Nat : n >= 1 => n = 1 \/ n > 1
    OBVIOUS
  <2> QED
    BY <1>1, <2>1, Zenon
<1> QED
  BY <1>1, <1>2, <1>3, <1>4, Zenon

\* A prefix of a sequence.
LEMMA Prefix ==
    ASSUME NEW S, NEW s \in Seq(S), NEW n \in 0 .. Len(s)
    PROVE  /\ SubSeq(s, 1, n) \in Seq(S) /\ Len(SubSeq(s, 1, n)) = n
           /\ \A i \in 1 .. n : SubSeq(s, 1, n)[i] = s[i]
OBVIOUS

\* The last frame is left.
LEMMA PlainPopped ==
    ASSUME PlainStack, frames # <<>>, frames' = Popped
    PROVE  PlainStack' /\ Len(frames') = Len(frames) - 1
<1>1. frames \in Seq(PlainFrames) /\ Len(frames) - 1 \in 0 .. Len(frames)
  BY PlainTop DEF PlainStack
<1>2. /\ frames' \in Seq(PlainFrames) /\ Len(frames') = Len(frames) - 1
      /\ \A j \in 1 .. Len(frames) - 1 : frames'[j] = frames[j]
  BY <1>1, Prefix DEF Popped
<1>3. \A j \in 1 .. Len(frames') : frames'[j].caller = "host" <=> j = 1
  BY <1>1, <1>2 DEF PlainStack
<1> QED
  BY <1>2, <1>3 DEF PlainStack

\* A script calls a function.
LEMMA PlainPushed ==
    ASSUME PlainStack, frames # <<>>, frames' = Append(frames, Frame("script", "none"))
    PROVE  PlainStack' /\ frames' # <<>>
<1> DEFINE f == Frame("script", "none")
<1>1. f \in PlainFrames /\ f.caller = "script"
  BY DEF Frame, PlainFrames
<1> HIDE DEF f
<1>2. frames \in Seq(PlainFrames) /\ Len(frames) \in Nat /\ Len(frames) >= 1
  BY PlainTop DEF PlainStack
<1>3. /\ frames' \in Seq(PlainFrames) /\ Len(frames') = Len(frames) + 1
      /\ frames'[Len(frames) + 1] = f
      /\ \A j \in 1 .. Len(frames) : frames'[j] = frames[j]
  BY <1>1, <1>2 DEF f
<1>4. \A j \in 1 .. Len(frames') : frames'[j].caller = "host" <=> j = 1
  BY <1>1, <1>2, <1>3 DEF PlainStack
<1>5. frames' # <<>>
  BY <1>2, <1>3
<1> QED
  BY <1>3, <1>4, <1>5 DEF PlainStack

\* A try block is entered or left.
LEMMA PlainHandlers ==
    ASSUME PlainStack, frames # <<>>, NEW hs \in Seq({"catch"}),
           frames' = WithHandlers(hs)
    PROVE  PlainStack' /\ frames' # <<>>
<1> DEFINE n == Len(frames)
           f == [Top EXCEPT !.handlers = hs]
<1>1. Top \in PlainFrames /\ n \in Nat /\ n >= 1 /\ frames \in Seq(PlainFrames)
  BY PlainTop DEF PlainStack
<1>2. f \in PlainFrames /\ f.caller = Top.caller
  BY <1>1 DEF PlainFrames
<1>3. frames' = [frames EXCEPT ![n] = f]
  BY DEF WithHandlers, Top
<1> HIDE DEF f
<1>4. /\ frames' \in Seq(PlainFrames) /\ Len(frames') = n /\ frames'[n] = f
      /\ \A j \in 1 .. n : j # n => frames'[j] = frames[j]
  BY <1>1, <1>2, <1>3
<1>5. \A j \in 1 .. Len(frames') : frames'[j].caller = "host" <=> j = 1
  BY <1>1, <1>2, <1>4 DEF PlainStack, Top
<1>6. frames' # <<>>
  BY <1>1, <1>4
<1> QED
  BY <1>4, <1>5, <1>6 DEF PlainStack

\* What a poll comes to.
LEMMA PollEffect ==
    ASSUME interrupted \in BOOLEAN, NEW a, NEW b, NEW c, NEW d, Poll(a, b, c, d)
    PROVE  /\ uses' = uses
           /\ \/ frames' = a /\ exc' = b /\ interrupted' = interrupted
              \/ frames' = c /\ exc' = d /\ interrupted' = TRUE
<1>1. CASE Stops
  BY <1>1 DEF Poll
<1>2. CASE ~Stops
  BY <1>2 DEF Poll
<1>3. uses' = uses
  BY DEF Poll
<1> QED
  BY <1>1, <1>2, <1>3

\* The script runs, so it has not been interrupted.
LEMMA RunningUninterrupted ==
    ASSUME Uncaught, exc # "interrupted"
    PROVE  interrupted = FALSE
BY DEF Uncaught

\* The steps of a script, by what they do to the stack of calls.
LEMMA PlainScriptStep ==
    ASSUME PlainStack, Uncaught, uses = {}, Script
    PROVE  PlainStack' /\ Uncaught' /\ uses' = uses
<1>1. frames # <<>>
  <2>1. frames # <<>> \/ exc # "none"
    BY DEF Script, Branch, LeaveTry, LeaveForOf, Throw, Return, Call, EnterBlock,
           StraightLine, Running, Catch, CloseIterator, DropIterator, Handled,
           LeaveFrame, RejectExecutor, RejectAsync, Unhandled, Unwinding
  <2> QED
    BY <2>1 DEF Uncaught
<1>2. interrupted \in BOOLEAN
  BY DEF Uncaught
<1>3. /\ Top.caller = "host" <=> Len(frames) = 1
      /\ Top.handlers \in Seq({"catch"}) /\ Top.saved = "none"
      /\ Top.handlers # <<>> => Top.handlers[Len(Top.handlers)] = "catch"
      /\ Top.caller \in {"host", "script"} /\ Len(frames) \in Nat
      /\ Len(frames) = 1 \/ Len(frames) > 1
  BY <1>1, PlainTop DEF PlainFrames
<1>4. CASE Branch
  <2>1. exc = "none" /\ Poll(frames, "none", frames, "interrupted")
    BY <1>4 DEF Branch, Running
  <2>2. /\ uses' = uses /\ frames' = frames
        /\ \/ exc' = "none" /\ interrupted' = interrupted
           \/ exc' = "interrupted" /\ interrupted' = TRUE
    BY <1>2, <2>1, PollEffect
  <2>3. interrupted = FALSE
    BY <2>1, RunningUninterrupted
  <2>4. PlainStack'
    BY <2>2 DEF PlainStack
  <2> QED
    BY <1>1, <2>2, <2>3, <2>4 DEF Uncaught
<1>5. CASE \E k \in (uses \ {"forof"}) \cup {"script"} : Call(k)
  <2> DEFINE more == Append(frames, Frame("script", "none"))
  <2>1. exc = "none" /\ Poll(more, "none", frames, "interrupted")
    BY <1>5 DEF Call, Running
  <2> HIDE DEF more
  <2>2. /\ uses' = uses
        /\ \/ frames' = more /\ exc' = "none" /\ interrupted' = interrupted
           \/ frames' = frames /\ exc' = "interrupted" /\ interrupted' = TRUE
    BY <1>2, <2>1, PollEffect
  <2>3. interrupted = FALSE
    BY <2>1, RunningUninterrupted
  <2>4. PlainStack' /\ frames' # <<>>
    <3>1. CASE frames' = more
      BY <1>1, <3>1, PlainPushed DEF more
    <3>2. CASE frames' = frames
      BY <1>1, <3>2 DEF PlainStack
    <3> QED
      BY <2>2, <3>1, <3>2
  <2> QED
    BY <2>2, <2>3, <2>4 DEF Uncaught
<1>6. CASE \/ LeaveTry \/ Catch
           \/ \E k \in {"catch"} \cup (IF "forof" \in uses THEN {"iter"} ELSE {}) :
                  EnterBlock(k)
  <2>1. exc # "interrupted" /\ exc' = "none" /\ UNCHANGED <<uses, interrupted>>
    BY <1>6 DEF LeaveTry, Catch, EnterBlock, StraightLine, Running, Handled,
                Unwinding, Catchable, host
  <2>2. \E hs \in Seq({"catch"}) : frames' = WithHandlers(hs)
    <3>1. CASE LeaveTry \/ Catch
      <4> DEFINE hs == SubSeq(Top.handlers, 1, Len(Top.handlers) - 1)
      <4>1. Top.handlers # <<>> /\ frames' = WithHandlers(hs)
        BY <3>1 DEF LeaveTry, Catch, Handled, DropHandler
      <4>2. Len(Top.handlers) - 1 \in 0 .. Len(Top.handlers)
        BY <1>3, <4>1
      <4>3. hs \in Seq({"catch"})
        BY <1>3, <4>2, Prefix
      <4> QED
        BY <4>1, <4>3
    <3>2. CASE EnterBlock("catch")
      <4>1. frames' = WithHandlers(Append(Top.handlers, "catch"))
        BY <3>2 DEF EnterBlock
      <4>2. Append(Top.handlers, "catch") \in Seq({"catch"})
        BY <1>3
      <4> QED
        BY <4>1, <4>2
    <3> QED
      BY <1>6, <3>1, <3>2
  <2>3. PlainStack' /\ frames' # <<>>
    BY <1>1, <2>2, PlainHandlers
  <2>4. interrupted = FALSE
    BY <2>1, RunningUninterrupted
  <2> QED
    BY <2>1, <2>3, <2>4 DEF Uncaught
<1>7. CASE LeaveForOf \/ CloseIterator \/ DropIterator
  BY <1>3, <1>7 DEF LeaveForOf, CloseIterator, DropIterator, Handled
<1>8. CASE Throw
  <2>1. /\ exc = "none" /\ exc' = "user"
        /\ UNCHANGED <<frames, uses, interrupted>>
    BY <1>8 DEF Throw, StraightLine, Running, host
  <2>2. interrupted = FALSE
    BY <2>1, RunningUninterrupted
  <2>3. PlainStack'
    BY <2>1 DEF PlainStack
  <2> QED
    BY <1>1, <2>1, <2>2, <2>3 DEF Uncaught
<1>9. CASE Return
  <2>1. /\ exc = "none" /\ exc' = "none" /\ frames' = Popped /\ uses' = uses
        /\ interrupted' = (interrupted /\ Len(frames) > 1)
    BY <1>3, <1>9 DEF Return, StraightLine, Running, host
  <2>2. interrupted = FALSE
    BY <2>1, RunningUninterrupted
  <2>3. PlainStack'
    BY <1>1, <2>1, PlainPopped
  <2> QED
    BY <2>1, <2>2, <2>3 DEF Uncaught
<1>10. CASE LeaveFrame
  <2>1. /\ frames' = Popped /\ uses' = uses
        /\ exc' = IF Top.caller = "script" THEN exc ELSE "none"
        /\ interrupted' = (interrupted /\ Len(frames) > 1)
    BY <1>3, <1>10 DEF LeaveFrame, host
  <2>2. PlainStack' /\ Len(frames') = Len(frames) - 1
    BY <1>1, <2>1, PlainPopped
  <2>3. CASE Len(frames) = 1
    <3>0. ~(Len(frames) > 1) /\ Top.caller # "script"
      BY <1>3, <2>3
    <3>1. exc' = "none" /\ interrupted' = FALSE
      BY <2>1, <3>0, Zenon
    <3> QED
      BY <2>1, <2>2, <3>1 DEF Uncaught
  <2>4. CASE Len(frames) # 1
    <3>0. Len(frames) > 1 /\ Top.caller = "script"
      <4>1. Len(frames) > 1
        BY <1>3, <2>4, Zenon
      <4>2. Top.caller = "script"
        BY <1>3, <2>4, Zenon
      <4> QED
        BY <4>1, <4>2
    <3>1. exc' = exc /\ interrupted' = interrupted
      BY <1>2, <2>1, <3>0, Zenon
    <3>2. frames' # <<>>
      BY <1>3, <2>2, <2>4
    <3> QED
      BY <2>1, <2>2, <3>1, <3>2 DEF Uncaught
  <2> QED
    BY <2>3, <2>4
<1>11. CASE RejectExecutor \/ RejectAsync
  BY <1>3, <1>11 DEF RejectExecutor, RejectAsync
<1> QED
  BY <1>4, <1>5, <1>6, <1>7, <1>8, <1>9, <1>10, <1>11 DEF Script

\* Every step.
LEMMA PlainStep ==
    ASSUME PlainScript, [Next]_vars
    PROVE  PlainScript'
<1>1. CASE Script /\ uses = {}
  BY <1>1, PlainScriptStep DEF PlainScript
<1>2. CASE Enter /\ uses = {}
  <2>1. frames = <<>> /\ frames' = <<Frame("host", "none")>>
        /\ UNCHANGED <<exc, interrupted>>
    BY <1>2 DEF Enter
  <2>2. interrupted = FALSE /\ exc = "none" /\ Uncaught
    BY <1>2, <2>1, RunningUninterrupted DEF PlainScript, Uncaught
  <2>3. PlainStack'
    <3> DEFINE f == Frame("host", "none")
    <3>1. f \in PlainFrames /\ f.caller = "host"
      BY DEF Frame, PlainFrames
    <3> HIDE DEF f
    <3>2. /\ frames' \in Seq(PlainFrames) /\ Len(frames') = 1 /\ frames'[1] = f
      BY <2>1, <3>1 DEF f
    <3> QED
      BY <3>1, <3>2 DEF PlainStack
  <2>4. Uncaught'
    BY <2>1, <2>2 DEF Uncaught
  <2> QED
    BY <2>3, <2>4 DEF PlainScript
<1>3. CASE /\ \/ SetInterruptCallback \/ RuntimeEnableInterruptHandler
              \/ RuntimeDisableInterruptHandler \/ \E b \in BOOLEAN : Want(b)
              \/ UNCHANGED vars
           /\ uses = {}
  <2>1. UNCHANGED <<frames, exc, interrupted>>
    BY <1>3 DEF SetInterruptCallback, RuntimeEnableInterruptHandler,
                RuntimeDisableInterruptHandler, Want, vars
  <2>2. PlainStack' /\ Uncaught'
    BY <1>3, <2>1 DEF PlainScript, PlainStack, Uncaught
  <2> QED
    BY <2>2 DEF PlainScript
<1>4. CASE uses # {}
  <2>1. uses' = uses
    BY DEF Next, vars, host, SetInterruptCallback, RuntimeEnableInterruptHandler,
           RuntimeDisableInterruptHandler, Want, Enter, Script, Branch, LeaveTry,
           LeaveForOf, Throw, Return, Call, EnterBlock, StraightLine, Catch,
           CloseIterator, DropIterator, LeaveFrame, RejectExecutor, RejectAsync, Poll
  <2> QED
    BY <1>4, <2>1 DEF PlainScript
<1> QED
  BY <1>1, <1>2, <1>3, <1>4 DEF Next

\* An interrupted script of calls and try blocks is left by all its calls: no
\* catch block catches the interruption, at any depth.
THEOREM InterruptionsPassThrough == Spec => []InterruptNotCaught
<1>1. Init => PlainScript
  <2>1. Init => Uncaught
    BY DEF Init, Uncaught
  <2>2. Init => PlainStack
    BY DEF Init, PlainStack
  <2> QED
    BY <2>1, <2>2 DEF PlainScript
<1>2. PlainScript => InterruptNotCaught
  BY DEF PlainScript, Uncaught, InterruptNotCaught
<1> QED
  BY <1>1, <1>2, PlainStep, PTL DEF Spec

-----------------------------------------------------------------------------
(* Proofs about the calls, for every script.  The first frame is the one the *)
(* host called and holds no exception back, so whatever the natives and the  *)
(* loops between do, the host is left without a pending exception.           *)

\* The calls of any script.
AnyFrames ==
    [caller : {"host", "script", "close"} \cup Features,
     handlers : Seq({"catch", "iter"}), saved : {"none", "user"}]
Calls(fs) ==
    /\ fs \in Seq(AnyFrames) /\ Len(fs) <= MaxDepth
    /\ \A j \in 1 .. Len(fs) : /\ fs[j].caller = "host" <=> j = 1
                               /\ fs[j].caller = "host" => fs[j].saved = "none"
LeftClean ==
    /\ interrupted \in BOOLEAN /\ uses \subseteq Features
    /\ exc \in {"none", "user", "interrupted"}
    /\ frames = <<>> => exc = "none" /\ interrupted = FALSE
Stacked == Calls(frames) /\ LeftClean

\* The running frame.
LEMMA CallsTop ==
    ASSUME NEW fs, Calls(fs), fs # <<>>
    PROVE  /\ fs \in Seq(AnyFrames) /\ Len(fs) \in Nat /\ Len(fs) >= 1
           /\ Len(fs) <= MaxDepth /\ fs[Len(fs)] \in AnyFrames
           /\ fs[Len(fs)].caller = "host" <=> Len(fs) = 1
           /\ fs[Len(fs)].caller = "host" => fs[Len(fs)].saved = "none"
<1>1. /\ fs \in Seq(AnyFrames) /\ Len(fs) \in Nat /\ Len(fs) >= 1
      /\ Len(fs) <= MaxDepth
  BY DEF Calls
<1>2. Len(fs) \in 1 .. Len(fs)
  BY <1>1
<1>3. fs[Len(fs)] \in AnyFrames
  BY <1>1, <1>2
<1>4. /\ fs[Len(fs)].caller = "host" <=> Len(fs) = 1
      /\ fs[Len(fs)].caller = "host" => fs[Len(fs)].saved = "none"
  BY <1>2, Zenon DEF Calls
<1> QED
  BY <1>1, <1>3, <1>4, Zenon

\* The last frame is left.
LEMMA CallsPopped ==
    ASSUME NEW fs, Calls(fs), fs # <<>>, MaxDepth \in Nat
    PROVE  /\ Calls(SubSeq(fs, 1, Len(fs) - 1))
           /\ Len(fs) # 1 => SubSeq(fs, 1, Len(fs) - 1) # <<>>
<1> DEFINE n == Len(fs) - 1
           s == SubSeq(fs, 1, n)
<1>1. /\ fs \in Seq(AnyFrames) /\ Len(fs) \in Nat /\ Len(fs) >= 1
      /\ Len(fs) <= MaxDepth
  BY CallsTop
<1>2. n \in 0 .. Len(fs) /\ n < Len(fs)
  BY <1>1
<1>3. s \in Seq(AnyFrames) /\ Len(s) = n /\ \A j \in 1 .. n : s[j] = fs[j]
  BY <1>1, <1>2, Prefix
<1> HIDE DEF s
<1>4. ASSUME NEW j \in 1 .. Len(s)
      PROVE  /\ s[j].caller = "host" <=> j = 1
             /\ s[j].caller = "host" => s[j].saved = "none"
  <2>1. j \in 1 .. Len(fs) /\ s[j] = fs[j]
    BY <1>1, <1>2, <1>3
  <2>2. /\ fs[j].caller = "host" <=> j = 1
        /\ fs[j].caller = "host" => fs[j].saved = "none"
    BY <2>1, Zenon DEF Calls
  <2> QED
    BY <2>1, <2>2
<1>5. Len(s) <= MaxDepth /\ (Len(fs) # 1 => s # <<>>)
  BY <1>1, <1>3
<1>6. Calls(s)
  BY <1>3, <1>4, <1>5 DEF Calls
<1> QED
  BY <1>5, <1>6 DEF s

\* A function is called.
LEMMA CallsPushed ==
    ASSUME NEW fs, Calls(fs), fs # <<>>, Len(fs) < MaxDepth, MaxDepth \in Nat,
           NEW f \in AnyFrames, f.caller # "host"
    PROVE  Calls(Append(fs, f)) /\ Append(fs, f) # <<>>
<1> DEFINE s == Append(fs, f)
<1>1. fs \in Seq(AnyFrames) /\ Len(fs) \in Nat /\ Len(fs) >= 1
  BY CallsTop
<1>2. /\ s \in Seq(AnyFrames) /\ Len(s) = Len(fs) + 1 /\ s[Len(fs) + 1] = f
      /\ \A j \in 1 .. Len(fs) : s[j] = fs[j]
  BY <1>1
<1> HIDE DEF s
<1>3. ASSUME NEW j \in 1 .. Len(s)
      PROVE  /\ s[j].caller = "host" <=> j = 1
             /\ s[j].caller = "host" => s[j].saved = "none"
  <2>1. CASE j \in 1 .. Len(fs)
    BY <1>2, <2>1, Zenon DEF Calls
  <2>2. CASE j = Len(fs) + 1
    BY <1>1, <1>2, <2>2
  <2> QED
    BY <1>1, <1>2, <2>1, <2>2
<1>4. Len(s) <= MaxDepth /\ s # <<>>
  BY <1>1, <1>2
<1>5. Calls(s)
  BY <1>2, <1>3, <1>4 DEF Calls
<1> QED
  BY <1>4, <1>5 DEF s

\* A block is entered or left.
LEMMA CallsHandlers ==
    ASSUME Calls(frames), frames # <<>>, NEW hs \in Seq({"catch", "iter"})
    PROVE  /\ Calls(WithHandlers(hs)) /\ WithHandlers(hs) # <<>>
           /\ Len(WithHandlers(hs)) = Len(frames)
<1> DEFINE n == Len(frames)
           f == [Top EXCEPT !.handlers = hs]
           s == WithHandlers(hs)
<1>1. /\ frames \in Seq(AnyFrames) /\ n \in Nat /\ n >= 1 /\ n <= MaxDepth
      /\ Top \in AnyFrames
      /\ Top.caller = "host" <=> n = 1
      /\ Top.caller = "host" => Top.saved = "none"
  BY CallsTop DEF Top
<1>2. f \in AnyFrames /\ f.caller = Top.caller /\ f.saved = Top.saved
  BY <1>1 DEF AnyFrames
<1>3. s = [frames EXCEPT ![n] = f]
  BY DEF WithHandlers, Top
<1> HIDE DEF f, s
<1>4. /\ s \in Seq(AnyFrames) /\ Len(s) = n /\ s[n] = f
      /\ \A j \in 1 .. n : j # n => s[j] = frames[j]
  BY <1>1, <1>2, <1>3
<1>5. ASSUME NEW j \in 1 .. Len(s)
      PROVE  /\ s[j].caller = "host" <=> j = 1
             /\ s[j].caller = "host" => s[j].saved = "none"
  <2>1. CASE j = n
    BY <1>1, <1>2, <1>4, <2>1
  <2>2. CASE j # n
    <3>1. j \in 1 .. Len(frames) /\ s[j] = frames[j]
      BY <1>4, <2>2
    <3>2. /\ frames[j].caller = "host" <=> j = 1
          /\ frames[j].caller = "host" => frames[j].saved = "none"
      BY <3>1, Zenon DEF Calls
    <3> QED
      BY <3>1, <3>2
  <2> QED
    BY <2>1, <2>2
<1>6. s # <<>>
  BY <1>1, <1>4
<1>7. Calls(s)
  BY <1>1, <1>4, <1>5 DEF Calls
<1> QED
  BY <1>4, <1>6, <1>7 DEF s

\* The innermost handler of a frame that has one.
LEMMA HandlerDropped ==
    ASSUME Calls(frames), frames # <<>>, Top.handlers # <<>>
    PROVE  /\ Calls(DropHandler) /\ DropHandler # <<>>
           /\ Len(DropHandler) = Len(frames)
<1> DEFINE hs == Top.handlers
           H == {"catch", "iter"}
<1>1. Top \in AnyFrames
  BY CallsTop DEF Top
<1>2. hs \in Seq(H)
  BY <1>1 DEF AnyFrames
<1>3. Len(hs) - 1 \in 0 .. Len(hs)
  BY <1>2
<1>4. SubSeq(hs, 1, Len(hs) - 1) \in Seq(H)
  BY <1>2, <1>3, Prefix
<1> QED
  BY <1>4, CallsHandlers DEF DropHandler

\* A frame that a native or the engine makes.
LEMMA FrameMade ==
    ASSUME NEW c \in {"script", "close"} \cup Features, NEW e \in {"none", "user"}
    PROVE  Frame(c, e) \in AnyFrames /\ Frame(c, e).caller # "host"
<1>1. <<>> \in Seq({"catch", "iter"}) /\ "host" \notin Features
  BY DEF Features
<1> QED
  BY <1>1 DEF Frame, AnyFrames, Features

\* A step that leaves calls in place leaves the host nothing to look at.
LEMMA StillCalled ==
    ASSUME Calls(frames'), frames' # <<>>, interrupted' \in BOOLEAN,
           uses \subseteq Features, uses' = uses,
           exc' \in {"none", "user", "interrupted"}
    PROVE  Stacked'
BY DEF Stacked, LeftClean

\* The steps of a script.
LEMMA ScriptStacked ==
    ASSUME Stacked, Script, MaxDepth \in Nat \ {0}
    PROVE  Stacked'
<1>1. /\ Calls(frames) /\ interrupted \in BOOLEAN /\ uses \subseteq Features
      /\ exc \in {"none", "user", "interrupted"} /\ MaxDepth \in Nat
      /\ frames = <<>> => exc = "none" /\ interrupted = FALSE
  BY DEF Stacked, LeftClean
<1>2. frames # <<>>
  <2>1. frames # <<>> \/ exc # "none"
    BY DEF Script, Branch, LeaveTry, LeaveForOf, Throw, Return, Call, EnterBlock,
           StraightLine, Running, Catch, CloseIterator, DropIterator, Handled,
           LeaveFrame, RejectExecutor, RejectAsync, Unhandled, Unwinding
  <2> QED
    BY <1>1, <2>1
<1>3. /\ Len(frames) \in Nat /\ Len(frames) >= 1 /\ Top \in AnyFrames
      /\ Top.caller = "host" <=> Len(frames) = 1
      /\ Top.caller = "host" => Top.saved = "none"
  BY <1>1, <1>2, CallsTop DEF Top
<1>4. /\ Top.saved \in {"none", "user"}
      /\ Top.handlers \in Seq({"catch", "iter"})
  BY <1>3 DEF AnyFrames
<1>5. Calls(Popped) /\ (Len(frames) # 1 => Popped # <<>>)
  BY <1>1, <1>2, CallsPopped DEF Popped
<1>6. ASSUME NEW a, NEW c, NEW b \in {"none", "user"},
             NEW d \in {"none", "user", "interrupted"}, Poll(a, b, c, d),
             Calls(a), Calls(c), a # <<>>, c # <<>>
      PROVE  Stacked'
  <2>1. /\ uses' = uses
        /\ \/ frames' = a /\ exc' = b /\ interrupted' = interrupted
           \/ frames' = c /\ exc' = d /\ interrupted' = TRUE
    BY <1>1, <1>6, PollEffect
  <2>2. Calls(frames') /\ frames' # <<>>
    BY <1>6, <2>1
  <2>3. interrupted' \in BOOLEAN /\ exc' \in {"none", "user", "interrupted"}
    BY <1>1, <1>6, <2>1
  <2> QED
    BY <1>1, <2>1, <2>2, <2>3, StillCalled
<1>7. CASE Branch
  <2>1. Poll(frames, "none", frames, "interrupted")
    BY <1>7 DEF Branch
  <2> QED
    BY <1>1, <1>2, <1>6, <2>1
<1>8. ASSUME NEW k \in (uses \ {"forof"}) \cup {"script"}, Call(k) PROVE Stacked'
  <2>1. /\ Len(frames) < MaxDepth
        /\ Poll(Append(frames, Frame(k, "none")), "none", frames, "interrupted")
    BY <1>8 DEF Call
  <2>2. Frame(k, "none") \in AnyFrames /\ Frame(k, "none").caller # "host"
    BY <1>1, FrameMade
  <2>3. /\ Calls(Append(frames, Frame(k, "none")))
        /\ Append(frames, Frame(k, "none")) # <<>>
    BY <1>1, <1>2, <2>1, <2>2, CallsPushed
  <2> QED
    BY <1>1, <1>2, <1>6, <2>1, <2>3
<1>9. CASE LeaveForOf
  <2> DEFINE fs == DropHandler
             f == Frame("script", "none")
  <2>1. /\ Top.handlers # <<>> /\ Len(frames) < MaxDepth
        /\ Poll(Append(fs, f), "none", fs, "interrupted")
    BY <1>9 DEF LeaveForOf
  <2>2. Calls(fs) /\ fs # <<>> /\ Len(fs) < MaxDepth
    BY <1>1, <1>2, <2>1, HandlerDropped
  <2>3. f \in AnyFrames /\ f.caller # "host"
    BY FrameMade
  <2> HIDE DEF fs, f
  <2>4. Calls(Append(fs, f)) /\ Append(fs, f) # <<>>
    BY <1>1, <2>2, <2>3, CallsPushed
  <2> QED
    BY <1>6, <2>1, <2>2, <2>4
<1>10. CASE CloseIterator
  <2> DEFINE fs == DropHandler
             f == Frame("close", exc)
  <2>1. /\ Top.handlers # <<>> /\ Len(frames) < MaxDepth /\ exc = "user"
        /\ Poll(Append(fs, f), "none", fs, exc)
    BY <1>1, <1>10 DEF CloseIterator, Handled, Unwinding, Catchable
  <2>2. Calls(fs) /\ fs # <<>> /\ Len(fs) < MaxDepth
    BY <1>1, <1>2, <2>1, HandlerDropped
  <2>3. f \in AnyFrames /\ f.caller # "host"
    BY <2>1, FrameMade
  <2> HIDE DEF fs, f
  <2>4. Calls(Append(fs, f)) /\ Append(fs, f) # <<>>
    BY <1>1, <2>2, <2>3, CallsPushed
  <2> QED
    BY <1>6, <2>1, <2>2, <2>4
<1>11. CASE LeaveTry \/ Catch \/ DropIterator
  <2>1. /\ Top.handlers # <<>> /\ frames' = DropHandler
        /\ exc' \in {exc, "none"} /\ UNCHANGED <<uses, interrupted>>
    BY <1>11 DEF LeaveTry, Catch, DropIterator, Handled, StraightLine, host
  <2>2. Calls(frames') /\ frames' # <<>>
    BY <1>1, <1>2, <2>1, HandlerDropped
  <2> QED
    BY <1>1, <2>1, <2>2, StillCalled
<1>12. ASSUME NEW k \in {"catch", "iter"}, EnterBlock(k) PROVE Stacked'
  <2>1. /\ frames' = WithHandlers(Append(Top.handlers, k))
        /\ UNCHANGED <<uses, exc, interrupted>>
    BY <1>12 DEF EnterBlock, StraightLine, host
  <2>2. Append(Top.handlers, k) \in Seq({"catch", "iter"})
    BY <1>4
  <2>3. Calls(frames') /\ frames' # <<>>
    BY <1>1, <1>2, <2>1, <2>2, CallsHandlers
  <2> QED
    BY <1>1, <2>1, <2>3, StillCalled
<1>13. CASE Throw
  <2>1. exc' = "user" /\ UNCHANGED <<frames, uses, interrupted>>
    BY <1>13 DEF Throw, StraightLine, host
  <2>2. Calls(frames') /\ frames' # <<>>
    BY <1>1, <1>2, <2>1
  <2> QED
    BY <1>1, <2>1, <2>2, StillCalled
<1>14. CASE Return \/ LeaveFrame
  <2>1. /\ frames' = Popped /\ uses' = uses
        /\ exc' \in {exc, Top.saved}
        /\ Top.caller = "host" => exc' = Top.saved
        /\ interrupted' = (interrupted /\ Len(frames) > 1)
    BY <1>14 DEF Return, LeaveFrame, StraightLine, host
  <2>2. interrupted' \in BOOLEAN /\ exc' \in {"none", "user", "interrupted"}
    BY <1>1, <1>4, <2>1
  <2>3. CASE Len(frames) # 1
    BY <1>1, <1>5, <2>1, <2>2, <2>3, StillCalled
  <2>4. CASE Len(frames) = 1
    <3>1. exc' = "none"
      BY <1>3, <2>1, <2>4, Zenon
    <3>2. ~(Len(frames) > 1)
      BY <2>4
    <3>3. interrupted' = FALSE
      BY <2>1, <3>2, Zenon
    <3> QED
      BY <1>1, <1>5, <2>1, <3>1, <3>3 DEF Stacked, LeftClean
  <2> QED
    BY <2>3, <2>4
<1>15. CASE RejectExecutor \/ RejectAsync
  <2>1. /\ Top.caller # "host"
        /\ \/ Poll(Popped, "none", Popped, "interrupted")
           \/ Poll(Popped, "none", Popped, "none")
    BY <1>15 DEF RejectExecutor, RejectAsync
  <2>2. Popped # <<>>
    BY <1>3, <1>5, <2>1
  <2> QED
    BY <1>5, <1>6, <2>1, <2>2
<1> QED
  BY <1>7, <1>8, <1>9, <1>10, <1>11, <1>12, <1>13, <1>14, <1>15 DEF Script

\* Every step.
LEMMA StepStacked ==
    ASSUME Stacked, [Next]_vars, MaxDepth \in Nat \ {0}
    PROVE  Stacked'
<1>1. CASE Script
  BY <1>1, ScriptStacked
<1>2. CASE Enter
  <2> DEFINE f == Frame("host", "none")
  <2>1. frames' = <<f>> /\ UNCHANGED <<exc, interrupted, uses>>
    BY <1>2 DEF Enter, host
  <2>2. f \in AnyFrames /\ f.caller = "host" /\ f.saved = "none"
    <3>1. <<>> \in Seq({"catch", "iter"})
      OBVIOUS
    <3> QED
      BY <3>1 DEF Frame, AnyFrames
  <2> HIDE DEF f
  <2>3. frames' \in Seq(AnyFrames) /\ Len(frames') = 1 /\ frames'[1] = f
    BY <2>1, <2>2
  <2>4. Calls(frames') /\ frames' # <<>>
    BY <2>2, <2>3 DEF Calls
  <2> QED
    BY <2>1, <2>4, StillCalled DEF Stacked, LeftClean
<1>3. CASE \/ SetInterruptCallback \/ RuntimeEnableInterruptHandler
           \/ RuntimeDisableInterruptHandler \/ \E b \in BOOLEAN : Want(b)
           \/ UNCHANGED vars
  <2>1. UNCHANGED <<frames, exc, interrupted, uses>>
    BY <1>3 DEF SetInterruptCallback, RuntimeEnableInterruptHandler,
                RuntimeDisableInterruptHandler, Want, vars, host
  <2> QED
    BY <2>1 DEF Stacked, LeftClean
<1> QED
  BY <1>1, <1>2, <1>3 DEF Next

\* For every length of the countdown and every depth of calls: once the host
\* wants it to, a script stops within the polls that js_poll_interrupts
\* counts; an interruption is not caught by scripts of calls and try blocks;
\* interrupt_handler never finds bound_interrupt unset; and the host is never
\* left with an exception or an interruption of a script that has ended.
THEOREM InterruptAlwaysStops ==
    ASSUME CounterInit \in Nat \ {0}, MaxDepth \in Nat \ {0}
    PROVE  Spec => []InterruptStops
<1>1. Init => Stacked
  <2>1. Init => LeftClean
    BY DEF Init, LeftClean
  <2>2. Init => Calls(frames)
    BY DEF Init, Calls
  <2> QED
    BY <2>1, <2>2 DEF Stacked
<1>2. Stacked /\ [Next]_vars => Stacked'
  BY StepStacked
<1>3. Budget /\ Bound /\ Stacked => InterruptsTypeOK
  BY DEF Budget, Stacked, LeftClean, Calls, InterruptsTypeOK
<1>4. InterruptsTypeOK /\ StopsWithinBudget /\ HandlerNeverUnbound
      /\ InterruptNotCaught => InterruptStops
  BY DEF InterruptStops
<1> QED
  BY <1>1, <1>2, <1>3, <1>4, AlwaysInBudget, ScriptsStopWithinBudget,
     InterruptionsPassThrough, PTL DEF Spec
================================================================================
