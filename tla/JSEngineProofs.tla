---------------------------- MODULE JSEngineProofs ----------------------------
(***************************************************************************)
(* Proofs about JSEngine, for every value of its constants.                *)
(*                                                                         *)
(* The inductive invariant is IInv.  Beside the types it says how frames   *)
(* stack up (a job runs directly above the drain that started it), that    *)
(* only derived promises are queued as reactions while only promises of    *)
(* hook calls have a Future, and that promises not created yet are blank.  *)
(* What is said of the delivery of reactions follows from a second one,    *)
(* Delivery.                                                               *)
(***************************************************************************)
EXTENDS JSEngine, FiniteSetTheorems, SequenceTheorems, TLAPS

\* A job frame is above the drain frame that started it and names a reaction.
Shape(s) ==
    \A i \in 1 .. Len(s) :
        s[i].kind = "job" => /\ i > 1 /\ s[i - 1].kind = "drain"
                             /\ s[i].q \in Promises
StackShape == Shape(stack)

-----------------------------------------------------------------------------
(* Facts about frames and the stack. *)

\* The frames the actions push are frames.
LEMMA FrameTypes ==
    /\ ScriptFrame \in Frames /\ ScriptFrame.kind = "script"
    /\ HandlerFrame \in Frames /\ HandlerFrame.kind = "handler"
    /\ \A q \in Promises : JobFrame(q) \in Frames /\ JobFrame(q).kind = "job"
                           /\ JobFrame(q).q = q
    /\ \A max \in Int, by \in Callers, p \in Promises \cup {NoPromise} :
          /\ DrainFrame(max, by, p) \in Frames
          /\ DrainFrame(max, by, p).kind = "drain"
BY DEF Frames, Frame, ScriptFrame, HandlerFrame, JobFrame, DrainFrame,
       NoPromise, Callers

\* A prefix of a sequence.
LEMMA PrefixProperties ==
    ASSUME NEW S, NEW s \in Seq(S), NEW k \in 0 .. Len(s)
    PROVE  /\ SubSeq(s, 1, k) \in Seq(S)
           /\ Len(SubSeq(s, 1, k)) = k
           /\ \A i \in 1 .. k : SubSeq(s, 1, k)[i] = s[i]
OBVIOUS

\* Popping the running frame.
LEMMA BelowProperties ==
    ASSUME stack \in Seq(Frames), stack # <<>>
    PROVE  /\ Below \in Seq(Frames)
           /\ Len(stack) \in Nat \ {0}
           /\ Len(Below) = Len(stack) - 1
           /\ \A i \in 1 .. Len(Below) : Below[i] = stack[i]
           /\ Top \in Frames
<1>1. Len(stack) \in Nat \ {0}
  BY EmptySeq
<1>2. Len(stack) - 1 \in 0 .. Len(stack)
  BY <1>1
<1>3. Top \in Frames
  BY <1>1, ElementOfSeq DEF Top
<1> QED
  BY <1>1, <1>2, <1>3, PrefixProperties DEF Below

\* Counting a finished job changes no frame's kind and no promise it names.
LEMMA CountJobProperties ==
    ASSUME NEW s \in Seq(Frames), s # <<>>
    PROVE  /\ CountJob(s) \in Seq(Frames)
           /\ Len(CountJob(s)) = Len(s)
           /\ \A i \in 1 .. Len(s) : /\ CountJob(s)[i].kind = s[i].kind
                                      /\ CountJob(s)[i].q = s[i].q
                                      /\ CountJob(s)[i].max = s[i].max
<1> DEFINE top == s[Len(s)]
           new == [top EXCEPT !.n = @ + 1]
<1>1. Len(s) \in 1 .. Len(s)
  BY EmptySeq
<1>2. top \in Frames
  BY <1>1, ElementOfSeq
<1>3. new \in Frames /\ new.kind = top.kind /\ new.q = top.q /\ new.max = top.max
  BY <1>2 DEF Frames
<1>4. CountJob(s) = [s EXCEPT ![Len(s)] = new]
  BY DEF CountJob
<1> HIDE DEF new, top
<1>5. /\ [s EXCEPT ![Len(s)] = new] \in Seq(Frames)
      /\ Len([s EXCEPT ![Len(s)] = new]) = Len(s)
      /\ \A j \in 1 .. Len(s) : [s EXCEPT ![Len(s)] = new][j] =
                                   IF j = Len(s) THEN new ELSE s[j]
  BY <1>1, <1>3, ExceptSeq
<1>6. \A j \in 1 .. Len(s) : /\ CountJob(s)[j].kind = s[j].kind
                              /\ CountJob(s)[j].q = s[j].q
                              /\ CountJob(s)[j].max = s[j].max
  <2> TAKE j \in 1 .. Len(s)
  <2>1. CASE j = Len(s)
    BY <2>1, <1>3, <1>4, <1>5 DEF top
  <2>2. CASE j # Len(s)
    BY <2>2, <1>4, <1>5
  <2> QED
    BY <2>1, <2>2
<1> QED
  BY <1>4, <1>5, <1>6

\* Pushing a frame keeps the shape: any frame but a job, or a job on a drain.
LEMMA ShapePush ==
    ASSUME NEW s \in Seq(Frames), Shape(s), NEW f \in Frames,
           f.kind = "job" => /\ s # <<>> /\ s[Len(s)].kind = "drain"
                             /\ f.q \in Promises
    PROVE  Append(s, f) \in Seq(Frames) /\ Shape(Append(s, f))
<1>1. /\ Append(s, f) \in Seq(Frames)
      /\ Len(Append(s, f)) = Len(s) + 1
      /\ \A i \in 1 .. Len(s) : Append(s, f)[i] = s[i]
      /\ Append(s, f)[Len(s) + 1] = f
  BY AppendProperties
<1>2. Len(s) \in Nat /\ (s # <<>> => Len(s) > 0)
  BY EmptySeq
<1>3. SUFFICES ASSUME NEW i \in 1 .. Len(s) + 1, Append(s, f)[i].kind = "job"
               PROVE  /\ i > 1 /\ Append(s, f)[i - 1].kind = "drain"
                      /\ Append(s, f)[i].q \in Promises
  BY <1>1 DEF Shape
<1>4. CASE i = Len(s) + 1
  BY <1>1, <1>2, <1>3, <1>4
<1>5. CASE i \in 1 .. Len(s)
  BY <1>1, <1>2, <1>3, <1>5 DEF Shape
<1> QED
  BY <1>2, <1>4, <1>5

\* Popping frames keeps the shape.
LEMMA ShapePrefix ==
    ASSUME NEW s \in Seq(Frames), Shape(s), NEW k \in 0 .. Len(s)
    PROVE  SubSeq(s, 1, k) \in Seq(Frames) /\ Shape(SubSeq(s, 1, k))
<1>1. Len(s) \in Nat
  OBVIOUS
<1> QED
  BY <1>1, PrefixProperties DEF Shape

\* Counting a job keeps the shape.
LEMMA ShapeCount ==
    ASSUME NEW s \in Seq(Frames), Shape(s), s # <<>>
    PROVE  CountJob(s) \in Seq(Frames) /\ Shape(CountJob(s))
<1>1. Len(s) \in Nat
  OBVIOUS
<1> QED
  BY <1>1, CountJobProperties DEF Shape

\* A running job has its drain below it and names a promise.
LEMMA JobRunning ==
    ASSUME stack \in Seq(Frames), Shape(stack), Running({"job"})
    PROVE  /\ Below # <<>> /\ Below \in Seq(Frames) /\ Shape(Below)
           /\ Top.q \in Promises
           /\ Len(stack) \in Nat /\ Len(stack) > 1
<1>1. stack # <<>> /\ Top.kind = "job"
  BY DEF Running
<1>2. Len(stack) \in Nat /\ Len(stack) > 1
  BY <1>1, BelowProperties DEF Shape, Top
<1>3. Below # <<>>
  BY <1>1, <1>2, BelowProperties, EmptySeq
<1>4. Below \in Seq(Frames) /\ Shape(Below)
  BY <1>2, ShapePrefix DEF Below
<1>5. Top.q \in Promises
  BY <1>1, BelowProperties DEF Shape, Top
<1> QED
  BY <1>2, <1>3, <1>4, <1>5

\* JSEngine.loop pushes one drain or nothing.
LEMMA ShapeLoop ==
    ASSUME NEW s \in Seq(Frames), Shape(s), NEW queue,
           NEW by \in Callers, NEW p \in Promises \cup {NoPromise}
    PROVE  /\ s \o LoopFrames(queue, by, p) \in Seq(Frames)
           /\ Shape(s \o LoopFrames(queue, by, p))
<1>1. CASE queue = <<>>
  <2>1. s \o LoopFrames(queue, by, p) = s
    BY <1>1, ConcatEmptySeq DEF LoopFrames
  <2> QED
    BY <2>1
<1>2. CASE queue # <<>>
  <2> DEFINE f == DrainFrame(-1, by, p)
  <2>1. f \in Frames /\ f.kind = "drain"
    BY FrameTypes
  <2>2. LoopFrames(queue, by, p) = <<f>>
    BY <1>2 DEF LoopFrames
  <2> HIDE DEF f
  <2>3. s \o LoopFrames(queue, by, p) = Append(s, f)
    BY <2>1, <2>2, AppendIsConcat
  <2> QED
    BY <2>1, <2>3, ShapePush
<1> QED
  BY <1>1, <1>2

-----------------------------------------------------------------------------
(* Type correctness, with the shape of the stack. *)

\* donePendingJobs never throws, so catchError never follows a finished then.
LEMMA NeverThrows == \A r : DoneResult(r) # "throw"
BY DEF DoneResult

\* Settling a promise keeps the types.
LEMMA SettleTypes ==
    ASSUME TypeOK, NEW p \in Promises, NEW state \in Settled,
           Settle(p, state)
    PROVE  /\ np' \in 0 .. MaxPromises
           /\ promise' \in [Promises -> {"none", "pending"} \cup Settled]
           /\ parent' \in [Promises -> Promises \cup {NoPromise}]
           /\ reactions' \in [Promises -> Seq(Promises)]
           /\ jobs' \in Seq(Promises) /\ enq' \in Seq(Promises)
           /\ late' \subseteq Promises
<1>1. CASE promise[p] = "pending"
  <2>1. reactions[p] \in Seq(Promises)
    BY DEF TypeOK
  <2>2. jobs' \in Seq(Promises) /\ enq' \in Seq(Promises)
    <3>1. jobs \o reactions[p] \in Seq(Promises) /\ enq \o reactions[p] \in Seq(Promises)
      BY <2>1, ConcatProperties DEF TypeOK
    <3> QED
      BY <1>1, <3>1 DEF Settle
  <2>3. reactions' \in [Promises -> Seq(Promises)]
    BY <1>1, EmptySeq DEF TypeOK, Settle
  <2> QED
    BY <1>1, <2>2, <2>3 DEF TypeOK, Settle
<1>2. CASE promise[p] # "pending"
  BY <1>2 DEF TypeOK, Settle, promiseVars
<1> QED
  BY <1>1, <1>2

\* Each callback of a Future keeps the types and the shape.
LEMMA FinishCallbackTypes ==
    ASSUME TypeOK, NEW p \in Promises, NEW state \in Settled,
           NEW by \in Callers, NEW rest \in Seq(Frames), Shape(rest),
           FinishCallback(p, state, by, rest)
    PROVE  /\ cap' \in [Promises -> Int]
           /\ stack' \in Seq(Frames) /\ Shape(stack')
<1>1. cap' \in [Promises -> Int]
  BY DEF TypeOK, FinishCallback
<1>2. stack' = rest \o LoopFrames(jobs', by, p)
  BY DEF FinishCallback
<1> QED
  BY <1>1, <1>2, ShapeLoop

\* What a return from executePendingJob does, given that nothing throws.
LEMMA LoopReturnsEffect ==
    ASSUME NEW rest, NEW drain, NEW result, LoopReturns(rest, drain, result)
    PROVE  stack' = rest /\ UNCHANGED <<promiseVars, cap>>
BY NeverThrows DEF LoopReturns

\* Init establishes the types and the shape.
LEMMA TypeInit == Init => TypeOK /\ StackShape
<1> SUFFICES ASSUME Init PROVE TypeOK /\ StackShape
  OBVIOUS
<1>1. StackShape
  BY DEF Init, StackShape, Shape
<1>2. /\ <<>> \in Seq(Frames) /\ <<>> \in Seq(Promises)
  BY EmptySeq
<1>3. 0 \in 0 .. MaxPromises
  BY BoundsAssumption
<1>4. /\ promise \in [Promises -> {"none", "pending"} \cup Settled]
      /\ parent \in [Promises -> Promises \cup {NoPromise}]
      /\ reactions \in [Promises -> Seq(Promises)]
      /\ future \in [Promises -> {"none", "waiting"} \cup Outcomes]
      /\ cap \in [Promises -> Int]
  BY <1>2 DEF Init
<1>5. /\ stack \in Seq(Frames) /\ jobs \in Seq(Promises)
      /\ enq \in Seq(Promises) /\ ran \in Seq(Promises)
  BY <1>2 DEF Init
<1>6. /\ ctxRefs \in Int /\ stops \in Nat /\ entries \in Nat /\ calls \in Nat
      /\ np \in 0 .. MaxPromises /\ late \subseteq Promises
  BY <1>3 DEF Init
<1>7. /\ instance \in BOOLEAN /\ rtFreed \in BOOLEAN
      /\ raised \in BOOLEAN /\ crashed \in BOOLEAN
  BY DEF Init
<1> QED
  BY <1>1, <1>4, <1>5, <1>6, <1>7 DEF TypeOK

\* Every step keeps the types and the shape.
LEMMA TypeStep ==
    ASSUME TypeOK, StackShape, [Next]_vars
    PROVE  TypeOK' /\ StackShape'
<1> USE DEF StackShape
<1>a. stack \in Seq(Frames) /\ Shape(stack)
  BY DEF TypeOK
<1>1. CASE UNCHANGED vars
  BY <1>1 DEF TypeOK, vars, engineVars, promiseVars, futureVars, Shape
<1>2. CASE NewEngine
  <2>1. ctxRefs' \in Int
    BY <1>2, BoundsAssumption DEF NewEngine, RefsPerEval, InitEvals
  <2> QED
    BY <1>2, <2>1 DEF NewEngine, TypeOK, promiseVars, futureVars, Shape
<1>3. CASE EvalScript
  <2>1. stack' \in Seq(Frames) /\ Shape(stack')
    BY <1>3, <1>a, FrameTypes, ShapePush DEF EvalScript
  <2>2. ctxRefs' \in Int /\ entries' \in Nat
    BY <1>3 DEF EvalScript, TypeOK, RefsPerEval
  <2> QED
    BY <1>3, <2>1, <2>2 DEF EvalScript, TypeOK, promiseVars, futureVars
<1>4. CASE CallJS
  <2>1. stack' \in Seq(Frames) /\ Shape(stack')
    BY <1>4, <1>a, FrameTypes, ShapePush DEF CallJS
  <2>2. entries' \in Nat
    BY <1>4 DEF CallJS, TypeOK
  <2> QED
    BY <1>4, <2>1, <2>2 DEF CallJS, TypeOK, engineVars, promiseVars, futureVars
<1>5. CASE Loop
  <2>1. Caller \in Callers /\ NoPromise \in Promises \cup {NoPromise}
    BY DEF Caller, Callers
  <2>2. stack' \in Seq(Frames) /\ Shape(stack')
    BY <1>5, <1>a, <2>1, ShapeLoop DEF Loop
  <2> QED
    BY <1>5, <2>2 DEF Loop, TypeOK, engineVars, promiseVars, futureVars
<1>6. ASSUME NEW max \in Limits, DonePendingJobs(max)
      PROVE  TypeOK' /\ StackShape'
  <2> DEFINE f == DrainFrame(max, Caller, NoPromise)
  <2>1. f \in Frames /\ f.kind = "drain"
    BY FrameTypes, LimitsAssumption DEF Caller, Callers
  <2>2. stack' = Append(stack, f)
    BY <1>6 DEF DonePendingJobs
  <2> HIDE DEF f
  <2>3. stack' \in Seq(Frames) /\ Shape(stack')
    BY <1>a, <2>1, <2>2, ShapePush
  <2> QED
    BY <1>6, <2>3 DEF DonePendingJobs, TypeOK, engineVars, promiseVars, futureVars
<1>7. CASE Stop
  BY <1>7 DEF Stop, FreeRuntime, TypeOK, promiseVars, futureVars, Shape
<1>8. ASSUME NEW p \in Promises, NEW outcome \in Outcomes, FutureDone(p, outcome)
      PROVE  TypeOK' /\ StackShape'
  <2>1. <<>> \in Seq(Frames) /\ Shape(<<>>)
    BY EmptySeq DEF Shape
  <2>2. PICK state \in Settled, by \in Callers : FinishCallback(p, state, by, <<>>)
    BY <1>8 DEF FutureDone, ThenCallback, CatchCallback, Settled, Callers
  <2>3. Settle(p, state)
    BY <2>2 DEF FinishCallback
  <2>4. future' \in [Promises -> {"none", "waiting"} \cup Outcomes]
    BY <1>8 DEF FutureDone, TypeOK
  <2>5. /\ cap' \in [Promises -> Int]
        /\ stack' \in Seq(Frames) /\ Shape(stack')
    BY <2>1, <2>2, FinishCallbackTypes
  <2> QED
    BY <1>8, <2>3, <2>4, <2>5, SettleTypes DEF FutureDone, TypeOK, engineVars
<1>9. ASSUME NEW p \in Promises, NEW q \in Promises, JSThen(p, q)
      PROVE  TypeOK' /\ StackShape'
  <2>1. np' \in 0 .. MaxPromises
    BY <1>9 DEF JSThen, NewPromise, Promises
  <2>2. promise' \in [Promises -> {"none", "pending"} \cup Settled]
    BY <1>9 DEF JSThen, NewPromise, TypeOK
  <2>3. parent' \in [Promises -> Promises \cup {NoPromise}]
    BY <1>9 DEF JSThen, PerformPromiseThen, TypeOK
  <2>4. /\ reactions' \in [Promises -> Seq(Promises)]
        /\ jobs' \in Seq(Promises) /\ enq' \in Seq(Promises)
        /\ late' \subseteq Promises
    <3>1. CASE promise[p] = "pending"
      <4>1. Append(reactions[p], q) \in Seq(Promises)
        BY AppendProperties DEF TypeOK
      <4> QED
        BY <1>9, <3>1, <4>1 DEF JSThen, PerformPromiseThen, TypeOK
    <3>2. CASE promise[p] # "pending"
      <4>1. Append(jobs, q) \in Seq(Promises) /\ Append(enq, q) \in Seq(Promises)
        BY AppendProperties DEF TypeOK
      <4> QED
        BY <1>9, <3>2, <4>1 DEF JSThen, PerformPromiseThen, TypeOK
    <3> QED
      BY <3>1, <3>2
  <2> QED
    BY <1>9, <2>1, <2>2, <2>3, <2>4
    DEF JSThen, TypeOK, engineVars, futureVars, Shape
<1>10. CASE CallHook
  <2>1. stack' \in Seq(Frames) /\ Shape(stack')
    BY <1>10, <1>a, FrameTypes, ShapePush DEF CallHook
  <2>2. calls' \in Nat
    BY <1>10 DEF CallHook, TypeOK
  <2> QED
    BY <1>10, <2>1, <2>2 DEF CallHook, TypeOK, engineVars, promiseVars, futureVars
<1>b. ASSUME stack # <<>>, stack' = Below
      PROVE  stack' \in Seq(Frames) /\ Shape(stack')
  <2>1. Len(stack) - 1 \in 0 .. Len(stack)
    BY <1>a, <1>b, BelowProperties
  <2> QED
    BY <1>a, <1>b, <2>1, ShapePrefix DEF Below
<1>11. CASE ScriptReturn
  BY <1>11, <1>b DEF ScriptReturn, Running, TypeOK, engineVars, promiseVars, futureVars
<1>12. CASE HandlerReturn
  BY <1>12, <1>b DEF HandlerReturn, Running, TypeOK, engineVars, promiseVars, futureVars
<1>13. ASSUME NEW p \in Promises, HandlerFuture(p)
       PROVE  TypeOK' /\ StackShape'
  <2>1. np' \in 0 .. MaxPromises
    BY <1>13 DEF HandlerFuture, NewPromise, Promises
  <2>2. /\ promise' \in [Promises -> {"none", "pending"} \cup Settled]
        /\ future' \in [Promises -> {"none", "waiting"} \cup Outcomes]
        /\ cap' \in [Promises -> Int]
    BY <1>13 DEF HandlerFuture, NewPromise, TypeOK
  <2> QED
    BY <1>13, <1>b, <2>1, <2>2 DEF HandlerFuture, Running, TypeOK, engineVars
<1>14. CASE HandlerThrow
  BY <1>14 DEF HandlerThrow, TypeOK, engineVars, promiseVars, futureVars, Shape
<1>15. CASE DrainJob
  <2>1. Head(jobs) \in Promises /\ Tail(jobs) \in Seq(Promises)
    BY <1>15, HeadTailProperties DEF DrainJob, TypeOK
  <2>2. ran' \in Seq(Promises)
    BY <1>15, <2>1, AppendProperties DEF DrainJob, TypeOK
  <2>3. stack # <<>> /\ stack[Len(stack)].kind = "drain"
    BY <1>15 DEF DrainJob, Running, Top
  <2>4. JobFrame(Head(jobs)) \in Frames /\ JobFrame(Head(jobs)).q \in Promises
    BY <2>1, FrameTypes
  <2>5. stack' \in Seq(Frames) /\ Shape(stack')
    BY <1>15, <1>a, <2>3, <2>4, ShapePush DEF DrainJob
  <2> QED
    BY <1>15, <2>1, <2>2, <2>5 DEF DrainJob, TypeOK, engineVars, futureVars
<1>16. CASE DrainEnd
  <2>1. stack' = Below /\ UNCHANGED <<promiseVars, cap>>
    BY <1>16, LoopReturnsEffect DEF DrainEnd
  <2> QED
    BY <1>16, <1>b, <2>1 DEF DrainEnd, Running, TypeOK, engineVars, promiseVars
<1>17. ASSUME NEW state \in Settled, JobReturn(state)
       PROVE  TypeOK' /\ StackShape'
  <2>1. Running({"job"}) /\ Settle(Top.q, state) /\ stack' = CountJob(Below)
    BY <1>17 DEF JobReturn
  <2>2. stack' \in Seq(Frames) /\ Shape(stack')
    BY <1>a, <2>1, JobRunning, ShapeCount
  <2>3. Top.q \in Promises
    BY <1>a, <2>1, JobRunning
  <2> QED
    BY <1>17, <2>1, <2>2, <2>3, SettleTypes
    DEF JobReturn, TypeOK, engineVars, futureVars
<1>18. CASE JobRaise
  <2>1. Running({"job"})
    BY <1>18 DEF JobRaise
  <2>2. /\ stack' = SubSeq(stack, 1, Len(stack) - 2)
        /\ UNCHANGED <<promiseVars, cap>>
    BY <1>18, LoopReturnsEffect DEF JobRaise
  <2>3. Len(stack) - 2 \in 0 .. Len(stack)
    BY <1>a, <2>1, JobRunning
  <2>4. stack' \in Seq(Frames) /\ Shape(stack')
    BY <1>a, <2>2, <2>3, ShapePrefix
  <2> QED
    BY <1>18, <2>2, <2>4 DEF JobRaise, TypeOK, engineVars, promiseVars
<1> QED
  BY <1>1, <1>2, <1>3, <1>4, <1>5, <1>6, <1>7, <1>8, <1>9, <1>10, <1>11, <1>12,
     <1>13, <1>14, <1>15, <1>16, <1>17, <1>18 DEF Next

\* Type correctness of every state (JSEngine!TypeOK), for all bounds.
THEOREM TypeCorrect == Spec => []TypeOK
<1>1. TypeOK /\ StackShape /\ [Next]_vars => (TypeOK /\ StackShape)'
  BY TypeStep
<1>2. Spec => [](TypeOK /\ StackShape)
  BY <1>1, TypeInit, PTL DEF Spec
<1> QED
  BY <1>2, PTL

-----------------------------------------------------------------------------
(* The promises of hook calls follow their Futures. *)

\* The promises that a then call derived.
DerivedSet == {q \in Promises : parent[q] # NoPromise}

\* Frames whose job, if any, is a reaction in D.
FramesOf(D) == {f \in Frames : f.kind = "job" => f.q \in D}

\* Only derived promises are reactions: waiting, queued or running.
OnlyDerivedQueued ==
    /\ jobs \in Seq(DerivedSet)
    /\ reactions \in [Promises -> Seq(DerivedSet)]
    /\ stack \in Seq(FramesOf(DerivedSet))

\* Only promises that no then call derived have a Future.
OnlyRootsHaveFutures ==
    \A p \in Promises : future[p] # "none" => p \notin DerivedSet

\* A promise that has not been created is blank.
Blank ==
    \A p \in Promises : p > np =>
        future[p] = "none" /\ cap[p] = 0 /\ p \notin DerivedSet

IInv ==
    /\ TypeOK /\ StackShape
    /\ OnlyDerivedQueued /\ OnlyRootsHaveFutures /\ Blank
    /\ NewPromiseFreedOnce /\ PromiseFollowsFuture

\* A derived promise stays derived, and only a then call derives one.
LEMMA DerivedGrows ==
    ASSUME TypeOK, [Next]_vars
    PROVE  /\ DerivedSet \subseteq DerivedSet'
           /\ (\A p, q \in Promises : ~JSThen(p, q)) => UNCHANGED parent
<1>1. ASSUME NEW p \in Promises, NEW q \in Promises, JSThen(p, q)
      PROVE  DerivedSet \subseteq DerivedSet'
  <2>1. parent' = [parent EXCEPT ![q] = p]
    BY <1>1 DEF JSThen, PerformPromiseThen
  <2>2. p # NoPromise
    BY DEF Promises, NoPromise
  <2> QED
    BY <2>1, <2>2 DEF DerivedSet, TypeOK
<1>2. ASSUME \A p, q \in Promises : ~JSThen(p, q)
      PROVE  UNCHANGED parent
  <2>1. CASE UNCHANGED vars
    BY <2>1 DEF vars, promiseVars
  <2>2. ASSUME NEW p \in Promises, NEW outcome \in Outcomes, FutureDone(p, outcome)
        PROVE  UNCHANGED parent
    <3>1. PICK state \in Settled : Settle(p, state)
      BY <2>2 DEF FutureDone, ThenCallback, CatchCallback, FinishCallback, Settled
    <3> QED
      BY <3>1 DEF Settle, promiseVars
  <2>3. ASSUME NEW state \in Settled, JobReturn(state)
        PROVE  UNCHANGED parent
    BY <2>3 DEF JobReturn, Settle, promiseVars
  <2>4. CASE DrainEnd
    BY <2>4, LoopReturnsEffect DEF DrainEnd, promiseVars
  <2>5. CASE JobRaise
    BY <2>5, LoopReturnsEffect DEF JobRaise, promiseVars
  <2>6. ASSUME \/ NewEngine \/ EvalScript \/ CallJS \/ Loop
               \/ \E max \in Limits : DonePendingJobs(max)
               \/ Stop \/ CallHook \/ ScriptReturn \/ HandlerReturn
               \/ \E p \in Promises : HandlerFuture(p)
               \/ HandlerThrow \/ DrainJob
        PROVE  UNCHANGED parent
    BY <2>6 DEF NewEngine, EvalScript, CallJS, Loop, DonePendingJobs, Stop, CallHook,
                ScriptReturn, HandlerReturn, HandlerFuture, HandlerThrow, DrainJob,
                promiseVars
  <2> QED
    BY <1>2, <2>1, <2>2, <2>3, <2>4, <2>5, <2>6 DEF Next
<1>3. UNCHANGED parent => DerivedSet \subseteq DerivedSet'
  BY DEF DerivedSet
<1> QED
  BY <1>1, <1>2, <1>3

\* Settling moves waiting reactions to the queue and nothing else.
LEMMA SettleKeepsDerived ==
    ASSUME TypeOK, NEW D, jobs \in Seq(D), reactions \in [Promises -> Seq(D)],
           NEW p \in Promises, NEW state, Settle(p, state)
    PROVE  jobs' \in Seq(D) /\ reactions' \in [Promises -> Seq(D)]
<1>1. CASE promise[p] = "pending"
  <2>1. jobs \o reactions[p] \in Seq(D)
    BY ConcatProperties
  <2>2. <<>> \in Seq(D)
    BY EmptySeq
  <2> QED
    BY <1>1, <2>1, <2>2 DEF Settle
<1>2. CASE promise[p] # "pending"
  BY <1>2 DEF Settle, promiseVars
<1> QED
  BY <1>1, <1>2

\* JSEngine.loop pushes no job.
LEMMA LoopKeepsDerived ==
    ASSUME NEW D, NEW s \in Seq(FramesOf(D)), NEW queue,
           NEW by \in Callers, NEW p \in Promises \cup {NoPromise}
    PROVE  s \o LoopFrames(queue, by, p) \in Seq(FramesOf(D))
<1>1. DrainFrame(-1, by, p) \in FramesOf(D)
  BY FrameTypes DEF FramesOf
<1>2. LoopFrames(queue, by, p) \in Seq(FramesOf(D))
  BY <1>1, EmptySeq DEF LoopFrames
<1> QED
  BY <1>2, ConcatProperties

\* Counting a finished job names no other reaction.
LEMMA CountKeepsDerived ==
    ASSUME NEW D, NEW s \in Seq(FramesOf(D)), s # <<>>
    PROVE  CountJob(s) \in Seq(FramesOf(D))
<1>1. s \in Seq(Frames)
  BY SeqMonotonic DEF FramesOf
<1>2. /\ CountJob(s) \in Seq(Frames) /\ Len(CountJob(s)) = Len(s)
      /\ \A i \in 1 .. Len(s) : /\ CountJob(s)[i].kind = s[i].kind
                                 /\ CountJob(s)[i].q = s[i].q
  BY <1>1, CountJobProperties
<1>3. \A i \in 1 .. Len(s) : s[i] \in FramesOf(D) /\ CountJob(s)[i] \in Frames
  BY <1>2, ElementOfSeq
<1>4. \A i \in 1 .. Len(CountJob(s)) : CountJob(s)[i] \in FramesOf(D)
  BY <1>2, <1>3 DEF FramesOf
<1>5. \A S, T : \A t \in Seq(S) : (\A i \in 1 .. Len(t) : t[i] \in T) => t \in Seq(T)
  OBVIOUS
<1> QED
  BY <1>2, <1>4, <1>5

\* Reactions stay among the derived promises.
LEMMA DerivedStep ==
    ASSUME TypeOK, StackShape, OnlyDerivedQueued, [Next]_vars
    PROVE  OnlyDerivedQueued'
<1> DEFINE D == DerivedSet
           E == DerivedSet'
           Kept == /\ jobs' \in Seq(D) /\ reactions' \in [Promises -> Seq(D)]
                   /\ stack' \in Seq(FramesOf(D))
<1>d. D \subseteq E /\ FramesOf(D) \subseteq FramesOf(E)
  BY DerivedGrows DEF FramesOf
<1>e. /\ jobs \in Seq(D) /\ reactions \in [Promises -> Seq(D)]
      /\ stack \in Seq(FramesOf(D))
  BY DEF OnlyDerivedQueued
<1>f. D \subseteq Promises
  BY DEF DerivedSet
<1> HIDE DEF D, E
<1>k. ASSUME Kept PROVE OnlyDerivedQueued'
  <2>1. /\ \A s \in Seq(D) : s \in Seq(E)
        /\ \A s \in Seq(FramesOf(D)) : s \in Seq(FramesOf(E))
    BY <1>d, SeqMonotonic
  <2>2. /\ jobs' \in Seq(E) /\ reactions' \in [Promises -> Seq(E)]
        /\ stack' \in Seq(FramesOf(E))
    BY <1>k, <2>1
  <2> QED
    BY <2>2 DEF OnlyDerivedQueued, E
<1>s. ASSUME stack # <<>>, stack' = Below
      PROVE  stack' \in Seq(FramesOf(D))
  <2>1. Len(stack) \in Nat \ {0}
    BY <1>e, <1>s, EmptySeq
  <2>2. Len(stack) - 1 \in 0 .. Len(stack)
    BY <2>1
  <2> QED
    BY <1>e, <1>s, <2>2, PrefixProperties DEF Below
<1>p. ASSUME NEW f \in Frames, f.kind # "job", stack' = Append(stack, f)
      PROVE  stack' \in Seq(FramesOf(D))
  BY <1>e, <1>p, AppendProperties DEF FramesOf
<1>1. CASE UNCHANGED vars
  BY <1>1, <1>e, <1>k DEF vars, promiseVars
<1>2. CASE NewEngine
  BY <1>2, <1>e, <1>k DEF NewEngine, promiseVars
<1>3. CASE EvalScript
  <2>1. stack' \in Seq(FramesOf(D))
    BY <1>3, <1>p, FrameTypes DEF EvalScript
  <2> QED
    BY <1>3, <1>e, <1>k, <2>1 DEF EvalScript, promiseVars
<1>4. CASE CallJS
  <2>1. stack' \in Seq(FramesOf(D))
    BY <1>4, <1>p, FrameTypes DEF CallJS
  <2> QED
    BY <1>4, <1>e, <1>k, <2>1 DEF CallJS, promiseVars
<1>5. CASE Loop
  <2>1. Caller \in Callers
    BY DEF Caller, Callers
  <2>2. stack' \in Seq(FramesOf(D))
    BY <1>5, <1>e, <2>1, LoopKeepsDerived DEF Loop
  <2> QED
    BY <1>5, <1>e, <1>k, <2>2 DEF Loop, promiseVars
<1>6. ASSUME NEW max \in Limits, DonePendingJobs(max)
      PROVE  OnlyDerivedQueued'
  <2>1. /\ DrainFrame(max, Caller, NoPromise) \in Frames
        /\ DrainFrame(max, Caller, NoPromise).kind = "drain"
    BY FrameTypes, LimitsAssumption DEF Caller, Callers
  <2>2. stack' \in Seq(FramesOf(D))
    BY <1>6, <1>p, <2>1 DEF DonePendingJobs
  <2> QED
    BY <1>6, <1>e, <1>k, <2>2 DEF DonePendingJobs, promiseVars
<1>7. CASE Stop
  BY <1>7, <1>e, <1>k DEF Stop, promiseVars
<1>8. ASSUME NEW p \in Promises, NEW outcome \in Outcomes, FutureDone(p, outcome)
      PROVE  OnlyDerivedQueued'
  <2>1. PICK state \in Settled, by \in Callers : FinishCallback(p, state, by, <<>>)
    BY <1>8 DEF FutureDone, ThenCallback, CatchCallback, Settled, Callers
  <2>2. jobs' \in Seq(D) /\ reactions' \in [Promises -> Seq(D)]
    BY <1>e, <2>1, SettleKeepsDerived DEF FinishCallback
  <2>3. <<>> \in Seq(FramesOf(D))
    BY EmptySeq
  <2>4. stack' \in Seq(FramesOf(D))
    BY <2>1, <2>3, LoopKeepsDerived DEF FinishCallback
  <2> QED
    BY <1>k, <2>2, <2>4
<1>9. ASSUME NEW p \in Promises, NEW q \in Promises, JSThen(p, q)
      PROVE  OnlyDerivedQueued'
  <2>1. q \in E
    BY <1>9 DEF JSThen, PerformPromiseThen, E, DerivedSet, TypeOK, Promises, NoPromise
  <2>2. /\ jobs \in Seq(E) /\ reactions \in [Promises -> Seq(E)]
        /\ stack \in Seq(FramesOf(E))
    BY <1>d, <1>e, SeqMonotonic
  <2>3. jobs' \in Seq(E) /\ reactions' \in [Promises -> Seq(E)]
    <3>1. Append(jobs, q) \in Seq(E) /\ Append(reactions[p], q) \in Seq(E)
      BY <2>1, <2>2, AppendProperties
    <3> QED
      BY <1>9, <2>2, <3>1 DEF JSThen, PerformPromiseThen
  <2>4. stack' \in Seq(FramesOf(E))
    BY <1>9, <2>2 DEF JSThen
  <2> QED
    BY <2>3, <2>4 DEF OnlyDerivedQueued, E
<1>10. CASE CallHook
  <2>1. stack' \in Seq(FramesOf(D))
    BY <1>10, <1>p, FrameTypes DEF CallHook
  <2> QED
    BY <1>10, <1>e, <1>k, <2>1 DEF CallHook, promiseVars
<1>11. CASE ScriptReturn
  BY <1>11, <1>e, <1>k, <1>s DEF ScriptReturn, Running, promiseVars
<1>12. CASE HandlerReturn
  BY <1>12, <1>e, <1>k, <1>s DEF HandlerReturn, Running, promiseVars
<1>13. ASSUME NEW p \in Promises, HandlerFuture(p)
       PROVE  OnlyDerivedQueued'
  BY <1>13, <1>e, <1>k, <1>s DEF HandlerFuture, Running
<1>14. CASE HandlerThrow
  BY <1>14, <1>e, <1>k DEF HandlerThrow, promiseVars
<1>15. CASE DrainJob
  <2>1. Head(jobs) \in D /\ Tail(jobs) \in Seq(D)
    BY <1>15, <1>e, HeadTailProperties DEF DrainJob
  <2>2. JobFrame(Head(jobs)) \in FramesOf(D)
    BY <1>f, <2>1, FrameTypes DEF FramesOf
  <2>3. stack' \in Seq(FramesOf(D))
    BY <1>15, <1>e, <2>2, AppendProperties DEF DrainJob
  <2> QED
    BY <1>15, <1>e, <1>k, <2>1, <2>3 DEF DrainJob
<1>16. CASE DrainEnd
  <2>1. stack' = Below /\ UNCHANGED <<promiseVars, cap>>
    BY <1>16, LoopReturnsEffect DEF DrainEnd
  <2> QED
    BY <1>16, <1>e, <1>k, <1>s, <2>1 DEF DrainEnd, Running, promiseVars
<1>j. ASSUME Running({"job"})
      PROVE  /\ Below # <<>> /\ Below \in Seq(FramesOf(D))
             /\ Top.q \in Promises /\ Len(stack) - 2 \in 0 .. Len(stack)
  <2>1. stack \in Seq(Frames) /\ Shape(stack)
    BY DEF TypeOK, StackShape
  <2>2. Len(stack) - 1 \in 0 .. Len(stack)
    BY <1>j, <2>1, JobRunning
  <2>3. Below \in Seq(FramesOf(D))
    BY <1>e, <2>2, PrefixProperties DEF Below
  <2> QED
    BY <1>j, <2>1, <2>3, JobRunning
<1>17. ASSUME NEW state \in Settled, JobReturn(state)
       PROVE  OnlyDerivedQueued'
  <2>1. Running({"job"}) /\ Settle(Top.q, state) /\ stack' = CountJob(Below)
    BY <1>17 DEF JobReturn
  <2>2. jobs' \in Seq(D) /\ reactions' \in [Promises -> Seq(D)]
    BY <1>e, <1>j, <2>1, SettleKeepsDerived
  <2>3. stack' \in Seq(FramesOf(D))
    BY <1>j, <2>1, CountKeepsDerived
  <2> QED
    BY <1>k, <2>2, <2>3
<1>18. CASE JobRaise
  <2>1. /\ stack' = SubSeq(stack, 1, Len(stack) - 2)
        /\ UNCHANGED <<promiseVars, cap>>
    BY <1>18, LoopReturnsEffect DEF JobRaise
  <2>2. stack' \in Seq(FramesOf(D))
    BY <1>18, <1>e, <1>j, <2>1, PrefixProperties DEF JobRaise
  <2> QED
    BY <1>e, <1>k, <2>1, <2>2 DEF promiseVars
<1> QED
  BY <1>1, <1>2, <1>3, <1>4, <1>5, <1>6, <1>7, <1>8, <1>9, <1>10, <1>11, <1>12,
     <1>13, <1>14, <1>15, <1>16, <1>17, <1>18 DEF Next

\* What is said about Futures depends on five variables only.
FutureFacts ==
    /\ OnlyRootsHaveFutures /\ Blank
    /\ NewPromiseFreedOnce /\ PromiseFollowsFuture

\* The state PromiseFollowsFuture expects of a promise.
Expected(f) == CASE f = "waiting" -> "pending"
                 [] f = "value" -> "fulfilled"
                 [] OTHER -> "rejected"

\* The cases of Expected.
LEMMA ExpectedValues ==
    /\ Expected("waiting") = "pending" /\ Expected("value") = "fulfilled"
    /\ \A f \in {"unsupported", "jsvalue", "error"} : Expected(f) = "rejected"
BY DEF Expected

\* Every step keeps what is said about Futures.
LEMMA FutureStep ==
    ASSUME IInv, [Next]_vars
    PROVE  FutureFacts'
<1> USE DEF IInv
<1>f. /\ \A p \in Promises : future[p] # "none" => promise[p] = Expected(future[p])
      /\ (\A p \in Promises : (future[p])' # "none" =>
                (promise[p])' = Expected((future[p])')) => PromiseFollowsFuture'
  BY DEF PromiseFollowsFuture, Expected
<1>1. ASSUME UNCHANGED <<future, cap, promise, parent, np>>
      PROVE  FutureFacts'
  BY <1>1 DEF FutureFacts, OnlyRootsHaveFutures, Blank, NewPromiseFreedOnce,
              PromiseFollowsFuture, DerivedSet
<1>2. ASSUME NEW p \in Promises, NEW outcome \in Outcomes, FutureDone(p, outcome)
      PROVE  FutureFacts'
  <2> DEFINE state == IF outcome = "value" THEN "fulfilled" ELSE "rejected"
  <2>1. /\ future[p] = "waiting" /\ future' = [future EXCEPT ![p] = outcome]
        /\ Settle(p, state) /\ cap' = [cap EXCEPT ![p] = cap[p] - 1]
    BY <1>2 DEF FutureDone, ThenCallback, CatchCallback, FinishCallback,
                ConversionThrows, Outcomes
  <2>2. promise[p] = "pending"
    BY <1>f, <2>1, ExpectedValues
  <2>3. promise' = [promise EXCEPT ![p] = state] /\ UNCHANGED <<np, parent>>
    BY <2>1, <2>2 DEF Settle
  <2>4. outcome # "waiting" /\ outcome # "none" /\ state = Expected(outcome)
    BY ExpectedValues DEF Outcomes
  <2> HIDE DEF state
  <2>5. PromiseFollowsFuture'
    BY <1>f, <2>1, <2>3, <2>4 DEF TypeOK
  <2>6. NewPromiseFreedOnce'
    BY <2>1, <2>4 DEF NewPromiseFreedOnce, TypeOK
  <2>7. OnlyRootsHaveFutures' /\ Blank'
    BY <2>1, <2>3, <2>6 DEF OnlyRootsHaveFutures, Blank, DerivedSet, TypeOK
  <2> QED
    BY <2>5, <2>6, <2>7 DEF FutureFacts
<1>3. ASSUME NEW p \in Promises, NEW q \in Promises, JSThen(p, q)
      PROVE  FutureFacts'
  <2>1. /\ q = np + 1 /\ np' = q
        /\ promise' = [promise EXCEPT ![q] = "pending"]
        /\ parent' = [parent EXCEPT ![q] = p]
        /\ UNCHANGED <<future, cap>>
    BY <1>3 DEF JSThen, NewPromise, PerformPromiseThen, futureVars
  <2>2. future[q] = "none" /\ np \in Int
    BY <2>1 DEF Blank, TypeOK, Promises
  <2>3. DerivedSet' \subseteq DerivedSet \cup {q}
    BY <2>1 DEF DerivedSet, TypeOK
  <2>4. PromiseFollowsFuture'
    BY <1>f, <2>1, <2>2 DEF TypeOK
  <2>5. OnlyRootsHaveFutures' /\ NewPromiseFreedOnce'
    BY <2>1, <2>2, <2>3 DEF OnlyRootsHaveFutures, NewPromiseFreedOnce
  <2>6. Blank'
    BY <2>1, <2>2, <2>3 DEF Blank, Promises
  <2> QED
    BY <2>4, <2>5, <2>6 DEF FutureFacts
<1>4. ASSUME NEW p \in Promises, HandlerFuture(p)
      PROVE  FutureFacts'
  <2>1. /\ p = np + 1 /\ np' = p
        /\ promise' = [promise EXCEPT ![p] = "pending"]
        /\ future' = [future EXCEPT ![p] = "waiting"]
        /\ cap' = [cap EXCEPT ![p] = 1]
        /\ UNCHANGED parent
    BY <1>4 DEF HandlerFuture, NewPromise
  <2>2. p \notin DerivedSet /\ np \in Int /\ DerivedSet' = DerivedSet
    BY <2>1 DEF Blank, TypeOK, Promises, DerivedSet
  <2>3. PromiseFollowsFuture'
    BY <1>f, <2>1, ExpectedValues DEF TypeOK
  <2>4. NewPromiseFreedOnce'
    BY <2>1 DEF NewPromiseFreedOnce, TypeOK
  <2>5. OnlyRootsHaveFutures'
    BY <2>1, <2>2 DEF OnlyRootsHaveFutures, TypeOK
  <2>6. Blank'
    BY <2>1, <2>2 DEF Blank, Promises, TypeOK
  <2> QED
    BY <2>3, <2>4, <2>5, <2>6 DEF FutureFacts
<1>5. ASSUME NEW state \in Settled, JobReturn(state)
      PROVE  FutureFacts'
  <2>1. /\ Running({"job"}) /\ Settle(Top.q, state)
        /\ UNCHANGED <<future, cap, np, parent>>
    BY <1>5 DEF JobReturn, futureVars, Settle, promiseVars
  <2>2. Top \in FramesOf(DerivedSet) /\ Top.kind = "job"
    <3>1. stack # <<>> /\ stack \in Seq(FramesOf(DerivedSet)) /\ Top.kind = "job"
      BY <2>1 DEF Running, OnlyDerivedQueued
    <3>2. Len(stack) \in 1 .. Len(stack)
      BY <3>1, EmptySeq
    <3> QED
      BY <3>1, <3>2, ElementOfSeq DEF Top
  <2>3. Top.q \in DerivedSet
    BY <2>2 DEF FramesOf
  <2>4. \A p \in Promises : p # Top.q => (promise[p])' = promise[p]
    BY <2>1 DEF Settle, promiseVars, TypeOK
  <2>5. PromiseFollowsFuture'
    BY <1>f, <2>1, <2>3, <2>4 DEF OnlyRootsHaveFutures
  <2>6. OnlyRootsHaveFutures' /\ Blank' /\ NewPromiseFreedOnce'
    BY <2>1 DEF OnlyRootsHaveFutures, Blank, NewPromiseFreedOnce, DerivedSet
  <2> QED
    BY <2>5, <2>6 DEF FutureFacts
<1>6. CASE DrainEnd
  <2>1. UNCHANGED <<promiseVars, cap, future>>
    BY <1>6, LoopReturnsEffect DEF DrainEnd
  <2> QED
    BY <1>1, <2>1 DEF promiseVars
<1>7. CASE JobRaise
  <2>1. UNCHANGED <<promiseVars, cap, future>>
    BY <1>7, LoopReturnsEffect DEF JobRaise
  <2> QED
    BY <1>1, <2>1 DEF promiseVars
<1>8. ASSUME \/ UNCHANGED vars
             \/ NewEngine \/ EvalScript \/ CallJS \/ Loop
             \/ \E max \in Limits : DonePendingJobs(max)
             \/ Stop \/ CallHook \/ ScriptReturn \/ HandlerReturn
             \/ HandlerThrow \/ DrainJob
      PROVE  FutureFacts'
  <2>1. UNCHANGED <<future, cap, promise, parent, np>>
    BY <1>8 DEF vars, NewEngine, EvalScript, CallJS, Loop, DonePendingJobs, Stop,
                CallHook, ScriptReturn, HandlerReturn, HandlerThrow, DrainJob,
                promiseVars, futureVars
  <2> QED
    BY <1>1, <2>1
<1> QED
  BY <1>2, <1>3, <1>4, <1>5, <1>6, <1>7, <1>8 DEF Next

\* Init establishes the inductive invariant.
LEMMA InitIInv == Init => IInv
<1> SUFFICES ASSUME Init PROVE IInv
  OBVIOUS
<1>1. TypeOK /\ StackShape
  BY TypeInit
<1>2. OnlyDerivedQueued
  <2>1. <<>> \in Seq(DerivedSet) /\ <<>> \in Seq(FramesOf(DerivedSet))
    BY EmptySeq
  <2> QED
    BY <2>1 DEF Init, OnlyDerivedQueued
<1>3. /\ OnlyRootsHaveFutures /\ Blank
      /\ NewPromiseFreedOnce /\ PromiseFollowsFuture
  BY DEF Init, OnlyRootsHaveFutures, Blank, NewPromiseFreedOnce,
         PromiseFollowsFuture, DerivedSet
<1> QED
  BY <1>1, <1>2, <1>3 DEF IInv

\* The inductive invariant holds in every reachable state.
LEMMA Inductive == Spec => []IInv
<1>1. IInv /\ [Next]_vars => IInv'
  <2> SUFFICES ASSUME IInv, [Next]_vars PROVE IInv'
    OBVIOUS
  <2>1. TypeOK' /\ StackShape'
    BY TypeStep DEF IInv
  <2>2. OnlyDerivedQueued'
    BY DerivedStep DEF IInv
  <2> QED
    BY <2>1, <2>2, FutureStep DEF IInv, FutureFacts
<1> QED
  BY <1>1, InitIInv, PTL DEF Spec

\* function.dart: the object of createPromise() is released exactly once,
\* when its Future completes (JSEngine!NewPromiseFreedOnce).
THEOREM PromiseObjectFreedOnce == Spec => []NewPromiseFreedOnce
<1>1. IInv => NewPromiseFreedOnce
  BY DEF IInv
<1> QED
  BY <1>1, Inductive, PTL

\* function.dart: the promise of a hook call follows its Future, whatever
\* else JavaScript and the application do (JSEngine!PromiseFollowsFuture).
THEOREM PromisesFollowFutures == Spec => []PromiseFollowsFuture
<1>1. IInv => PromiseFollowsFuture
  BY DEF IInv
<1> QED
  BY <1>1, Inductive, PTL

-----------------------------------------------------------------------------
(* The job queue is first in, first out. *)

\* A whole list goes to the end of the queue.
LEMMA QueueList ==
    \A r, j, m \in Seq(Promises) : (r \o j) \o m = r \o (j \o m)
<1> TAKE r, j, m \in Seq(Promises)
<1> QED
  OBVIOUS

\* One job goes to the end of the queue.
LEMMA QueueOne ==
    \A r, j \in Seq(Promises) : \A e \in Promises :
        Append(r \o j, e) = r \o Append(j, e)
<1> TAKE r, j \in Seq(Promises)
<1> TAKE e \in Promises
<1> QED
  OBVIOUS

\* The first job leaves the queue.
LEMMA QueueTake ==
    ASSUME NEW S, NEW r \in Seq(S), NEW j \in Seq(S), j # <<>>
    PROVE  r \o j = Append(r, Head(j)) \o Tail(j)
OBVIOUS

\* Settling a promise appends the same reactions to the queue and to enq.
LEMMA SettleFIFO ==
    ASSUME TypeOK, QueueFIFO, NEW p \in Promises, NEW state,
           Settle(p, state), UNCHANGED ran
    PROVE  QueueFIFO'
<1>1. CASE promise[p] = "pending"
  <2>1. reactions[p] \in Seq(Promises) /\ jobs \in Seq(Promises) /\ ran \in Seq(Promises)
    BY DEF TypeOK
  <2>2. (ran \o jobs) \o reactions[p] = ran \o (jobs \o reactions[p])
    BY <2>1, QueueList, Zenon
  <2> QED
    BY <1>1, <2>2 DEF Settle, QueueFIFO
<1>2. CASE promise[p] # "pending"
  BY <1>2 DEF Settle, promiseVars, QueueFIFO
<1> QED
  BY <1>1, <1>2

\* Every step keeps the order of the queue.
LEMMA FIFOStep ==
    ASSUME TypeOK, StackShape, QueueFIFO, [Next]_vars
    PROVE  QueueFIFO'
<1>a. jobs \in Seq(Promises) /\ ran \in Seq(Promises) /\ enq = ran \o jobs
  BY DEF TypeOK, QueueFIFO
<1>1. ASSUME UNCHANGED <<jobs, enq, ran>>
      PROVE  QueueFIFO'
  BY <1>1 DEF QueueFIFO
<1>2. ASSUME NEW p \in Promises, NEW outcome \in Outcomes, FutureDone(p, outcome)
      PROVE  QueueFIFO'
  <2>1. PICK state : Settle(p, state)
    BY <1>2 DEF FutureDone, ThenCallback, CatchCallback, FinishCallback
  <2> QED
    BY <1>2, <2>1, SettleFIFO DEF FutureDone
<1>3. ASSUME NEW p \in Promises, NEW q \in Promises, JSThen(p, q)
      PROVE  QueueFIFO'
  <2>1. Append(ran \o jobs, q) = ran \o Append(jobs, q)
    BY <1>a, QueueOne, Zenon
  <2> QED
    BY <1>3, <1>a, <2>1 DEF JSThen, PerformPromiseThen, QueueFIFO
<1>4. CASE DrainJob
  <2>1. ran \o jobs = Append(ran, Head(jobs)) \o Tail(jobs)
    BY <1>4, <1>a, QueueTake DEF DrainJob
  <2> QED
    BY <1>4, <1>a, <2>1 DEF DrainJob, QueueFIFO
<1>5. ASSUME NEW state \in Settled, JobReturn(state)
      PROVE  QueueFIFO'
  <2>1. Settle(Top.q, state) /\ UNCHANGED ran
    BY <1>5 DEF JobReturn
  <2>2. Top.q \in Promises
    BY <1>5, JobRunning DEF JobReturn, TypeOK, StackShape
  <2> QED
    BY <2>1, <2>2, SettleFIFO
<1>6. CASE DrainEnd
  <2>1. UNCHANGED <<promiseVars, cap, ran>>
    BY <1>6, LoopReturnsEffect DEF DrainEnd
  <2> QED
    BY <1>1, <2>1 DEF promiseVars
<1>7. CASE JobRaise
  <2>1. UNCHANGED <<promiseVars, cap, ran>>
    BY <1>7, LoopReturnsEffect DEF JobRaise
  <2> QED
    BY <1>1, <2>1 DEF promiseVars
<1>8. ASSUME \/ UNCHANGED vars
             \/ NewEngine \/ EvalScript \/ CallJS \/ Loop
             \/ \E max \in Limits : DonePendingJobs(max)
             \/ Stop \/ CallHook \/ ScriptReturn \/ HandlerReturn
             \/ \E p \in Promises : HandlerFuture(p)
             \/ HandlerThrow
      PROVE  QueueFIFO'
  <2>1. UNCHANGED <<jobs, enq, ran>>
    BY <1>8 DEF vars, NewEngine, EvalScript, CallJS, Loop, DonePendingJobs, Stop,
                CallHook, ScriptReturn, HandlerReturn, HandlerFuture, HandlerThrow,
                promiseVars
  <2> QED
    BY <1>1, <2>1
<1> QED
  BY <1>2, <1>3, <1>4, <1>5, <1>6, <1>7, <1>8 DEF Next

\* executePendingJob: jobs start in the order they were queued, for any
\* nesting of drains and whatever jobs raise (JSEngine!QueueFIFO).
THEOREM JobsStartInOrder == Spec => []QueueFIFO
<1>1. Init => TypeOK /\ StackShape /\ QueueFIFO
  <2>1. Init => QueueFIFO
    BY ConcatEmptySeq, EmptySeq DEF Init, QueueFIFO
  <2> QED
    BY <2>1, TypeInit
<1>2. TypeOK /\ StackShape /\ QueueFIFO /\ [Next]_vars
        => (TypeOK /\ StackShape /\ QueueFIFO)'
  BY TypeStep, FIFOStep
<1> QED
  BY <1>1, <1>2, PTL DEF Spec

-----------------------------------------------------------------------------
(* Without re-entrant handlers, jobs run to completion. *)

\* Only the outermost frame may be a drain.
BottomDrain(s) == \A i \in 1 .. Len(s) : s[i].kind = "drain" => i = 1

\* Pushing anything but a drain, or pushing on the empty stack.
LEMMA BottomPush ==
    ASSUME NEW s \in Seq(Frames), BottomDrain(s), NEW f \in Frames,
           f.kind = "drain" => s = <<>>
    PROVE  BottomDrain(Append(s, f))
<1>1. /\ Len(Append(s, f)) = Len(s) + 1 /\ Len(s) \in Nat
      /\ \A i \in 1 .. Len(s) : Append(s, f)[i] = s[i]
      /\ Append(s, f)[Len(s) + 1] = f
  BY AppendProperties
<1>2. s = <<>> => Len(s) = 0
  OBVIOUS
<1> QED
  BY <1>1, <1>2 DEF BottomDrain

\* Popping frames.
LEMMA BottomPrefix ==
    ASSUME NEW s \in Seq(Frames), BottomDrain(s), NEW k \in 0 .. Len(s)
    PROVE  BottomDrain(SubSeq(s, 1, k))
<1>1. Len(s) \in Nat
  OBVIOUS
<1> QED
  BY <1>1, PrefixProperties DEF BottomDrain

\* Every step keeps the drain at the bottom unless handlers drain.
LEMMA BottomStep ==
    ASSUME TypeOK, StackShape, ~Reentrant, BottomDrain(stack), [Next]_vars
    PROVE  BottomDrain(stack')
<1>a. stack \in Seq(Frames) /\ Shape(stack)
  BY DEF TypeOK, StackShape
<1>b. <<>> \in Seq(Frames) /\ BottomDrain(<<>>)
  BY EmptySeq DEF BottomDrain
<1>1. CASE UNCHANGED stack
  BY <1>1
<1>2. ASSUME NEW f \in Frames, f.kind # "drain", stack' = Append(stack, f)
      PROVE  BottomDrain(stack')
  BY <1>a, <1>2, BottomPush
<1>3. ASSUME stack # <<>>, stack' = Below
      PROVE  BottomDrain(stack')
  <2>1. Len(stack) - 1 \in 0 .. Len(stack)
    BY <1>a, <1>3, BelowProperties
  <2> QED
    BY <1>a, <1>3, <2>1, BottomPrefix DEF Below
<1>4. ASSUME NEW max \in Int, NEW by \in Callers, NEW p \in Promises \cup {NoPromise},
             stack' = Append(<<>>, DrainFrame(max, by, p))
      PROVE  BottomDrain(stack')
  BY <1>b, <1>4, FrameTypes, BottomPush
<1>5. ASSUME NEW queue, NEW by \in Callers, NEW p \in Promises \cup {NoPromise},
             stack' = <<>> \o LoopFrames(queue, by, p)
      PROVE  BottomDrain(stack')
  <2>1. CASE queue = <<>>
    <3>1. stack' = <<>>
      BY <1>5, <2>1, ConcatEmptySeq DEF LoopFrames
    <3> QED
      BY <1>b, <3>1
  <2>2. CASE queue # <<>>
    <3> DEFINE f == DrainFrame(-1, by, p)
    <3>1. f \in Frames
      BY FrameTypes
    <3>2. stack' = <<>> \o <<f>>
      BY <1>5, <2>2 DEF LoopFrames
    <3> HIDE DEF f
    <3>3. stack' = Append(<<>>, f)
      BY <3>1, <3>2
    <3> QED
      BY <1>4, <3>3 DEF f
  <2> QED
    BY <2>1, <2>2
<1>6. CASE EvalScript \/ CallJS
  BY <1>2, <1>6, FrameTypes DEF EvalScript, CallJS
<1>7. CASE Loop
  <2>1. stack' = <<>> \o LoopFrames(jobs, Caller, NoPromise)
    BY <1>7 DEF Loop, MayDrain, Idle
  <2> QED
    BY <1>5, <2>1 DEF Caller, Callers
<1>8. ASSUME NEW max \in Limits, DonePendingJobs(max)
      PROVE  BottomDrain(stack')
  <2>1. stack' = Append(<<>>, DrainFrame(max, Caller, NoPromise)) /\ max \in Int
    BY <1>8, LimitsAssumption DEF DonePendingJobs, MayDrain, Idle
  <2>2. Caller \in Callers
    BY DEF Caller, Callers
  <2> QED
    BY <1>4, <2>1, <2>2
<1>9. ASSUME NEW p \in Promises, NEW outcome \in Outcomes, FutureDone(p, outcome)
      PROVE  BottomDrain(stack')
  <2>1. PICK by \in Callers : stack' = <<>> \o LoopFrames(jobs', by, p)
    BY <1>9 DEF FutureDone, ThenCallback, CatchCallback, FinishCallback, Callers
  <2> QED
    BY <1>5, <2>1
<1>10. CASE CallHook
  BY <1>2, <1>10, FrameTypes DEF CallHook
<1>11. CASE ScriptReturn \/ HandlerReturn \/ \E p \in Promises : HandlerFuture(p)
  BY <1>3, <1>11 DEF ScriptReturn, HandlerReturn, HandlerFuture, Running
<1>12. CASE DrainJob
  <2>1. Head(jobs) \in Promises
    BY <1>12, HeadTailProperties DEF DrainJob, TypeOK
  <2> QED
    BY <1>2, <1>12, <2>1, FrameTypes DEF DrainJob
<1>13. CASE DrainEnd
  BY <1>3, <1>13, LoopReturnsEffect DEF DrainEnd, Running
<1>14. ASSUME NEW state \in Settled, JobReturn(state)
       PROVE  BottomDrain(stack')
  <2>1. Running({"job"}) /\ stack' = CountJob(Below)
    BY <1>14 DEF JobReturn
  <2>2. Below # <<>> /\ Below \in Seq(Frames) /\ Len(stack) - 1 \in 0 .. Len(stack)
    BY <1>a, <2>1, JobRunning
  <2>3. BottomDrain(Below)
    BY <1>a, <2>2, BottomPrefix DEF Below
  <2> QED
    BY <2>1, <2>2, <2>3, CountJobProperties DEF BottomDrain
<1>15. CASE JobRaise
  <2>1. Running({"job"}) /\ stack' = SubSeq(stack, 1, Len(stack) - 2)
    BY <1>15, LoopReturnsEffect DEF JobRaise
  <2>2. Len(stack) - 2 \in 0 .. Len(stack)
    BY <1>a, <2>1, JobRunning
  <2> QED
    BY <1>a, <2>1, <2>2, BottomPrefix
<1>16. CASE UNCHANGED vars \/ NewEngine \/ Stop \/ HandlerThrow
            \/ \E p, q \in Promises : JSThen(p, q)
  BY <1>1, <1>16 DEF vars, NewEngine, Stop, HandlerThrow, JSThen
<1> QED
  BY <1>6, <1>7, <1>8, <1>9, <1>10, <1>11, <1>12, <1>13, <1>14, <1>15, <1>16 DEF Next

\* function.dart and engine.dart: the library drains the queue only at the
\* bottom of the stack (JSEngine!JobsRunToCompletion).
THEOREM NoJobInsideACall == Spec => []JobsRunToCompletion
<1> DEFINE Inv == TypeOK /\ StackShape /\ (~Reentrant => BottomDrain(stack))
<1>1. Init => Inv
  <2>1. Init => BottomDrain(stack)
    BY DEF Init, BottomDrain
  <2> QED
    BY <2>1, TypeInit
<1>2. Inv /\ [Next]_vars => Inv'
  BY TypeStep, BottomStep DEF BottomDrain
<1>3. Inv => JobsRunToCompletion
  <2> SUFFICES ASSUME Inv PROVE JobsRunToCompletion
    OBVIOUS
  <2>1. DOMAIN stack = 1 .. Len(stack)
    BY DEF TypeOK
  <2> QED
    BY <2>1 DEF BottomDrain, JobsRunToCompletion
<1> HIDE DEF Inv
<1> QED
  BY <1>1, <1>2, <1>3, PTL DEF Spec

-----------------------------------------------------------------------------
(***************************************************************************)
(* Reactions are queued once, the engine implements AsyncCalls, and the    *)
(* loop leaves no reaction behind.                                         *)
(*                                                                         *)
(* The inductive invariant is Delivery.  A derived promise waits in the    *)
(* reaction list of the promise it was derived from while that one is      *)
(* pending, and nowhere else; once that one has settled it is among the    *)
(* jobs ever queued, once.                                                 *)
(***************************************************************************)

NoRepeat(s) == \A i, j \in 1 .. Len(s) : s[i] = s[j] => i = j

\* Promises exist from the moment they are numbered, and so do the parents of
\* derived ones.
Existing ==
    /\ \A p \in Promises : promise[p] = "none" <=> p > np
    /\ \A q \in DerivedSet : promise[parent[q]] # "none"

\* The reactions of a pending promise are what was derived from it.
OwnReactions ==
    \A p \in Promises :
        /\ NoRepeat(reactions[p])
        /\ \A i \in 1 .. Len(reactions[p]) : parent[reactions[p][i]] = p
        /\ promise[p] # "pending" => reactions[p] = <<>>
AllWait ==
    \A q \in DerivedSet : promise[parent[q]] = "pending" =>
        \E i \in 1 .. Len(reactions[parent[q]]) : reactions[parent[q]][i] = q

\* The queue has held exactly what was derived from settled promises.
OnlyReadyQueued ==
    /\ NoRepeat(enq)
    /\ \A i \in 1 .. Len(enq) :
          enq[i] \in DerivedSet /\ promise[parent[enq[i]]] \in Settled
AllQueued ==
    \A q \in DerivedSet : promise[parent[q]] \in Settled =>
        \E i \in 1 .. Len(enq) : enq[i] = q

Delivery == Existing /\ OwnReactions /\ AllWait /\ OnlyReadyQueued /\ AllQueued

\* Jobs on the stack have been started.
JobsStarted == stack \in Seq(FramesOf(RangeOf(ran)))

\* Drains without a limit: as long as one runs, it will empty the queue.
AllUnlimited == \A max \in Limits : max < 0
DrainsUnlimited(s) == \A i \in 1 .. Len(s) : s[i].kind = "drain" => s[i].max < 0
HasDrain(s) == \E i \in 1 .. Len(s) : s[i].kind = "drain"
LeftForDrain ==
    AllUnlimited /\ ~raised =>
        DrainsUnlimited(stack) /\ (HasDrain(stack) \/ RangeOf(jobs) \subseteq late)

-----------------------------------------------------------------------------
(* Lists without repetitions. *)

\* The elements of a concatenation.
LEMMA ConcatElements ==
    ASSUME NEW S, NEW s \in Seq(S), NEW t \in Seq(S)
    PROVE  /\ Len(s) \in Nat /\ Len(t) \in Nat /\ Len(s \o t) = Len(s) + Len(t)
           /\ \A i \in 1 .. Len(s) : (s \o t)[i] = s[i]
           /\ \A i \in 1 .. Len(t) : (s \o t)[Len(s) + i] = t[i]
           /\ \A i \in 1 .. Len(s \o t) :
                 i \in 1 .. Len(s) \/ (i - Len(s) \in 1 .. Len(t)
                                       /\ (s \o t)[i] = t[i - Len(s)])
OBVIOUS

\* Lists without a common element can be put one after the other.
LEMMA ConcatNoRepeat ==
    ASSUME NEW S, NEW s \in Seq(S), NEW t \in Seq(S), NoRepeat(s), NoRepeat(t),
           \A i \in 1 .. Len(s), j \in 1 .. Len(t) : s[i] # t[j]
    PROVE  NoRepeat(s \o t)
<1>1. SUFFICES ASSUME NEW i \in 1 .. Len(s \o t), NEW j \in 1 .. Len(s \o t),
                      (s \o t)[i] = (s \o t)[j]
               PROVE  i = j
  BY DEF NoRepeat
<1>2. Len(s) \in Nat /\ Len(t) \in Nat
  BY ConcatElements
<1>3. CASE i \in 1 .. Len(s) /\ j \in 1 .. Len(s)
  BY <1>1, <1>3, ConcatElements DEF NoRepeat
<1>4. CASE i \notin 1 .. Len(s) /\ j \notin 1 .. Len(s)
  <2>1. /\ i - Len(s) \in 1 .. Len(t) /\ j - Len(s) \in 1 .. Len(t)
        /\ t[i - Len(s)] = t[j - Len(s)]
    BY <1>1, <1>4, ConcatElements
  <2>2. i - Len(s) = j - Len(s)
    BY <2>1 DEF NoRepeat
  <2> QED
    BY <1>2, <2>2
<1>5. CASE i \in 1 .. Len(s) /\ j \notin 1 .. Len(s)
  BY <1>1, <1>5, ConcatElements
<1>6. CASE i \notin 1 .. Len(s) /\ j \in 1 .. Len(s)
  BY <1>1, <1>6, ConcatElements
<1> QED
  BY <1>3, <1>4, <1>5, <1>6

\* A new element can be appended.
LEMMA AppendNoRepeat ==
    ASSUME NEW S, NEW s \in Seq(S), NEW e \in S, NoRepeat(s),
           \A i \in 1 .. Len(s) : s[i] # e
    PROVE  NoRepeat(Append(s, e))
<1>1. /\ Len(s) \in Nat /\ Len(Append(s, e)) = Len(s) + 1
      /\ \A i \in 1 .. Len(s) : Append(s, e)[i] = s[i]
      /\ Append(s, e)[Len(s) + 1] = e
  BY AppendProperties
<1> QED
  BY <1>1 DEF NoRepeat

-----------------------------------------------------------------------------
(* Delivery is invariant. *)

\* Settling a promise queues what waits for it.
LEMMA SettleDelivery ==
    ASSUME TypeOK, Delivery, NEW p \in Promises, NEW state \in Settled,
           Settle(p, state)
    PROVE  Delivery'
<1>1. CASE promise[p] # "pending"
  BY <1>1 DEF Settle, promiseVars, Delivery, Existing, OwnReactions, AllWait,
              OnlyReadyQueued, AllQueued, DerivedSet
<1>2. CASE promise[p] = "pending"
  <2> DEFINE r == reactions[p]
  <2>1. /\ promise' = [promise EXCEPT ![p] = state]
        /\ enq' = enq \o r
        /\ reactions' = [reactions EXCEPT ![p] = <<>>]
        /\ UNCHANGED <<np, parent>>
    BY <1>2 DEF Settle
  <2>2. /\ enq \in Seq(Promises) /\ r \in Seq(Promises)
        /\ promise \in [Promises -> {"none", "pending"} \cup Settled]
        /\ reactions \in [Promises -> Seq(Promises)]
        /\ parent \in [Promises -> Promises \cup {NoPromise}]
    BY DEF TypeOK
  <2>3. p # NoPromise /\ state # "none" /\ state # "pending"
    BY DEF Promises, NoPromise, Settled
  <2>4. DerivedSet' = DerivedSet
    BY <2>1 DEF DerivedSet
  <2>5. \A i \in 1 .. Len(r) : r[i] \in DerivedSet /\ parent[r[i]] = p
    BY <2>2, <2>3 DEF Delivery, OwnReactions, DerivedSet
  <2>6. \A q \in DerivedSet : parent[q] \in Promises
    BY <2>2 DEF DerivedSet
  <2> HIDE DEF r
  <2>7. Existing'
    BY <1>2, <2>1, <2>2, <2>3, <2>4, <2>6 DEF Delivery, Existing
  <2>8. OwnReactions'
    <3>1. Len(<<>>) = 0
      OBVIOUS
    <3> QED
      BY <2>1, <2>2, <2>3, <3>1 DEF Delivery, OwnReactions, NoRepeat
  <2>9. AllWait'
    BY <2>1, <2>2, <2>3, <2>4, <2>6 DEF Delivery, AllWait
  <2>10. OnlyReadyQueued'
    <3>1. NoRepeat(enq')
      <4>1. \A i \in 1 .. Len(enq), j \in 1 .. Len(r) : enq[i] # r[j]
        BY <1>2, <2>5 DEF Delivery, OnlyReadyQueued, Settled
      <4>2. NoRepeat(enq) /\ NoRepeat(r)
        BY DEF Delivery, OnlyReadyQueued, OwnReactions, r
      <4> QED
        BY <2>1, <2>2, <4>1, <4>2, ConcatNoRepeat
    <3>2. ASSUME NEW i \in 1 .. Len(enq')
          PROVE  (enq[i])' \in DerivedSet /\ promise'[parent[(enq[i])']] \in Settled
      <4>1. CASE i \in 1 .. Len(enq)
        BY <2>1, <2>2, <2>6, <4>1, ConcatElements DEF Delivery, OnlyReadyQueued
      <4>2. CASE i \notin 1 .. Len(enq)
        BY <2>1, <2>2, <2>5, <3>2, <4>2, ConcatElements
      <4> QED
        BY <4>1, <4>2
    <3> QED
      BY <2>1, <2>4, <3>1, <3>2 DEF OnlyReadyQueued
  <2>11. AllQueued'
    <3>1. SUFFICES ASSUME NEW q \in DerivedSet, promise'[parent[q]] \in Settled
                   PROVE  \E i \in 1 .. Len(enq') : (enq[i])' = q
      BY <2>1, <2>4 DEF AllQueued
    <3>2. CASE parent[q] = p
      <4>1. PICK i \in 1 .. Len(r) : r[i] = q
        BY <1>2, <3>2 DEF Delivery, AllWait, r
      <4>2. Len(enq) + i \in 1 .. Len(enq') /\ (enq \o r)[Len(enq) + i] = q
        BY <2>1, <2>2, <4>1, ConcatElements
      <4> QED
        BY <2>1, <4>2
    <3>3. CASE parent[q] # p
      <4>1. promise[parent[q]] \in Settled
        BY <2>1, <2>2, <2>6, <3>1, <3>3
      <4>2. PICK i \in 1 .. Len(enq) : enq[i] = q
        BY <4>1 DEF Delivery, AllQueued
      <4>3. i \in 1 .. Len(enq') /\ (enq \o r)[i] = q
        BY <2>1, <2>2, <4>2, ConcatElements
      <4> QED
        BY <2>1, <4>3
    <3> QED
      BY <3>2, <3>3
  <2> QED
    BY <2>7, <2>8, <2>9, <2>10, <2>11 DEF Delivery
<1> QED
  BY <1>1, <1>2

\* A new promise is nobody's reaction and nobody's parent.
LEMMA NewIsUnknown ==
    ASSUME TypeOK, Blank, Delivery, NEW q \in Promises, NewPromise(q)
    PROVE  /\ q = np + 1 /\ promise[q] = "none" /\ q \notin DerivedSet
           /\ \A d \in DerivedSet : parent[d] \in Promises /\ parent[d] # q
           /\ reactions[q] = <<>>
           /\ \A p \in Promises : \A i \in 1 .. Len(reactions[p]) :
                 reactions[p][i] # q
           /\ \A i \in 1 .. Len(enq) : enq[i] # q
<1>1. q = np + 1 /\ np \in Int
  BY DEF NewPromise, TypeOK
<1>2. promise[q] = "none" /\ q \notin DerivedSet
  BY <1>1 DEF Blank, Delivery, Existing, Promises
<1>3. \A d \in DerivedSet : parent[d] \in Promises /\ parent[d] # q
  BY <1>2 DEF TypeOK, DerivedSet, Delivery, Existing
<1>4. reactions[q] = <<>>
  BY <1>2 DEF Delivery, OwnReactions
<1>5. ASSUME NEW p \in Promises, NEW i \in 1 .. Len(reactions[p]),
             reactions[p][i] = q
      PROVE  FALSE
  <2>1. parent[q] = p
    BY <1>5 DEF Delivery, OwnReactions
  <2> QED
    BY <1>2, <2>1 DEF DerivedSet, Promises, NoPromise
<1>6. \A i \in 1 .. Len(enq) : enq[i] # q
  BY <1>2 DEF Delivery, OnlyReadyQueued
<1> QED
  BY <1>1, <1>2, <1>3, <1>4, <1>5, <1>6

\* p.then(f) enters the new reaction in one of the two lists.
LEMMA ThenDelivery ==
    ASSUME TypeOK, Blank, Delivery, NEW p \in Promises, NEW q \in Promises,
           JSThen(p, q)
    PROVE  Delivery'
<1>1. /\ p <= np /\ NewPromise(q) /\ PerformPromiseThen(p, q)
      /\ np' = q /\ promise' = [promise EXCEPT ![q] = "pending"]
      /\ parent' = [parent EXCEPT ![q] = p]
  BY DEF JSThen, NewPromise, PerformPromiseThen
<1>2. /\ q = np + 1 /\ promise[q] = "none" /\ q \notin DerivedSet
      /\ \A d \in DerivedSet : parent[d] \in Promises /\ parent[d] # q
      /\ reactions[q] = <<>>
      /\ \A x \in Promises : \A i \in 1 .. Len(reactions[x]) : reactions[x][i] # q
      /\ \A i \in 1 .. Len(enq) : enq[i] # q
  BY <1>1, NewIsUnknown
<1>3. /\ enq \in Seq(Promises) /\ np \in Int
      /\ promise \in [Promises -> {"none", "pending"} \cup Settled]
      /\ reactions \in [Promises -> Seq(Promises)]
      /\ parent \in [Promises -> Promises \cup {NoPromise}]
  BY DEF TypeOK
<1>4. p # q /\ p # NoPromise /\ promise[p] # "none"
  BY <1>1, <1>2, <1>3 DEF Promises, NoPromise, Delivery, Existing
<1>5. DerivedSet' = DerivedSet \cup {q} /\ parent'[q] = p /\ promise'[q] = "pending"
      /\ (\A d \in DerivedSet : parent'[d] = parent[d])
      /\ (\A x \in Promises : x # q => promise'[x] = promise[x])
  BY <1>1, <1>2, <1>3, <1>4 DEF DerivedSet
<1>k. \A d \in DerivedSet : /\ d \in DerivedSet' /\ parent'[d] = parent[d]
                             /\ promise'[parent'[d]] = promise[parent[d]]
  BY <1>2, <1>5
<1>6. Existing'
  <2>1. \A x \in Promises : (promise'[x] = "none") <=> (x > np')
    BY <1>1, <1>2, <1>3, <1>5 DEF Delivery, Existing, Promises
  <2>2. \A d \in DerivedSet' : promise'[parent'[d]] # "none"
    BY <1>2, <1>4, <1>5 DEF Delivery, Existing
  <2> QED
    BY <2>1, <2>2 DEF Existing
<1>7. CASE promise[p] = "pending"
  <2>1. reactions' = [reactions EXCEPT ![p] = Append(reactions[p], q)] /\ enq' = enq
    BY <1>1, <1>7 DEF PerformPromiseThen
  <2> DEFINE r == reactions[p]
  <2>2. /\ r \in Seq(Promises) /\ Len(r) \in Nat /\ Len(Append(r, q)) = Len(r) + 1
        /\ \A i \in 1 .. Len(r) : Append(r, q)[i] = r[i]
        /\ Append(r, q)[Len(r) + 1] = q
    BY <1>3, AppendProperties
  <2>3. NoRepeat(Append(r, q))
    BY <1>2, <2>2, AppendNoRepeat DEF Delivery, OwnReactions
  <2>4. reactions'[p] = Append(r, q)
        /\ \A x \in Promises : x # p => reactions'[x] = reactions[x]
    BY <1>3, <2>1
  <2> HIDE DEF r
  <2>5. OwnReactions'
    <3>1. SUFFICES ASSUME NEW x \in Promises
                   PROVE  /\ NoRepeat(reactions'[x])
                          /\ \A i \in 1 .. Len(reactions'[x]) :
                                parent'[reactions'[x][i]] = x
                          /\ promise'[x] # "pending" => reactions'[x] = <<>>
      BY DEF OwnReactions
    <3>2. CASE x = p
      <4>1. \A i \in 1 .. Len(r) : parent'[r[i]] = p
        <5>1. \A i \in 1 .. Len(r) : r[i] \in Promises /\ parent[r[i]] = p /\ r[i] # q
          BY <1>2, <2>2 DEF Delivery, OwnReactions, r
        <5> QED
          BY <1>1, <1>3, <5>1
      <4>2. \A i \in 1 .. Len(Append(r, q)) : parent'[Append(r, q)[i]] = p
        BY <1>5, <2>2, <4>1
      <4> QED
        BY <1>4, <1>5, <1>7, <2>3, <2>4, <3>2, <4>2
    <3>3. CASE x # p
      <4>1. /\ NoRepeat(reactions[x])
            /\ \A i \in 1 .. Len(reactions[x]) :
                  reactions[x][i] \in Promises /\ parent[reactions[x][i]] = x
            /\ promise[x] # "pending" => reactions[x] = <<>>
        BY <1>3 DEF Delivery, OwnReactions
      <4>2. \A i \in 1 .. Len(reactions[x]) : parent'[reactions[x][i]] = x
        BY <1>1, <1>2, <1>3, <4>1
      <4> QED
        BY <1>2, <1>5, <2>4, <3>3, <4>1, <4>2
    <3> QED
      BY <3>2, <3>3
  <2>6. AllWait'
    <3>1. SUFFICES ASSUME NEW d \in DerivedSet', promise'[parent'[d]] = "pending"
                   PROVE  \E i \in 1 .. Len(reactions'[parent'[d]]) :
                             reactions'[parent'[d]][i] = d
      BY DEF AllWait
    <3>2. CASE d = q
      <4>1. Len(r) + 1 \in 1 .. Len(Append(r, q))
        BY <2>2
      <4> QED
        BY <1>5, <2>2, <2>4, <3>2, <4>1
    <3>3. CASE d # q
      <4>1. d \in DerivedSet /\ parent'[d] = parent[d] /\ promise[parent[d]] = "pending"
        BY <1>2, <1>5, <3>1, <3>3
      <4>2. PICK i \in 1 .. Len(reactions[parent[d]]) : reactions[parent[d]][i] = d
        BY <4>1 DEF Delivery, AllWait
      <4>3. CASE parent[d] = p
        <5>1. i \in 1 .. Len(Append(r, q)) /\ Append(r, q)[i] = d
          BY <2>2, <4>2, <4>3 DEF r
        <5> QED
          BY <2>4, <4>1, <4>3, <5>1
      <4>4. CASE parent[d] # p
        BY <1>2, <2>4, <4>1, <4>2, <4>4
      <4> QED
        BY <4>3, <4>4
    <3> QED
      BY <3>2, <3>3
  <2>7. OnlyReadyQueued'
    <3>1. NoRepeat(enq)
          /\ \A i \in 1 .. Len(enq) :
                enq[i] \in DerivedSet /\ promise[parent[enq[i]]] \in Settled
      BY DEF Delivery, OnlyReadyQueued
    <3>2. \A i \in 1 .. Len(enq) :
             enq[i] \in DerivedSet' /\ promise'[parent'[enq[i]]] \in Settled
      BY <1>k, <3>1
    <3> QED
      BY <2>1, <3>1, <3>2 DEF OnlyReadyQueued
  <2>8. AllQueued'
    <3>1. promise'[parent'[q]] \notin Settled
      BY <1>4, <1>5, <1>7 DEF Settled
    <3>2. \A d \in DerivedSet : promise'[parent'[d]] \in Settled =>
             \E i \in 1 .. Len(enq) : enq[i] = d
      BY <1>k DEF Delivery, AllQueued
    <3>3. \A d \in DerivedSet' : promise'[parent'[d]] \in Settled =>
             \E i \in 1 .. Len(enq) : enq[i] = d
      BY <1>5, <3>1, <3>2
    <3> QED
      BY <2>1, <3>3 DEF AllQueued
  <2> QED
    BY <1>6, <2>5, <2>6, <2>7, <2>8 DEF Delivery
<1>8. CASE promise[p] # "pending"
  <2>1. UNCHANGED reactions /\ enq' = Append(enq, q)
    BY <1>1, <1>8 DEF PerformPromiseThen
  <2>2. /\ Len(enq) \in Nat /\ Len(enq') = Len(enq) + 1
        /\ \A i \in 1 .. Len(enq) : enq'[i] = enq[i]
        /\ enq'[Len(enq) + 1] = q
    BY <1>3, <2>1, AppendProperties
  <2>3. promise[p] \in Settled
    BY <1>3, <1>4, <1>8
  <2>4. OwnReactions'
    <3>1. SUFFICES ASSUME NEW x \in Promises
                   PROVE  /\ NoRepeat(reactions[x])
                          /\ \A i \in 1 .. Len(reactions[x]) :
                                parent'[reactions[x][i]] = x
                          /\ promise'[x] # "pending" => reactions[x] = <<>>
      BY <2>1 DEF OwnReactions
    <3>2. /\ NoRepeat(reactions[x])
          /\ \A i \in 1 .. Len(reactions[x]) :
                reactions[x][i] \in Promises /\ parent[reactions[x][i]] = x
          /\ promise[x] # "pending" => reactions[x] = <<>>
      BY <1>3 DEF Delivery, OwnReactions
    <3>3. \A i \in 1 .. Len(reactions[x]) : parent'[reactions[x][i]] = x
      BY <1>1, <1>2, <1>3, <3>2
    <3> QED
      BY <1>2, <1>5, <3>2, <3>3
  <2>5. AllWait'
    BY <1>2, <1>4, <1>5, <1>8, <2>1 DEF Delivery, AllWait
  <2>6. OnlyReadyQueued'
    <3>1. NoRepeat(enq')
      BY <1>2, <1>3, <2>1, AppendNoRepeat DEF Delivery, OnlyReadyQueued
    <3>2. \A i \in 1 .. Len(enq) :
             enq[i] \in DerivedSet /\ promise[parent[enq[i]]] \in Settled
      BY DEF Delivery, OnlyReadyQueued
    <3>3. \A i \in 1 .. Len(enq') :
             enq'[i] \in DerivedSet' /\ promise'[parent'[enq'[i]]] \in Settled
      <4>1. promise'[parent'[q]] \in Settled /\ q \in DerivedSet'
        BY <1>4, <1>5, <2>3
      <4>2. \A i \in 1 .. Len(enq') : i \in 1 .. Len(enq) \/ i = Len(enq) + 1
        BY <2>2
      <4> QED
        BY <1>k, <2>2, <3>2, <4>1, <4>2
    <3> QED
      BY <3>1, <3>3 DEF OnlyReadyQueued
  <2>7. AllQueued'
    <3>1. SUFFICES ASSUME NEW d \in DerivedSet', promise'[parent'[d]] \in Settled
                   PROVE  \E i \in 1 .. Len(enq') : enq'[i] = d
      BY DEF AllQueued
    <3>2. CASE d = q
      <4>1. Len(enq) + 1 \in 1 .. Len(enq')
        BY <2>2
      <4> QED
        BY <2>2, <3>2, <4>1
    <3>3. CASE d # q
      <4>1. d \in DerivedSet /\ promise[parent[d]] \in Settled
        BY <1>2, <1>5, <3>1, <3>3
      <4>2. PICK i \in 1 .. Len(enq) : enq[i] = d
        BY <4>1 DEF Delivery, AllQueued
      <4>3. i \in 1 .. Len(enq') /\ enq'[i] = d
        BY <2>2, <4>2
      <4> QED
        BY <4>3
    <3> QED
      BY <3>2, <3>3
  <2> QED
    BY <1>6, <2>4, <2>5, <2>6, <2>7 DEF Delivery
<1> QED
  BY <1>7, <1>8

\* The promise of a hook call starts without reactions.
LEMMA FutureDelivery ==
    ASSUME TypeOK, Blank, Delivery, NEW q \in Promises, HandlerFuture(q)
    PROVE  Delivery'
<1>1. /\ NewPromise(q) /\ np' = q /\ promise' = [promise EXCEPT ![q] = "pending"]
      /\ UNCHANGED <<parent, reactions, enq>>
  BY DEF HandlerFuture, NewPromise
<1>2. /\ q = np + 1 /\ promise[q] = "none" /\ q \notin DerivedSet
      /\ \A d \in DerivedSet : parent[d] \in Promises /\ parent[d] # q
      /\ reactions[q] = <<>>
  BY <1>1, NewIsUnknown
<1>3. /\ np \in Int /\ promise \in [Promises -> {"none", "pending"} \cup Settled]
  BY DEF TypeOK
<1>4. /\ DerivedSet' = DerivedSet /\ promise'[q] = "pending"
      /\ \A x \in Promises : x # q => promise'[x] = promise[x]
  BY <1>1, <1>3 DEF DerivedSet
<1>5. Existing'
  <2>1. \A x \in Promises : (promise'[x] = "none") <=> (x > np')
    BY <1>1, <1>2, <1>3, <1>4 DEF Delivery, Existing, Promises
  <2> QED
    BY <1>1, <1>2, <1>4, <2>1 DEF Delivery, Existing
<1>6. OwnReactions'
  BY <1>1, <1>2, <1>4 DEF Delivery, OwnReactions
<1>7. \A d \in DerivedSet : promise'[parent[d]] = promise[parent[d]]
  BY <1>2, <1>4
<1>8. AllWait' /\ AllQueued'
  BY <1>1, <1>4, <1>7 DEF Delivery, AllWait, AllQueued
<1>9. OnlyReadyQueued'
  BY <1>1, <1>4, <1>7 DEF Delivery, OnlyReadyQueued
<1> QED
  BY <1>5, <1>6, <1>8, <1>9 DEF Delivery

\* Every step keeps Delivery.
LEMMA DeliveryStep ==
    ASSUME IInv, Delivery, [Next]_vars
    PROVE  Delivery'
<1>t. TypeOK /\ StackShape /\ Blank
  BY DEF IInv
<1>1. ASSUME UNCHANGED <<np, promise, parent, reactions, enq>>
      PROVE  Delivery'
  BY <1>1 DEF Delivery, Existing, OwnReactions, AllWait, OnlyReadyQueued, AllQueued,
              DerivedSet
<1>2. ASSUME NEW p \in Promises, NEW outcome \in Outcomes, FutureDone(p, outcome)
      PROVE  Delivery'
  <2>1. PICK state \in Settled : Settle(p, state)
    BY <1>2 DEF FutureDone, ThenCallback, CatchCallback, FinishCallback, Settled
  <2> QED
    BY <1>t, <2>1, SettleDelivery
<1>3. ASSUME NEW p \in Promises, NEW q \in Promises, JSThen(p, q)
      PROVE  Delivery'
  BY <1>t, <1>3, ThenDelivery
<1>4. ASSUME NEW p \in Promises, HandlerFuture(p)
      PROVE  Delivery'
  BY <1>t, <1>4, FutureDelivery
<1>5. ASSUME NEW state \in Settled, JobReturn(state)
      PROVE  Delivery'
  <2>1. Settle(Top.q, state) /\ Top.q \in Promises
    BY <1>t, <1>5, JobRunning DEF JobReturn, TypeOK, StackShape
  <2> QED
    BY <1>t, <2>1, SettleDelivery
<1>6. CASE DrainEnd
  BY <1>1, <1>6, LoopReturnsEffect DEF DrainEnd, promiseVars
<1>7. CASE JobRaise
  BY <1>1, <1>7, LoopReturnsEffect DEF JobRaise, promiseVars
<1>8. CASE \/ UNCHANGED vars
           \/ NewEngine \/ EvalScript \/ CallJS \/ Loop
           \/ \E max \in Limits : DonePendingJobs(max)
           \/ Stop \/ CallHook \/ ScriptReturn \/ HandlerReturn
           \/ HandlerThrow \/ DrainJob
  <2>1. UNCHANGED <<np, promise, parent, reactions, enq>>
    BY <1>8 DEF vars, NewEngine, EvalScript, CallJS, Loop, DonePendingJobs, Stop,
                CallHook, ScriptReturn, HandlerReturn, HandlerThrow, DrainJob,
                promiseVars
  <2> QED
    BY <1>1, <2>1
<1> QED
  BY <1>2, <1>3, <1>4, <1>5, <1>6, <1>7, <1>8 DEF Next

\* Delivery holds initially: there are no promises.
LEMMA DeliveryInit == Init => Delivery
<1> SUFFICES ASSUME Init PROVE Delivery
  OBVIOUS
<1>1. /\ DerivedSet = {} /\ Len(<<>>) = 0 /\ enq = <<>> /\ np = 0
      /\ \A p \in Promises : p > 0 /\ promise[p] = "none" /\ reactions[p] = <<>>
  BY DEF Init, DerivedSet, Promises
<1>2. Existing
  BY <1>1 DEF Existing
<1>3. OwnReactions /\ OnlyReadyQueued
  BY <1>1 DEF OwnReactions, OnlyReadyQueued, NoRepeat
<1>4. AllWait /\ AllQueued
  BY <1>1 DEF AllWait, AllQueued
<1> QED
  BY <1>2, <1>3, <1>4 DEF Delivery

\* Delivery holds in every reachable state.
LEMMA DeliveryInductive == Spec => []Delivery
<1>1. IInv /\ Delivery /\ [Next]_vars => Delivery'
  BY DeliveryStep
<1> QED
  BY <1>1, DeliveryInit, Inductive, PTL DEF Spec

\* perform_promise_then and fulfill_or_reject_promise: a reaction is queued
\* exactly once, when its promise has settled (JSEngine!ReactionQueuedOnce).
THEOREM ReactionsQueuedOnce == Spec => []ReactionQueuedOnce
<1>1. TypeOK /\ Delivery => ReactionQueuedOnce
  <2> SUFFICES ASSUME TypeOK, Delivery, NEW q \in Promises, parent[q] # NoPromise
               PROVE  Cardinality({i \in DOMAIN enq : enq[i] = q}) =
                        IF promise[parent[q]] = "pending" THEN 0 ELSE 1
    BY DEF ReactionQueuedOnce
  <2>1. q \in DerivedSet /\ parent[q] \in Promises /\ DOMAIN enq = 1 .. Len(enq)
    BY DEF DerivedSet, TypeOK
  <2>2. CASE promise[parent[q]] = "pending"
    <3>1. {i \in DOMAIN enq : enq[i] = q} = {}
      BY <2>1, <2>2 DEF Delivery, OnlyReadyQueued, Settled
    <3> QED
      BY <2>2, <3>1, FS_EmptySet
  <2>3. CASE promise[parent[q]] # "pending"
    <3>1. promise[parent[q]] \in Settled
      BY <2>1, <2>3 DEF TypeOK, Delivery, Existing
    <3>2. PICK i \in 1 .. Len(enq) : enq[i] = q
      BY <2>1, <3>1 DEF Delivery, AllQueued
    <3>3. {j \in DOMAIN enq : enq[j] = q} = {i}
      BY <2>1, <3>2 DEF Delivery, OnlyReadyQueued, NoRepeat
    <3> QED
      BY <2>3, <3>3, FS_Singleton
  <2> QED
    BY <2>2, <2>3
<1> QED
  BY <1>1, DeliveryInductive, TypeCorrect, PTL

-----------------------------------------------------------------------------
(* The engine implements AsyncCalls. *)

\* A job that has been started stays started.
LEMMA StartedStep ==
    ASSUME TypeOK, StackShape, JobsStarted, [Next]_vars
    PROVE  JobsStarted'
<1> DEFINE D == RangeOf(ran)
<1>a. stack \in Seq(FramesOf(D)) /\ stack \in Seq(Frames)
  BY DEF JobsStarted, TypeOK
<1>b. <<>> \in Seq(FramesOf(D))
  BY EmptySeq
<1> HIDE DEF D
<1>k. ASSUME stack' \in Seq(FramesOf(D)), UNCHANGED ran
      PROVE  JobsStarted'
  BY <1>k DEF JobsStarted, D
<1>s. ASSUME stack # <<>>, stack' = Below
      PROVE  stack' \in Seq(FramesOf(D))
  <2>1. Len(stack) - 1 \in 0 .. Len(stack)
    BY <1>a, <1>s, BelowProperties
  <2> QED
    BY <1>a, <1>s, <2>1, PrefixProperties DEF Below
<1>p. ASSUME NEW f \in Frames, f.kind # "job", stack' = Append(stack, f)
      PROVE  stack' \in Seq(FramesOf(D))
  BY <1>a, <1>p, AppendProperties DEF FramesOf
<1>1. CASE UNCHANGED vars
  BY <1>1, <1>a, <1>k DEF vars
<1>2. CASE NewEngine \/ Stop \/ HandlerThrow \/ \E p, q \in Promises : JSThen(p, q)
  BY <1>2, <1>a, <1>k DEF NewEngine, Stop, HandlerThrow, JSThen
<1>3. CASE EvalScript \/ CallJS \/ CallHook
  <2>1. stack' \in Seq(FramesOf(D))
    BY <1>3, <1>p, FrameTypes DEF EvalScript, CallJS, CallHook
  <2> QED
    BY <1>3, <1>k, <2>1 DEF EvalScript, CallJS, CallHook
<1>4. CASE Loop
  <2>1. Caller \in Callers
    BY DEF Caller, Callers
  <2>2. stack' \in Seq(FramesOf(D))
    BY <1>4, <1>a, <2>1, LoopKeepsDerived DEF Loop
  <2> QED
    BY <1>4, <1>k, <2>2 DEF Loop
<1>5. ASSUME NEW max \in Limits, DonePendingJobs(max)
      PROVE  JobsStarted'
  <2>1. /\ DrainFrame(max, Caller, NoPromise) \in Frames
        /\ DrainFrame(max, Caller, NoPromise).kind = "drain"
    BY FrameTypes, LimitsAssumption DEF Caller, Callers
  <2> QED
    BY <1>5, <1>k, <1>p, <2>1 DEF DonePendingJobs
<1>6. ASSUME NEW p \in Promises, NEW outcome \in Outcomes, FutureDone(p, outcome)
      PROVE  JobsStarted'
  <2>1. PICK by \in Callers : stack' = <<>> \o LoopFrames(jobs', by, p)
    BY <1>6 DEF FutureDone, ThenCallback, CatchCallback, FinishCallback, Callers
  <2>2. stack' \in Seq(FramesOf(D))
    BY <1>b, <2>1, LoopKeepsDerived
  <2> QED
    BY <1>6, <1>k, <2>2 DEF FutureDone
<1>7. CASE ScriptReturn \/ HandlerReturn \/ \E p \in Promises : HandlerFuture(p)
  BY <1>7, <1>k, <1>s DEF ScriptReturn, HandlerReturn, HandlerFuture, Running
<1>8. CASE DrainEnd
  BY <1>8, <1>k, <1>s, LoopReturnsEffect DEF DrainEnd, Running
<1>9. ASSUME NEW state \in Settled, JobReturn(state)
      PROVE  JobsStarted'
  <2>1. Running({"job"}) /\ stack' = CountJob(Below) /\ UNCHANGED ran
    BY <1>9 DEF JobReturn
  <2>2. Below # <<>> /\ Len(stack) - 1 \in 0 .. Len(stack)
    BY <2>1, JobRunning DEF TypeOK, StackShape
  <2>3. Below \in Seq(FramesOf(D))
    BY <1>a, <2>2, PrefixProperties DEF Below
  <2> QED
    BY <1>k, <2>1, <2>2, <2>3, CountKeepsDerived
<1>10. CASE JobRaise
  <2>1. stack' = SubSeq(stack, 1, Len(stack) - 2) /\ Running({"job"}) /\ UNCHANGED ran
    BY <1>10, LoopReturnsEffect DEF JobRaise
  <2>2. Len(stack) - 2 \in 0 .. Len(stack)
    BY <2>1, JobRunning DEF TypeOK, StackShape
  <2> QED
    BY <1>a, <1>k, <2>1, <2>2, PrefixProperties
<1>11. CASE DrainJob
  <2> DEFINE q == Head(jobs)
             E == D \cup {q}
  <2>1. q \in Promises /\ stack' = Append(stack, JobFrame(q)) /\ ran' = Append(ran, q)
    BY <1>11, HeadTailProperties DEF DrainJob, TypeOK
  <2> HIDE DEF q
  <2>2. D \subseteq RangeOf(ran') /\ q \in RangeOf(ran')
    <3>1. /\ ran \in Seq(Promises) /\ DOMAIN ran = 1 .. Len(ran) /\ Len(ran) \in Nat
          /\ DOMAIN Append(ran, q) = 1 .. Len(ran) + 1
          /\ \A i \in 1 .. Len(ran) : Append(ran, q)[i] = ran[i]
          /\ Append(ran, q)[Len(ran) + 1] = q
      BY <2>1, AppendProperties DEF TypeOK
    <3> QED
      BY <2>1, <3>1 DEF RangeOf, D
  <2>3. JobFrame(q) \in FramesOf(RangeOf(ran'))
    BY <2>1, <2>2, FrameTypes DEF FramesOf
  <2>4. FramesOf(D) \subseteq FramesOf(RangeOf(ran'))
    BY <2>2 DEF FramesOf
  <2>5. stack \in Seq(FramesOf(RangeOf(ran')))
    BY <1>a, <2>4, SeqMonotonic
  <2> QED
    BY <2>1, <2>3, <2>5, AppendProperties DEF JobsStarted
<1> QED
  BY <1>1, <1>2, <1>3, <1>4, <1>5, <1>6, <1>7, <1>8, <1>9, <1>10, <1>11 DEF Next

\* Settling a promise settles it once, for good.
LEMMA SettleImplements ==
    ASSUME TypeOK, NEW p \in Promises, NEW state \in Settled, Settle(p, state),
           UNCHANGED ran, parent[p] = NoPromise \/ p \in RangeOf(ran)
    PROVE  [Abs!AbsNext]_Abs!absVars
<1>1. CASE promise[p] = "pending"
  <2>1. Abs!SettleOnce(p, state)
    BY <1>1 DEF Settle, Abs!SettleOnce
  <2> QED
    BY <2>1 DEF Abs!AbsNext, Abs!Final, Settled
<1>2. CASE promise[p] # "pending"
  BY <1>2 DEF Settle, promiseVars, Abs!absVars
<1> QED
  BY <1>1, <1>2

\* The first job of the queue has not been started, and it is ready.
LEMMA HeadIsNew ==
    ASSUME TypeOK, Delivery, QueueFIFO, jobs # <<>>
    PROVE  /\ Head(jobs) \in DerivedSet /\ Head(jobs) \notin RangeOf(ran)
           /\ promise[parent[Head(jobs)]] \in Settled
<1>1. /\ ran \in Seq(Promises) /\ jobs \in Seq(Promises) /\ enq = ran \o jobs
      /\ Len(ran) \in Nat /\ Len(jobs) \in Nat /\ DOMAIN ran = 1 .. Len(ran)
      /\ NoRepeat(enq)
  BY DEF TypeOK, QueueFIFO, Delivery, OnlyReadyQueued
<1>2. 1 \in 1 .. Len(jobs) /\ Head(jobs) = jobs[1]
  BY <1>1, EmptySeq
<1>3. /\ Len(enq) = Len(ran) + Len(jobs) /\ enq[Len(ran) + 1] = Head(jobs)
      /\ \A i \in 1 .. Len(ran) : enq[i] = ran[i]
  BY <1>1, <1>2, ConcatElements
<1>4. Len(ran) + 1 \in 1 .. Len(enq)
  BY <1>1, <1>2, <1>3
<1>5. Head(jobs) \in DerivedSet /\ promise[parent[Head(jobs)]] \in Settled
  BY <1>3, <1>4 DEF Delivery, OnlyReadyQueued
<1>6. ASSUME NEW i \in 1 .. Len(ran), ran[i] = Head(jobs)
      PROVE  FALSE
  <2>1. i \in 1 .. Len(enq) /\ enq[i] = enq[Len(ran) + 1]
    BY <1>1, <1>3, <1>6
  <2>2. i = Len(ran) + 1
    BY <1>1, <1>4, <2>1 DEF NoRepeat
  <2> QED
    BY <1>1, <2>2
<1> QED
  BY <1>1, <1>5, <1>6 DEF RangeOf

\* The promise of a running job has been derived, and its job started.
LEMMA RunningStarted ==
    ASSUME TypeOK, JobsStarted, Running({"job"})
    PROVE  Top.q \in RangeOf(ran)
<1>1. stack # <<>> /\ Top.kind = "job"
  BY DEF Running
<1>2. Len(stack) \in 1 .. Len(stack) /\ stack \in Seq(FramesOf(RangeOf(ran)))
  BY <1>1, BelowProperties DEF TypeOK, JobsStarted
<1>3. Top \in FramesOf(RangeOf(ran))
  BY <1>2 DEF Top
<1> QED
  BY <1>1, <1>3 DEF FramesOf

\* Every step is a step of AsyncCalls or leaves its state alone.
LEMMA StepImplements ==
    ASSUME IInv, Delivery, QueueFIFO, JobsStarted, [Next]_vars
    PROVE  [Abs!AbsNext]_Abs!absVars
<1>t. TypeOK /\ StackShape /\ Blank
  BY DEF IInv
<1>1. ASSUME UNCHANGED <<promise, parent, ran>>
      PROVE  [Abs!AbsNext]_Abs!absVars
  BY <1>1 DEF Abs!absVars, RangeOf
<1>2. ASSUME NEW p \in Promises, NEW outcome \in Outcomes, FutureDone(p, outcome)
      PROVE  [Abs!AbsNext]_Abs!absVars
  <2>1. PICK state \in Settled : Settle(p, state)
    BY <1>2 DEF FutureDone, ThenCallback, CatchCallback, FinishCallback, Settled
  <2>2. parent[p] = NoPromise /\ UNCHANGED ran
    BY <1>2 DEF FutureDone, IInv, OnlyRootsHaveFutures, DerivedSet
  <2> QED
    BY <1>t, <2>1, <2>2, SettleImplements
<1>3. ASSUME NEW p \in Promises, NEW q \in Promises, JSThen(p, q)
      PROVE  [Abs!AbsNext]_Abs!absVars
  <2>1. promise[q] = "none" /\ promise[p] # "none"
    <3>1. NewPromise(q) /\ p <= np /\ np \in Int
      BY <1>t, <1>3 DEF JSThen, TypeOK
    <3> QED
      BY <1>t, <3>1, NewIsUnknown DEF Delivery, Existing, Promises
  <2>2. Abs!Register(p, q)
    BY <1>3, <2>1 DEF JSThen, NewPromise, PerformPromiseThen, Abs!Register, RangeOf
  <2> QED
    BY <2>2 DEF Abs!AbsNext
<1>4. ASSUME NEW p \in Promises, HandlerFuture(p)
      PROVE  [Abs!AbsNext]_Abs!absVars
  <2>1. promise[p] = "none"
    BY <1>t, <1>4, NewIsUnknown DEF HandlerFuture
  <2>2. Abs!Create(p)
    BY <1>4, <2>1 DEF HandlerFuture, NewPromise, Abs!Create, RangeOf
  <2> QED
    BY <2>2 DEF Abs!AbsNext
<1>5. ASSUME NEW state \in Settled, JobReturn(state)
      PROVE  [Abs!AbsNext]_Abs!absVars
  <2>1. Settle(Top.q, state) /\ Running({"job"}) /\ UNCHANGED ran
    BY <1>5 DEF JobReturn
  <2>2. Top.q \in Promises /\ Top.q \in RangeOf(ran)
    BY <1>t, <2>1, JobRunning, RunningStarted DEF TypeOK, StackShape
  <2> QED
    BY <1>t, <2>1, <2>2, SettleImplements
<1>6. CASE DrainJob
  <2> DEFINE q == Head(jobs)
  <2>1. jobs # <<>> /\ ran' = Append(ran, q) /\ UNCHANGED <<promise, parent>>
    BY <1>6 DEF DrainJob
  <2>2. q \in DerivedSet /\ q \notin RangeOf(ran) /\ promise[parent[q]] \in Settled
    BY <1>t, <2>1, HeadIsNew
  <2>3. q \in Promises /\ parent[q] # NoPromise
    BY <2>2 DEF DerivedSet
  <2> HIDE DEF q
  <2>4. RangeOf(ran') = RangeOf(ran) \cup {q}
    <3>1. /\ ran \in Seq(Promises) /\ DOMAIN ran = 1 .. Len(ran) /\ Len(ran) \in Nat
          /\ DOMAIN Append(ran, q) = 1 .. Len(ran) + 1
          /\ \A i \in 1 .. Len(ran) : Append(ran, q)[i] = ran[i]
          /\ Append(ran, q)[Len(ran) + 1] = q
      BY <1>t, <2>3, AppendProperties DEF TypeOK
    <3>2. 1 .. Len(ran) + 1 = (1 .. Len(ran)) \cup {Len(ran) + 1}
      BY <3>1
    <3> QED
      BY <2>1, <3>1, <3>2 DEF RangeOf
  <2>5. RangeOf(ran)' = RangeOf(ran) \cup {q}
    BY <2>4 DEF RangeOf
  <2>6. Abs!Deliver(q)
    BY <2>1, <2>2, <2>3, <2>5 DEF Abs!Deliver, Abs!Final, Settled
  <2> QED
    BY <2>3, <2>6 DEF Abs!AbsNext
<1>7. CASE DrainEnd
  BY <1>1, <1>7, LoopReturnsEffect DEF DrainEnd, promiseVars
<1>8. CASE JobRaise
  BY <1>1, <1>8, LoopReturnsEffect DEF JobRaise, promiseVars
<1>9. CASE \/ UNCHANGED vars
           \/ NewEngine \/ EvalScript \/ CallJS \/ Loop
           \/ \E max \in Limits : DonePendingJobs(max)
           \/ Stop \/ CallHook \/ ScriptReturn \/ HandlerReturn
           \/ HandlerThrow
  <2>1. UNCHANGED <<promise, parent, ran>>
    BY <1>9 DEF vars, NewEngine, EvalScript, CallJS, Loop, DonePendingJobs, Stop,
                CallHook, ScriptReturn, HandlerReturn, HandlerThrow, promiseVars
  <2> QED
    BY <1>1, <2>1
<1> QED
  BY <1>2, <1>3, <1>4, <1>5, <1>6, <1>7, <1>8, <1>9 DEF Next

\* The asynchronous core implements AsyncCalls: promises settle once, a
\* reaction is delivered at most once, after its promise settled and before
\* the promise it derives (JSEngine!ImplementsAsyncCalls).
THEOREM EngineImplementsAsyncCalls == Spec => ImplementsAsyncCalls
<1>1. Init => Abs!AbsInit
  <2> SUFFICES ASSUME Init PROVE Abs!AbsInit
    OBVIOUS
  <2>1. RangeOf(ran) = {}
    BY DEF Init, RangeOf
  <2> QED
    BY <2>1 DEF Init, Abs!AbsInit
<1>2. Init => JobsStarted
  BY EmptySeq DEF Init, JobsStarted
<1>3. IInv /\ JobsStarted /\ [Next]_vars => JobsStarted'
  BY StartedStep DEF IInv
<1>4. Spec => []JobsStarted
  BY <1>2, <1>3, Inductive, PTL DEF Spec
<1>5. IInv /\ Delivery /\ QueueFIFO /\ JobsStarted /\ [Next]_vars
        => [Abs!AbsNext]_Abs!absVars
  BY StepImplements
<1> QED
  BY <1>1, <1>4, <1>5, Inductive, DeliveryInductive, JobsStartInOrder, PTL
     DEF Spec, ImplementsAsyncCalls, Abs!AbsSpec

-----------------------------------------------------------------------------
(* The loop leaves no reaction behind. *)

\* Calling: a drain without a limit joins the others.
LEMMA DrainsPush ==
    ASSUME NEW s \in Seq(Frames), DrainsUnlimited(s), NEW f \in Frames,
           f.kind = "drain" => f.max < 0
    PROVE  /\ DrainsUnlimited(Append(s, f))
           /\ HasDrain(s) => HasDrain(Append(s, f))
           /\ f.kind = "drain" => HasDrain(Append(s, f))
<1>1. /\ Len(s) \in Nat /\ Len(Append(s, f)) = Len(s) + 1
      /\ \A i \in 1 .. Len(s) : Append(s, f)[i] = s[i]
      /\ Append(s, f)[Len(s) + 1] = f
  BY AppendProperties
<1>2. \A i \in 1 .. Len(Append(s, f)) : i \in 1 .. Len(s) \/ i = Len(s) + 1
  BY <1>1
<1>3. DrainsUnlimited(Append(s, f))
  BY <1>1, <1>2 DEF DrainsUnlimited
<1>4. ASSUME NEW i \in 1 .. Len(s), s[i].kind = "drain"
      PROVE  HasDrain(Append(s, f))
  <2>1. i \in 1 .. Len(Append(s, f)) /\ Append(s, f)[i].kind = "drain"
    BY <1>1, <1>4
  <2> QED
    BY <2>1 DEF HasDrain
<1>5. ASSUME f.kind = "drain"
      PROVE  HasDrain(Append(s, f))
  <2>1. Len(s) + 1 \in 1 .. Len(Append(s, f))
    BY <1>1
  <2> QED
    BY <1>1, <1>5, <2>1 DEF HasDrain
<1> QED
  BY <1>3, <1>4, <1>5 DEF HasDrain

\* Returning: a drain goes only when it is the frame that returns.
LEMMA DrainsPop ==
    ASSUME stack \in Seq(Frames), stack # <<>>, DrainsUnlimited(stack)
    PROVE  /\ DrainsUnlimited(Below)
           /\ Top.kind # "drain" /\ HasDrain(stack) => HasDrain(Below)
<1>1. /\ Len(stack) \in Nat \ {0} /\ Len(Below) = Len(stack) - 1
      /\ \A i \in 1 .. Len(Below) : Below[i] = stack[i]
  BY BelowProperties
<1>2. \A i \in 1 .. Len(Below) : i \in 1 .. Len(stack)
  BY <1>1
<1>3. DrainsUnlimited(Below)
  BY <1>1, <1>2 DEF DrainsUnlimited
<1>4. ASSUME NEW i \in 1 .. Len(stack), stack[i].kind = "drain", Top.kind # "drain"
      PROVE  HasDrain(Below)
  <2>1. i # Len(stack)
    BY <1>4 DEF Top
  <2>2. i \in 1 .. Len(Below)
    BY <1>1, <2>1
  <2> QED
    BY <1>1, <1>4, <2>2 DEF HasDrain
<1> QED
  BY <1>3, <1>4 DEF HasDrain

\* Every step keeps LeftForDrain.
LEMMA LeftStep ==
    ASSUME TypeOK, StackShape, LeftForDrain, [Next]_vars
    PROVE  LeftForDrain'
<1>1. SUFFICES ASSUME AllUnlimited, ~raised'
               PROVE  /\ DrainsUnlimited(stack')
                      /\ HasDrain(stack') \/ RangeOf(jobs') \subseteq late'
  BY DEF LeftForDrain, AllUnlimited, DrainsUnlimited, HasDrain, RangeOf
<1> DEFINE Goal == /\ DrainsUnlimited(stack')
                   /\ HasDrain(stack') \/ RangeOf(jobs') \subseteq late'
<1>t. stack \in Seq(Frames) /\ jobs \in Seq(Promises)
  BY DEF TypeOK
<1>2. CASE JobRaise
  BY <1>1, <1>2 DEF JobRaise
<1>3. CASE ~JobRaise
  <2>r. UNCHANGED raised
    BY <1>3 DEF Next, vars, NewEngine, EvalScript, CallJS, Loop, DonePendingJobs, Stop,
                FutureDone, JSThen, CallHook, ScriptReturn, HandlerReturn, HandlerFuture,
                HandlerThrow, DrainJob, DrainEnd, JobReturn
  <2>i. DrainsUnlimited(stack) /\ (HasDrain(stack) \/ RangeOf(jobs) \subseteq late)
    BY <1>1, <2>r DEF LeftForDrain
  <2>p. ASSUME NEW f \in Frames, f.kind = "drain" => f.max < 0, stack' = Append(stack, f),
               f.kind = "drain" \/ UNCHANGED <<jobs, late>>
        PROVE  Goal
    BY <1>t, <2>i, <2>p, DrainsPush
  <2>s. ASSUME stack # <<>>, Top.kind # "drain", stack' = Below, UNCHANGED <<jobs, late>>
        PROVE  Goal
    BY <1>t, <2>i, <2>s, DrainsPop
  <2>e. ASSUME jobs' = <<>> PROVE RangeOf(jobs') = {}
    BY <2>e DEF RangeOf
  <2>f. \A max \in Int, by \in Callers, p \in Promises \cup {NoPromise} :
           /\ DrainFrame(max, by, p) \in Frames /\ DrainFrame(max, by, p).kind = "drain"
           /\ DrainFrame(max, by, p).max = max
    BY FrameTypes DEF DrainFrame, Frame
  <2>1. CASE UNCHANGED vars \/ NewEngine \/ Stop \/ HandlerThrow
    BY <2>1, <2>i DEF vars, promiseVars, NewEngine, Stop, HandlerThrow
  <2>2. CASE EvalScript \/ CallJS \/ CallHook
    <3>1. UNCHANGED <<jobs, late>>
      BY <2>2 DEF EvalScript, CallJS, CallHook, promiseVars
    <3> QED
      BY <2>2, <2>p, <3>1, FrameTypes DEF EvalScript, CallJS, CallHook
  <2>c. Caller \in Callers
    BY DEF Caller, Callers
  <2>3. CASE Loop
    <3>1. stack' = Append(stack, DrainFrame(-1, Caller, NoPromise))
      BY <1>t, <2>3 DEF Loop, LoopFrames
    <3> QED
      BY <2>c, <2>f, <2>p, <3>1
  <2>4. ASSUME NEW max \in Limits, DonePendingJobs(max)
        PROVE  Goal
    <3>1. max \in Int /\ max < 0
      BY <1>1, LimitsAssumption DEF AllUnlimited
    <3>2. stack' = Append(stack, DrainFrame(max, Caller, NoPromise))
      BY <2>4 DEF DonePendingJobs
    <3> QED
      BY <2>c, <2>f, <2>p, <3>1, <3>2
  <2>5. ASSUME NEW p \in Promises, NEW outcome \in Outcomes, FutureDone(p, outcome)
        PROVE  Goal
    <3>1. PICK by \in Callers : stack' = <<>> \o LoopFrames(jobs', by, p)
      BY <2>5 DEF FutureDone, ThenCallback, CatchCallback, FinishCallback, Callers
    <3>2. CASE jobs' = <<>>
      <4>1. stack' = <<>> /\ Len(<<>>) = 0
        BY <3>1, <3>2 DEF LoopFrames
      <4> QED
        BY <2>e, <3>2, <4>1 DEF DrainsUnlimited
    <3>3. CASE jobs' # <<>>
      <4>1. stack' = Append(stack, DrainFrame(-1, by, p))
        BY <2>5, <3>1, <3>3 DEF LoopFrames, FutureDone, Idle
      <4> QED
        BY <2>f, <2>p, <4>1
    <3> QED
      BY <3>2, <3>3
  <2>6. ASSUME NEW p \in Promises, NEW q \in Promises, JSThen(p, q)
        PROVE  Goal
    <3>1. UNCHANGED stack
      BY <2>6 DEF JSThen
    <3>2. RangeOf(jobs) \subseteq late => RangeOf(jobs') \subseteq late'
      <4>1. CASE promise[p] = "pending"
        BY <2>6, <4>1 DEF JSThen, PerformPromiseThen
      <4>2. CASE promise[p] # "pending"
        <5>1. jobs' = Append(jobs, q) /\ late' = late \cup {q}
          BY <2>6, <4>2 DEF JSThen, PerformPromiseThen
        <5>2. /\ DOMAIN jobs = 1 .. Len(jobs) /\ Len(jobs) \in Nat
              /\ DOMAIN Append(jobs, q) = 1 .. Len(jobs) + 1
              /\ \A i \in 1 .. Len(jobs) : Append(jobs, q)[i] = jobs[i]
              /\ Append(jobs, q)[Len(jobs) + 1] = q
          BY <1>t, AppendProperties
        <5>3. \A i \in 1 .. Len(jobs) + 1 : i \in 1 .. Len(jobs) \/ i = Len(jobs) + 1
          BY <5>2
        <5> QED
          BY <5>1, <5>2, <5>3 DEF RangeOf
      <4> QED
        BY <4>1, <4>2
    <3> QED
      BY <2>i, <3>1, <3>2
  <2>7. CASE ScriptReturn \/ HandlerReturn \/ \E p \in Promises : HandlerFuture(p)
    <3>1. UNCHANGED <<jobs, late>>
      BY <2>7 DEF ScriptReturn, HandlerReturn, HandlerFuture, promiseVars
    <3> QED
      BY <2>7, <2>s, <3>1 DEF ScriptReturn, HandlerReturn, HandlerFuture, Running
  <2>8. CASE DrainJob
    <3>1. /\ Running({"drain"}) /\ jobs # <<>>
          /\ stack' = Append(stack, JobFrame(Head(jobs)))
      BY <2>8 DEF DrainJob
    <3>2. HasDrain(stack)
      <4>1. Len(stack) \in 1 .. Len(stack) /\ Top.kind = "drain"
        BY <1>t, <3>1, BelowProperties DEF Running
      <4> QED
        BY <4>1 DEF HasDrain, Top
    <3>3. JobFrame(Head(jobs)) \in Frames /\ JobFrame(Head(jobs)).kind = "job"
      BY <1>t, <3>1, FrameTypes, HeadTailProperties
    <3> QED
      BY <1>t, <2>i, <3>1, <3>2, <3>3, DrainsPush
  <2>9. CASE DrainEnd
    <3>1. stack # <<>> /\ Top.kind = "drain" /\ (Top.n = Top.max \/ jobs = <<>>)
      BY <2>9 DEF DrainEnd, Running
    <3>2. stack' = Below /\ UNCHANGED <<jobs, late>>
      BY <2>9, LoopReturnsEffect DEF DrainEnd, promiseVars
    <3>3. Top.max < 0 /\ Top.n \in Nat /\ Top.max \in Int
      <4>1. Len(stack) \in 1 .. Len(stack) /\ Top \in Frames
        BY <1>t, <3>1, BelowProperties
      <4> QED
        BY <2>i, <3>1, <4>1 DEF DrainsUnlimited, Top, Frames
    <3>4. jobs' = <<>>
      BY <3>1, <3>2, <3>3
    <3> QED
      BY <1>t, <2>e, <2>i, <3>1, <3>2, <3>4, DrainsPop
  <2>10. ASSUME NEW state \in Settled, JobReturn(state)
         PROVE  Goal
    <3>1. stack' = CountJob(Below) /\ Running({"job"})
      BY <2>10 DEF JobReturn
    <3>2. /\ Below # <<>> /\ Below \in Seq(Frames)
          /\ Len(stack) \in Nat /\ Len(stack) > 1 /\ Len(Below) = Len(stack) - 1
          /\ DrainsUnlimited(Below)
      BY <1>t, <2>i, <3>1, JobRunning, BelowProperties, DrainsPop DEF StackShape, Running
    <3>3. /\ Len(CountJob(Below)) = Len(Below)
          /\ \A i \in 1 .. Len(Below) : /\ CountJob(Below)[i].kind = Below[i].kind
                                         /\ CountJob(Below)[i].max = Below[i].max
      BY <3>2, CountJobProperties
    <3>4. Below[Len(Below)].kind = "drain" /\ Len(Below) \in 1 .. Len(Below)
      <4>1. stack[Len(stack)].kind = "job" /\ Len(stack) \in 1 .. Len(stack)
        BY <3>1, <3>2 DEF Running, Top
      <4>2. stack[Len(stack) - 1].kind = "drain"
        BY <3>2, <4>1 DEF StackShape, Shape
      <4> QED
        BY <1>t, <3>1, <3>2, <4>2, BelowProperties DEF Running
    <3> QED
      BY <3>1, <3>2, <3>3, <3>4 DEF DrainsUnlimited, HasDrain
  <2> QED
    BY <1>3, <2>1, <2>2, <2>3, <2>4, <2>5, <2>6, <2>7, <2>8, <2>9, <2>10 DEF Next
<1> QED
  BY <1>2, <1>3

\* function.dart: when the event loop is idle, only reactions registered on
\* settled promises by code nobody has looped for are queued, unless a job
\* raised or the application drains with a limit
\* (JSEngine!NoReactionLeftBehind).
THEOREM NothingLeftBehind == Spec => []NoReactionLeftBehind
<1>1. Init => LeftForDrain
  <2> SUFFICES ASSUME Init PROVE LeftForDrain
    OBVIOUS
  <2>1. Len(<<>>) = 0 /\ RangeOf(jobs) = {} /\ stack = <<>>
    BY DEF Init, RangeOf
  <2> QED
    BY <2>1 DEF LeftForDrain, DrainsUnlimited
<1>2. IInv /\ LeftForDrain /\ [Next]_vars => LeftForDrain'
  BY LeftStep DEF IInv
<1>3. LeftForDrain => NoReactionLeftBehind
  <2> SUFFICES ASSUME LeftForDrain, Idle, ~raised, AllUnlimited
               PROVE  RangeOf(jobs) \subseteq late
    BY DEF NoReactionLeftBehind, AllUnlimited
  <2>1. Len(<<>>) = 0 /\ stack = <<>>
    BY DEF Idle
  <2> QED
    BY <2>1 DEF LeftForDrain, HasDrain
<1> QED
  BY <1>1, <1>2, <1>3, Inductive, PTL DEF Spec
=============================================================================
