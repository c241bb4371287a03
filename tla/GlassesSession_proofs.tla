------------------------- MODULE GlassesSession_proofs -------------------------
(***************************************************************************)
(* Proofs about GlassesSession, for any number of requests, photos, events *)
(* and connections and any depth of nested operations: an upgrade has the  *)
(* session to itself, a photo comes back as the answer to its own trigger, *)
(* and no audio stream is left running once the operations have returned.  *)
(***************************************************************************)
EXTENDS GlassesSession, TLAPS

-----------------------------------------------------------------------------
(* The stack.                                                              *)

\* Operations in progress, without the bound of their requests.
Records == [op : Ops, at : Places, poll : Polls, call : Nat]

StackInv == stack \in Seq(Records) /\ calls \in Nat

\* The innermost operation of a stack just added to is the one added.
LEMMA TopOfAppend ==
    ASSUME NEW S, NEW s \in Seq(S), NEW f \in S
    PROVE  /\ Append(s, f) # <<>>
           /\ Append(s, f)[Len(Append(s, f))] = f
           /\ Append(s, f) \in Seq(S)
OBVIOUS

\* The innermost operation is one, and the stack without it is a stack.
LEMMA StackParts ==
    ASSUME StackInv, ~Idle
    PROVE  Top \in Records /\ Returned \in Seq(Records)
BY DEF StackInv, Idle, Top, Returned

\* An operation that goes on elsewhere stays on the stack.
LEMMA TopChanged ==
    ASSUME StackInv, ~Idle, NEW f \in Records, stack' = WithTop(f)
    PROVE  stack' \in Seq(Records) /\ ~Idle' /\ Top' = f
BY StackParts, TopOfAppend DEF WithTop, Idle, Top

\* Moving to another place leaves an operation what it is.
LEMMA Moved ==
    ASSUME NEW f \in Records, NEW p \in Places, NEW q \in Polls
    PROVE  /\ [f EXCEPT !.at = p, !.poll = q] \in Records
           /\ [f EXCEPT !.at = p, !.poll = q].op = f.op
           /\ [f EXCEPT !.at = p, !.poll = q].at = p
BY DEF Records

\* So does the next step of a poll, which also leaves it where it is.
LEMMA Polled ==
    ASSUME NEW f \in Records, NEW q \in Polls
    PROVE  /\ [f EXCEPT !.poll = q] \in Records
           /\ [f EXCEPT !.poll = q].op = f.op
           /\ [f EXCEPT !.poll = q].at = f.at
BY DEF Records

\* The places an operation goes to, and the polls it makes there.
LEMMA TopMoves ==
    ASSUME StackInv, ~Idle, NEW p \in Places
    PROVE  At(p) \in Records /\ Polling(p) \in Records
BY StackParts, Moved DEF At, Polling, Polls

\* What a listener or the program begins is put on the stack.
LEMMA Begun ==
    ASSUME StackInv, NEW op \in Ops, NEW p \in Places, NEW q \in Polls,
           Begin(op, p, q)
    PROVE  stack' \in Seq(Records) /\ ~ota
<1>1. New(op, p, q) \in Records
  BY DEF New, Records
<1>2. (IF Idle THEN <<>> ELSE WithTop(Heard)) \in Seq(Records)
  <2>1. CASE Idle
    BY <2>1
  <2>2. CASE ~Idle
    <3>1. Heard \in Records
      BY <2>2, StackParts, Polled DEF Heard, Polls
    <3>2. WithTop(Heard) \in Seq(Records)
      BY <2>2, <3>1, StackParts, TopOfAppend DEF WithTop
    <3> QED BY <2>2, <3>2
  <2> QED BY <2>1, <2>2
<1> QED BY <1>1, <1>2, TopOfAppend DEF Begin, MayRequest

-----------------------------------------------------------------------------
(* Each step leaves a stack of operations.                                 *)

\* How a poll goes on.
Dispatching == PollBegins \/ DispatchEvent \/ EventsDone \/ DispatchImage

\* Dispatching an event or a photo leaves the operation that polls in place.
LEMMA DispatchingKeeps ==
    ASSUME StackInv, Dispatching
    PROVE  /\ stack' \in Seq(Records) /\ ~Idle /\ ~Idle'
           /\ Top'.op = Top.op /\ Top'.at = Top.at
<1>1. CASE PollBegins
  <2>1. ~Idle /\ Top \in Records /\ stack' = WithTop(Polling(Top.at))
    BY <1>1, StackParts DEF PollBegins
  <2>2. Top.at \in Places /\ "events" \in Polls
    BY <2>1 DEF Records, Polls
  <2>3. Polling(Top.at) \in Records /\ Polling(Top.at).op = Top.op
        /\ Polling(Top.at).at = Top.at
    BY <2>1, <2>2 DEF Polling, Records
  <2> QED BY <2>1, <2>3, TopChanged
<1>2. ASSUME NEW q \in Polls, ~Idle, stack' = WithTop([Top EXCEPT !.poll = q])
      PROVE  /\ stack' \in Seq(Records) /\ ~Idle'
             /\ Top'.op = Top.op /\ Top'.at = Top.at
  <2>1. /\ [Top EXCEPT !.poll = q] \in Records
        /\ [Top EXCEPT !.poll = q].op = Top.op
        /\ [Top EXCEPT !.poll = q].at = Top.at
    BY <1>2, StackParts, Polled
  <2> QED BY <1>2, <2>1, TopChanged
<1>3. CASE DispatchEvent
  BY <1>2, <1>3 DEF DispatchEvent, Polls
<1>4. CASE EventsDone
  BY <1>2, <1>4 DEF EventsDone, Polls
<1>5. CASE DispatchImage
  BY <1>2, <1>5 DEF DispatchImage, Polls
<1> QED BY <1>1, <1>3, <1>4, <1>5 DEF Dispatching

\* However a request ends, its operation goes on in another place or returns.
LEMMA EndOfRequest ==
    ASSUME StackInv, ~Idle, NEW kind, NEW name, Succeed \/ Fail(kind, name)
    PROVE  stack' \in Seq(Records)
<1>1. CASE stack' = Returned
  BY <1>1, StackParts
<1>2. CASE stack' = WithTop(Polling("settle"))
  BY <1>2, TopMoves, TopChanged DEF Places
<1>3. CASE stack' = WithTop(At("closing"))
  BY <1>3, TopMoves, TopChanged DEF Places
<1>4. CASE stack' = WithTop([At("send") EXCEPT !.op = "CLEANUP"])
  <2>1. At("send") \in Records
    BY TopMoves DEF Places
  <2>2. [At("send") EXCEPT !.op = "CLEANUP"] \in Records
    BY <2>1 DEF Records, Ops
  <2> QED BY <1>4, <2>2, TopChanged
<1> QED BY <1>1, <1>2, <1>3, <1>4 DEF Succeed, Fail, FinishRecording

\* What an error that a poll raises does, whichever channel it comes from.
LEMMA BreakIs ==
    ASSUME PollBreaks
    PROVE  /\ ~Idle /\ pump /\ pump' = pump
           /\ UNCHANGED <<completed, error, triggers, incoming, images, events,
                         calls, cmdOf, base, connects, streaming>>
           /\ \E name \in {nextName, 0} : Interrupted(name)
           /\ \/ Fail("other", nextName) \/ Fail("other", 0) \/ FinishRecording
              \/ stack' = Returned
           /\ \/ LinkRaises /\ UNCHANGED <<breaks, broken>>
              \/ ChannelRaises
BY DEF PollBreaks, LinkRaises, ChannelRaises, Interrupted, queueVars

\* The steps that put operations on the stack or take them off leave a stack.
LEMMA StackStep ==
    ASSUME StackInv, [Next]_vars
    PROVE  StackInv'
<1>1. calls' \in Nat
  <2>1. calls' = calls \/ calls' = calls + 1
    BY DEF Next, Proceed, PollBegins, DispatchEvent, EventsDone, DispatchImage,
       PollEnds, PollBreaks, RequestSend, RequestRefused, RequestAnswered,
       RequestTimesOut, TriggerChecked, TriggerRefused, WaitEnds, RecordSettled,
       OtaStarts, OtaRefused, OtaEnds, CloseEnd, TriggerPhoto, WaitPhoto,
       RecordStart, RecordStop, Ota, Connect, ConnectFails, CloseBegin,
       LinkNoticed, Device, DeviceExecutes, PhotoFails, PhotoSaved,
       PhotoDropped, OtherEvent, LinkDrop, rpcVars, vars
  <2> QED BY <2>1 DEF StackInv
<1> SUFFICES stack' \in Seq(Records)
  BY <1>1 DEF StackInv
<1>2. CASE UNCHANGED stack
  BY <1>2 DEF StackInv
<1>3. CASE ~Idle /\ stack' = Returned
  BY <1>3, StackParts
<1>4. CASE Dispatching
  BY <1>4, DispatchingKeeps
<1>5. CASE PollEnds
  <2>1. ~Idle /\ (Succeed \/ stack' = WithTop(At(Top.at)))
    BY <1>5 DEF PollEnds
  <2>2. Top.at \in Places
    BY <2>1, StackParts DEF Records
  <2> QED BY <2>1, <2>2, EndOfRequest, TopMoves, TopChanged
<1>6. CASE PollBreaks
  BY <1>6, BreakIs, EndOfRequest, StackParts DEF FinishRecording
<1>7. CASE RequestSend
  <2>1. At("await") \in Records /\ calls + 1 \in Nat
    BY <1>7, TopMoves DEF RequestSend, Places, StackInv
  <2>2. [At("await") EXCEPT !.call = calls + 1] \in Records
    BY <2>1 DEF Records
  <2> QED BY <1>7, <2>2, TopChanged DEF RequestSend
<1>8. CASE RequestRefused \/ RequestTimesOut
  BY <1>8, EndOfRequest DEF RequestRefused, RequestTimesOut
<1>9. CASE RequestAnswered
  <2>1. ~Idle /\ (stack' = WithTop(Polling("drain")) \/ Fail("other", nextName))
    BY <1>9 DEF RequestAnswered
  <2>2. Polling("drain") \in Records
    BY <2>1, TopMoves DEF Places
  <2> QED BY <2>1, <2>2, EndOfRequest, TopChanged
<1>10. CASE TriggerChecked
  BY <1>10, TopMoves, TopChanged DEF TriggerChecked, In, Places
<1>11. CASE OtaStarts
  BY <1>11, TopMoves, TopChanged DEF OtaStarts, In, Places
<1>12. CASE TriggerPhoto \/ WaitPhoto \/ RecordStart \/ RecordStop \/ Ota
  BY <1>12, Begun DEF TriggerPhoto, WaitPhoto, RecordStart, RecordStop, Ota,
     Ops, Places, Polls
<1>13. CASE CloseBegin
  <2>1. \E p \in Places : stack' = <<New("CLOSE", p, "no")>>
    BY <1>13 DEF CloseBegin, Places
  <2>2. \A p \in Places : New("CLOSE", p, "no") \in Records
    BY DEF New, Records, Ops, Polls
  <2> QED BY <2>1, <2>2
<1> QED
  BY <1>2, <1>3, <1>4, <1>5, <1>6, <1>7, <1>8, <1>9, <1>10, <1>11, <1>12, <1>13
     DEF Next, Proceed, Dispatching, TriggerRefused, WaitEnds, RecordSettled,
         FinishRecording, OtaRefused, OtaEnds, CloseEnd, Connect, ConnectFails,
         LinkNoticed, Device, DeviceExecutes, PhotoFails, PhotoSaved,
         PhotoDropped, OtherEvent, LinkDrop, In, vars

-----------------------------------------------------------------------------
(* An upgrade has the session to itself.                                   *)

\* An upgrade in progress is the innermost operation: MayRequest keeps every
\* listener from beginning another, and a busy session refuses the upgrade.
UpgradeOnTop == ota => ~Idle /\ Top.op = "OTA" /\ Top.at = "upgrade"

SessionInv == StackInv /\ UpgradeOnTop /\ OtaExclusive

\* The session starts with nothing in progress.
LEMMA SessionInit == Init => SessionInv
BY DEF Init, SessionInv, StackInv, UpgradeOnTop, OtaExclusive

\* The steps an operation other than an upgrade takes find no upgrade running.
LEMMA OtherOperations ==
    ASSUME SessionInv,
           \/ RequestSend \/ RequestRefused \/ RequestAnswered \/ RequestTimesOut
           \/ TriggerChecked \/ TriggerRefused \/ WaitEnds \/ RecordSettled
           \/ OtaRefused \/ CloseEnd \/ Connect \/ ConnectFails \/ CloseBegin
           \/ TriggerPhoto \/ WaitPhoto \/ RecordStart \/ RecordStop \/ Ota
    PROVE  ~ota /\ ~ota'
<1> USE DEF SessionInv, UpgradeOnTop
<1>1. CASE RequestSend \/ RequestRefused \/ RequestAnswered \/ RequestTimesOut
  BY <1>1 DEF RequestSend, RequestRefused, RequestAnswered, RequestTimesOut
<1>2. CASE \/ TriggerChecked \/ TriggerRefused \/ WaitEnds \/ RecordSettled
           \/ OtaRefused \/ CloseEnd
  BY <1>2 DEF TriggerChecked, TriggerRefused, WaitEnds, RecordSettled,
     OtaRefused, CloseEnd, In
<1>3. CASE Connect \/ ConnectFails \/ CloseBegin
  BY <1>3 DEF Connect, ConnectFails, CloseBegin
<1>4. CASE TriggerPhoto \/ WaitPhoto \/ RecordStart \/ RecordStop \/ Ota
  BY <1>4 DEF TriggerPhoto, WaitPhoto, RecordStart, RecordStop, Ota, Begin,
     MayRequest
<1> QED BY <1>1, <1>2, <1>3, <1>4

\* An upgrade goes on undisturbed, and begins only when nothing else does.
LEMMA UpgradeStep ==
    ASSUME SessionInv, [Next]_vars
    PROVE  (UpgradeOnTop /\ OtaExclusive)'
<1>1. CASE UNCHANGED <<ota, stack, recording, pending>>
  BY <1>1 DEF SessionInv, UpgradeOnTop, OtaExclusive, Idle, Top
<1>2. CASE ~ota'
  BY <1>2 DEF UpgradeOnTop, OtaExclusive
<1>3. CASE Dispatching
  <2>1. ~Idle /\ ~Idle' /\ Top'.op = Top.op /\ Top'.at = Top.at
    BY <1>3, DispatchingKeeps DEF SessionInv
  <2>2. ota' = ota /\ recording' = recording /\ (pending' => pending)
    <3>1. CASE PollBegins \/ EventsDone
      BY <3>1 DEF PollBegins, EventsDone, recVars, photoVars
    <3>2. CASE DispatchEvent
      BY <3>2 DEF DispatchEvent, recVars
    <3>3. CASE DispatchImage
      BY <3>3 DEF DispatchImage, recVars
    <3> QED BY <1>3, <3>1, <3>2, <3>3 DEF Dispatching
  <2> QED BY <2>1, <2>2 DEF SessionInv, UpgradeOnTop, OtaExclusive
<1>4. CASE PollEnds /\ ota
  <2>1. ~Idle /\ Top.op = "OTA" /\ Top.at = "upgrade"
    BY <1>4 DEF SessionInv, UpgradeOnTop
  <2>2. stack' = WithTop(At(Top.at)) /\ UNCHANGED <<ota, recording, pending>>
    BY <1>4, <2>1 DEF PollEnds, recVars, photoVars
  <2>3. Top \in Records /\ Top.at \in Places /\ "no" \in Polls
    BY <2>1, StackParts DEF SessionInv, Records, Polls
  <2>4. At(Top.at) \in Records /\ At(Top.at).op = Top.op /\ At(Top.at).at = Top.at
    BY <2>3 DEF At, Records
  <2>5. ~Idle' /\ Top' = At(Top.at)
    BY <2>1, <2>2, <2>4, TopChanged DEF SessionInv
  <2> QED BY <2>1, <2>2, <2>4, <2>5 DEF SessionInv, UpgradeOnTop, OtaExclusive
<1>5. CASE PollBreaks
  <2>1. PICK name : Interrupted(name)
    BY <1>5, BreakIs
  <2>2. CASE ota
    <3>1. Top.at = "upgrade"
      BY <2>2 DEF SessionInv, UpgradeOnTop
    <3> QED BY <1>2, <2>1, <3>1 DEF Interrupted
  <2>3. CASE ~ota
    <3>1. CASE Top.at \in {"await", "drain", "settle"}
      <4>1. ota' = ota
        BY <2>1, <3>1 DEF Interrupted
      <4> QED BY <1>2, <2>3, <4>1
    <3>2. CASE Top.at \in {"check", "loop", "upgrade"}
      <4>1. ota' = (ota /\ Top.at # "upgrade")
        BY <2>1, <3>2 DEF Interrupted
      <4> QED BY <1>2, <2>3, <4>1
    <3> QED BY <2>1, <3>1, <3>2 DEF Interrupted
  <2> QED BY <2>2, <2>3
<1>6. CASE OtaStarts
  <2>1. ~Idle /\ Top \in Records /\ Top.op = "OTA" /\ stack' = WithTop(At("upgrade"))
    BY <1>6, StackParts DEF OtaStarts, In, SessionInv
  <2>2. /\ At("upgrade") \in Records
        /\ At("upgrade").op = "OTA" /\ At("upgrade").at = "upgrade"
    BY <2>1 DEF At, Records, Places, Polls
  <2>3. ~Idle' /\ Top' = At("upgrade")
    BY <2>1, <2>2, TopChanged DEF SessionInv
  <2>4. ~recording' /\ ~pending'
    BY <1>6 DEF OtaStarts, recVars, photoVars
  <2> QED BY <2>2, <2>3, <2>4 DEF UpgradeOnTop, OtaExclusive
<1>7. CASE PollEnds /\ ~ota
  BY <1>2, <1>7 DEF PollEnds
<1> QED
  BY <1>1, <1>2, <1>3, <1>4, <1>5, <1>6, <1>7, OtherOperations
     DEF Next, Proceed, Dispatching, OtaEnds, LinkNoticed, Device,
         DeviceExecutes, PhotoFails, PhotoSaved, PhotoDropped, OtherEvent,
         LinkDrop, recVars, photoVars, vars

\* In every reachable state an upgrade in progress is the innermost operation
\* and the session is neither recording nor waiting for a photo (session.py:474).
THEOREM UpgradeAlone == Spec => []SessionInv
<1>1. SessionInv /\ [Next]_vars => SessionInv'
  BY StackStep, UpgradeStep DEF SessionInv
<1> QED BY SessionInit, <1>1, PTL DEF Spec

\* An upgrade and a recording or a pending photo exclude one another, whatever
\* listeners are called between the check of ota() and its end.
THEOREM OtaExcludes == Spec => []OtaExclusive
BY UpgradeAlone, PTL DEF SessionInv

-----------------------------------------------------------------------------
(* What a step does to each operation in progress.                         *)

\* The stack without its innermost operation.
LEMMA ReturnedIs ==
    ASSUME StackInv, ~Idle
    PROVE  /\ Len(stack) \in Nat \ {0} /\ Len(stack) - 1 \in Nat
           /\ Returned \in Seq(Records) /\ Len(Returned) = Len(stack) - 1
           /\ \A i \in 1..(Len(stack) - 1) : Returned[i] = stack[i]
<1>1. Len(stack) \in Nat \ {0} /\ Len(stack) - 1 \in Nat
  BY DEF StackInv, Idle
<1>2. Len(Returned) = Len(stack) - 1
  <2> DEFINE n == Len(stack) - 1
  <2>1. stack \in Seq(Records) /\ n \in Nat /\ n <= Len(stack)
    BY <1>1 DEF StackInv
  <2> HIDE DEF n
  <2>2. Len(SubSeq(stack, 1, n)) = n
    BY <2>1
  <2> QED BY <2>2 DEF Returned, n
<1>3. \A i \in 1..(Len(stack) - 1) : Returned[i] = stack[i]
  BY <1>1 DEF StackInv, Returned
<1> QED BY <1>1, <1>2, <1>3, StackParts

\* An operation returns: those around it stay as they are.
LEMMA PopAt ==
    ASSUME StackInv, ~Idle, stack' = Returned
    PROVE  /\ Len(stack') = Len(stack) - 1
           /\ \A i \in 1..Len(stack') : i \in 1..Len(stack) /\ stack'[i] = stack[i]
BY ReturnedIs

\* The innermost operation goes on: so do those around it.
LEMMA TopAt ==
    ASSUME StackInv, ~Idle, NEW f \in Records, stack' = WithTop(f)
    PROVE  /\ Len(stack') = Len(stack) /\ Len(stack) \in 1..Len(stack)
           /\ stack[Len(stack)] = Top /\ stack'[Len(stack)] = f
           /\ \A i \in 1..Len(stack) : i # Len(stack) => stack'[i] = stack[i]
<1> QED BY ReturnedIs DEF StackInv, Top, WithTop

\* An operation is begun: the one that called it goes on with its poll when it
\* returns, and the others stay as they are.
LEMMA PushAt ==
    ASSUME StackInv, NEW op \in Ops, NEW p \in Places, NEW q \in Polls,
           Begin(op, p, q)
    PROVE  /\ Len(stack') = Len(stack) + 1
           /\ stack'[Len(stack) + 1] = New(op, p, q)
           /\ ~Idle => Top.poll \in {"event", "image"} /\ Len(stack) < MaxDepth
           /\ \A i \in 1..Len(stack) :
                 /\ i # Len(stack) => stack'[i] = stack[i]
                 /\ i = Len(stack) =>
                       /\ stack[i] = Top /\ stack'[i] = Heard
                       /\ Heard \in Records /\ Heard.op = Top.op /\ Heard.at = Top.at
                       /\ Heard.call = Top.call /\ Heard.poll \in {"events", "images"}
<1>1. New(op, p, q) \in Records
  BY DEF New, Records
<1>2. CASE Idle
  BY <1>1, <1>2 DEF Begin, Idle
<1>3. CASE ~Idle
  <2>1. Top \in Records /\ Top.poll \in {"event", "image"} /\ Len(stack) < MaxDepth
    BY <1>3, StackParts DEF Begin, Callable
  <2>2. /\ Heard \in Records /\ Heard.op = Top.op /\ Heard.at = Top.at
        /\ Heard.call = Top.call /\ Heard.poll \in {"events", "images"}
    BY <2>1 DEF Heard, Records, Polls
  <2>3. /\ Returned \in Seq(Records) /\ Len(Returned) = Len(stack) - 1
        /\ \A i \in 1..(Len(stack) - 1) : Returned[i] = stack[i]
    BY <1>3, ReturnedIs
  <2>7. Len(stack) \in Nat \ {0}
    BY <1>3 DEF StackInv, Idle
  <2>5. /\ WithTop(Heard) \in Seq(Records) /\ Len(WithTop(Heard)) = Len(stack)
        /\ WithTop(Heard)[Len(stack)] = Heard
        /\ \A i \in 1..(Len(stack) - 1) : WithTop(Heard)[i] = stack[i]
    BY <2>2, <2>3, <2>7 DEF WithTop
  <2>6. stack' = Append(WithTop(Heard), New(op, p, q))
    BY <1>3 DEF Begin
  <2>8. /\ Len(stack') = Len(stack) + 1 /\ stack'[Len(stack) + 1] = New(op, p, q)
        /\ \A i \in 1..Len(stack) : stack'[i] = WithTop(Heard)[i]
    BY <1>1, <2>5, <2>6, <2>7
  <2> QED BY <1>3, <2>1, <2>2, <2>5, <2>7, <2>8 DEF Top
<1> QED BY <1>2, <1>3

-----------------------------------------------------------------------------
(* The requests.                                                           *)

\* The requests have their types, and one that is not sent has no answer.
CallInv ==
    /\ calls \in 0..MaxCalls
    /\ base \in 0..calls
    /\ phase \in [Calls -> Rpc!Phases]
    /\ done \in [Calls -> {"none", "OK", "BAD"}]
    /\ cmdOf \in [Calls -> [cmd : Commands, photo : Nat, inside : BOOLEAN]]
    /\ \A k \in Calls : k > calls => done[k] = "none" /\ phase[k] = "unused"

\* A request is sent, ends or is executed; nothing else changes any of them.
Asking == \/ RequestSend \/ RequestAnswered \/ RequestTimesOut \/ PollBreaks
Executing == \E k \in Calls, status \in {"OK", "BAD"} : DeviceExecutes(k, status)
Connecting == Connect \/ ConnectFails

\* No other step touches a request.
LEMMA CallsKept ==
    ASSUME [Next]_vars, ~Asking, ~Executing
    PROVE  /\ UNCHANGED <<calls, cmdOf, phase, done>>
           /\ ~Connecting => base' = base /\ broken' = broken
BY DEF Next, Proceed, PollBegins, DispatchEvent, EventsDone, DispatchImage,
   PollEnds, RequestRefused, TriggerChecked, TriggerRefused, WaitEnds,
   RecordSettled, OtaStarts, OtaRefused, OtaEnds, CloseEnd, TriggerPhoto,
   WaitPhoto, RecordStart, RecordStop, Ota, Connect, ConnectFails, CloseBegin,
   LinkNoticed, Device, PhotoFails, PhotoSaved, PhotoDropped, OtherEvent,
   LinkDrop, rpcVars, lifeVars, vars, Asking, Executing, Connecting, Rpc!vars

\* A request that is answered or given up was sent, and no other changes.
LEMMA RequestEnds ==
    ASSUME CallInv, RequestAnswered \/ RequestTimesOut \/ PollBreaks
    PROVE  /\ UNCHANGED <<calls, cmdOf, done, base>>
           /\ phase' \in [Calls -> Rpc!Phases]
           /\ \A k \in Calls : phase[k] = "unused" => phase'[k] = "unused"
<1>1. /\ UNCHANGED <<calls, cmdOf, base>>
      /\ Rpc!Answer(Top.call) \/ Rpc!Fail(Top.call) \/ UNCHANGED <<phase, report, done>>
  <2>1. CASE PollBreaks
    BY <2>1, BreakIs DEF Interrupted
  <2>2. CASE RequestAnswered \/ RequestTimesOut
    BY <2>2 DEF RequestAnswered, RequestTimesOut, lifeVars
  <2> QED BY <2>1, <2>2
<1>2. CASE UNCHANGED <<phase, report, done>>
  BY <1>1, <1>2 DEF CallInv
<1>3. CASE Rpc!Answer(Top.call) \/ Rpc!Fail(Top.call)
  <2>1. \E v \in Rpc!Phases :
           /\ done' = done /\ phase' = [phase EXCEPT ![Top.call] = v]
           /\ phase[Top.call] = "open"
    BY <1>3 DEF Rpc!Answer, Rpc!Fail, Rpc!Phases
  <2>2. PICK v \in Rpc!Phases :
           /\ done' = done /\ phase' = [phase EXCEPT ![Top.call] = v]
           /\ phase[Top.call] = "open"
    BY <2>1
  <2>3. phase \in [Calls -> Rpc!Phases]
    BY DEF CallInv
  <2>4. phase' \in [Calls -> Rpc!Phases]
    BY <2>2, <2>3
  <2>5. \A k \in Calls : phase[k] = "unused" => phase'[k] = "unused"
    BY <2>2, <2>3
  <2> QED BY <1>1, <2>2, <2>4, <2>5
<1> QED BY <1>1, <1>2, <1>3

\* What sending a request changes.
LEMMA RequestSent ==
    ASSUME CallInv, RequestSend
    PROVE  /\ calls' = calls + 1 /\ calls + 1 \in Calls /\ base' = base
           /\ cmdOf' = [cmdOf EXCEPT ![calls + 1] = CommandOf(Top)]
           /\ cmdOf'[calls + 1] = CommandOf(Top)
           /\ \A k \in Calls : k # calls + 1 => cmdOf'[k] = cmdOf[k]
           /\ done' = done /\ done[calls + 1] = "none"
           /\ phase' = [phase EXCEPT ![calls + 1] = "open"]
           /\ calls + 1 \in Sent' /\ calls + 1 \notin Sent
           /\ Sent' = Sent \cup {calls + 1} /\ Sent \subseteq Calls
<1>1. calls + 1 \in Calls /\ MaxCalls \in Nat
  BY SessionAssumption DEF RequestSend, CallInv, Calls
<1> QED BY <1>1 DEF CallInv, RequestSend, Rpc!Invoke, Calls, Sent, lifeVars

\* Every step keeps the requests in order.
LEMMA CallStep ==
    ASSUME CallInv, triggers \in Nat, [Next]_vars
    PROVE  CallInv'
<1>1. CASE ~Asking /\ ~Executing
  <2>1. UNCHANGED <<calls, cmdOf, phase, done>>
    BY <1>1, CallsKept
  <2>2. base' = base \/ base' = calls
    BY <1>1, CallsKept DEF Connecting, Connect, ConnectFails, Forget
  <2> QED BY <2>1, <2>2, SessionAssumption DEF CallInv
<1>2. CASE RequestAnswered \/ RequestTimesOut \/ PollBreaks
  BY <1>2, RequestEnds DEF CallInv
<1>3. CASE RequestSend
  <2>1. CommandOf(Top) \in [cmd : Commands, photo : Nat, inside : BOOLEAN]
    BY DEF CommandOf, Commands, InsideRecording
  <2>2. calls' \in 0..MaxCalls /\ base' \in 0..calls'
    BY <1>3, RequestSent, SessionAssumption DEF CallInv, Calls
  <2>3. /\ phase' \in [Calls -> Rpc!Phases]
        /\ cmdOf' \in [Calls -> [cmd : Commands, photo : Nat, inside : BOOLEAN]]
        /\ done' = done
    BY <1>3, <2>1, RequestSent DEF CallInv, Rpc!Phases
  <2>4. \A k \in Calls : k > calls' => done'[k] = "none" /\ phase'[k] = "unused"
    BY <1>3, RequestSent, SessionAssumption DEF CallInv, Calls
  <2> QED BY <2>2, <2>3, <2>4 DEF CallInv
<1>4. CASE Executing
  <2>1. PICK k \in Calls, status \in {"OK", "BAD"} : DeviceExecutes(k, status)
    BY <1>4 DEF Executing
  <2>2. /\ UNCHANGED <<calls, cmdOf, base, phase>> /\ k <= calls
        /\ done' = [done EXCEPT ![k] = status]
    BY <2>1 DEF DeviceExecutes, Rpc!Execute, lifeVars
  <2> QED BY <2>2, SessionAssumption DEF CallInv, Calls
<1> QED BY <1>1, <1>2, <1>3, <1>4 DEF Asking

-----------------------------------------------------------------------------
(* Where the operations in progress are.                                   *)

\* What holds of each: a request is sent outside of polls, and what waits for
\* one, or empties the queues after it, has sent it on this connection.
ShapeOf(f) ==
    /\ f.call \in 0..calls
    /\ f.at = "send" => f.poll = "no"
    /\ f.at \in {"await", "drain", "settle"} => f.call \in Sent
    /\ f.op = "PHOTO" /\ f.at \in {"await", "drain"} => cmdOf[f.call].cmd = "TAKE_PHOTO"
    /\ f.at = "drain" => done[f.call] = "OK"
    /\ f.at = "settle" => f.op = "STOP"

\* All but the innermost are inside a poll that called a listener.
ShapeInv ==
    \A i \in 1..Len(stack) :
        /\ ShapeOf(stack[i])
        /\ i # Len(stack) => stack[i].poll \in {"events", "images"}

\* Nothing is in progress when a connection is made.
LEMMA ConnectIdle ==
    ASSUME Connecting
    PROVE  stack = <<>> /\ stack' = <<>> /\ base' = calls /\ calls' = calls
BY DEF Connecting, Connect, ConnectFails, Forget, Idle, rpcVars

\* Requests sent stay sent.
LEMMA SentGrows ==
    ASSUME CallInv, [Next]_vars, ~Connecting
    PROVE  /\ base' = base /\ calls' \in Nat /\ calls <= calls'
           /\ Sent \subseteq Calls /\ Sent \subseteq Sent'
           /\ \A k \in Sent : cmdOf'[k] = cmdOf[k]
           /\ \A k \in Sent : done[k] # "none" => done'[k] = done[k]
           /\ ~RequestSend => calls' = calls /\ cmdOf' = cmdOf /\ Sent' = Sent
<1>0. calls \in Nat /\ calls <= MaxCalls /\ base \in Nat /\ MaxCalls \in Nat /\ Sent \subseteq Calls
  BY SessionAssumption DEF CallInv, Sent, Calls
<1>1. CASE ~Asking /\ ~Executing
  BY <1>0, <1>1, CallsKept DEF Sent, Asking
<1>2. CASE RequestAnswered \/ RequestTimesOut \/ PollBreaks
  BY <1>0, <1>2, RequestEnds DEF Sent
<1>3. CASE RequestSend
  BY <1>0, <1>3, RequestSent
<1>4. CASE Executing
  <2>1. UNCHANGED <<calls, cmdOf, base>>
    BY <1>4 DEF Executing, DeviceExecutes, lifeVars
  <2>2. \A k \in Sent : done[k] # "none" => done'[k] = done[k]
    BY <1>0, <1>4 DEF Executing, DeviceExecutes, Rpc!Execute, CallInv
  <2> QED BY <1>0, <2>1, <2>2 DEF Sent
<1> QED BY <1>1, <1>2, <1>3, <1>4 DEF Asking

\* What holds of an operation goes on to hold while it stays as it is.
LEMMA ShapeKept ==
    ASSUME CallInv, [Next]_vars, ~Connecting, NEW f, ShapeOf(f)
    PROVE  ShapeOf(f)'
BY SentGrows DEF ShapeOf, CallInv

\* Only the innermost operation can be about to send a request.
LEMMA SenderOnTop ==
    ASSUME StackInv, ShapeInv, NEW i \in 1..Len(stack), stack[i].at = "send"
    PROVE  i = Len(stack) /\ stack[i] = Top /\ Top.poll = "no" /\ ~Idle
BY DEF ShapeInv, ShapeOf, Top, StackInv, Idle

\* The steps that leave the stack, pop it, or change its innermost operation.
LEMMA ShapeOfTop ==
    ASSUME StackInv, CallInv, ShapeInv, [Next]_vars, ~Connecting,
           \/ UNCHANGED stack
           \/ ~Idle /\ stack' = Returned
           \/ /\ ~Idle
              /\ \E f \in Records : ShapeOf(f)' /\ stack' = WithTop(f)
    PROVE  ShapeInv'
<1>0. \A f : ShapeOf(f) => ShapeOf(f)'
  BY ShapeKept
<1>1. CASE UNCHANGED stack
  <2> SUFFICES ASSUME NEW i \in 1..Len(stack)
               PROVE  /\ ShapeOf(stack[i])'
                      /\ i # Len(stack) => stack'[i].poll \in {"events", "images"}
    BY <1>1 DEF ShapeInv
  <2> DEFINE f == stack[i]
  <2>1. ShapeOf(f) /\ (i # Len(stack) => f.poll \in {"events", "images"})
    BY DEF ShapeInv
  <2>2. stack'[i] = f
    BY <1>1
  <2> QED BY <1>0, <2>1, <2>2 DEF ShapeOf
<1>2. CASE ~Idle /\ stack' = Returned
  <2>1. /\ Len(stack') = Len(stack) - 1 /\ Len(stack) \in Nat
        /\ \A i \in 1..Len(stack') : i \in 1..Len(stack) /\ stack'[i] = stack[i]
    BY <1>2, PopAt DEF StackInv
  <2> SUFFICES ASSUME NEW i \in 1..Len(stack')
               PROVE  ShapeOf(stack[i])' /\ stack'[i].poll \in {"events", "images"}
    BY DEF ShapeInv
  <2>2. /\ ShapeOf(stack[i]) /\ stack[i].poll \in {"events", "images"}
        /\ stack'[i] = stack[i]
    BY <2>1 DEF ShapeInv
  <2> QED BY <1>0, <2>2 DEF ShapeOf
<1>3. CASE ~Idle /\ \E f \in Records : ShapeOf(f)' /\ stack' = WithTop(f)
  <2>1. PICK f \in Records : ShapeOf(f)' /\ stack' = WithTop(f)
    BY <1>3
  <2>2. /\ Len(stack') = Len(stack) /\ Len(stack) \in Nat /\ stack'[Len(stack)] = f
        /\ \A i \in 1..Len(stack) : i # Len(stack) => stack'[i] = stack[i]
    BY <1>3, <2>1, TopAt DEF StackInv
  <2> SUFFICES ASSUME NEW i \in 1..Len(stack')
               PROVE  /\ ShapeOf(stack[i])'
                      /\ i # Len(stack') => stack'[i].poll \in {"events", "images"}
    BY DEF ShapeInv
  <2>3. CASE i = Len(stack)
    BY <2>1, <2>2, <2>3 DEF ShapeOf
  <2>4. CASE i # Len(stack)
    <3>1. ShapeOf(stack[i]) /\ stack[i].poll \in {"events", "images"} /\ stack'[i] = stack[i]
      BY <2>2, <2>4 DEF ShapeInv
    <3> QED BY <1>0, <3>1 DEF ShapeOf
  <2> QED BY <2>3, <2>4
<1> QED BY <1>1, <1>2, <1>3

\* The steps that begin an operation.
LEMMA ShapeOfNew ==
    ASSUME StackInv, CallInv, ShapeInv, [Next]_vars, ~Connecting,
           NEW op \in Ops, NEW p \in {"check", "send", "loop"}, NEW q \in Polls,
           Begin(op, p, q), p = "send" => q = "no"
    PROVE  ShapeInv'
<1>0. \A f : ShapeOf(f) => ShapeOf(f)'
  BY ShapeKept
<1>1. p \in Places
  BY DEF Places
<1>2. /\ Len(stack') = Len(stack) + 1 /\ Len(stack) \in Nat
      /\ stack'[Len(stack) + 1] = New(op, p, q)
  BY <1>1, PushAt DEF StackInv
<1> SUFFICES ASSUME NEW i \in 1..Len(stack')
             PROVE  /\ ShapeOf(stack[i])'
                    /\ i # Len(stack') => stack'[i].poll \in {"events", "images"}
  BY DEF ShapeInv
<1>3. CASE i = Len(stack) + 1
  <2>1. calls' \in Nat
    BY SentGrows
  <2> QED BY <1>2, <1>3, <2>1 DEF New, ShapeOf
<1>4. CASE i \in 1..Len(stack) /\ i # Len(stack)
  <2>1. ShapeOf(stack[i]) /\ stack[i].poll \in {"events", "images"} /\ stack'[i] = stack[i]
    BY <1>1, <1>4, PushAt DEF ShapeInv
  <2> QED BY <1>0, <2>1 DEF ShapeOf
<1>5. CASE i = Len(stack)
  <2>1. /\ stack'[i] = Heard /\ Heard.op = stack[i].op /\ Heard.at = stack[i].at
        /\ Heard.call = stack[i].call /\ Heard.poll \in {"events", "images"}
        /\ stack[i].poll \in {"event", "image"}
    BY <1>1, <1>2, <1>5, PushAt DEF Idle
  <2>2. ShapeOf(stack[i])
    BY <1>2, <1>5 DEF ShapeInv
  <2>3. ShapeOf(Heard)
    BY <2>1, <2>2 DEF ShapeOf
  <2> QED BY <1>0, <2>1, <2>3 DEF ShapeOf
<1> QED BY <1>2, <1>3, <1>4, <1>5

\* The steps after a request, or after the poll that ends it.
LEMMA ShapeOfEnd ==
    ASSUME StackInv, CallInv, ShapeInv, [Next]_vars, ~Connecting, ~Idle, NEW kind, NEW name,
           \/ Succeed /\ Top.at = "drain"
           \/ Fail(kind, name)
    PROVE  ShapeInv'
<1>1. ShapeOf(Top) /\ Top \in Records
  BY StackParts DEF ShapeInv, StackInv, Idle, Top
<1>2. CASE stack' = Returned
  BY <1>2, ShapeOfTop
<1>3. CASE stack' = WithTop(At("closing"))
  <2>1. /\ At("closing") \in Records
        /\ At("closing").op = Top.op /\ At("closing").call = Top.call
        /\ At("closing").at = "closing"
    BY <1>1 DEF At, Records, Places, Polls
  <2>2. ShapeOf(At("closing"))
    BY <1>1, <2>1 DEF ShapeOf
  <2>3. PICK f \in Records : f = At("closing")
    BY <2>1
  <2>4. ShapeOf(f)'
    BY <2>2, <2>3, ShapeKept
  <2> QED BY <1>3, <2>3, <2>4, ShapeOfTop
<1>4. CASE Top.op = "STOP" /\ Top.at = "drain" /\ stack' = WithTop(Polling("settle"))
  <2>1. /\ Polling("settle") \in Records
        /\ Polling("settle").op = Top.op /\ Polling("settle").call = Top.call
        /\ Polling("settle").at = "settle"
    BY <1>1 DEF Polling, Records, Places, Polls
  <2>2. ShapeOf(Polling("settle"))
    BY <1>1, <1>4, <2>1 DEF ShapeOf
  <2>3. PICK f \in Records : f = Polling("settle")
    BY <2>1
  <2>4. ShapeOf(f)'
    BY <2>2, <2>3, ShapeKept
  <2> QED BY <1>4, <2>3, <2>4, ShapeOfTop
<1>5. CASE stack' = WithTop([At("send") EXCEPT !.op = "CLEANUP"])
  <2>1. PICK f \in Records : f = [At("send") EXCEPT !.op = "CLEANUP"]
    BY <1>1 DEF At, Records, Places, Polls, Ops
  <2>2. f.at = "send" /\ f.poll = "no" /\ f.call = Top.call
    BY <1>1, <2>1 DEF At, Records
  <2>3. ShapeOf(f)
    BY <1>1, <2>2 DEF ShapeOf
  <2>4. ShapeOf(f)'
    BY <2>3, ShapeKept
  <2> QED BY <1>5, <2>1, <2>4, ShapeOfTop
<1> QED BY <1>2, <1>3, <1>4, <1>5 DEF Succeed, Fail, FinishRecording

\* An operation that stays where it is, or goes to another place without
\* sending, keeps what holds of it.
LEMMA ShapeOfGoing ==
    ASSUME StackInv, CallInv, ShapeInv, [Next]_vars, ~Connecting, ~Idle,
           NEW f \in Records, stack' = WithTop(f), f.op = Top.op, f.call = Top.call,
           \/ f.at = Top.at /\ (f.at = "send" => f.poll = "no")
           \/ f.at = "send" /\ f.poll = "no"
           \/ f.at = "drain" /\ Top.at = "await" /\ done[Top.call] = "OK"
           \/ f.at \in {"check", "loop", "upgrade", "closing"}
    PROVE  ShapeInv'
<1>1. ShapeOf(Top)
  BY DEF ShapeInv, StackInv, Idle, Top
<1>2. ShapeOf(f)
  BY <1>1 DEF ShapeOf
<1> QED BY <1>2, ShapeKept, ShapeOfTop

\* Every step keeps what holds of the operations in progress.
LEMMA ShapeStep ==
    ASSUME StackInv, CallInv, ShapeInv, [Next]_vars
    PROVE  ShapeInv'
<1>0. CASE Connecting
  BY <1>0, ConnectIdle DEF ShapeInv
<1> SUFFICES ASSUME ~Connecting PROVE ShapeInv'
  BY <1>0
<1>1. CASE UNCHANGED stack
  BY <1>1, ShapeOfTop
<1>2. CASE ~Idle /\ stack' = Returned
  BY <1>2, ShapeOfTop
<1>3. CASE ~Idle /\ Dispatching
  <2>1. Top \in Records /\ Top.at # "send"
    <3>1. ShapeOf(Top)
      BY <1>3 DEF ShapeInv, StackInv, Idle, Top
    <3> QED BY <1>3, <3>1, StackParts
       DEF Dispatching, PollBegins, DispatchEvent, EventsDone, DispatchImage, Loops, ShapeOf
  <2>2. \E f \in Records : stack' = WithTop(f) /\ f.op = Top.op /\ f.call = Top.call
                           /\ f.at = Top.at
    <3>1. \A q \in Polls : [Top EXCEPT !.poll = q] \in Records
      BY <2>1, Polled
    <3>2. [Top EXCEPT !.at = Top.at, !.poll = "events"] \in Records
      BY <2>1, Moved DEF Records, Polls
    <3> QED BY <1>3, <2>1, <3>1, <3>2
       DEF Dispatching, PollBegins, DispatchEvent, EventsDone, DispatchImage,
           Polling, Polls, Records
  <2> QED BY <1>3, <2>1, <2>2, ShapeOfGoing
<1>4. CASE PollEnds
  <2>1. CASE Top.at = "drain"
    BY <1>4, <2>1, ShapeOfEnd DEF PollEnds
  <2>2. CASE Top.at # "drain"
    <3>1. ~Idle /\ stack' = WithTop(At(Top.at)) /\ Top \in Records
      BY <1>4, <2>2, StackParts DEF PollEnds
    <3>2. /\ At(Top.at) \in Records /\ At(Top.at).op = Top.op /\ At(Top.at).at = Top.at
          /\ At(Top.at).call = Top.call /\ At(Top.at).poll = "no"
      BY <3>1 DEF At, Records, Polls
    <3> QED BY <3>1, <3>2, ShapeOfGoing
  <2> QED BY <2>1, <2>2
<1>5. CASE PollBreaks
  BY <1>5, <1>2, BreakIs, ShapeOfEnd DEF FinishRecording
<1>6. CASE RequestRefused \/ RequestTimesOut
  BY <1>6, ShapeOfEnd DEF RequestRefused, RequestTimesOut
<1>7. CASE RequestAnswered
  <2>1. ~Idle /\ Top \in Records /\ Top.at = "await"
    BY <1>7, StackParts DEF RequestAnswered
  <2>2. CASE Fail("other", nextName)
    BY <2>1, <2>2, ShapeOfEnd
  <2>3. CASE done[Top.call] = "OK" /\ stack' = WithTop(Polling("drain"))
    <3>1. /\ Polling("drain") \in Records /\ Polling("drain").op = Top.op
          /\ Polling("drain").at = "drain" /\ Polling("drain").call = Top.call
      BY <2>1 DEF Polling, Records, Places, Polls
    <3> QED BY <2>1, <2>3, <3>1, ShapeOfGoing
  <2> QED BY <1>7, <2>2, <2>3 DEF RequestAnswered
<1>8. CASE TriggerChecked \/ OtaStarts
  <2>1. ~Idle /\ Top \in Records
    BY <1>8, StackParts DEF TriggerChecked, OtaStarts, In
  <2>2. \E p \in {"send", "upgrade"} : stack' = WithTop(At(p))
    BY <1>8 DEF TriggerChecked, OtaStarts
  <2>3. \A p \in {"send", "upgrade"} :
           /\ At(p) \in Records /\ At(p).op = Top.op
           /\ At(p).at = p /\ At(p).call = Top.call /\ At(p).poll = "no"
    BY <2>1 DEF At, Records, Places, Polls
  <2> QED BY <2>1, <2>2, <2>3, ShapeOfGoing
<1>9. CASE RequestSend
  <2>1. ~Idle /\ Top \in Records /\ calls + 1 \in Nat
    BY <1>9, StackParts DEF RequestSend, StackInv
  <2>2. PICK f \in Records : /\ f = [At("await") EXCEPT !.call = calls + 1]
                             /\ f.op = Top.op /\ f.at = "await" /\ f.call = calls + 1
    <3>1. /\ At("await") \in Records /\ At("await").op = Top.op
          /\ At("await").at = "await"
      BY <2>1 DEF At, Records, Places, Polls
    <3>2. PICK f \in Records : f = [At("await") EXCEPT !.call = calls + 1]
      BY <2>1, <3>1 DEF Records
    <3>3. f.op = Top.op /\ f.at = "await" /\ f.call = calls + 1
      BY <3>1, <3>2 DEF Records
    <3> QED BY <3>2, <3>3
  <2>3. /\ f.call \in Sent' /\ f.call \in 0..calls' /\ cmdOf'[f.call] = CommandOf(Top)
    BY <1>9, <2>1, <2>2, RequestSent
  <2>4. f.op = "PHOTO" => CommandOf(Top).cmd = "TAKE_PHOTO"
    BY <2>2 DEF CommandOf
  <2>5. ShapeOf(f)'
    BY <2>2, <2>3, <2>4 DEF ShapeOf
  <2> QED BY <1>9, <2>1, <2>2, <2>5, ShapeOfTop DEF RequestSend
<1>10. CASE TriggerPhoto \/ WaitPhoto \/ RecordStart \/ RecordStop \/ Ota
  BY <1>10, ShapeOfNew DEF TriggerPhoto, WaitPhoto, RecordStart, RecordStop, Ota,
     Ops, Polls
<1>11. CASE CloseBegin
  <2>1. PICK p \in {"send", "closing"} : stack' = <<New("CLOSE", p, "no")>>
    BY <1>11 DEF CloseBegin
  <2>2. calls' \in Nat
    BY SentGrows
  <2> QED BY <2>1, <2>2 DEF ShapeInv, ShapeOf, New
<1> QED
  BY <1>1, <1>2, <1>3, <1>4, <1>5, <1>6, <1>7, <1>8, <1>9, <1>10, <1>11
     DEF Next, Proceed, Dispatching, TriggerRefused, WaitEnds, RecordSettled,
         PollBegins, DispatchEvent, EventsDone, DispatchImage,
         FinishRecording, OtaRefused, OtaEnds, CloseEnd, Connecting,
         LinkNoticed, Device, DeviceExecutes, PhotoFails, PhotoSaved,
         PhotoDropped, OtherEvent, LinkDrop, In, vars

-----------------------------------------------------------------------------
(* Where an operation of the stack comes from.                             *)

\* It was there before, at the same place or one further on, or it is at a
\* place where no request of it is under way.
Onward(i) ==
    LET g == stack'[i]
        f == stack[i]
    IN  \/ g.at \in {"loop", "upgrade", "closing"}
        \/ g.at = "check" /\ g.op # "PHOTO"
        \/ g.at = "check" /\ TriggerPhoto /\ i = Len(stack) + 1
        \/ g.at = "send" /\ g.op \in {"STOP", "CLEANUP", "CLOSE"}
        \/ /\ i \in 1..Len(stack)
           /\ g.op = f.op /\ g.call = f.call
           /\ \/ g.at = f.at
              \/ f.at = "await" /\ g.at = "drain"
              \/ f.op = "STOP" /\ f.at = "drain" /\ g.at = "settle"

\* The steps to which every operation comes in this way: only the beginning of
\* a photo or a recording and the sending of a request are others.
Opening == RequestSend \/ TriggerChecked \/ RecordStart

\* The stack as it was, without its innermost operation, or with it moved.
LEMMA OnwardTop ==
    ASSUME StackInv,
           \/ UNCHANGED stack
           \/ ~Idle /\ stack' = Returned
           \/ /\ ~Idle
              /\ \E f \in Records :
                    /\ stack' = WithTop(f)
                    /\ \/ f.at \in {"loop", "upgrade", "closing"}
                       \/ f.at = "send" /\ f.op \in {"STOP", "CLEANUP", "CLOSE"}
                       \/ /\ f.op = Top.op /\ f.call = Top.call
                          /\ \/ f.at = Top.at
                             \/ Top.at = "await" /\ f.at = "drain"
                             \/ Top.op = "STOP" /\ Top.at = "drain" /\ f.at = "settle"
    PROVE  /\ \A i \in 1..Len(stack') : Onward(i)
           /\ Len(stack') <= Len(stack)
<1>0. Len(stack) \in Nat
  BY DEF StackInv
<1>1. CASE UNCHANGED stack
  BY <1>0, <1>1 DEF Onward
<1>2. CASE ~Idle /\ stack' = Returned
  BY <1>0, <1>2, PopAt DEF Onward
<1>3. ASSUME ~Idle, NEW f \in Records, stack' = WithTop(f),
             \/ f.at \in {"loop", "upgrade", "closing"}
             \/ f.at = "send" /\ f.op \in {"STOP", "CLEANUP", "CLOSE"}
             \/ /\ f.op = Top.op /\ f.call = Top.call
                /\ \/ f.at = Top.at
                   \/ Top.at = "await" /\ f.at = "drain"
                   \/ Top.op = "STOP" /\ Top.at = "drain" /\ f.at = "settle"
      PROVE  (\A i \in 1..Len(stack') : Onward(i)) /\ Len(stack') <= Len(stack)
  <2>1. /\ Len(stack') = Len(stack) /\ Len(stack) \in 1..Len(stack)
        /\ stack[Len(stack)] = Top /\ stack'[Len(stack)] = f
        /\ \A i \in 1..Len(stack) : i # Len(stack) => stack'[i] = stack[i]
    BY <1>3, TopAt
  <2>2. \A i \in 1..Len(stack) : i # Len(stack) => Onward(i)
    BY <2>1 DEF Onward
  <2>3. Onward(Len(stack))
    BY <1>3, <2>1 DEF Onward
  <2> QED BY <1>0, <2>1, <2>2, <2>3
<1> QED BY <1>1, <1>2, <1>3

\* An operation whose request has ended.
LEMMA OnwardEnd ==
    ASSUME StackInv, ~Idle, NEW kind, NEW name,
           \/ Succeed /\ Top.at = "drain"
           \/ Fail(kind, name)
    PROVE  /\ \A i \in 1..Len(stack') : Onward(i)
           /\ Len(stack') <= Len(stack)
<1>1. Top \in Records
  BY StackParts
<1>2. CASE stack' = Returned
  BY <1>2, OnwardTop
<1>3. CASE stack' = WithTop(At("closing"))
  <2>1. At("closing") \in Records /\ At("closing").at = "closing"
    BY <1>1 DEF At, Records, Places, Polls
  <2> QED BY <1>3, <2>1, OnwardTop
<1>4. CASE Top.at = "drain" /\ Top.op = "STOP" /\ stack' = WithTop(Polling("settle"))
  <2>1. /\ Polling("settle") \in Records
        /\ Polling("settle").op = Top.op /\ Polling("settle").call = Top.call
        /\ Polling("settle").at = "settle"
    BY <1>1 DEF Polling, Records, Places, Polls
  <2> QED BY <1>4, <2>1, OnwardTop
<1>5. CASE stack' = WithTop([At("send") EXCEPT !.op = "CLEANUP"])
  <2>1. PICK f \in Records : f = [At("send") EXCEPT !.op = "CLEANUP"]
    BY <1>1 DEF At, Records, Places, Polls, Ops
  <2>2. f.at = "send" /\ f.op = "CLEANUP"
    BY <1>1, <2>1 DEF At, Records
  <2> QED BY <1>5, <2>1, <2>2, OnwardTop
<1> QED BY <1>2, <1>3, <1>4, <1>5 DEF Succeed, Fail, FinishRecording

\* Beginning an operation other than a recording.
LEMMA OnwardNew ==
    ASSUME StackInv, NEW op \in Ops, NEW p \in {"check", "send", "loop"}, NEW q \in Polls,
           Begin(op, p, q), p = "send" => op = "STOP", op = "PHOTO" => TriggerPhoto
    PROVE  \A i \in 1..Len(stack') : Onward(i)
<1>1. p \in Places
  BY DEF Places
<1>2. /\ Len(stack') = Len(stack) + 1 /\ Len(stack) \in Nat
      /\ stack'[Len(stack) + 1] = New(op, p, q)
  BY <1>1, PushAt DEF StackInv
<1>3. Onward(Len(stack) + 1)
  BY <1>2 DEF Onward, New
<1>4. \A i \in 1..Len(stack) : i # Len(stack) => Onward(i)
  BY <1>1, PushAt DEF Onward
<1>5. \A i \in 1..Len(stack) : i = Len(stack) => Onward(i)
  BY <1>1, PushAt DEF Onward
<1> QED BY <1>2, <1>3, <1>4, <1>5

\* Every other step.
LEMMA OnwardStep ==
    ASSUME StackInv, [Next]_vars, ~Opening
    PROVE  /\ \A i \in 1..Len(stack') : Onward(i)
           /\ \/ Len(stack') <= Len(stack)
              \/ TriggerPhoto \/ WaitPhoto \/ RecordStop \/ Ota \/ CloseBegin
<1>0. CASE Connecting
  <2>1. Len(stack') = 0 /\ Len(stack) = 0
    BY <1>0, ConnectIdle
  <2> QED BY <2>1
<1>1. CASE UNCHANGED stack
  BY <1>1, OnwardTop
<1>2. CASE ~Idle /\ stack' = Returned
  BY <1>2, OnwardTop
<1>3. CASE ~Idle /\ Dispatching
  <2>1. Top \in Records
    BY <1>3, StackParts
  <2>2. \E f \in Records : stack' = WithTop(f) /\ f.op = Top.op /\ f.call = Top.call
                           /\ f.at = Top.at
    <3>1. \A q \in Polls : [Top EXCEPT !.poll = q] \in Records
      BY <2>1, Polled
    <3>2. [Top EXCEPT !.at = Top.at, !.poll = "events"] \in Records
      BY <2>1, Moved DEF Records, Polls
    <3> QED BY <1>3, <2>1, <3>1, <3>2
       DEF Dispatching, PollBegins, DispatchEvent, EventsDone, DispatchImage,
           Polling, Polls, Records
  <2> QED BY <1>3, <2>2, OnwardTop
<1>4. CASE PollEnds
  <2>1. CASE Top.at = "drain"
    BY <1>4, <2>1, OnwardEnd DEF PollEnds
  <2>2. CASE Top.at # "drain"
    <3>1. ~Idle /\ stack' = WithTop(At(Top.at)) /\ Top \in Records
      BY <1>4, <2>2, StackParts DEF PollEnds
    <3>2. /\ At(Top.at) \in Records /\ At(Top.at).op = Top.op /\ At(Top.at).at = Top.at
          /\ At(Top.at).call = Top.call
      BY <3>1 DEF At, Records, Polls
    <3> QED BY <3>1, <3>2, OnwardTop
  <2> QED BY <2>1, <2>2
<1>5. CASE PollBreaks
  BY <1>5, <1>2, BreakIs, OnwardEnd DEF FinishRecording
<1>6. CASE RequestRefused \/ RequestTimesOut
  BY <1>6, OnwardEnd DEF RequestRefused, RequestTimesOut
<1>7. CASE RequestAnswered
  <2>1. ~Idle /\ Top \in Records /\ Top.at = "await"
    BY <1>7, StackParts DEF RequestAnswered
  <2>2. CASE Fail("other", nextName)
    BY <2>1, <2>2, OnwardEnd
  <2>3. CASE stack' = WithTop(Polling("drain"))
    <3>1. /\ Polling("drain") \in Records /\ Polling("drain").op = Top.op
          /\ Polling("drain").at = "drain" /\ Polling("drain").call = Top.call
      BY <2>1 DEF Polling, Records, Places, Polls
    <3> QED BY <2>1, <2>3, <3>1, OnwardTop
  <2> QED BY <1>7, <2>2, <2>3 DEF RequestAnswered
<1>8. CASE OtaStarts
  <2>1. ~Idle /\ Top \in Records /\ stack' = WithTop(At("upgrade"))
    BY <1>8, StackParts DEF OtaStarts, In
  <2>2. At("upgrade") \in Records /\ At("upgrade").at = "upgrade"
    BY <2>1 DEF At, Records, Places, Polls
  <2> QED BY <2>1, <2>2, OnwardTop
<1>9. CASE TriggerPhoto \/ WaitPhoto \/ RecordStop \/ Ota
  BY <1>9, OnwardNew DEF TriggerPhoto, WaitPhoto, RecordStop, Ota, Ops, Polls
<1>10. CASE CloseBegin
  <2>1. PICK p \in {"send", "closing"} : stack' = <<New("CLOSE", p, "no")>>
    BY <1>10 DEF CloseBegin
  <2> QED BY <1>10, <2>1 DEF Onward, New
<1> QED
  BY <1>0, <1>1, <1>2, <1>3, <1>4, <1>5, <1>6, <1>7, <1>8, <1>9, <1>10
     DEF Next, Proceed, Dispatching, TriggerRefused, WaitEnds, RecordSettled,
         PollBegins, DispatchEvent, EventsDone, DispatchImage, Opening,
         FinishRecording, OtaRefused, OtaEnds, CloseEnd, Connecting,
         LinkNoticed, Device, DeviceExecutes, PhotoFails, PhotoSaved,
         PhotoDropped, OtherEvent, LinkDrop, In, vars

\* A photo about to be sent comes from trigger_photo.
LEMMA OnwardTrigger ==
    ASSUME StackInv, TriggerChecked
    PROVE  /\ Len(stack') = Len(stack)
           /\ \A i \in 1..Len(stack') :
                 IF i = Len(stack) THEN stack'[i].op = "PHOTO" /\ stack'[i].at = "send"
                                   ELSE stack'[i] = stack[i]
<1>1. ~Idle /\ Top \in Records /\ Top.op = "PHOTO" /\ stack' = WithTop(At("send"))
  BY StackParts DEF TriggerChecked, In
<1>2. At("send") \in Records /\ At("send").op = "PHOTO" /\ At("send").at = "send"
  BY <1>1 DEF At, Records, Places, Polls
<1> QED BY <1>1, <1>2, TopAt

\* A recording about to be sent comes from record_start.
LEMMA OnwardRecord ==
    ASSUME StackInv, RecordStart
    PROVE  /\ Len(stack') = Len(stack) + 1
           /\ \A i \in 1..Len(stack') :
                 IF i = Len(stack) + 1
                 THEN stack'[i].op = "START" /\ stack'[i].at = "send"
                 ELSE /\ i \in 1..Len(stack)
                      /\ stack'[i].op = stack[i].op /\ stack'[i].at = stack[i].at
                      /\ stack'[i].call = stack[i].call
<1>1. Begin("START", "send", "no")
  BY DEF RecordStart
<1>2. Len(stack) \in Nat /\ "START" \in Ops /\ "send" \in Places /\ "no" \in Polls
  BY DEF StackInv, Ops, Places, Polls
<1>3. /\ Len(stack') = Len(stack) + 1
      /\ stack'[Len(stack) + 1] = New("START", "send", "no")
      /\ \A i \in 1..Len(stack) :
            /\ i # Len(stack) => stack'[i] = stack[i]
            /\ i = Len(stack) =>
                  /\ stack[i] = Top /\ stack'[i] = Heard
                  /\ Heard.op = Top.op /\ Heard.at = Top.at /\ Heard.call = Top.call
  BY <1>1, <1>2, PushAt
<1>4. \A i \in 1..Len(stack) :
         /\ stack'[i].op = stack[i].op /\ stack'[i].at = stack[i].at
         /\ stack'[i].call = stack[i].call
  BY <1>3
<1> QED BY <1>2, <1>3, <1>4 DEF New

\* A request that waits was sent by the innermost operation.
LEMMA OnwardSend ==
    ASSUME StackInv, RequestSend
    PROVE  /\ Len(stack') = Len(stack) /\ Len(stack) \in 1..Len(stack)
           /\ stack[Len(stack)] = Top /\ Top.at = "send"
           /\ \A i \in 1..Len(stack') :
                 IF i = Len(stack)
                 THEN stack'[i].op = Top.op /\ stack'[i].at = "await" /\ stack'[i].call = calls + 1
                 ELSE stack'[i] = stack[i]
<1>1. ~Idle /\ Top \in Records /\ Top.at = "send" /\ calls + 1 \in Nat
  BY StackParts DEF RequestSend, StackInv
<1>2. At("await") \in Records /\ At("await").op = Top.op /\ At("await").at = "await"
  BY <1>1 DEF At, Records, Places, Polls
<1>3. PICK f \in Records : f = [At("await") EXCEPT !.call = calls + 1]
  BY <1>1, <1>2 DEF Records
<1>4. f.op = Top.op /\ f.at = "await" /\ f.call = calls + 1
  BY <1>2, <1>3 DEF Records
<1> QED BY <1>1, <1>3, <1>4, TopAt DEF RequestSend

-----------------------------------------------------------------------------
(* The requests that are waited for.                                       *)

Waits(i) == stack[i].at \in {"await", "drain"}

\* Each is waited for by one operation, which no error has made leave it.
WaitInv ==
    /\ broken \subseteq Sent
    /\ \A i \in 1..Len(stack) : Waits(i) =>
          /\ stack[i].call \notin broken
          /\ \A j \in 1..Len(stack) : Waits(j) /\ stack[j].call = stack[i].call => j = i

\* An operation that waits has waited for the same request before, or has just
\* sent it.
LEMMA WaitsBack ==
    ASSUME StackInv, [Next]_vars, NEW i \in 1..Len(stack'), Waits(i)'
    PROVE  \/ i \in 1..Len(stack) /\ Waits(i) /\ stack'[i].call = stack[i].call
           \/ RequestSend /\ i = Len(stack) /\ stack'[i].call = calls + 1
<1>1. CASE RequestSend
  BY <1>1, OnwardSend DEF Waits
<1>2. CASE TriggerChecked
  BY <1>2, OnwardTrigger DEF Waits
<1>3. CASE RecordStart
  BY <1>3, OnwardRecord DEF Waits
<1>4. CASE ~Opening
  BY <1>4, OnwardStep DEF Onward, Waits
<1> QED BY <1>1, <1>2, <1>3, <1>4 DEF Opening

\* The operation that an error interrupts waits no more.
LEMMA BrokenIsLeft ==
    ASSUME StackInv, ShapeInv, [Next]_vars, PollBreaks,
           NEW i \in 1..Len(stack'), Waits(i)', Top.at \in {"await", "drain"}
    PROVE  i \in 1..Len(stack) /\ i # Len(stack)
<1>1. ~Idle /\ Top \in Records /\ (Fail("other", nextName) \/ Fail("other", 0))
  BY BreakIs, StackParts DEF PollBreaks, LinkRaises, ChannelRaises, Interrupted
<1>2. CASE stack' = Returned
  BY <1>1, <1>2, PopAt
<1>3. CASE stack' = WithTop(At("closing"))
  <2>1. At("closing") \in Records /\ At("closing").at = "closing"
    BY <1>1 DEF At, Records, Places, Polls
  <2> QED BY <1>1, <1>3, <2>1, TopAt DEF Waits
<1> QED BY <1>1, <1>2, <1>3 DEF Fail, FinishRecording

\* What an error has made the session leave stays left on this connection.
LEMMA BrokenGrows ==
    ASSUME [Next]_vars, ~Connecting
    PROVE  broken \subseteq broken' /\ (~PollBreaks => broken' = broken)
<1>1. CASE ~Asking /\ ~Executing
  BY <1>1, CallsKept
<1>2. CASE RequestSend \/ RequestAnswered \/ RequestTimesOut \/ Executing
  BY <1>2 DEF RequestSend, RequestAnswered, RequestTimesOut, Executing, DeviceExecutes,
     lifeVars
<1>3. CASE PollBreaks
  BY <1>3 DEF PollBreaks, LinkRaises, ChannelRaises
<1> QED BY <1>1, <1>2, <1>3 DEF Asking

\* A photo astray stays so on this connection.
LEMMA AstrayStays ==
    ASSUME CallInv, WaitInv, [Next]_vars, ~Connecting, Astray
    PROVE  Astray'
<1>1. PICK k \in broken : cmdOf[k].cmd = "TAKE_PHOTO" /\ done[k] = "OK"
  BY DEF Astray
<1>2. k \in Sent /\ k \in broken'
  BY BrokenGrows DEF WaitInv
<1>3. cmdOf'[k] = cmdOf[k] /\ done'[k] = done[k]
  BY <1>1, <1>2, SentGrows
<1> QED BY <1>1, <1>2, <1>3 DEF Astray

\* What is left by an error was sent on this connection and is waited for by
\* nobody.
LEMMA WaitStep ==
    ASSUME StackInv, CallInv, ShapeInv, WaitInv, [Next]_vars
    PROVE  WaitInv'
<1>1. CASE Connecting
  <2>1. Len(stack') = 0 /\ broken' = {}
    BY <1>1, ConnectIdle DEF Connecting, Connect, ConnectFails, Forget
  <2> QED BY <2>1 DEF WaitInv
<1> SUFFICES ASSUME ~Connecting PROVE WaitInv'
  BY <1>1
<1>2. /\ Sent \subseteq Sent' /\ calls \in Nat
      /\ \A k \in Sent : k # calls + 1
      /\ \A i \in 1..Len(stack) : stack[i].call # calls + 1
      /\ \A i \in 1..Len(stack) : Waits(i) => stack[i].call \in Sent
  <2>1. calls \in Nat /\ base \in Nat
    BY SessionAssumption DEF CallInv
  <2> QED BY <2>1, SentGrows DEF ShapeInv, ShapeOf, Waits, Sent
<1>3. \A i, j \in 1..Len(stack') :
         Waits(i)' /\ Waits(j)' /\ stack'[j].call = stack'[i].call => j = i
  BY <1>2, WaitsBack DEF WaitInv
<1>4. CASE PollBreaks
  <2>1. broken' \subseteq broken \cup (IF Top.at \in {"await", "drain"} THEN {Top.call} ELSE {})
    BY <1>4 DEF PollBreaks, LinkRaises, ChannelRaises
  <2>2. ~Idle /\ Len(stack) \in 1..Len(stack) /\ stack[Len(stack)] = Top
    BY <1>4 DEF PollBreaks, StackInv, Idle, Top
  <2>3. broken' \subseteq Sent'
    BY <1>2, <2>1, <2>2 DEF WaitInv, Waits
  <2>4. ASSUME NEW i \in 1..Len(stack'), Waits(i)'
        PROVE  stack'[i].call \notin broken'
    <3>0. ~RequestSend
      BY <1>2, <1>4, BreakIs DEF RequestSend
    <3>1. i \in 1..Len(stack) /\ Waits(i) /\ stack'[i].call = stack[i].call
      BY <2>4, <3>0, WaitsBack
    <3>2. stack[i].call \notin broken
      BY <3>1 DEF WaitInv
    <3>3. Top.at \in {"await", "drain"} => stack[i].call # Top.call
      BY <1>4, <2>2, <2>4, <3>1, BrokenIsLeft DEF WaitInv, Waits
    <3> QED BY <2>1, <3>1, <3>2, <3>3
  <2> QED BY <1>3, <2>3, <2>4 DEF WaitInv
<1>5. CASE ~PollBreaks
  <2>1. broken' = broken
    BY <1>5, BrokenGrows
  <2>2. ASSUME NEW i \in 1..Len(stack'), Waits(i)'
        PROVE  stack'[i].call \notin broken'
    BY <1>2, <2>1, <2>2, WaitsBack DEF WaitInv
  <2> QED BY <1>2, <1>3, <2>1, <2>2 DEF WaitInv
<1> QED BY <1>4, <1>5

-----------------------------------------------------------------------------
(* The variables have their types, without the bounds of TypeOK.           *)

Shots == [photo : Nat, name : Nat]

Types ==
    /\ pump \in BOOLEAN
    /\ link \in {"none", "up", "dropped", "down"}
    /\ recording \in BOOLEAN /\ audio \in BOOLEAN
    /\ pending \in BOOLEAN /\ error \in BOOLEAN
    /\ ota \in BOOLEAN /\ streaming \in BOOLEAN
    /\ completed \in Shots
    /\ incoming \in Seq({"failed", "other"}) /\ images \in Seq(Shots)
    /\ nextName \in Nat /\ triggers \in Nat /\ shooting \in Nat
    /\ breaks \in Nat

\* What a variable holds while there is nothing.
LEMMA NothingTyped ==
    NoPhoto \in Shots /\ <<>> \in Seq({"failed", "other"}) /\ <<>> \in Seq(Shots)
BY DEF NoPhoto, Shots

\* The session starts well typed.
LEMMA TypesInit == Init => Types
<1> SUFFICES ASSUME Init PROVE Types
  OBVIOUS
<1>1. /\ pump \in BOOLEAN /\ recording \in BOOLEAN /\ audio \in BOOLEAN
      /\ pending \in BOOLEAN /\ error \in BOOLEAN
      /\ ota \in BOOLEAN /\ streaming \in BOOLEAN
  BY DEF Init
<1>2. link \in {"none", "up", "dropped", "down"}
  BY DEF Init
<1>3. completed \in Shots /\ incoming \in Seq({"failed", "other"}) /\ images \in Seq(Shots)
  BY NothingTyped DEF Init
<1>4. nextName \in Nat /\ triggers \in Nat /\ shooting \in Nat
  BY DEF Init
<1>5. breaks \in Nat
  BY SessionAssumption DEF Init
<1> QED BY <1>1, <1>2, <1>3, <1>4, <1>5 DEF Types

\* The flags an operation changes when its request ends.
LEMMA TypesEnd ==
    ASSUME Types, NEW kind, NEW name \in {nextName, 0},
           Succeed \/ Fail(kind, name) \/ FinishRecording
    PROVE  /\ recording' \in BOOLEAN /\ audio' \in BOOLEAN
           /\ Fail(kind, name) => pending' \in BOOLEAN /\ nextName' \in Nat
<1>1. recording' \in BOOLEAN /\ audio' \in BOOLEAN
  BY DEF Succeed, Fail, FinishRecording, recVars, Types
<1>2. Fail(kind, name) => pending' \in BOOLEAN
  BY DEF Fail, Types
<1>3. Fail(kind, name) => nextName' \in {nextName, 0}
  BY DEF Fail
<1>4. Fail(kind, name) => nextName' \in Nat
  BY <1>3 DEF Types
<1> QED BY <1>1, <1>2, <1>4

\* What reads the queues leaves them queues.
LEMMA TypesPoll ==
    ASSUME Types, PollBegins \/ DispatchEvent \/ EventsDone \/ DispatchImage \/ PollEnds
    PROVE  Types'
<1>1. CASE PollBegins \/ EventsDone
  BY <1>1 DEF PollBegins, EventsDone, Types, recVars, photoVars, queueVars, deviceVars, lifeVars
<1>2. CASE DispatchEvent
  <2>1. incoming' \in Seq({"failed", "other"})
    BY <1>2 DEF DispatchEvent, Types
  <2>2. error' \in BOOLEAN /\ pending' \in BOOLEAN
    BY <1>2 DEF DispatchEvent
  <2> QED BY <1>2, <2>1, <2>2 DEF DispatchEvent, Types, recVars, deviceVars, lifeVars
<1>3. CASE DispatchImage
  <2>1. images' \in Seq(Shots) /\ completed' \in Shots
    BY <1>3 DEF DispatchImage, Types
  <2>2. pending' \in BOOLEAN
    BY <1>3 DEF DispatchImage
  <2> QED BY <1>3, <2>1, <2>2 DEF DispatchImage, Types, recVars, deviceVars, lifeVars
<1>4. CASE PollEnds
  <2>1. recording' \in BOOLEAN /\ audio' \in BOOLEAN
    BY <1>4, TypesEnd DEF PollEnds, recVars, Types
  <2> QED BY <1>4, <2>1 DEF PollEnds, Types, photoVars, queueVars, deviceVars, lifeVars
<1> QED BY <1>1, <1>2, <1>3, <1>4

\* Every step leaves each variable its type.
LEMMA TypesStep ==
    ASSUME CallInv, Types, [Next]_vars
    PROVE  Types'
<1>1. CASE PollBegins \/ DispatchEvent \/ EventsDone \/ DispatchImage \/ PollEnds
  BY <1>1, TypesPoll
<1>2. CASE PollBreaks
  <2>1. PICK name \in {nextName, 0} : Interrupted(name)
    BY <1>2, BreakIs
  <2>2. /\ recording' \in BOOLEAN /\ audio' \in BOOLEAN
        /\ pending' \in BOOLEAN /\ nextName' \in Nat
    <3>1. CASE Fail("other", name)
      BY <3>1, TypesEnd
    <3>2. CASE FinishRecording /\ nextName' = name /\ UNCHANGED <<pending, ota>>
      BY <3>2, TypesEnd DEF Types
    <3>3. CASE nextName' = name /\ UNCHANGED <<recVars, pending>>
      BY <3>3 DEF Types, recVars
    <3> QED BY <2>1, <3>1, <3>2, <3>3 DEF Interrupted
  <2>3. ota' \in BOOLEAN
    BY <2>1 DEF Interrupted, Types
  <2>4. /\ breaks' \in Nat /\ shooting' \in Nat
        /\ link' \in {"none", "up", "dropped", "down"}
    BY <1>2, BreakIs, SessionAssumption DEF LinkRaises, ChannelRaises, Types
  <2> QED BY <1>2, <2>2, <2>3, <2>4, BreakIs DEF Types
<1>3. CASE RequestRefused \/ RequestAnswered \/ RequestTimesOut
  <2>1. /\ recording' \in BOOLEAN /\ audio' \in BOOLEAN
        /\ pending' \in BOOLEAN /\ nextName' \in Nat
    <3>1. CASE \E kind : Fail(kind, nextName)
      BY <3>1, TypesEnd
    <3>2. CASE UNCHANGED <<recVars, pending, nextName>>
      BY <3>2 DEF Types, recVars
    <3> QED BY <1>3, <3>1, <3>2 DEF RequestRefused, RequestAnswered, RequestTimesOut
  <2> QED BY <1>3, <2>1
     DEF RequestRefused, RequestAnswered, RequestTimesOut, Types, queueVars,
         deviceVars, lifeVars
<1>4. CASE TriggerChecked
  <2>1. pending' \in BOOLEAN /\ error' \in BOOLEAN /\ completed' \in Shots
    BY <1>4, NothingTyped DEF TriggerChecked
  <2>2. nextName' \in Nat /\ triggers' \in Nat
    BY <1>4 DEF TriggerChecked, Types
  <2> QED BY <1>4, <2>1, <2>2 DEF TriggerChecked, Types, recVars, queueVars, deviceVars, lifeVars
<1>5. CASE Connecting
  <2>1. /\ recording' \in BOOLEAN /\ audio' \in BOOLEAN /\ pending' \in BOOLEAN
        /\ error' \in BOOLEAN /\ ota' \in BOOLEAN /\ streaming' \in BOOLEAN
        /\ pump' \in BOOLEAN
    BY <1>5 DEF Connecting, Connect, ConnectFails, Forget, Types
  <2>2. completed' \in Shots /\ incoming' \in Seq({"failed", "other"}) /\ images' \in Seq(Shots)
    BY <1>5, NothingTyped DEF Connecting, Connect, ConnectFails, Forget
  <2>3. nextName' \in Nat /\ triggers' \in Nat /\ shooting' \in Nat
    BY <1>5 DEF Connecting, Connect, ConnectFails, Forget, Types
  <2>4. link' \in {"none", "up", "dropped", "down"}
    BY <1>5 DEF Connecting, Connect, ConnectFails
  <2>5. breaks' \in Nat
    BY <1>5 DEF Connecting, Connect, ConnectFails, Types
  <2> QED BY <2>1, <2>2, <2>3, <2>4, <2>5 DEF Types
<1>6. CASE Executing
  <2>1. PICK k \in Calls, status \in {"OK", "BAD"} : DeviceExecutes(k, status)
    BY <1>6 DEF Executing
  <2>2. streaming' \in BOOLEAN /\ shooting' \in Nat
    BY <2>1 DEF DeviceExecutes, Types, CallInv
  <2> QED BY <2>1, <2>2 DEF DeviceExecutes, Types, recVars, photoVars, queueVars, lifeVars
<1>7. CASE PhotoFails \/ PhotoSaved \/ PhotoDropped \/ OtherEvent
  <2>1. CASE PhotoFails
    BY <2>1 DEF PhotoFails, Types, recVars, photoVars, lifeVars
  <2>2. CASE PhotoSaved
    <3>1. [photo |-> shooting, name |-> nextName] \in Shots
      BY DEF Types, Shots
    <3> QED BY <2>2, <3>1 DEF PhotoSaved, Types, recVars, lifeVars
  <2>3. CASE PhotoDropped
    BY <2>3 DEF PhotoDropped, Types, recVars, photoVars, queueVars, lifeVars
  <2>4. CASE OtherEvent
    BY <2>4 DEF OtherEvent, Types, recVars, photoVars, deviceVars, lifeVars
  <2> QED BY <1>7, <2>1, <2>2, <2>3, <2>4
<1>8. CASE RecordStart \/ RecordSettled \/ CloseEnd \/ OtaStarts \/ OtaEnds \/ LinkDrop
  <2>1. CASE RecordStart \/ RecordSettled
    BY <2>1 DEF RecordStart, RecordSettled, FinishRecording, Types, photoVars,
       queueVars, deviceVars, lifeVars
  <2>2. CASE CloseEnd \/ LinkDrop
    <3>1. recording' \in BOOLEAN /\ audio' \in BOOLEAN /\ streaming' \in BOOLEAN
      BY <2>2 DEF CloseEnd, LinkDrop, FinishRecording, Types, recVars
    <3>2. shooting' \in Nat
      BY <2>2 DEF CloseEnd, LinkDrop
    <3> QED BY <2>2, <3>1, <3>2 DEF CloseEnd, LinkDrop, Types, photoVars, queueVars, lifeVars
  <2>3. CASE OtaStarts \/ OtaEnds
    BY <2>3 DEF OtaStarts, OtaEnds, Types, recVars, photoVars, queueVars,
       deviceVars, lifeVars
  <2> QED BY <1>8, <2>1, <2>2, <2>3
<1>9. CASE \/ TriggerPhoto \/ WaitPhoto \/ RecordStop \/ Ota \/ CloseBegin
           \/ RequestSend \/ TriggerRefused \/ WaitEnds \/ OtaRefused
           \/ LinkNoticed \/ UNCHANGED vars
  BY <1>9 DEF TriggerPhoto, WaitPhoto, RecordStop, Ota, CloseBegin, RequestSend,
     TriggerRefused, WaitEnds, OtaRefused, LinkNoticed, vars, Types,
     recVars, photoVars, queueVars, deviceVars, lifeVars
<1> QED BY <1>1, <1>2, <1>3, <1>4, <1>5, <1>6, <1>7, <1>8, <1>9
   DEF Next, Proceed, Device, Executing, Connecting

-----------------------------------------------------------------------------
(* Where the last photo is.  From trigger_photo until the session stops    *)
(* waiting for it, it is in one place: about to be requested, requested and *)
(* not yet executed, refused and not yet answered, being taken, saved and   *)
(* not dispatched, or failed and not dispatched.                           *)

NoneFailed == \A i \in 1..Len(incoming) : incoming[i] # "failed"

\* Nothing the device has made of a photo is on its way to the session.
NoOutcome == shooting = 0 /\ images = <<>> /\ NoneFailed

\* A request that an error made the session leave asks for no photo of its.
Unexecuted(k) == cmdOf[k].cmd = "TAKE_PHOTO" /\ done[k] = "none" /\ k \notin broken
Unsent(i) == stack[i].op = "PHOTO" /\ stack[i].at = "send"
Unanswered(i) ==
    stack[i].op = "PHOTO" /\ stack[i].at = "await" /\ done[stack[i].call] # "OK"

ToSend ==
    \A i \in 1..Len(stack) : Unsent(i) =>
        /\ pending /\ nextName = triggers /\ NoOutcome
        /\ \A k \in Sent : ~Unexecuted(k)
        /\ \A j \in 1..Len(stack) : ~Unanswered(j)

ToExecute ==
    \A k \in Sent : Unexecuted(k) =>
        /\ pending /\ nextName = triggers /\ cmdOf[k].photo = triggers /\ NoOutcome
        /\ \A j \in Sent : Unexecuted(j) => j = k

ToAnswer ==
    \A i \in 1..Len(stack) : Unanswered(i) =>
        /\ done[stack[i].call] = "BAD" =>
              pending /\ NoOutcome /\ \A k \in Sent : ~Unexecuted(k)
        /\ \A j \in 1..Len(stack) : Unanswered(j) => j = i

Taking ==
    shooting # 0 =>
        /\ pending /\ nextName = triggers /\ shooting = triggers
        /\ images = <<>> /\ NoneFailed

Saving == images # <<>> => pending /\ Len(images) = 1 /\ NoneFailed

Failing ==
    \A i \in 1..Len(incoming) : incoming[i] = "failed" =>
        /\ pending
        /\ \A j \in 1..Len(incoming) : incoming[j] = "failed" => j = i

Stages == ToSend /\ ToExecute /\ ToAnswer /\ Taking /\ Saving /\ Failing

\* There is no photo in any of these places.
Clean ==
    /\ NoOutcome
    /\ \A k \in Sent : ~Unexecuted(k)
    /\ \A i \in 1..Len(stack) : ~Unsent(i) /\ ~Unanswered(i)

LEMMA CleanStages == Clean => Stages
BY DEF Clean, Stages, ToSend, ToExecute, ToAnswer, Taking, Saving, Failing,
   NoOutcome, NoneFailed

\* A request that waits and is not executed is one of this connection's.
LEMMA WaitingIsSent ==
    ASSUME CallInv, ShapeInv, WaitInv, NEW i \in 1..Len(stack), Unanswered(i)
    PROVE  /\ stack[i].call \in Sent /\ cmdOf[stack[i].call].cmd = "TAKE_PHOTO"
           /\ done[stack[i].call] \in {"none", "BAD"}
           /\ done[stack[i].call] = "none" => Unexecuted(stack[i].call)
<1>1. /\ stack[i].call \in Sent /\ cmdOf[stack[i].call].cmd = "TAKE_PHOTO"
  BY DEF ShapeInv, ShapeOf, Unanswered
<1>2. Sent \subseteq Calls
  BY SessionAssumption DEF CallInv, Sent, Calls
<1>3. stack[i].call \notin broken
  BY DEF WaitInv, Waits, Unanswered
<1> QED BY <1>1, <1>2, <1>3 DEF CallInv, Unanswered, Unexecuted

\* While the session does not wait for a photo, there is none.
LEMMA NotPendingClean ==
    ASSUME CallInv, ShapeInv, WaitInv, Types, Stages, ~pending
    PROVE  Clean
<1>1. NoOutcome
  BY DEF Stages, Taking, Saving, Failing, NoOutcome, NoneFailed
<1>2. \A k \in Sent : ~Unexecuted(k)
  BY DEF Stages, ToExecute
<1>3. \A i \in 1..Len(stack) : ~Unsent(i)
  BY DEF Stages, ToSend
<1>4. \A i \in 1..Len(stack) : ~Unanswered(i)
  BY <1>2, WaitingIsSent DEF Stages, ToAnswer
<1> QED BY <1>1, <1>2, <1>3, <1>4 DEF Clean

\* The operations that wait for a photo have waited for it before.
LEMMA FramesBack ==
    ASSUME StackInv, [Next]_vars, ~Opening, done' = done
    PROVE  \A i \in 1..Len(stack') :
              /\ Unsent(i)' => i \in 1..Len(stack) /\ Unsent(i)
              /\ Unanswered(i)' => /\ i \in 1..Len(stack) /\ Unanswered(i)
                                   /\ stack'[i].call = stack[i].call
BY OnwardStep DEF Onward, Unsent, Unanswered

\* A step that leaves the photo where it is, or loses it with the link.
LEMMA StagesKept ==
    ASSUME StackInv, CallInv, ShapeInv, WaitInv, Types, Stages, [Next]_vars,
           ~Connecting, ~Opening, ~Executing,
           UNCHANGED <<pending, nextName, triggers, images>>,
           shooting' \in {shooting, 0},
           incoming' = incoming \/ incoming' = Append(incoming, "other")
    PROVE  Stages'
<1>1. Sent' = Sent /\ cmdOf' = cmdOf /\ done' = done /\ broken \subseteq broken'
  <2>1. done' = done
    BY CallsKept, RequestEnds DEF Asking, Opening
  <2> QED BY <2>1, SentGrows, BrokenGrows DEF Opening
<1>2. \A i \in 1..Len(stack') :
         /\ Unsent(i)' => i \in 1..Len(stack) /\ Unsent(i)
         /\ Unanswered(i)' => /\ i \in 1..Len(stack) /\ Unanswered(i)
                              /\ stack'[i].call = stack[i].call
  BY <1>1, FramesBack
<1>3. \A k \in Sent : Unexecuted(k)' => Unexecuted(k)
  BY <1>1 DEF Unexecuted
<1>4. /\ NoneFailed => NoneFailed'
      /\ \A i \in 1..Len(incoming') : incoming'[i] = "failed" =>
            i \in 1..Len(incoming) /\ incoming[i] = "failed"
  <2>1. incoming \in Seq({"failed", "other"})
    BY DEF Types
  <2>2. ASSUME incoming' = Append(incoming, "other")
        PROVE  \A i \in 1..Len(incoming') : incoming'[i] = "failed" =>
                  i \in 1..Len(incoming) /\ incoming[i] = "failed"
    BY <2>1, <2>2
  <2>3. \A i \in 1..Len(incoming') : incoming'[i] = "failed" =>
            i \in 1..Len(incoming) /\ incoming[i] = "failed"
    BY <2>2
  <2> QED BY <2>3 DEF NoneFailed
<1>5. NoOutcome => NoOutcome'
  BY <1>4 DEF NoOutcome
<1>6. ToSend' /\ ToExecute' /\ ToAnswer'
  <2>1. ToSend'
    BY <1>1, <1>2, <1>3, <1>5 DEF Stages, ToSend
  <2>2. ToExecute'
    BY <1>1, <1>3, <1>5 DEF Stages, ToExecute
  <2>3. ToAnswer'
    BY <1>1, <1>2, <1>3, <1>5 DEF Stages, ToAnswer
  <2> QED BY <2>1, <2>2, <2>3
<1>7. Taking' /\ Saving' /\ Failing'
  BY <1>4 DEF Stages, Taking, Saving, Failing
<1> QED BY <1>6, <1>7 DEF Stages

\* The failure of the photo is dispatched, or another event is.
LEMMA StagesEvent ==
    ASSUME StackInv, CallInv, ShapeInv, WaitInv, Types, Stages, [Next]_vars, DispatchEvent
    PROVE  Stages'
<1>0. ~Opening
  <2>1. incoming' # incoming
    <3>1. Len(incoming') # Len(incoming)
      BY DEF DispatchEvent, Types
    <3> QED BY <3>1
  <2> QED BY <2>1 DEF Opening, RequestSend, TriggerChecked, RecordStart, queueVars
<1>1. /\ Sent' = Sent /\ cmdOf' = cmdOf /\ done' = done /\ broken' = broken /\ ~Opening
      /\ UNCHANGED <<images, shooting, nextName, triggers>>
  BY <1>0 DEF DispatchEvent, rpcVars, lifeVars, deviceVars, Sent
<1>2. \A i \in 1..Len(stack') :
         /\ Unsent(i)' => i \in 1..Len(stack) /\ Unsent(i)
         /\ Unanswered(i)' => /\ i \in 1..Len(stack) /\ Unanswered(i)
                              /\ stack'[i].call = stack[i].call
  BY <1>1, FramesBack
<1>3. \A k \in Sent : Unexecuted(k)' <=> Unexecuted(k)
  BY <1>1 DEF Unexecuted
<1>4. /\ incoming \in Seq({"failed", "other"}) /\ incoming # <<>>
      /\ Head(incoming) = incoming[1] /\ Len(incoming) \in Nat \ {0}
      /\ Len(incoming') = Len(incoming) - 1
      /\ \A i \in 1..Len(incoming') :
            i + 1 \in 1..Len(incoming) /\ incoming'[i] = incoming[i + 1]
  BY DEF DispatchEvent, Types
<1>5. CASE Head(incoming) # "failed"
  <2>1. pending' = pending
    BY <1>5 DEF DispatchEvent, Types
  <2>2. /\ NoneFailed => NoneFailed'
        /\ NoOutcome => NoOutcome'
    BY <1>1, <1>4 DEF NoneFailed, NoOutcome
  <2>3. ToSend' /\ ToExecute' /\ ToAnswer'
    <3>1. ToSend'
      BY <1>1, <1>2, <1>3, <2>1, <2>2 DEF Stages, ToSend
    <3>2. ToExecute'
      BY <1>1, <1>3, <2>1, <2>2 DEF Stages, ToExecute
    <3>3. ToAnswer'
      BY <1>1, <1>2, <1>3, <2>1, <2>2 DEF Stages, ToAnswer
    <3> QED BY <3>1, <3>2, <3>3
  <2>4. Taking' /\ Saving'
    BY <1>1, <2>1, <2>2 DEF Stages, Taking, Saving
  <2>5. Failing'
    <3> SUFFICES ASSUME NEW i \in 1..Len(incoming'), incoming'[i] = "failed"
                 PROVE  /\ pending'
                        /\ \A j \in 1..Len(incoming') : incoming'[j] = "failed" => j = i
      BY DEF Failing
    <3>1. i + 1 \in 1..Len(incoming) /\ incoming[i + 1] = "failed"
      BY <1>4
    <3>2. /\ pending
          /\ \A j \in 1..Len(incoming) : incoming[j] = "failed" => j = i + 1
      BY <3>1 DEF Stages, Failing
    <3>3. \A j \in 1..Len(incoming') : incoming'[j] = "failed" => j = i
      BY <1>4, <3>2
    <3> QED BY <2>1, <3>2, <3>3
  <2> QED BY <2>3, <2>4, <2>5 DEF Stages
<1>6. CASE Head(incoming) = "failed"
  <2>1. /\ 1 \in 1..Len(incoming) /\ incoming[1] = "failed" /\ ~NoneFailed
    BY <1>4, <1>6 DEF NoneFailed
  <2>2. \A j \in 1..Len(incoming) : incoming[j] = "failed" => j = 1
    BY <2>1 DEF Stages, Failing
  <2>3. NoneFailed'
    BY <1>4, <2>2 DEF NoneFailed
  <2>4. shooting = 0 /\ images = <<>> /\ ~NoOutcome
    BY <2>1 DEF Stages, Taking, Saving, NoOutcome
  <2>5. \A k \in Sent : ~Unexecuted(k)
    BY <2>4 DEF Stages, ToExecute
  <2>6. \A i \in 1..Len(stack) : ~Unsent(i) /\ ~Unanswered(i)
    BY <2>4, <2>5, WaitingIsSent DEF Stages, ToSend, ToAnswer
  <2>7. Clean'
    BY <1>1, <1>2, <1>3, <2>3, <2>4, <2>5, <2>6 DEF Clean, NoOutcome
  <2> QED
    <3>1. Clean' => Stages'
      BY CleanStages, PTL
    <3> QED BY <2>7, <3>1
<1> QED BY <1>5, <1>6

\* The photo is dispatched: then it is nowhere.
LEMMA StagesImage ==
    ASSUME StackInv, CallInv, ShapeInv, WaitInv, Types, Stages, [Next]_vars, DispatchImage
    PROVE  Stages'
<1>0. ~Opening
  <2>1. images' # images
    <3>1. Len(images') # Len(images)
      BY DEF DispatchImage, Types
    <3> QED BY <3>1
  <2> QED BY <2>1 DEF Opening, RequestSend, TriggerChecked, RecordStart, queueVars
<1>1. /\ Sent' = Sent /\ cmdOf' = cmdOf /\ done' = done /\ broken' = broken /\ ~Opening
      /\ UNCHANGED <<incoming, shooting>>
  BY <1>0 DEF DispatchImage, rpcVars, lifeVars, deviceVars, Sent
<1>2. \A i \in 1..Len(stack') :
         /\ Unsent(i)' => i \in 1..Len(stack) /\ Unsent(i)
         /\ Unanswered(i)' => /\ i \in 1..Len(stack) /\ Unanswered(i)
                              /\ stack'[i].call = stack[i].call
  BY <1>1, FramesBack
<1>3. \A k \in Sent : Unexecuted(k)' <=> Unexecuted(k)
  BY <1>1 DEF Unexecuted
<1>4. images # <<>> /\ Len(images) = 1 /\ NoneFailed /\ shooting = 0 /\ ~NoOutcome
  BY DEF DispatchImage, Stages, Saving, Taking, NoOutcome
<1>5. images' = <<>>
  BY <1>4 DEF DispatchImage, Types
<1>6. \A k \in Sent : ~Unexecuted(k)
  BY <1>4 DEF Stages, ToExecute
<1>7. \A i \in 1..Len(stack) : ~Unsent(i) /\ ~Unanswered(i)
  BY <1>4, <1>6, WaitingIsSent DEF Stages, ToSend, ToAnswer
<1>8. Clean'
  BY <1>1, <1>2, <1>3, <1>4, <1>5, <1>6, <1>7 DEF Clean, NoOutcome, NoneFailed
<1> QED
  <2>1. Clean' => Stages'
    BY CleanStages, PTL
  <2> QED BY <1>8, <2>1

\* A photo that could not be requested or was refused is given up.
LEMMA StagesGivenUp ==
    ASSUME StackInv, CallInv, ShapeInv, WaitInv, Types, Stages, ~Idle,
           Top.op = "PHOTO", stack' = Returned,
           \/ Top.at = "send"
           \/ Top.at = "await" /\ done[Top.call] = "BAD",
           UNCHANGED <<calls, base, cmdOf, done, shooting, images, incoming>>,
           broken \subseteq broken'
    PROVE  Stages'
<1>1. Len(stack) \in 1..Len(stack) /\ stack[Len(stack)] = Top
  BY DEF StackInv, Idle, Top
<1>2. /\ Len(stack') = Len(stack) - 1
      /\ \A i \in 1..Len(stack') : i \in 1..Len(stack) /\ i # Len(stack) /\ stack'[i] = stack[i]
  BY <1>1, PopAt
<1>3. /\ NoOutcome
      /\ \A k \in Sent : ~Unexecuted(k)
      /\ \A j \in 1..Len(stack) : j # Len(stack) => ~Unanswered(j)
  <2>1. CASE Top.at = "send"
    <3>1. Unsent(Len(stack))
      BY <1>1, <2>1 DEF Unsent
    <3> QED BY <1>1, <3>1 DEF Stages, ToSend
  <2>2. CASE Top.at = "await" /\ done[Top.call] = "BAD"
    <3>1. Unanswered(Len(stack)) /\ done[stack[Len(stack)].call] = "BAD"
      BY <1>1, <2>2 DEF Unanswered
    <3> QED BY <1>1, <3>1 DEF Stages, ToAnswer
  <2> QED BY <2>1, <2>2
<1>4. \A i \in 1..Len(stack) : Unsent(i) => i = Len(stack)
  BY SenderOnTop DEF Unsent
<1>5. Clean'
  BY <1>2, <1>3, <1>4 DEF Clean, NoOutcome, NoneFailed, Unsent, Unanswered, Unexecuted, Sent
<1> QED
  <2>1. Clean' => Stages'
    BY CleanStages, PTL
  <2> QED BY <1>5, <2>1

\* The session begins to wait for a photo: there is no other.
LEMMA StagesTrigger ==
    ASSUME StackInv, CallInv, ShapeInv, WaitInv, Types, Stages, TriggerChecked
    PROVE  Stages'
<1>1. Clean
  BY NotPendingClean DEF TriggerChecked
<1>2. /\ pending' /\ nextName' = triggers'
      /\ UNCHANGED <<calls, base, cmdOf, done, broken, shooting, images, incoming>>
  BY DEF TriggerChecked, queueVars, rpcVars, deviceVars, lifeVars
<1>3. /\ NoOutcome'
      /\ \A k \in Sent' : ~Unexecuted(k)'
  BY <1>1, <1>2 DEF Clean, NoOutcome, NoneFailed, Sent, Unexecuted
<1>4. \A i \in 1..Len(stack') : ~Unanswered(i)'
  BY <1>1, <1>2, OnwardTrigger DEF Clean, Unanswered
<1> QED BY <1>2, <1>3, <1>4 DEF Stages, ToSend, ToExecute, ToAnswer, Taking,
   Saving, Failing, NoOutcome, NoneFailed

\* A request is sent: if it is for a photo, there is no other.
LEMMA StagesSend ==
    ASSUME StackInv, CallInv, ShapeInv, WaitInv, Types, Stages, RequestSend
    PROVE  Stages'
<1>1. /\ UNCHANGED <<pending, nextName, triggers, shooting, images, incoming, broken>>
      /\ done' = done /\ done[calls + 1] = "none"
      /\ Sent' = Sent \cup {calls + 1} /\ calls + 1 \notin Sent
      /\ \A k \in Sent : cmdOf'[k] = cmdOf[k]
      /\ cmdOf'[calls + 1] = CommandOf(Top)
  BY RequestSent DEF RequestSend, photoVars, queueVars, deviceVars, lifeVars
<1>2. /\ Len(stack') = Len(stack) /\ Len(stack) \in 1..Len(stack)
      /\ stack[Len(stack)] = Top /\ Top.at = "send"
      /\ \A i \in 1..Len(stack') :
            IF i = Len(stack)
            THEN stack'[i].op = Top.op /\ stack'[i].at = "await" /\ stack'[i].call = calls + 1
            ELSE stack'[i] = stack[i]
  BY OnwardSend
<1>3. \A i \in 1..Len(stack') : ~Unsent(i)'
  <2>1. \A i \in 1..Len(stack) : Unsent(i) => i = Len(stack)
    BY SenderOnTop DEF Unsent
  <2> QED BY <1>2, <2>1 DEF Unsent
<1>4. /\ NoneFailed' <=> NoneFailed
      /\ NoOutcome' <=> NoOutcome
  BY <1>1 DEF NoneFailed, NoOutcome
<1>5. Taking' /\ Saving' /\ Failing'
  BY <1>1 DEF Stages, Taking, Saving, Failing, NoneFailed
<1>6. \A k \in Sent : Unexecuted(k)' <=> Unexecuted(k)
  BY <1>1 DEF Unexecuted
<1>7. \A i \in 1..Len(stack) : i # Len(stack) =>
         (Unanswered(i)' <=> Unanswered(i)) /\ stack'[i].call = stack[i].call
  BY <1>1, <1>2 DEF Unanswered
<1>8. CASE Top.op # "PHOTO"
  <2>1. ~Unanswered(Len(stack))'
    BY <1>2, <1>8 DEF Unanswered
  <2>2. \A k \in Sent' : Unexecuted(k)' => k \in Sent
    BY <1>1, <1>8 DEF Unexecuted, CommandOf
  <2>3. ToSend' /\ ToExecute'
    BY <1>1, <1>3, <1>4, <1>6, <2>2 DEF Stages, ToSend, ToExecute
  <2>4. ToAnswer'
    <3> SUFFICES ASSUME NEW i \in 1..Len(stack'), Unanswered(i)'
                 PROVE  /\ done'[stack'[i].call] = "BAD" =>
                              pending' /\ NoOutcome' /\ \A k \in Sent' : ~Unexecuted(k)'
                        /\ \A j \in 1..Len(stack') : Unanswered(j)' => j = i
      BY DEF ToAnswer
    <3>1. i \in 1..Len(stack) /\ Unanswered(i) /\ stack'[i].call = stack[i].call
      BY <1>2, <1>7, <2>1
    <3>2. /\ done[stack[i].call] = "BAD" =>
                pending /\ NoOutcome /\ \A k \in Sent : ~Unexecuted(k)
          /\ \A j \in 1..Len(stack) : Unanswered(j) => j = i
      BY <3>1 DEF Stages, ToAnswer
    <3>3. done'[stack'[i].call] = "BAD" =>
             pending' /\ NoOutcome' /\ \A k \in Sent' : ~Unexecuted(k)'
      BY <1>1, <1>4, <1>6, <2>2, <3>1, <3>2
    <3>4. \A j \in 1..Len(stack') : Unanswered(j)' => j = i
      BY <1>2, <1>7, <2>1, <3>2
    <3> QED BY <3>3, <3>4
  <2> QED BY <1>5, <2>3, <2>4 DEF Stages
<1>9. CASE Top.op = "PHOTO"
  <2>1. Unsent(Len(stack))
    BY <1>2, <1>9 DEF Unsent
  <2>2. /\ pending /\ nextName = triggers /\ NoOutcome
        /\ \A k \in Sent : ~Unexecuted(k)
        /\ \A j \in 1..Len(stack) : ~Unanswered(j)
    BY <1>2, <2>1 DEF Stages, ToSend
  <2>3. cmdOf'[calls + 1].photo = triggers
    BY <1>1, <1>9 DEF CommandOf
  <2>4. ToExecute'
    BY <1>1, <1>4, <1>6, <2>2, <2>3 DEF ToExecute
  <2>5. ToAnswer'
    <3>1. \A i \in 1..Len(stack') : Unanswered(i)' => i = Len(stack)
      BY <1>2, <1>7, <2>2
    <3>2. done'[stack'[Len(stack)].call] = "none"
      BY <1>1, <1>2
    <3> QED BY <1>2, <3>1, <3>2 DEF ToAnswer
  <2> QED BY <1>3, <1>5, <2>4, <2>5 DEF Stages, ToSend
<1> QED BY <1>8, <1>9

\* A recording is begun: that leaves the photo where it is.
LEMMA StagesRecord ==
    ASSUME StackInv, CallInv, ShapeInv, WaitInv, Types, Stages, RecordStart
    PROVE  Stages'
<1>1. UNCHANGED <<calls, base, cmdOf, done, broken, pending, nextName, triggers, shooting,
                  images, incoming>>
  BY DEF RecordStart, photoVars, queueVars, rpcVars, deviceVars, lifeVars
<1>2. \A i \in 1..Len(stack') :
         /\ Unsent(i)' => i \in 1..Len(stack) /\ Unsent(i)
         /\ Unanswered(i)' => /\ i \in 1..Len(stack) /\ Unanswered(i)
                              /\ stack'[i].call = stack[i].call
  BY <1>1, OnwardRecord DEF Unsent, Unanswered
<1>3. /\ Sent' = Sent
      /\ NoneFailed' <=> NoneFailed
      /\ NoOutcome' <=> NoOutcome
      /\ \A k \in Sent : Unexecuted(k)' <=> Unexecuted(k)
  BY <1>1 DEF Sent, NoneFailed, NoOutcome, Unexecuted
<1>4. ToSend' /\ ToExecute'
  BY <1>1, <1>2, <1>3 DEF Stages, ToSend, ToExecute
<1>5. ToAnswer'
  BY <1>1, <1>2, <1>3 DEF Stages, ToAnswer
<1>6. Taking' /\ Saving' /\ Failing'
  BY <1>1 DEF Stages, Taking, Saving, Failing, NoneFailed
<1> QED BY <1>4, <1>5, <1>6 DEF Stages

\* The device executes a request: a photo is taken, or refused.
LEMMA StagesExecute ==
    ASSUME StackInv, CallInv, ShapeInv, WaitInv, Types, Stages, Executing, ~Astray'
    PROVE  Stages'
<1>1. PICK k \in Calls, status \in {"OK", "BAD"} : DeviceExecutes(k, status)
  BY DEF Executing
<1>2. /\ UNCHANGED <<calls, base, cmdOf, broken, stack, pending, nextName, triggers, images,
                      incoming>>
      /\ k \in Sent /\ done[k] = "none" /\ done' = [done EXCEPT ![k] = status]
      /\ shooting' = IF cmdOf[k].cmd = "TAKE_PHOTO" /\ status = "OK"
                     THEN cmdOf[k].photo ELSE shooting
  BY <1>1, SessionAssumption
     DEF DeviceExecutes, Rpc!Execute, photoVars, queueVars, lifeVars, Sent, CallInv, Calls
<1>3. /\ Sent' = Sent /\ Sent \subseteq Calls
      /\ done'[k] = status /\ \A j \in Sent : j # k => done'[j] = done[j]
      /\ \A i \in 1..Len(stack) : Unsent(i)' <=> Unsent(i)
      /\ NoneFailed' <=> NoneFailed
  BY <1>2, SessionAssumption DEF Sent, CallInv, Calls, Unsent, NoneFailed
<1>4. /\ ~Unexecuted(k)'
      /\ \A j \in Sent : Unexecuted(j)' <=> j # k /\ Unexecuted(j)
  <2>1. ASSUME NEW j \in Sent PROVE Unexecuted(j)' <=> j # k /\ Unexecuted(j)
    BY <1>2, <1>3, <2>1 DEF Unexecuted
  <2> QED BY <1>2, <2>1
<1>5. \A i \in 1..Len(stack) : Unanswered(i)' =>
         /\ Unanswered(i) /\ stack[i].call \in Sent
         /\ stack[i].call = k => Unexecuted(k)
  <2> SUFFICES ASSUME NEW i \in 1..Len(stack), Unanswered(i)'
               PROVE  /\ Unanswered(i) /\ stack[i].call \in Sent
                      /\ stack[i].call = k => Unexecuted(k)
    OBVIOUS
  <2>1. stack[i].op = "PHOTO" /\ stack[i].at = "await" /\ done'[stack[i].call] # "OK"
    BY <1>2 DEF Unanswered
  <2>2. /\ stack[i].call \in Sent /\ cmdOf[stack[i].call].cmd = "TAKE_PHOTO"
        /\ stack[i].call \notin broken
    BY <2>1 DEF ShapeInv, ShapeOf, WaitInv, Waits
  <2> QED BY <1>2, <1>3, <2>1, <2>2 DEF Unanswered, Unexecuted
<1>6. CASE ~Unexecuted(k)
  <2>0. cmdOf[k].cmd = "TAKE_PHOTO" => status # "OK"
    BY <1>2, <1>3, <1>6 DEF Unexecuted, Astray
  <2>1. shooting' = shooting /\ (NoOutcome' <=> NoOutcome)
    BY <1>2, <1>3, <2>0 DEF NoOutcome
  <2>2. ToSend'
    BY <1>2, <1>3, <1>4, <1>5, <2>1 DEF Stages, ToSend
  <2>3. ToExecute'
    BY <1>2, <1>3, <1>4, <2>1 DEF Stages, ToExecute
  <2>4. ToAnswer'
    <3> SUFFICES ASSUME NEW i \in 1..Len(stack), Unanswered(i)'
                 PROVE  /\ done'[stack[i].call] = "BAD" =>
                              pending' /\ NoOutcome' /\ \A j \in Sent : ~Unexecuted(j)'
                        /\ \A j \in 1..Len(stack) : Unanswered(j)' => j = i
      BY <1>2, <1>3 DEF ToAnswer
    <3>1. Unanswered(i) /\ done'[stack[i].call] = done[stack[i].call]
      BY <1>3, <1>5, <1>6
    <3> QED BY <1>2, <1>4, <1>5, <2>1, <3>1 DEF Stages, ToAnswer
  <2>5. Taking' /\ Saving' /\ Failing'
    BY <1>2, <1>3, <2>1 DEF Stages, Taking, Saving, Failing
  <2> QED BY <2>2, <2>3, <2>4, <2>5 DEF Stages
<1>7. CASE Unexecuted(k)
  <2>1. /\ pending /\ nextName = triggers /\ cmdOf[k].photo = triggers /\ NoOutcome
        /\ \A j \in Sent : ~Unexecuted(j)'
    BY <1>2, <1>4, <1>7 DEF Stages, ToExecute
  <2>2. \A i \in 1..Len(stack) : ~Unsent(i)
    BY <1>2, <1>7 DEF Stages, ToSend
  <2>3. \A i \in 1..Len(stack) : Unanswered(i) => done[stack[i].call] # "BAD"
    BY <1>2, <1>7 DEF Stages, ToAnswer
  <2>4. ToSend' /\ ToExecute'
    BY <1>2, <1>3, <2>1, <2>2 DEF ToSend, ToExecute
  <2>5. ToAnswer'
    <3> SUFFICES ASSUME NEW i \in 1..Len(stack), Unanswered(i)'
                 PROVE  /\ done'[stack[i].call] = "BAD" => pending' /\ NoOutcome'
                        /\ \A j \in 1..Len(stack) : Unanswered(j)' => j = i
      BY <1>2, <1>3, <2>1 DEF ToAnswer
    <3>1. \A j \in 1..Len(stack) : Unanswered(j)' => j = i
      BY <1>5 DEF Stages, ToAnswer
    <3>2. ASSUME done'[stack[i].call] = "BAD" PROVE pending' /\ NoOutcome'
      <4>1. stack[i].call = k
        BY <1>3, <1>5, <2>3, <3>2
      <4>2. status = "BAD"
        BY <1>3, <3>2, <4>1
      <4> QED BY <1>2, <1>3, <2>1, <4>2 DEF NoOutcome
    <3> QED BY <3>1, <3>2
  <2>6. Taking' /\ Saving' /\ Failing'
    BY <1>2, <1>3, <2>1 DEF Stages, Taking, Saving, Failing, NoOutcome, NoneFailed
  <2> QED BY <2>4, <2>5, <2>6 DEF Stages
<1> QED BY <1>6, <1>7

\* The photo that is taken fails, or is saved.
LEMMA StagesTaken ==
    ASSUME StackInv, CallInv, ShapeInv, WaitInv, Types, Stages, PhotoFails \/ PhotoSaved
    PROVE  Stages'
<1>1. /\ UNCHANGED <<calls, base, cmdOf, done, broken, stack, pending>>
      /\ shooting # 0 /\ shooting' = 0
  BY DEF PhotoFails, PhotoSaved, photoVars, rpcVars, lifeVars
<1>2. pending /\ images = <<>> /\ NoneFailed /\ ~NoOutcome
  BY <1>1 DEF Stages, Taking, NoOutcome
<1>3. \A k \in Sent : ~Unexecuted(k)
  BY <1>2 DEF Stages, ToExecute
<1>4. \A i \in 1..Len(stack) : ~Unsent(i) /\ ~Unanswered(i)
  BY <1>2, <1>3, WaitingIsSent DEF Stages, ToSend, ToAnswer
<1>5. /\ Sent' = Sent
      /\ \A k \in Sent' : ~Unexecuted(k)'
      /\ \A i \in 1..Len(stack') : ~Unsent(i)' /\ ~Unanswered(i)'
  BY <1>1, <1>3, <1>4 DEF Sent, Unexecuted, Unsent, Unanswered
<1>6. ToSend' /\ ToExecute' /\ ToAnswer' /\ Taking'
  BY <1>1, <1>5 DEF ToSend, ToExecute, ToAnswer, Taking
<1>7. Saving' /\ Failing'
  <2>1. CASE PhotoFails
    <3>1. /\ images' = images /\ incoming \in Seq({"failed", "other"})
          /\ incoming' = Append(incoming, "failed")
      BY <2>1 DEF PhotoFails, Types
    <3>2. /\ Len(incoming') = Len(incoming) + 1
          /\ \A i \in 1..Len(incoming) : incoming'[i] = incoming[i]
      BY <3>1
    <3> QED BY <1>1, <1>2, <3>1, <3>2 DEF Saving, Failing, NoneFailed
  <2>2. CASE PhotoSaved
    <3>1. incoming' = incoming /\ Len(images') = 1
      BY <1>2, <2>2 DEF PhotoSaved
    <3> QED BY <1>1, <1>2, <3>1 DEF Saving, Failing, NoneFailed
  <2> QED BY <2>1, <2>2
<1> QED BY <1>6, <1>7 DEF Stages

\* The photo that is taken is lost: then it is nowhere.
LEMMA StagesLost ==
    ASSUME StackInv, CallInv, ShapeInv, WaitInv, Types, Stages, [Next]_vars,
           ~Connecting, ~Opening, ~Executing,
           shooting # 0, shooting' = 0, UNCHANGED <<images, incoming>>
    PROVE  Stages'
<1>1. Sent' = Sent /\ cmdOf' = cmdOf /\ done' = done /\ broken \subseteq broken'
  <2>1. done' = done
    BY CallsKept, RequestEnds DEF Asking, Opening
  <2> QED BY <2>1, SentGrows, BrokenGrows DEF Opening
<1>2. \A i \in 1..Len(stack') :
         /\ Unsent(i)' => i \in 1..Len(stack) /\ Unsent(i)
         /\ Unanswered(i)' => i \in 1..Len(stack) /\ Unanswered(i)
  BY <1>1, FramesBack
<1>3. images = <<>> /\ NoneFailed /\ ~NoOutcome
  BY DEF Stages, Taking, NoOutcome
<1>4. \A k \in Sent : ~Unexecuted(k)
  BY <1>3 DEF Stages, ToExecute
<1>5. \A i \in 1..Len(stack) : ~Unsent(i) /\ ~Unanswered(i)
  BY <1>3, <1>4, WaitingIsSent DEF Stages, ToSend, ToAnswer
<1>6. Clean'
  BY <1>1, <1>2, <1>3, <1>4, <1>5 DEF Clean, NoOutcome, NoneFailed, Unexecuted
<1> QED
  <2>1. Clean' => Stages'
    BY CleanStages, PTL
  <2> QED BY <1>6, <2>1

\* An error of the image or the audio channel makes trigger_photo leave: its
\* photo is astray, or there is none.
LEMMA StagesLeft ==
    ASSUME StackInv, CallInv, ShapeInv, WaitInv, Types, Stages, [Next]_vars, PollBreaks,
           ChannelRaises, shooting' = shooting, ~Connecting, ~Opening, ~Executing,
           Top.op = "PHOTO", Top.at \in {"await", "drain"}, ~Astray'
    PROVE  Stages'
<1>1. /\ ~Idle /\ stack' = Returned /\ broken' = broken \cup {Top.call}
      /\ UNCHANGED <<calls, base, cmdOf, images, incoming>>
  BY BreakIs DEF ChannelRaises, Interrupted, Fail
<1>2. done' = done /\ Sent' = Sent
  BY RequestEnds, <1>1 DEF Sent
<1>3. Len(stack) \in 1..Len(stack) /\ stack[Len(stack)] = Top
  BY <1>1 DEF StackInv, Idle, Top
<1>4. Top.call \in Sent /\ cmdOf[Top.call].cmd = "TAKE_PHOTO" /\ Top.call \notin broken
  BY <1>3 DEF ShapeInv, ShapeOf, WaitInv, Waits
<1>5. done[Top.call] # "OK" /\ Top.at = "await"
  <2>1. done[Top.call] # "OK"
    BY <1>1, <1>2, <1>4 DEF Astray
  <2> QED BY <1>3, <2>1 DEF ShapeInv, ShapeOf
<1>6. CASE done[Top.call] = "BAD"
  BY <1>1, <1>2, <1>5, <1>6, StagesGivenUp
<1>7. CASE done[Top.call] = "none"
  <2>1. Unexecuted(Top.call)
    BY <1>4, <1>7 DEF Unexecuted
  <2>2. NoOutcome /\ \A k \in Sent : Unexecuted(k) => k = Top.call
    BY <1>4, <2>1 DEF Stages, ToExecute
  <2>3. \A i \in 1..Len(stack) : ~Unsent(i)
    BY <1>4, <2>1 DEF Stages, ToSend
  <2>4. Unanswered(Len(stack))
    BY <1>3, <1>5 DEF Unanswered
  <2>5. \A i \in 1..Len(stack) : Unanswered(i) => i = Len(stack)
    BY <1>3, <2>4 DEF Stages, ToAnswer
  <2>6. /\ Len(stack') = Len(stack) - 1
        /\ \A i \in 1..Len(stack') :
              i \in 1..Len(stack) /\ i # Len(stack) /\ stack'[i] = stack[i]
    BY <1>1, <1>3, PopAt
  <2>7. \A i \in 1..Len(stack') : ~Unsent(i)' /\ ~Unanswered(i)'
    BY <1>2, <2>3, <2>5, <2>6 DEF Unsent, Unanswered
  <2>8. \A k \in Sent' : ~Unexecuted(k)'
    BY <1>1, <1>2, <2>2 DEF Unexecuted
  <2>9. Clean'
    BY <1>1, <2>2, <2>7, <2>8 DEF Clean, NoOutcome, NoneFailed
  <2>10. Clean' => Stages'
    BY CleanStages, PTL
  <2> QED BY <2>9, <2>10
<1>8. Top.call \in Calls
  BY <1>4, SessionAssumption DEF CallInv, Sent, Calls
<1> QED BY <1>5, <1>6, <1>7, <1>8 DEF CallInv

\* A pump and a link that is lost leave no place for a photo but the queue.
MayWait == ~pump \/ IsConnected

\* Every step keeps the photo in one place as long as a photo may come and none
\* is astray.
LEMMA StagesStep ==
    ASSUME StackInv, CallInv, ShapeInv, WaitInv, Types, MayWait => Astray \/ Stages,
           [Next]_vars, MayWait', ~Astray'
    PROVE  Stages'
<1>1. CASE Connecting
  <2>1. stack' = <<>> /\ base' = calls' /\ calls' \in Nat
    BY <1>1, ConnectIdle DEF CallInv
  <2>2. shooting' = 0 /\ images' = <<>> /\ incoming' = <<>>
    BY <1>1 DEF Connecting, Connect, ConnectFails, Forget
  <2>3. Clean'
    <3>1. \A k \in Sent' : FALSE
      <4>1. Sent' = (calls' + 1)..calls'
        BY <2>1 DEF Sent
      <4>2. \A n \in Nat : \A k \in (n + 1)..n : FALSE
        OBVIOUS
      <4> QED BY <2>1, <4>1, <4>2
    <3>2. Len(stack') = 0 /\ Len(incoming') = 0
      BY <2>1, <2>2
    <3> QED BY <2>2, <3>1, <3>2 DEF Clean, NoOutcome, NoneFailed
  <2>4. Clean' => Stages'
    BY CleanStages, PTL
  <2> QED BY <2>3, <2>4
<1> SUFFICES ASSUME ~Connecting PROVE Stages'
  BY <1>1
<1>2. pump' = pump /\ (IsConnected' => IsConnected)
  BY DEF Next, Proceed, PollBegins, DispatchEvent, EventsDone, DispatchImage,
     PollEnds, PollBreaks, RequestSend, RequestRefused, RequestAnswered,
     RequestTimesOut, TriggerChecked, TriggerRefused, WaitEnds, RecordSettled,
     OtaStarts, OtaRefused, OtaEnds, CloseEnd, TriggerPhoto, WaitPhoto,
     RecordStart, RecordStop, Ota, Connecting, CloseBegin, LinkNoticed,
     Device, DeviceExecutes, PhotoFails, PhotoSaved, PhotoDropped, OtherEvent,
     LinkDrop, LinkRaises, ChannelRaises, lifeVars, vars, IsConnected
<1>3. Stages
  BY <1>2, AstrayStays DEF MayWait
<1>4. CASE Executing
  BY <1>3, <1>4, StagesExecute
<1>5. CASE DispatchEvent \/ DispatchImage
  BY <1>3, <1>5, StagesEvent, StagesImage
<1>6. CASE RequestSend \/ TriggerChecked \/ RecordStart
  BY <1>3, <1>6, StagesSend, StagesTrigger, StagesRecord
<1>7. CASE PhotoFails \/ PhotoSaved
  BY <1>3, <1>7, StagesTaken
<1> SUFFICES ASSUME ~Executing, ~Opening, ~DispatchEvent, ~DispatchImage,
                    ~PhotoFails, ~PhotoSaved
             PROVE  Stages'
  BY <1>4, <1>5, <1>6, <1>7 DEF Opening
<1>8. CASE RequestRefused \/ RequestAnswered \/ RequestTimesOut
  <2>1. /\ ~Idle
        /\ UNCHANGED <<triggers, shooting, images, incoming, calls, cmdOf, base, done, broken>>
    BY <1>8 DEF RequestRefused, RequestAnswered, RequestTimesOut, queueVars,
       rpcVars, deviceVars, lifeVars, Rpc!Answer, Rpc!Fail
  <2>2. CASE UNCHANGED <<pending, nextName>>
    BY <1>3, <2>1, <2>2, StagesKept
  <2>3. CASE Top.op = "PHOTO" /\ RequestTimesOut
    <3>1. pending' = pending /\ nextName' = nextName
      BY <2>3 DEF RequestTimesOut, Fail, Types
    <3> QED BY <2>2, <3>1
  <2>4. CASE Top.op = "PHOTO" /\ RequestRefused
    BY <1>3, <2>1, <2>4, StagesGivenUp DEF RequestRefused, Fail
  <2>5. CASE Top.op = "PHOTO" /\ RequestAnswered /\ done[Top.call] # "OK"
    <3>1. Top.at = "await" /\ stack' = Returned /\ done[Top.call] # "none"
      BY <2>5 DEF RequestAnswered, Fail, Rpc!Answer
    <3>2. Top.call \in Calls
      <4>1. Top = stack[Len(stack)] /\ Len(stack) \in 1..Len(stack)
        BY <2>1 DEF StackInv, Top, Idle
      <4>2. Top.call \in Sent
        BY <3>1, <4>1 DEF ShapeInv, ShapeOf
      <4> QED BY <4>2, SessionAssumption DEF CallInv, Sent, Calls
    <3>3. done[Top.call] = "BAD"
      BY <2>5, <3>1, <3>2 DEF CallInv
    <3> QED BY <1>3, <2>1, <2>5, <3>1, <3>3, StagesGivenUp
  <2>6. CASE RequestAnswered /\ done[Top.call] = "OK"
    BY <2>2, <2>6 DEF RequestAnswered
  <2>7. CASE Top.op # "PHOTO"
    BY <1>8, <2>2, <2>7 DEF RequestRefused, RequestAnswered, RequestTimesOut, Fail
  <2> QED BY <1>8, <2>3, <2>4, <2>5, <2>6, <2>7
<1>9. CASE OtherEvent
  BY <1>3, <1>9, StagesKept DEF OtherEvent, photoVars, deviceVars
<1>10. CASE CloseEnd \/ LinkDrop
  BY <1>3, <1>10, StagesKept DEF CloseEnd, LinkDrop, photoVars, queueVars
<1>12. CASE PhotoDropped
  BY <1>3, <1>12, StagesLost DEF PhotoDropped, queueVars
<1>13. CASE PollBreaks
  <2>1. /\ ~Idle /\ pump /\ UNCHANGED <<triggers, images, incoming, calls, cmdOf, base, done>>
        /\ \E name \in {nextName, 0} : Interrupted(name)
    BY <1>13, BreakIs, RequestEnds
  <2>2. ChannelRaises
    BY <1>2, <1>13, <2>1, BreakIs DEF LinkRaises, MayWait, IsConnected
  <2>3. CASE shooting' # shooting
    BY <1>3, <2>1, <2>2, <2>3, StagesLost DEF ChannelRaises
  <2>4. CASE shooting' = shooting
    <3>1. Interrupted(nextName)
      BY <2>2, <2>4 DEF ChannelRaises
    <3>2. CASE Top.op = "PHOTO" /\ Top.at \in {"await", "drain"}
      BY <1>3, <1>13, <2>2, <2>4, <3>2, StagesLeft
    <3>3. CASE ~(Top.op = "PHOTO" /\ Top.at \in {"await", "drain"})
      <4>1. pending' = pending /\ nextName' = nextName
        BY <3>1, <3>3 DEF Interrupted, Fail
      <4> QED BY <1>3, <2>1, <2>4, <4>1, StagesKept
    <3> QED BY <3>2, <3>3
  <2> QED BY <2>3, <2>4
<1>11. CASE \/ PollBegins \/ EventsDone \/ PollEnds \/ TriggerRefused \/ WaitEnds
            \/ RecordSettled \/ OtaStarts \/ OtaRefused \/ OtaEnds \/ TriggerPhoto
            \/ WaitPhoto \/ RecordStop \/ Ota \/ CloseBegin \/ LinkNoticed
            \/ UNCHANGED vars
  <2>1. UNCHANGED <<pending, nextName, triggers, images, shooting, incoming>>
    BY <1>11 DEF PollBegins, EventsDone, PollEnds, TriggerRefused, WaitEnds,
       RecordSettled, OtaStarts, OtaRefused, OtaEnds, TriggerPhoto, WaitPhoto,
       RecordStop, Ota, CloseBegin, LinkNoticed, vars, photoVars, queueVars, deviceVars
  <2> QED BY <1>3, <2>1, StagesKept
<1> QED BY <1>3, <1>8, <1>9, <1>10, <1>11, <1>12, <1>13
   DEF Next, Proceed, Device, Executing, Connecting, Opening

-----------------------------------------------------------------------------
(* The photo that is dispatched is the last one.                           *)

\* An operation that is about to look for a pending photo and polls no more has
\* emptied the queue: with a pump nothing comes in between.
Emptied == pump /\ In("PHOTO", "check") => images = <<>>

\* An operation gets there by the end of a poll only.
LEMMA CheckedAfterPoll ==
    ASSUME StackInv, ShapeInv, [Next]_vars, In("PHOTO", "check")', ~PollEnds
    PROVE  stack' = stack
<1> SUFFICES ASSUME stack' # stack PROVE FALSE
  OBVIOUS
<1>0. stack' # <<>> /\ Top'.at = "check" /\ Top'.op = "PHOTO" /\ Top'.poll = "no"
  BY DEF In, Idle
<1>1. CASE ~Idle /\ stack' = Returned
  <2>1. /\ Len(stack') = Len(stack) - 1 /\ Len(stack) \in Nat
        /\ \A i \in 1..Len(stack') : i \in 1..Len(stack) /\ stack'[i] = stack[i]
    BY <1>1, PopAt DEF StackInv
  <2>2. Len(stack') \in 1..Len(stack')
    BY <1>0, <1>1, <2>1, StackParts
  <2>3. Top'.poll \in {"events", "images"}
    BY <2>1, <2>2 DEF Top, ShapeInv
  <2> QED BY <1>0, <2>3
<1>2. ASSUME ~Idle, NEW f \in Records, stack' = WithTop(f), f.at # "check" \/ f.poll # "no"
      PROVE  FALSE
  <2>1. Top' = f
    BY <1>2, TopChanged
  <2> QED BY <1>0, <1>2, <2>1
<1>3. CASE ~Idle /\ Dispatching
  <2>1. Top \in Records
    BY <1>3, StackParts
  <2>2. \E f \in Records : stack' = WithTop(f) /\ f.poll # "no"
    <3>1. \A q \in Polls : [Top EXCEPT !.poll = q] \in Records /\ [Top EXCEPT !.poll = q].poll = q
      BY <2>1 DEF Records
    <3>2. /\ [Top EXCEPT !.at = Top.at, !.poll = "events"] \in Records
          /\ [Top EXCEPT !.at = Top.at, !.poll = "events"].poll = "events"
      BY <2>1 DEF Records, Polls
    <3> QED BY <1>3, <2>1, <3>1, <3>2
       DEF Dispatching, PollBegins, DispatchEvent, EventsDone, DispatchImage, Polling, Polls
  <2> QED BY <1>2, <1>3, <2>2
<1>4. ASSUME ~Idle, NEW kind, NEW name, Fail(kind, name) PROVE FALSE
  <2>1. Top \in Records
    BY <1>4, StackParts
  <2>2. CASE stack' = Returned
    BY <1>1, <1>4, <2>2
  <2>3. CASE stack' = WithTop(At("closing"))
    <3>1. At("closing") \in Records /\ At("closing").at = "closing"
      BY <2>1 DEF At, Records, Places, Polls
    <3> QED BY <1>2, <1>4, <2>3, <3>1
  <2>4. CASE stack' = WithTop([At("send") EXCEPT !.op = "CLEANUP"])
    <3>1. PICK f \in Records : f = [At("send") EXCEPT !.op = "CLEANUP"]
      BY <2>1 DEF At, Records, Places, Polls, Ops
    <3>2. f.at = "send"
      BY <2>1, <3>1 DEF At, Records
    <3> QED BY <1>2, <1>4, <2>4, <3>1, <3>2
  <2> QED BY <1>4, <2>2, <2>3, <2>4 DEF Fail, FinishRecording
<1>5. CASE PollBreaks
  BY <1>1, <1>4, <1>5, BreakIs DEF FinishRecording
<1>6. CASE RequestRefused \/ RequestTimesOut
  BY <1>4, <1>6 DEF RequestRefused, RequestTimesOut
<1>7. CASE RequestAnswered
  <2>1. ~Idle /\ Top \in Records
    BY <1>7, StackParts DEF RequestAnswered
  <2>2. Polling("drain") \in Records /\ Polling("drain").at = "drain"
    BY <2>1 DEF Polling, Records, Places, Polls
  <2> QED BY <1>2, <1>4, <1>7, <2>1, <2>2 DEF RequestAnswered
<1>8. CASE TriggerChecked \/ OtaStarts
  <2>1. ~Idle /\ Top \in Records
    BY <1>8, StackParts DEF TriggerChecked, OtaStarts, In
  <2>2. \E p \in {"send", "upgrade"} : stack' = WithTop(At(p))
    BY <1>8 DEF TriggerChecked, OtaStarts
  <2>3. \A p \in {"send", "upgrade"} : At(p) \in Records /\ At(p).at = p
    BY <2>1 DEF At, Records, Places, Polls
  <2> QED BY <1>2, <2>1, <2>2, <2>3
<1>9. CASE RequestSend
  <2>1. /\ Len(stack') = Len(stack) /\ Len(stack) \in 1..Len(stack)
        /\ stack'[Len(stack)].at = "await"
    BY <1>9, OnwardSend
  <2> QED BY <1>0, <2>1 DEF Top
<1>10. CASE TriggerPhoto \/ WaitPhoto \/ RecordStart \/ RecordStop \/ Ota
  <2>1. /\ Len(stack') = Len(stack) + 1
        /\ \E op \in Ops, p \in Places, q \in Polls :
              /\ stack'[Len(stack) + 1] = New(op, p, q)
              /\ p # "check" \/ q # "no"
    BY <1>10, PushAt DEF TriggerPhoto, WaitPhoto, RecordStart, RecordStop, Ota,
       Ops, Places, Polls
  <2> QED BY <1>0, <2>1 DEF Top, New
<1>11. CASE CloseBegin
  <2>1. PICK p \in {"send", "closing"} : stack' = <<New("CLOSE", p, "no")>>
    BY <1>11 DEF CloseBegin
  <2> QED BY <1>0, <2>1 DEF Top, New
<1>12. CASE Connecting
  BY <1>0, <1>12, ConnectIdle
<1> QED
  BY <1>1, <1>3, <1>5, <1>6, <1>7, <1>8, <1>9, <1>10, <1>11, <1>12
     DEF Next, Proceed, Dispatching, TriggerRefused, WaitEnds, RecordSettled,
         PollBegins, DispatchEvent, EventsDone, DispatchImage, FinishRecording,
         OtaRefused, OtaEnds, CloseEnd, Connecting, LinkNoticed, Device,
         DeviceExecutes, PhotoFails, PhotoSaved, PhotoDropped, OtherEvent,
         LinkDrop, In, vars

AllOwn == \A i \in 1..Len(images) : images[i] = [photo |-> triggers, name |-> triggers]
TakenOnline == shooting # 0 => link = "up"

PhotoInv ==
    /\ MayWait => Astray \/ Stages
    /\ Astray \/ AllOwn
    /\ TakenOnline /\ Emptied /\ PhotoAttribution

\* When trigger_photo finds none pending, no photo is left in the queue.
LEMMA TriggerFindsNone ==
    ASSUME StackInv, CallInv, ShapeInv, WaitInv, Types, PhotoInv, ~Astray, TriggerChecked
    PROVE  images = <<>>
<1>1. CASE pump
  BY <1>1 DEF TriggerChecked, PhotoInv, Emptied
<1>2. CASE ~pump
  <2>1. Stages
    BY <1>2 DEF PhotoInv, MayWait
  <2>2. Clean
    BY <2>1, NotPendingClean DEF TriggerChecked
  <2> QED BY <2>2 DEF Clean, NoOutcome
<1> QED BY <1>1, <1>2

\* The image that is saved is that of the last trigger, and has its name.
LEMMA OwnStep ==
    ASSUME StackInv, CallInv, ShapeInv, WaitInv, Types, PhotoInv, [Next]_vars
    PROVE  Astray' \/ (AllOwn /\ PhotoAttribution)'
<1>0. CASE Astray' \/ (Astray /\ ~Connecting)
  BY <1>0, AstrayStays
<1> SUFFICES ASSUME ~Astray', Connecting \/ ~Astray
             PROVE  (AllOwn /\ PhotoAttribution)'
  BY <1>0
<1>1. CASE TriggerChecked
  <2>0. ~Connecting
    BY <1>1, ConnectIdle DEF TriggerChecked, In, Idle
  <2>1. images' = <<>> /\ completed' = NoPhoto
    BY <1>1, <2>0, TriggerFindsNone DEF TriggerChecked, queueVars
  <2> QED BY <2>1 DEF AllOwn, PhotoAttribution
<1>2. CASE Connecting
  BY <1>2 DEF Connecting, Connect, ConnectFails, Forget, AllOwn, PhotoAttribution
<1> SUFFICES ASSUME ~Connecting, ~TriggerChecked PROVE (AllOwn /\ PhotoAttribution)'
  BY <1>1, <1>2
<1>3. CASE DispatchImage
  <2>1. /\ images # <<>> /\ images \in Seq(Shots) /\ images' = Tail(images)
        /\ completed' = Head(images) /\ triggers' = triggers
    BY <1>3 DEF DispatchImage, Types
  <2>2. /\ 1 \in 1..Len(images) /\ Head(images) = images[1]
        /\ \A i \in 1..Len(images') : i + 1 \in 1..Len(images) /\ images'[i] = images[i + 1]
    BY <2>1
  <2> QED BY <2>1, <2>2 DEF PhotoInv, AllOwn, PhotoAttribution
<1>4. CASE PhotoSaved
  <2>1. shooting # 0 /\ MayWait
    BY <1>4 DEF PhotoSaved, PhotoInv, TakenOnline, MayWait, IsConnected
  <2>2. shooting = triggers /\ nextName = triggers /\ images = <<>>
    BY <2>1 DEF PhotoInv, Stages, Taking
  <2>3. /\ Len(images') = 1 /\ images'[1] = [photo |-> triggers, name |-> triggers]
        /\ triggers' = triggers /\ completed' = completed
    BY <1>4, <2>2 DEF PhotoSaved
  <2> QED BY <2>3 DEF PhotoInv, AllOwn, PhotoAttribution
<1>5. CASE ~DispatchImage /\ ~PhotoSaved
  <2>1. UNCHANGED <<images, triggers, completed>>
    BY <1>5 DEF Next, Proceed, PollBegins, DispatchEvent, EventsDone,
       PollEnds, PollBreaks, RequestSend, RequestRefused, RequestAnswered,
       RequestTimesOut, TriggerRefused, WaitEnds, RecordSettled,
       OtaStarts, OtaRefused, OtaEnds, CloseEnd, TriggerPhoto, WaitPhoto,
       RecordStart, RecordStop, Ota, Connecting, CloseBegin, LinkNoticed,
       Device, DeviceExecutes, PhotoFails, PhotoDropped, OtherEvent,
       LinkDrop, photoVars, queueVars, vars
  <2> QED BY <2>1 DEF PhotoInv, AllOwn, PhotoAttribution
<1> QED BY <1>3, <1>4, <1>5

\* A photo is taken only while the link is up.
LEMMA OnlineStep ==
    ASSUME PhotoInv, [Next]_vars
    PROVE  TakenOnline'
<1>1. CASE Executing
  BY <1>1 DEF Executing, DeviceExecutes, TakenOnline
<1>2. CASE ~Executing
  <2>1. \/ shooting' = 0
        \/ shooting' = shooting /\ (link' = link \/ link # "up")
    BY <1>2 DEF Executing, Next, Proceed, PollBegins, DispatchEvent, EventsDone, DispatchImage,
       PollEnds, PollBreaks, RequestSend, RequestRefused, RequestAnswered,
       RequestTimesOut, TriggerChecked, TriggerRefused, WaitEnds, RecordSettled,
       OtaStarts, OtaRefused, OtaEnds, CloseEnd, TriggerPhoto, WaitPhoto,
       RecordStart, RecordStop, Ota, Connect, ConnectFails, Forget, CloseBegin,
       LinkNoticed, LinkRaises, ChannelRaises, Device, PhotoFails, PhotoSaved, PhotoDropped, OtherEvent,
       LinkDrop, deviceVars, vars
  <2> QED BY <2>1 DEF PhotoInv, TakenOnline
<1> QED BY <1>1, <1>2

\* With a pump an image is read by a poll: not between a poll and its check.
LEMMA EmptiedStep ==
    ASSUME StackInv, ShapeInv, PhotoInv, [Next]_vars
    PROVE  Emptied'
<1> SUFFICES ASSUME pump', In("PHOTO", "check")' PROVE images' = <<>>
  BY DEF Emptied
<1>1. CASE PollEnds
  BY <1>1 DEF PollEnds, queueVars
<1>2. CASE ~PollEnds
  <2>1. stack' = stack /\ In("PHOTO", "check")
    BY <1>2, CheckedAfterPoll DEF In, Idle, Top
  <2>2. pump' = pump
    BY DEF Next, Proceed, PollBegins, DispatchEvent, EventsDone, DispatchImage,
       PollEnds, PollBreaks, RequestSend, RequestRefused, RequestAnswered,
       RequestTimesOut, TriggerChecked, TriggerRefused, WaitEnds, RecordSettled,
       OtaStarts, OtaRefused, OtaEnds, CloseEnd, TriggerPhoto, WaitPhoto,
       RecordStart, RecordStop, Ota, Connect, ConnectFails, CloseBegin,
       LinkNoticed, Device, DeviceExecutes, PhotoFails, PhotoSaved,
       PhotoDropped, OtherEvent, LinkDrop, lifeVars, vars
  <2>3. images = <<>> /\ ~Reading
    BY <2>1, <2>2 DEF PhotoInv, Emptied, In, Reading, Loops
  <2>4. ~PhotoSaved /\ ~DispatchImage
    BY <2>2, <2>3 DEF PhotoSaved, DispatchImage
  <2>5. images' = images \/ images' = <<>>
    BY <2>4 DEF Next, Proceed, PollBegins, DispatchEvent, EventsDone,
       PollEnds, PollBreaks, RequestSend, RequestRefused, RequestAnswered,
       RequestTimesOut, TriggerChecked, TriggerRefused, WaitEnds, RecordSettled,
       OtaStarts, OtaRefused, OtaEnds, CloseEnd, TriggerPhoto, WaitPhoto,
       RecordStart, RecordStop, Ota, Connect, ConnectFails, Forget, CloseBegin,
       LinkNoticed, Device, DeviceExecutes, PhotoFails,
       PhotoDropped, OtherEvent, LinkDrop, queueVars, vars
  <2> QED BY <2>3, <2>5
<1> QED BY <1>1, <1>2

LEMMA PhotoStep ==
    ASSUME StackInv, CallInv, ShapeInv, WaitInv, Types, PhotoInv, [Next]_vars
    PROVE  PhotoInv'
<1>1. (MayWait => Astray \/ Stages)'
  BY StagesStep DEF PhotoInv
<1>2. (Astray \/ AllOwn)' /\ PhotoAttribution'
  BY OwnStep DEF PhotoAttribution
<1> QED BY <1>1, <1>2, OnlineStep, EmptiedStep DEF PhotoInv

\* Nothing has been sent, is in progress or is waited for at the start.
LEMMA PhotosInit == Init => CallInv /\ ShapeInv /\ WaitInv /\ PhotoInv
<1> SUFFICES ASSUME Init PROVE CallInv /\ ShapeInv /\ WaitInv /\ PhotoInv
  OBVIOUS
<1>1. /\ calls = 0 /\ base = 0 /\ stack = <<>> /\ shooting = 0 /\ broken = {}
      /\ images = <<>> /\ incoming = <<>> /\ completed = NoPhoto
      /\ cmdOf = [k \in Calls |-> [cmd |-> "AUDIO_STOP", photo |-> 0, inside |-> FALSE]]
      /\ phase = [k \in Calls |-> "unused"] /\ done = [k \in Calls |-> "none"]
  BY DEF Init, Rpc!Init
<1>2. CallInv
  <2>1. calls \in 0..MaxCalls /\ base \in 0..calls
    BY <1>1, SessionAssumption
  <2>2. phase \in [Calls -> Rpc!Phases] /\ done \in [Calls -> {"none", "OK", "BAD"}]
    BY <1>1 DEF Rpc!Phases
  <2>3. cmdOf \in [Calls -> [cmd : Commands, photo : Nat, inside : BOOLEAN]]
    <3>1. [cmd |-> "AUDIO_STOP", photo |-> 0, inside |-> FALSE]
             \in [cmd : Commands, photo : Nat, inside : BOOLEAN]
      BY DEF Commands
    <3> QED BY <1>1, <3>1
  <2>4. \A k \in Calls : k > calls => done[k] = "none" /\ phase[k] = "unused"
    BY <1>1
  <2> QED BY <2>1, <2>2, <2>3, <2>4 DEF CallInv
<1>3. ShapeInv /\ WaitInv
  BY <1>1 DEF ShapeInv, WaitInv
<1>4. Clean
  <2>1. \A k \in Sent : FALSE
    BY <1>1 DEF Sent
  <2>2. Len(stack) = 0 /\ Len(incoming) = 0
    BY <1>1
  <2> QED BY <1>1, <2>1, <2>2 DEF Clean, NoOutcome, NoneFailed
<1>5. AllOwn /\ TakenOnline /\ Emptied /\ PhotoAttribution
  BY <1>1 DEF AllOwn, TakenOnline, Emptied, PhotoAttribution
<1> QED BY <1>2, <1>3, <1>4, <1>5, CleanStages DEF PhotoInv

-----------------------------------------------------------------------------
\* In every reachable state the session is well typed, its requests and the
\* operations in progress are in order, and a photo is in one place only.
THEOREM PhotoInOnePlace ==
    Spec => [](StackInv /\ CallInv /\ ShapeInv /\ WaitInv /\ Types /\ PhotoInv)
<1> DEFINE I == StackInv /\ CallInv /\ ShapeInv /\ WaitInv /\ Types /\ PhotoInv
<1>1. Init => I
  BY SessionInit, TypesInit, PhotosInit DEF SessionInv
<1>2. I /\ [Next]_vars => I'
  BY StackStep, CallStep, ShapeStep, WaitStep, TypesStep, PhotoStep DEF Types
<1> QED BY <1>1, <1>2, PTL DEF Spec

\* The photo wait_photo returns is that of the last trigger_photo, under the
\* name given there, however late it came, however many requests timed out and
\* whatever photos the listeners triggered in between (session.py:319), unless
\* a channel that broke has left a photo astray.
THEOREM PhotosAreOwn == Spec => []PhotoAttribution
BY PhotoInOnePlace, PTL DEF PhotoInv

-----------------------------------------------------------------------------
(* The device streams audio only while the session records.                *)

\* A start of the recording that the device may have obeyed and that no stop
\* has followed; starts sent from within another start or stop and starts left
\* by an error do not count.
Loud(k) ==
    /\ cmdOf[k].cmd = "AUDIO_START" /\ ~cmdOf[k].inside /\ done[k] # "BAD"
    /\ k \notin broken
    /\ \A j \in Sent : j > k => cmdOf[j].cmd # "AUDIO_STOP"

NoneLoud == \A k \in Sent : ~Loud(k)

\* What a start or stop in progress may find when it ends the recording: a start
\* is begun when there is none, and where it waits there is at most its own.
RecordOf(f) ==
    /\ f.op = "START" /\ f.at = "send" => recording /\ NoneLoud
    /\ f.op = "START" /\ f.at \in {"await", "drain"} => \A k \in Sent : Loud(k) => k = f.call
    /\ f.op \in {"STOP", "CLEANUP"} /\ f.at \in {"await", "drain", "settle"} => NoneLoud

\* While the link is up, a start not followed by a stop means that the session
\* is recording.
Covered ==
    link = "up" =>
        /\ \A k \in Sent : Loud(k) => recording
        /\ \A i \in 1..Len(stack) : RecordOf(stack[i])

\* Audio is streamed because of a start after which no stop was obeyed.
StreamStarted ==
    streaming =>
        /\ link = "up"
        /\ \E k \in Sent :
              /\ cmdOf[k].cmd = "AUDIO_START" /\ done[k] = "OK"
              /\ \A j \in Sent : j > k /\ cmdOf[j].cmd = "AUDIO_STOP" => done[j] # "OK"

RecordInv == Covered /\ StreamStarted

\* An executed start stays one; a request that is executed starts no other.
LEMMA LoudBefore ==
    ASSUME CallInv, [Next]_vars, ~Connecting, ~RequestSend, NEW k \in Sent, Loud(k)'
    PROVE  Loud(k)
<1>1. /\ Sent' = Sent /\ cmdOf' = cmdOf /\ Sent \subseteq Calls
  BY SentGrows
<1>2. done[k] = "BAD" => done'[k] = "BAD"
  <2>1. CASE Executing
    <3>1. PICK j \in Calls, status \in {"OK", "BAD"} : DeviceExecutes(j, status)
      BY <2>1 DEF Executing
    <3> QED BY <1>1, <3>1 DEF DeviceExecutes, Rpc!Execute, CallInv
  <2>2. CASE ~Executing
    <3>1. done' = done
      BY <2>2, CallsKept, RequestEnds DEF Asking
    <3> QED BY <3>1
  <2> QED BY <2>1, <2>2
<1> QED BY <1>1, <1>2, BrokenGrows DEF Loud

\* The steps that do not end the recording nor begin or send anything.
LEMMA CoveredKept ==
    ASSUME StackInv, CallInv, ShapeInv, Covered, [Next]_vars,
           ~Connecting, ~RequestSend, ~RecordStart, link' = "up" => link = "up",
           \/ recording' = recording
           \/ link' = "up" => NoneLoud' /\ (Top.at # "send" \/ stack' = Returned)
    PROVE  Covered'
<1> SUFFICES ASSUME link' = "up" PROVE Covered'
  BY DEF Covered
<1>0. link = "up"
  OBVIOUS
<1>1. Sent' = Sent
  BY SentGrows
<1>2. \A k \in Sent : Loud(k)' => Loud(k)
  BY LoudBefore
<1>3. \A k \in Sent' : Loud(k)' => recording'
  BY <1>0, <1>1, <1>2 DEF Covered, NoneLoud
<1>4. NoneLoud => NoneLoud'
  BY <1>1, <1>2 DEF NoneLoud
<1>5. ASSUME NEW i \in 1..Len(stack')
      PROVE  /\ stack'[i].op = "START" /\ stack'[i].at = "send" => recording' /\ NoneLoud'
             /\ stack'[i].op = "START" /\ stack'[i].at \in {"await", "drain"} =>
                   \A k \in Sent' : Loud(k)' => k = stack'[i].call
             /\ stack'[i].op \in {"STOP", "CLEANUP"}
                /\ stack'[i].at \in {"await", "drain", "settle"} => NoneLoud'
  <2>1. \/ TriggerChecked /\ i = Len(stack) /\ stack'[i].op = "PHOTO"
        \/ TriggerChecked /\ i \in 1..Len(stack) /\ stack'[i] = stack[i]
        \/ ~Opening /\ Onward(i)
    <3>1. CASE TriggerChecked
      BY <3>1, OnwardTrigger
    <3>2. CASE ~TriggerChecked
      BY <3>2, OnwardStep DEF Opening
    <3> QED BY <3>1, <3>2
  <2>2. CASE stack'[i].op = "PHOTO"
    BY <2>2
  <2>3. CASE stack'[i].at \in {"check", "loop", "upgrade", "closing"}
    BY <2>3
  <2>4. CASE stack'[i].at = "send" /\ stack'[i].op \in {"STOP", "CLEANUP", "CLOSE"}
    BY <2>4
  <2>5. CASE /\ i \in 1..Len(stack)
             /\ stack'[i].op = stack[i].op /\ stack'[i].call = stack[i].call
             /\ \/ stack'[i].at = stack[i].at
                \/ stack[i].at = "await" /\ stack'[i].at = "drain"
                \/ stack[i].op = "STOP" /\ stack[i].at = "drain" /\ stack'[i].at = "settle"
    <3>1. RecordOf(stack[i])
      BY <1>0, <2>5 DEF Covered
    <3>2. stack'[i].op = "START" /\ stack'[i].at = "send" => recording' /\ NoneLoud'
      <4> SUFFICES ASSUME stack'[i].op = "START", stack'[i].at = "send"
                   PROVE  recording' /\ NoneLoud'
        OBVIOUS
      <4>1. recording /\ NoneLoud /\ i = Len(stack) /\ Top.at = "send" /\ Top.op = "START"
            /\ Top.poll = "no" /\ ~Idle
        BY <2>5, <3>1, SenderOnTop DEF RecordOf
      <4>2. stack' # Returned
        <5>1. Len(stack) \in 1..Len(stack')
          BY <2>5, <4>1
        <5> QED BY <4>1, <5>1, PopAt
      <4>3. recording' = recording
        BY <4>1, <4>2
      <4> QED BY <1>4, <4>1, <4>3
    <3>3. stack'[i].op = "START" /\ stack'[i].at \in {"await", "drain"} =>
             \A k \in Sent' : Loud(k)' => k = stack'[i].call
      BY <1>1, <1>2, <2>5, <3>1 DEF RecordOf
    <3>4. stack'[i].op \in {"STOP", "CLEANUP"}
          /\ stack'[i].at \in {"await", "drain", "settle"} => NoneLoud'
      BY <1>4, <2>5, <3>1 DEF RecordOf
    <3> QED BY <3>2, <3>3, <3>4
  <2> QED BY <2>1, <2>2, <2>3, <2>4, <2>5 DEF Onward
<1> QED BY <1>3, <1>5 DEF Covered, RecordOf

\* The operation that ends the recording, where it does, finds no start that
\* no stop has followed.
LEMMA EndFindsNone ==
    ASSUME SessionInv, CallInv, ShapeInv, Covered, link = "up", ~Idle,
           \/ Top.op \in {"STOP", "CLEANUP"} /\ Top.at \in {"await", "drain", "settle"}
           \/ Top.op = "START" /\ Top.at = "await" /\ done[Top.call] = "BAD"
    PROVE  NoneLoud
<1>1. Len(stack) \in 1..Len(stack) /\ stack[Len(stack)] = Top
  BY DEF SessionInv, StackInv, Idle, Top
<1>2. RecordOf(Top)
  BY <1>1 DEF Covered
<1> QED BY <1>2 DEF RecordOf, NoneLoud, Loud

\* Only such an operation, or the end of the connection, ends the recording.
LEMMA RecordingEnds ==
    ASSUME SessionInv, CallInv, ShapeInv, Covered, [Next]_vars, ~Connecting, ~RecordStart,
           link' = "up", link = "up"
    PROVE  \/ recording' = recording
           \/ NoneLoud' /\ (Top.at # "send" \/ stack' = Returned)
<1>0. ~RequestSend /\ NoneLoud => NoneLoud'
  BY LoudBefore, SentGrows DEF NoneLoud
<1>1. CASE PollEnds
  <2>0. ~RequestSend
    BY <1>1 DEF PollEnds, RequestSend, ShapeInv, ShapeOf, SessionInv, StackInv, Idle, Top
  <2>1. CASE Top.at = "drain" /\ Top.op = "CLEANUP"
    BY <1>0, <1>1, <2>0, <2>1, EndFindsNone DEF PollEnds
  <2>2. CASE ~(Top.at = "drain" /\ Top.op = "CLEANUP")
    BY <1>1, <2>2 DEF PollEnds, Succeed, recVars
  <2> QED BY <2>1, <2>2
<1>2. CASE RequestRefused
  <2>1. ota /\ Top.at = "send"
    BY <1>2 DEF RequestRefused, MayRequest, IsConnected
  <2> QED BY <2>1 DEF SessionInv, UpgradeOnTop
<1>3. CASE RequestAnswered
  <2>1. ~Idle /\ Top.at = "await" /\ done[Top.call] # "none" /\ Top.call \in Calls
    <3>1. ~Idle /\ Top.at = "await" /\ done[Top.call] # "none"
      BY <1>3 DEF RequestAnswered, Rpc!Answer
    <3>2. Top = stack[Len(stack)] /\ Len(stack) \in 1..Len(stack)
      BY <3>1 DEF SessionInv, StackInv, Top, Idle
    <3>3. Top.call \in Sent
      BY <3>1, <3>2 DEF ShapeInv, ShapeOf
    <3> QED BY <3>1, <3>3, SessionAssumption DEF CallInv, Sent, Calls
  <2>2. CASE done[Top.call] = "OK"
    BY <1>3, <2>2 DEF RequestAnswered, recVars
  <2>3. CASE done[Top.call] # "OK"
    <3>1. Fail("other", nextName) /\ done[Top.call] = "BAD"
      BY <1>3, <2>1, <2>3 DEF RequestAnswered, CallInv
    <3>2. CASE Top.op \in {"START", "STOP", "CLEANUP"}
      BY <1>0, <2>1, <3>1, <3>2, EndFindsNone DEF RequestSend
    <3>3. CASE Top.op \notin {"START", "STOP", "CLEANUP"}
      BY <3>1, <3>3 DEF Fail, recVars
    <3> QED BY <3>2, <3>3
  <2> QED BY <2>2, <2>3
<1>4. CASE RequestTimesOut
  <2>1. ~Idle /\ Top.at = "await" /\ Fail("timeout", nextName)
    BY <1>4 DEF RequestTimesOut
  <2>2. CASE Top.op \in {"STOP", "CLEANUP"}
    BY <1>0, <2>1, <2>2, EndFindsNone DEF RequestSend
  <2>3. CASE Top.op \notin {"STOP", "CLEANUP"}
    BY <2>1, <2>3 DEF Fail, recVars
  <2> QED BY <2>2, <2>3
<1>5. CASE RecordSettled
  BY <1>0, <1>5, EndFindsNone DEF RecordSettled, In, RequestSend
<1>7. CASE PollBreaks
  <2>1. PICK name \in {nextName, 0} : Interrupted(name)
    BY <1>7, BreakIs
  <2>2. ~Idle /\ ChannelRaises /\ Top.at # "send"
    <3>1. ~Idle /\ ChannelRaises
      BY <1>7, BreakIs DEF LinkRaises
    <3> QED BY <2>1, <3>1 DEF Interrupted
  <2>3. Len(stack) \in 1..Len(stack) /\ stack[Len(stack)] = Top
    BY <2>2 DEF SessionInv, StackInv, Idle, Top
  <2>4. CASE Top.op \in {"STOP", "CLEANUP"} /\ Top.at \in {"await", "drain", "settle"}
    BY <1>0, <2>2, <2>4, EndFindsNone DEF RequestSend
  <2>5. CASE Top.op = "START" /\ Top.at \in {"await", "drain"}
    <3>1. \A k \in Sent : Loud(k) => k = Top.call
      BY <2>3, <2>5 DEF Covered, RecordOf
    <3>2. Top.call \in broken'
      BY <2>2, <2>5 DEF ChannelRaises
    <3>3. \A k \in Sent' : ~Loud(k)'
      <4>1. ~RequestSend
        BY <2>2 DEF RequestSend
      <4>2. \A k \in Sent : Loud(k)' => Loud(k)
        BY <4>1, LoudBefore
      <4> QED BY <3>1, <3>2, <4>1, <4>2, SentGrows DEF Loud
    <3> QED BY <2>2, <3>3 DEF NoneLoud
  <2>6. CASE Top.op \notin {"START", "STOP", "CLEANUP"} \/ Top.at \in {"check", "loop", "upgrade"}
    <3>1. Top.at # "settle"
      BY <2>3, <2>6 DEF ShapeInv, ShapeOf
    <3> QED BY <2>1, <2>6, <3>1 DEF Interrupted, Fail, recVars
  <2>7. Top.at = "settle" => Top.op = "STOP"
    BY <2>3 DEF ShapeInv, ShapeOf
  <2> QED BY <2>1, <2>4, <2>5, <2>6, <2>7 DEF Interrupted
<1>6. CASE /\ ~PollEnds /\ ~PollBreaks /\ ~RequestRefused
           /\ ~RequestAnswered /\ ~RequestTimesOut /\ ~RecordSettled
  BY <1>6 DEF Next, Proceed, PollBegins, DispatchEvent, EventsDone, DispatchImage, RequestSend,
     TriggerChecked, TriggerRefused, WaitEnds,
     OtaStarts, OtaRefused, OtaEnds, CloseEnd, TriggerPhoto, WaitPhoto,
     RecordStop, Ota, Connecting, CloseBegin, LinkNoticed, Device,
     DeviceExecutes, PhotoFails, PhotoSaved, PhotoDropped, OtherEvent,
     LinkDrop, recVars, vars
<1> QED BY <1>1, <1>2, <1>3, <1>4, <1>5, <1>6, <1>7

\* A recording begins when no start is left without a stop.
LEMMA CoveredRecord ==
    ASSUME StackInv, CallInv, ShapeInv, Covered, RecordStart
    PROVE  Covered'
<1> SUFFICES ASSUME link' = "up" PROVE Covered'
  BY DEF Covered
<1>1. /\ UNCHANGED <<calls, base, cmdOf, done, broken, link>> /\ ~recording /\ recording'
      /\ Sent' = Sent
  BY DEF RecordStart, rpcVars, lifeVars, Sent
<1>2. NoneLoud
  BY <1>1 DEF Covered, NoneLoud
<1>3. NoneLoud'
  BY <1>1, <1>2 DEF NoneLoud, Loud
<1> QED BY <1>1, <1>3 DEF Covered, RecordOf, NoneLoud

\* A start that is sent is that of the recording, or sent from within another.
LEMMA CoveredSend ==
    ASSUME StackInv, CallInv, ShapeInv, Covered, RequestSend
    PROVE  Covered'
<1> SUFFICES ASSUME link' = "up" PROVE Covered'
  BY DEF Covered
<1>1. /\ link = "up" /\ recording' = recording /\ done' = done /\ broken' = broken
      /\ Sent' = Sent \cup {calls + 1} /\ calls + 1 \notin Sent
      /\ \A k \in Sent : cmdOf'[k] = cmdOf[k]
      /\ cmdOf'[calls + 1] = CommandOf(Top)
  BY RequestSent DEF RequestSend, recVars, lifeVars
<1>2. /\ Len(stack') = Len(stack) /\ Len(stack) \in 1..Len(stack)
      /\ stack[Len(stack)] = Top /\ Top.at = "send"
      /\ \A i \in 1..Len(stack') :
            IF i = Len(stack)
            THEN stack'[i].op = Top.op /\ stack'[i].at = "await" /\ stack'[i].call = calls + 1
            ELSE stack'[i] = stack[i]
  BY OnwardSend
<1>3. RecordOf(Top)
  BY <1>1, <1>2 DEF Covered
<1>4. \A k \in Sent : Loud(k)' => Loud(k) /\ Top.op # "STOP" /\ Top.op # "CLEANUP"
  <2> SUFFICES ASSUME NEW k \in Sent, Loud(k)'
               PROVE  Loud(k) /\ Top.op # "STOP" /\ Top.op # "CLEANUP"
    OBVIOUS
  <2>1. Loud(k)
    BY <1>1 DEF Loud
  <2>2. calls + 1 > k /\ calls + 1 \in Sent'
    BY <1>1 DEF Sent, CallInv
  <2>3. CommandOf(Top).cmd # "AUDIO_STOP"
    BY <1>1, <2>2 DEF Loud
  <2> QED BY <2>1, <2>3 DEF CommandOf
<1>5. \A k : k = calls + 1 /\ Loud(k)' =>
         Top.op = "START" /\ \A i \in 1..(Len(stack) - 1) : stack[i].op \notin {"START", "CLEANUP", "STOP"}
  BY <1>1 DEF Loud, CommandOf, InsideRecording
<1>6. \A k \in Sent' : Loud(k)' => recording'
  BY <1>1, <1>2, <1>3, <1>4, <1>5 DEF Covered, RecordOf
<1>7. ASSUME NEW i \in 1..Len(stack')
      PROVE  /\ stack'[i].op = "START" /\ stack'[i].at = "send" => recording' /\ NoneLoud'
             /\ stack'[i].op = "START" /\ stack'[i].at \in {"await", "drain"} =>
                   \A k \in Sent' : Loud(k)' => k = stack'[i].call
             /\ stack'[i].op \in {"STOP", "CLEANUP"}
                /\ stack'[i].at \in {"await", "drain", "settle"} => NoneLoud'
  <2>1. CASE i = Len(stack)
    <3>1. stack'[i].op = Top.op /\ stack'[i].at = "await" /\ stack'[i].call = calls + 1
      BY <1>2, <2>1
    <3>2. Top.op = "START" => \A k \in Sent' : Loud(k)' => k = calls + 1
      BY <1>1, <1>2, <1>3, <1>4 DEF RecordOf, NoneLoud
    <3>3. Top.op \in {"STOP", "CLEANUP"} => NoneLoud'
      BY <1>1, <1>4, <1>5 DEF NoneLoud
    <3> QED BY <3>1, <3>2, <3>3
  <2>2. CASE i # Len(stack)
    <3>1. i \in 1..Len(stack) /\ i \in 1..(Len(stack) - 1) /\ stack'[i] = stack[i]
      BY <1>2, <2>2
    <3>2. RecordOf(stack[i]) /\ stack[i].at # "send"
      BY <1>1, <2>2, <3>1, SenderOnTop DEF Covered
    <3>3. stack[i].op \in {"START", "CLEANUP", "STOP"} =>
             \A k \in Sent' : Loud(k)' => k \in Sent /\ Loud(k)
      BY <1>1, <1>4, <1>5, <3>1
    <3> QED BY <3>1, <3>2, <3>3 DEF RecordOf, NoneLoud
  <2> QED BY <2>1, <2>2
<1> QED BY <1>6, <1>7 DEF Covered, RecordOf

\* Every step keeps each start covered.
LEMMA CoveredStep ==
    ASSUME SessionInv, CallInv, ShapeInv, Covered, [Next]_vars
    PROVE  Covered'
<1>1. CASE Connecting
  <2>1. stack' = <<>> /\ base' = calls' /\ calls' \in Nat
    BY <1>1, ConnectIdle DEF CallInv
  <2>2. \A k \in Sent' : FALSE
    <3>1. Sent' = (calls' + 1)..calls'
      BY <2>1 DEF Sent
    <3>2. \A n \in Nat : \A k \in (n + 1)..n : FALSE
      OBVIOUS
    <3> QED BY <2>1, <3>1, <3>2
  <2>3. Len(stack') = 0
    BY <2>1
  <2> QED BY <2>2, <2>3 DEF Covered
<1>2. CASE RequestSend \/ RecordStart
  BY <1>2, CoveredSend, CoveredRecord DEF SessionInv
<1>3. CASE ~Connecting /\ ~RequestSend /\ ~RecordStart
  <2>1. link' = "up" => link = "up"
    BY <1>3 DEF Next, Proceed, PollBegins, DispatchEvent, EventsDone, DispatchImage,
       PollEnds, PollBreaks, RequestRefused, RequestAnswered, RequestTimesOut,
       TriggerChecked, TriggerRefused, WaitEnds, RecordSettled, OtaStarts,
       OtaRefused, OtaEnds, CloseEnd, TriggerPhoto, WaitPhoto, RecordStop, Ota,
       Connecting, CloseBegin, LinkNoticed, LinkRaises, ChannelRaises, Device,
       DeviceExecutes, PhotoFails, PhotoSaved, PhotoDropped, OtherEvent, LinkDrop, vars
  <2>2. link' = "up" =>
           \/ recording' = recording
           \/ NoneLoud' /\ (Top.at # "send" \/ stack' = Returned)
    BY <1>3, <2>1, RecordingEnds
  <2>3. StackInv
    BY DEF SessionInv
  <2>4. CASE recording' = recording
    BY <1>3, <2>1, <2>3, <2>4, CoveredKept
  <2>5. CASE recording' # recording
    <3>1. link' = "up" => NoneLoud' /\ (Top.at # "send" \/ stack' = Returned)
      BY <2>2, <2>5
    <3> QED BY <1>3, <2>1, <2>3, <3>1, CoveredKept
  <2> QED BY <2>4, <2>5
<1> QED BY <1>1, <1>2, <1>3

\* While the device streams, the start it obeyed has no stop obeyed after it.
LEMMA StreamStep ==
    ASSUME CallInv, StreamStarted, [Next]_vars
    PROVE  StreamStarted'
<1>1. CASE Executing
  <2>1. PICK k \in Calls, status \in {"OK", "BAD"} : DeviceExecutes(k, status)
    BY <1>1 DEF Executing
  <2>2. /\ UNCHANGED <<calls, base, cmdOf, link>> /\ link = "up"
        /\ k \in Sent /\ Sent' = Sent /\ Sent \subseteq Calls
        /\ done[k] = "none" /\ done' = [done EXCEPT ![k] = status]
        /\ \A j \in Calls : j > k => done[j] = "none"
        /\ streaming' = IF cmdOf[k].cmd = "TAKE_PHOTO" \/ status # "OK"
                        THEN streaming ELSE cmdOf[k].cmd = "AUDIO_START"
    BY <2>1, SessionAssumption
       DEF DeviceExecutes, Rpc!Execute, lifeVars, Sent, CallInv, Calls
  <2>3. /\ done'[k] = status
        /\ \A j \in Sent : j # k => done'[j] = done[j]
    BY <2>2 DEF CallInv
  <2>4. CASE cmdOf[k].cmd = "AUDIO_STOP" /\ status = "OK"
    <3>1. ~streaming'
      BY <2>2, <2>4
    <3> QED BY <3>1 DEF StreamStarted
  <2>5. CASE cmdOf[k].cmd = "AUDIO_START" /\ status = "OK"
    <3>1. \A j \in Sent : j > k => done'[j] = "none"
      BY <2>2, <2>3 DEF Sent, CallInv
    <3> QED BY <2>2, <2>3, <2>5, <3>1 DEF StreamStarted
  <2>6. CASE status # "OK" \/ cmdOf[k].cmd = "TAKE_PHOTO"
    <3>2. streaming' = streaming
      BY <2>2, <2>6
    <3> SUFFICES ASSUME streaming' PROVE StreamStarted'
      BY DEF StreamStarted
    <3>3. PICK s \in Sent : /\ cmdOf[s].cmd = "AUDIO_START" /\ done[s] = "OK"
                            /\ \A j \in Sent : j > s /\ cmdOf[j].cmd = "AUDIO_STOP" => done[j] # "OK"
      BY <3>2 DEF StreamStarted
    <3>4. s # k /\ done'[s] = "OK"
      BY <2>2, <2>3, <3>3
    <3>5. \A j \in Sent : j > s /\ cmdOf[j].cmd = "AUDIO_STOP" => done'[j] # "OK"
      BY <2>3, <2>6, <3>3
    <3> QED BY <2>2, <3>3, <3>4, <3>5 DEF StreamStarted
  <2>7. cmdOf[k].cmd \in Commands
    BY <2>2 DEF CallInv
  <2> QED BY <2>4, <2>5, <2>6, <2>7 DEF Commands
<1>2. CASE RequestSend
  <2>1. /\ link' = link /\ streaming' = streaming /\ done' = done /\ done[calls + 1] = "none"
        /\ Sent' = Sent \cup {calls + 1}
        /\ \A k \in Sent : cmdOf'[k] = cmdOf[k]
    BY <1>2, RequestSent, SentGrows DEF RequestSend, deviceVars
  <2> SUFFICES ASSUME streaming' PROVE StreamStarted'
    BY DEF StreamStarted
  <2>2. PICK s \in Sent : /\ cmdOf[s].cmd = "AUDIO_START" /\ done[s] = "OK"
                          /\ \A j \in Sent : j > s /\ cmdOf[j].cmd = "AUDIO_STOP" => done[j] # "OK"
    BY <2>1 DEF StreamStarted
  <2>3. \A j \in Sent' : j > s /\ cmdOf'[j].cmd = "AUDIO_STOP" => done'[j] # "OK"
    BY <2>1, <2>2
  <2>4. link' = "up" /\ s \in Sent' /\ cmdOf'[s].cmd = "AUDIO_START" /\ done'[s] = "OK"
    BY <2>1, <2>2 DEF StreamStarted
  <2> QED BY <2>3, <2>4 DEF StreamStarted
<1>3. CASE ~Executing /\ ~RequestSend
  <2>1. \/ ~streaming'
        \/ /\ streaming' = streaming /\ ~Connecting
           /\ link = "up" => link' = "up"
    BY <1>3 DEF Executing, Next, Proceed, PollBegins, DispatchEvent, EventsDone,
       DispatchImage, PollEnds, PollBreaks, RequestRefused, RequestAnswered,
       RequestTimesOut, TriggerChecked, TriggerRefused, WaitEnds, RecordSettled,
       OtaStarts, OtaRefused, OtaEnds, CloseEnd, TriggerPhoto, WaitPhoto,
       RecordStart, RecordStop, Ota, Connecting, Connect, ConnectFails, Forget,
       CloseBegin, LinkNoticed, LinkRaises, ChannelRaises, Device, PhotoFails,
       PhotoSaved, PhotoDropped, OtherEvent, LinkDrop, deviceVars, vars
  <2>2. CASE ~streaming'
    BY <2>2 DEF StreamStarted
  <2>3. CASE streaming' = streaming /\ ~Connecting /\ (link = "up" => link' = "up")
    <3>1. done' = done
      BY <1>3, CallsKept, RequestEnds DEF Asking
    <3>2. Sent' = Sent /\ cmdOf' = cmdOf
      BY <1>3, <2>3, SentGrows
    <3> QED BY <2>3, <3>1, <3>2 DEF StreamStarted
  <2> QED BY <2>1, <2>2, <2>3
<1> QED BY <1>1, <1>2, <1>3

\* In every reachable state each start is covered by a recording or a stop.
THEOREM StartsAreCovered == Spec => []RecordInv
<1> DEFINE I == SessionInv /\ CallInv /\ ShapeInv /\ Types /\ RecordInv
<1>1. Init => I
  <2>1. Init => RecordInv
    <3> SUFFICES ASSUME Init PROVE RecordInv
      OBVIOUS
    <3>1. link = "none" /\ ~streaming
      BY DEF Init
    <3> QED BY <3>1 DEF RecordInv, Covered, StreamStarted
  <2> QED BY <2>1, SessionInit, TypesInit, PhotosInit
<1>2. I /\ [Next]_vars => I'
  <2> SUFFICES ASSUME I, [Next]_vars PROVE I'
    OBVIOUS
  <2>1. SessionInv'
    BY StackStep, UpgradeStep DEF SessionInv
  <2>2. CallInv' /\ ShapeInv' /\ Types'
    BY CallStep, ShapeStep, TypesStep DEF Types, SessionInv
  <2> QED BY <2>1, <2>2, CoveredStep, StreamStep DEF RecordInv
<1> QED BY <1>1, <1>2, PTL DEF Spec

\* When the device has executed what it was sent, it streams audio only if the
\* session records, whichever starts timed out and whatever the listeners did
\* (session.py:416); or the start it obeyed was left by an error, was sent from
\* within another, or was followed by a stop that the device refused.
THEOREM NoStreamIsLeft == Spec => []NoOrphanStream
<1>1. CallInv /\ RecordInv => NoOrphanStream
  <2> SUFFICES ASSUME CallInv, RecordInv, streaming, ~recording,
                      \A k \in Sent : done[k] # "none"
               PROVE  /\ Unstopped # {}
                      /\ \A k \in Unstopped :
                            \/ k \in broken
                            \/ cmdOf[k].inside
                            \/ \E j \in Sent : /\ j > k /\ cmdOf[j].cmd = "AUDIO_STOP"
                                              /\ done[j] = "BAD"
    BY DEF NoOrphanStream
  <2>1. link = "up" /\ Unstopped # {}
    BY DEF RecordInv, StreamStarted, Unstopped
  <2>2. ASSUME NEW k \in Unstopped, k \notin broken, ~cmdOf[k].inside,
               \A j \in Sent : j > k /\ cmdOf[j].cmd = "AUDIO_STOP" => done[j] # "BAD"
        PROVE  FALSE
    <3>1. Sent \subseteq Calls
      BY SessionAssumption DEF CallInv, Sent, Calls
    <3>2. \A j \in Sent : j > k => cmdOf[j].cmd # "AUDIO_STOP"
      BY <2>2, <3>1 DEF Unstopped, CallInv
    <3>3. k \in Sent /\ Loud(k)
      BY <2>2, <3>2 DEF Unstopped, Loud
    <3> QED BY <2>1, <3>3 DEF RecordInv, Covered
  <2> QED BY <2>1, <2>2
<1> QED BY <1>1, PhotoInOnePlace, StartsAreCovered, PTL

-----------------------------------------------------------------------------
(* The bounds: photos and nesting.                                         *)

\* A photo was triggered; its name is that of a photo triggered, or none.
Triggered(shot) == shot.photo \in 1..triggers /\ shot.name \in 0..triggers

\* An operation that may still trigger a photo leaves room for it, and for one
\* of each operation around it.
BoundInv ==
    /\ Len(stack) <= MaxDepth
    /\ triggers <= MaxTriggers + MaxDepth
    /\ nextName <= triggers /\ shooting <= triggers
    /\ \A k \in Calls : cmdOf[k].photo <= triggers
    /\ \A i \in 1..Len(images) : Triggered(images[i])
    /\ completed = NoPhoto \/ Triggered(completed)
    /\ \A i \in 1..Len(stack) : stack[i].op = "PHOTO" /\ stack[i].at = "check" =>
           triggers + i < MaxTriggers + MaxDepth

\* A photo is triggered by the innermost operation, and there was room for it.
LEMMA BoundTrigger ==
    ASSUME StackInv, CallInv, ShapeInv, WaitInv, Types, PhotoInv, BoundInv, TriggerChecked
    PROVE  BoundInv'
<1>1. /\ triggers' = triggers + 1 /\ nextName' = triggers + 1 /\ completed' = NoPhoto
      /\ UNCHANGED <<images, shooting, cmdOf>>
      /\ triggers \in Nat /\ MaxTriggers \in Nat /\ MaxDepth \in Nat
  BY SessionAssumption DEF TriggerChecked, queueVars, rpcVars, deviceVars, Types
<1>2. /\ Len(stack) \in 1..Len(stack) /\ Len(stack) \in Nat
      /\ stack[Len(stack)].op = "PHOTO" /\ stack[Len(stack)].at = "check"
  BY DEF TriggerChecked, In, Idle, Top, StackInv
<1>3. triggers + Len(stack) < MaxTriggers + MaxDepth
  BY <1>2 DEF BoundInv
<1>4. /\ Len(stack') = Len(stack)
      /\ \A i \in 1..Len(stack') : stack'[i].at = "check" => i # Len(stack)
  BY OnwardTrigger
<1>6. /\ shooting' <= triggers'
      /\ \A k \in Calls : cmdOf'[k].photo <= triggers'
  <2>1. shooting \in Nat /\ \A k \in Calls : cmdOf[k].photo \in Nat
    BY DEF Types, CallInv
  <2> QED BY <1>1, <2>1 DEF BoundInv
<1>7. \A i \in 1..Len(images') : Triggered(images[i])'
  <2> SUFFICES ASSUME NEW i \in 1..Len(images) PROVE Triggered(images[i])'
    BY <1>1
  <2>1. Triggered(images[i]) /\ images'[i] = images[i]
    BY <1>1 DEF BoundInv
  <2> QED BY <1>1, <2>1 DEF Triggered
<1> QED BY <1>1, <1>2, <1>3, <1>4, <1>6, <1>7 DEF BoundInv

\* The other steps trigger no photo.
LEMMA BoundOther ==
    ASSUME StackInv, CallInv, ShapeInv, WaitInv, Types, PhotoInv, BoundInv, [Next]_vars,
           ~TriggerChecked
    PROVE  BoundInv'
<1>0. /\ triggers \in Nat /\ nextName \in Nat /\ MaxTriggers \in Nat
      /\ MaxDepth \in Nat \ {0} /\ Len(stack) \in Nat
  BY SessionAssumption DEF Types, StackInv
<1>1. triggers' = triggers /\ nextName' \in {nextName, 0}
  <2>1. CASE PollBreaks
    BY <2>1, BreakIs DEF Interrupted, Fail
  <2>2. CASE ~PollBreaks
    BY <2>2 DEF Next, Proceed, PollBegins, DispatchEvent, EventsDone, DispatchImage,
       PollEnds, RequestSend, RequestRefused, RequestAnswered,
       RequestTimesOut, TriggerRefused, WaitEnds, RecordSettled, OtaStarts,
       OtaRefused, OtaEnds, CloseEnd, TriggerPhoto, WaitPhoto, RecordStart,
       RecordStop, Ota, Connect, ConnectFails, Forget, CloseBegin, LinkNoticed,
       Device, DeviceExecutes, PhotoFails, PhotoSaved, PhotoDropped, OtherEvent,
       LinkDrop, Fail, FinishRecording, photoVars, vars
  <2> QED BY <2>1, <2>2
<1>2. /\ \A k \in Calls : cmdOf'[k].photo <= triggers
      /\ shooting' <= triggers
  <2>1. ASSUME NEW k \in Calls PROVE cmdOf'[k].photo <= triggers
    <3>1. CASE RequestSend
      BY <1>0, <3>1, RequestSent DEF BoundInv, CommandOf
    <3>2. CASE ~RequestSend
      <4>1. cmdOf' = cmdOf
        <5>1. CASE Connecting
          BY <5>1 DEF Connecting, Connect, ConnectFails, rpcVars
        <5> QED BY <3>2, <5>1, SentGrows
      <4> QED BY <4>1 DEF BoundInv
    <3> QED BY <3>1, <3>2
  <2>2. ASSUME Executing PROVE shooting' <= triggers
    BY <2>2 DEF Executing, DeviceExecutes, BoundInv
  <2>3. ASSUME ~Executing PROVE shooting' <= triggers
    <3>1. shooting' \in {shooting, 0}
      BY <2>3 DEF Executing, Next, Proceed, PollBegins, DispatchEvent, EventsDone,
         DispatchImage, PollEnds, PollBreaks, LinkRaises, ChannelRaises, RequestSend,
         RequestRefused, RequestAnswered, RequestTimesOut, TriggerRefused, WaitEnds,
         RecordSettled, OtaStarts, OtaRefused, OtaEnds, CloseEnd, TriggerPhoto,
         WaitPhoto, RecordStart, RecordStop, Ota, Connect, ConnectFails, Forget,
         CloseBegin, LinkNoticed, Device, PhotoFails, PhotoSaved, PhotoDropped,
         OtherEvent, LinkDrop, deviceVars, vars
    <3> QED BY <1>0, <3>1 DEF BoundInv
  <2> QED BY <2>1, <2>2, <2>3
<1>7. /\ \A i \in 1..Len(images') : Triggered(images'[i])
      /\ completed' = NoPhoto \/ Triggered(completed')
  <2>1. CASE PhotoSaved
    <3>1. /\ images \in Seq(Shots) /\ completed' = completed
          /\ images' = Append(images, [photo |-> shooting, name |-> nextName])
          /\ shooting # 0 /\ shooting \in Nat /\ shooting <= triggers
          /\ nextName \in Nat /\ nextName <= triggers
      BY <2>1 DEF PhotoSaved, Types, BoundInv
    <3>2. Triggered([photo |-> shooting, name |-> nextName])
      BY <1>0, <3>1 DEF Triggered
    <3>3. ASSUME NEW i \in 1..Len(images') PROVE Triggered(images'[i])
      BY <3>1, <3>2 DEF BoundInv
    <3> QED BY <3>1, <3>3 DEF BoundInv
  <2>2. CASE DispatchImage
    <3>1. /\ images # <<>> /\ images \in Seq(Shots) /\ images' = Tail(images)
          /\ completed' = Head(images)
      BY <2>2 DEF DispatchImage, Types
    <3>2. /\ 1 \in 1..Len(images) /\ Head(images) = images[1]
          /\ \A i \in 1..Len(images') : i + 1 \in 1..Len(images) /\ images'[i] = images[i + 1]
      BY <3>1
    <3> QED BY <3>1, <3>2 DEF BoundInv
  <2>3. CASE ~PhotoSaved /\ ~DispatchImage
    <3>1. /\ images' = images \/ images' = <<>>
          /\ completed' = completed \/ completed' = NoPhoto
      BY <2>3 DEF Next, Proceed, PollBegins, DispatchEvent, EventsDone,
         PollEnds, PollBreaks, RequestSend, RequestRefused, RequestAnswered,
         RequestTimesOut, TriggerRefused, WaitEnds, RecordSettled, OtaStarts,
         OtaRefused, OtaEnds, CloseEnd, TriggerPhoto, WaitPhoto, RecordStart,
         RecordStop, Ota, Connect, ConnectFails, Forget, CloseBegin, LinkNoticed,
         Device, DeviceExecutes, PhotoFails, PhotoDropped, OtherEvent,
         LinkDrop, photoVars, queueVars, vars
    <3> QED BY <3>1 DEF BoundInv
  <2> QED BY <2>1, <2>2, <2>3
<1>3. ASSUME NEW op \in Ops, NEW p \in Places, NEW q \in Polls, Begin(op, p, q)
      PROVE  Len(stack') = Len(stack) + 1 /\ Len(stack') <= MaxDepth
  BY <1>0, <1>3, PushAt DEF Idle
<1>4. Len(stack') <= MaxDepth
  <2>1. CASE TriggerPhoto \/ WaitPhoto \/ RecordStart \/ RecordStop \/ Ota
    BY <1>3, <2>1 DEF TriggerPhoto, WaitPhoto, RecordStart, RecordStop, Ota,
       Ops, Places, Polls
  <2>2. CASE CloseBegin
    <3>1. Len(stack') = 1
      BY <2>2 DEF CloseBegin
    <3> QED BY <1>0, <3>1
  <2>3. CASE ~(TriggerPhoto \/ WaitPhoto \/ RecordStart \/ RecordStop \/ Ota \/ CloseBegin)
    <3>1. Len(stack') <= Len(stack)
      <4>1. CASE RequestSend
        BY <1>0, <4>1, OnwardSend
      <4>2. CASE ~RequestSend
        BY <2>3, <4>2, OnwardStep DEF Opening
      <4> QED BY <4>1, <4>2
    <3>2. Len(stack') \in Nat
      BY StackStep DEF StackInv
    <3> QED BY <1>0, <3>1, <3>2 DEF BoundInv
  <2> QED BY <2>1, <2>2, <2>3
<1>5. ASSUME NEW i \in 1..Len(stack'), stack'[i].op = "PHOTO", stack'[i].at = "check"
      PROVE  triggers + i < MaxTriggers + MaxDepth
  <2>1. \/ TriggerPhoto /\ i = Len(stack) + 1
        \/ i \in 1..Len(stack) /\ stack[i].op = "PHOTO" /\ stack[i].at = "check"
    <3>1. CASE RequestSend
      BY <1>5, <3>1, OnwardSend
    <3>2. CASE RecordStart
      BY <1>5, <3>2, OnwardRecord
    <3>3. CASE ~Opening
      BY <1>5, <3>3, OnwardStep DEF Onward
    <3> QED BY <3>1, <3>2, <3>3 DEF Opening
  <2>2. CASE TriggerPhoto /\ i = Len(stack) + 1
    <3>1. triggers < MaxTriggers /\ Len(stack) + 1 <= MaxDepth
      BY <1>0, <1>3, <2>2 DEF TriggerPhoto, Ops, Places, Polls
    <3> QED BY <1>0, <2>2, <3>1
  <2>3. CASE i \in 1..Len(stack) /\ stack[i].op = "PHOTO" /\ stack[i].at = "check"
    BY <2>3 DEF BoundInv
  <2> QED BY <2>1, <2>2, <2>3
<1>6. triggers' <= MaxTriggers + MaxDepth /\ nextName' <= triggers'
  BY <1>0, <1>1 DEF BoundInv
<1>8. \A i \in 1..Len(images') : Triggered(images[i])'
  BY <1>1, <1>7 DEF Triggered
<1>9. completed' = NoPhoto \/ Triggered(completed)'
  BY <1>1, <1>7 DEF Triggered
<1> QED BY <1>1, <1>2, <1>4, <1>5, <1>6, <1>8, <1>9 DEF BoundInv

\* The rest of TypeOK follows: what is on the stack, and what is saved.
LEMMA Bounded ==
    ASSUME StackInv, CallInv, ShapeInv, WaitInv, Types, PhotoInv, BoundInv
    PROVE  TypeOK
<1>0. /\ MaxTriggers \in Nat /\ MaxDepth \in Nat \ {0} /\ MaxCalls \in Nat
      /\ calls \in 0..MaxCalls /\ triggers \in Nat
  BY SessionAssumption DEF CallInv, Types
<1>1. triggers \in Triggers \cup {0} /\ nextName \in Triggers \cup {0}
  BY <1>0 DEF BoundInv, Types, Triggers
<1>2. shooting \in Triggers \cup {0}
  BY <1>0 DEF BoundInv, Types, Triggers
<1>3. ASSUME NEW shot \in Shots, Triggered(shot) PROVE shot \in Saved
  <2>1. shot.photo \in Triggers /\ shot.name \in Triggers \cup {0}
    BY <1>0, <1>3 DEF Triggered, BoundInv, Triggers
  <2> QED BY <2>1 DEF Shots, Saved
<1>4. completed \in Saved \cup {NoPhoto} /\ images \in Seq(Saved)
  <2>1. completed \in Shots /\ images \in Seq(Shots)
    BY DEF Types
  <2>2. \A i \in 1..Len(images) : images[i] \in Saved
    BY <1>3, <2>1 DEF BoundInv
  <2> QED BY <1>3, <2>1, <2>2 DEF BoundInv
<1>5. stack \in Seq(Frames)
  <2>1. stack \in Seq(Records)
    BY DEF StackInv
  <2>2. \A i \in 1..Len(stack) : stack[i] \in Records /\ stack[i].call \in 0..MaxCalls
    BY <1>0, <2>1 DEF ShapeInv, ShapeOf
  <2>3. \A i \in 1..Len(stack) : stack[i] \in Frames
    BY <2>2 DEF Records, Frames
  <2> QED BY <2>1, <2>3
<1> QED BY <1>0, <1>1, <1>2, <1>4, <1>5 DEF TypeOK, Types, CallInv, BoundInv, WaitInv

\* Every variable has its type in every reachable state, within the bounds: the
\* photos triggered exceed theirs by no more than the depth of the nesting.
THEOREM SessionTypes == Spec => []TypeOK
<1> DEFINE I == StackInv /\ CallInv /\ ShapeInv /\ WaitInv /\ Types /\ PhotoInv
<1>1. Init => BoundInv
  <2> SUFFICES ASSUME Init PROVE BoundInv
    OBVIOUS
  <2>1. /\ stack = <<>> /\ triggers = 0 /\ nextName = 0 /\ images = <<>>
        /\ shooting = 0 /\ completed = NoPhoto /\ \A k \in Calls : cmdOf[k].photo = 0
    BY DEF Init
  <2> QED BY <2>1, SessionAssumption DEF BoundInv
<1>2. I /\ BoundInv /\ [Next]_vars => BoundInv'
  BY BoundTrigger, BoundOther
<1>3. I /\ BoundInv => TypeOK
  BY Bounded
<1> QED BY <1>1, <1>2, <1>3, PhotoInOnePlace, PTL DEF Spec
=============================================================================
