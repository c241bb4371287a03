-------------------------- MODULE CtrlClient_proofs --------------------------
(***************************************************************************)
(* Proofs about CtrlClient, for any number of threads, commands and calls  *)
(* and any width of the sequence number.                                   *)
(***************************************************************************)
EXTENDS CtrlClient, TLAPS

-----------------------------------------------------------------------------
(* Facts about the operators.                                              *)

\* The masked increment stays in range, and is an increment or a fall to zero.
LEMMA NextSeqValue ==
    ASSUME NEW s \in Seqs
    PROVE  /\ NextSeq(s) \in Seqs
           /\ NextSeq(s) = IF s + 1 = SeqMod THEN 0 ELSE s + 1
BY CtrlAssumption, SMT DEF NextSeq, Seqs

\* A number d steps behind the counter is d + 1 steps behind its successor.
LEMMA StepAway ==
    ASSUME NEW s \in Seqs, NEW t \in Seqs, NEW d \in Nat, d + 1 <= SeqMod,
           \/ t = s + d
           \/ t = s + d - SeqMod
    PROVE  LET u == IF t + 1 = SeqMod THEN 0 ELSE t + 1 IN
               \/ u = s + (d + 1)
               \/ u = s + (d + 1) - SeqMod
BY CtrlAssumption DEF Seqs

\* What the head and the tail of the stream are.
LEMMA StreamParts ==
    ASSUME NEW S, NEW q \in Seq(S), q # <<>>
    PROVE  /\ Head(q) \in S
           /\ Tail(q) \in Seq(S)
           /\ Head(q) = q[1]
           /\ 1 \in 1..Len(q)
           /\ Len(Tail(q)) = Len(q) - 1
           /\ \A i \in 1..Len(Tail(q)) : Tail(q)[i] = q[i + 1] /\ i + 1 \in 1..Len(q)
BY SMT

-----------------------------------------------------------------------------
(* Type correctness.  TypeOK is not inductive alone: that Write puts a call *)
(* on the wire needs that a thread inside _transact is in some call.        *)

CallersInCalls ==
    \A c \in Callers :
        /\ callOf[c] <= calls
        /\ callOf[c] = 0 <=> pc[c] = "idle"

TypeInv == TypeOK /\ CallersInCalls

\* The client starts with every variable in its type.
LEMMA TypeInit == Init => TypeInv
<1> SUFFICES ASSUME Init PROVE TypeInv
  OBVIOUS
<1>1. 0 \in Seqs /\ 0 \in 0..MaxCalls /\ 0 \in 0..MaxStarts
  BY CtrlAssumption DEF Seqs
<1>2. inbound \in Seq(Frames \cup {EvtFrame})
  BY DEF Init
<1>3. TypeOK
  BY <1>1, <1>2, CtrlAssumption DEF Init, TypeOK, Outcomes, PCs
<1>4. CallersInCalls
  <2> SUFFICES ASSUME NEW c \in Callers
               PROVE  callOf[c] <= calls /\ (callOf[c] = 0 <=> pc[c] = "idle")
    BY DEF CallersInCalls
  <2>1. callOf[c] = 0 /\ calls = 0
    BY DEF Init
  <2>2. pc[c] = "idle"
    BY DEF Init
  <2>3. callOf[c] <= calls
    BY <2>1
  <2> QED BY <2>1, <2>2, <2>3
<1> QED BY <1>3, <1>4 DEF TypeInv

\* A thread inside _transact is in one of the calls made so far.
LEMMA CallerInCall ==
    ASSUME TypeInv, NEW c \in Callers, pc[c] # "idle"
    PROVE  callOf[c] \in Calls /\ callOf[c] \in 1..calls
BY CtrlAssumption DEF TypeInv, TypeOK, CallersInCalls, Calls

\* No action takes a variable out of its type, nor a thread out of the calls made.
LEMMA TypeStep == TypeInv /\ [Next]_vars => TypeInv'
<1> SUFFICES ASSUME TypeInv, [Next]_vars PROVE TypeInv'
  OBVIOUS
<1> USE CtrlAssumption DEF TypeInv, CallersInCalls
<1>1. ASSUME NEW c \in Callers, NEW cmd \in Commands, Alloc(c, cmd)
      PROVE  TypeInv'
  <2>1. calls + 1 \in Calls /\ calls + 1 \in 0..MaxCalls
    BY <1>1 DEF TypeOK, Alloc, Calls
  <2>2. NextSeq(seq) \in Seqs
    BY NextSeqValue DEF TypeOK
  <2>3. TypeOK'
    BY <1>1, <2>1, <2>2 DEF TypeOK, Alloc, PCs, readerVars, lifeVars, wireVars
  <2>4. CallersInCalls'
    BY <1>1, <2>1 DEF TypeOK, Alloc
  <2> QED BY <2>3, <2>4
<1>2. ASSUME NEW c \in Callers, CallerStep(c)
      PROVE  TypeInv'
  <2>1. callOf[c] \in Calls
    BY <1>2, CallerInCall DEF CallerStep, Register, Write, WriteFails, Return,
       Timeout, Pop
  <2>2. CASE Register(c)
    BY <2>1, <2>2 DEF TypeOK, Register, PCs, callVars, readerVars, lifeVars, wireVars
  <2>3. CASE Write(c)
    BY <2>1, <2>3 DEF TypeOK, Write, PCs, callVars, readerVars, lifeVars
  <2>4. CASE WriteFails(c)
    BY <2>1, <2>4 DEF TypeOK, WriteFails, PCs, Outcomes, callVars, readerVars,
       lifeVars, wireVars
  <2>5. CASE Return(c)
    <3>1. Verdict(cmdOf[callOf[c]], frame[callOf[c]]) \in Outcomes
      BY DEF Verdict, Outcomes
    <3> QED BY <2>1, <2>5, <3>1 DEF TypeOK, Return, PCs, callVars, readerVars,
            lifeVars, wireVars
  <2>6. CASE Timeout(c)
    BY <2>1, <2>6 DEF TypeOK, Timeout, PCs, Outcomes, callVars, readerVars,
       lifeVars, wireVars
  <2>7. CASE Pop(c)
    BY <2>1, <2>7 DEF TypeOK, Pop, PCs, callVars, readerVars, lifeVars, wireVars
  <2> QED BY <1>2, <2>2, <2>3, <2>4, <2>5, <2>6, <2>7 DEF CallerStep
<1>3. CASE ReaderTake
  <2>1. Head(inbound) \in Frames /\ Tail(inbound) \in Seq(Frames \cup {EvtFrame})
    BY <1>3, StreamParts DEF TypeOK, ReaderTake, EvtFrame
  <2>2. table[Head(inbound).seq] \in 0..MaxCalls
    BY <2>1 DEF TypeOK, Frames
  <2> QED BY <1>3, <2>1, <2>2 DEF TypeOK, ReaderTake, callVars, lifeVars
<1>4. CASE ReaderDeliver
  <2>1. frame' \in [Calls -> Frames \cup {NoFrame}]
    BY <1>4 DEF TypeOK, ReaderDeliver, Calls
  <2> QED BY <1>4, <2>1 DEF TypeOK, ReaderDeliver, callVars, lifeVars, wireVars
<1>5. CASE ReaderEvent
  <2>1. Tail(inbound) \in Seq(Frames \cup {EvtFrame})
    BY <1>5, StreamParts DEF TypeOK, ReaderEvent
  <2> QED BY <1>5, <2>1 DEF TypeOK, ReaderEvent, callVars, readerVars, lifeVars
<1>6. CASE ReaderFails
  BY <1>6 DEF TypeOK, ReaderFails, callVars, wireVars
<1>7. CASE ReaderExits
  BY <1>7 DEF TypeOK, ReaderExits, callVars, lifeVars, wireVars
<1>8. CASE Start
  <2>1. starts' \in 0..MaxStarts
    BY <1>8 DEF TypeOK, Start
  <2> QED BY <1>8, <2>1 DEF TypeOK, Start, callVars
<1>9. CASE CloseBegin
  BY <1>9 DEF TypeOK, CloseBegin, callVars, readerVars, wireVars
<1>10. CASE CloseEnd
  <2>1. inbound' \in Seq(Frames \cup {EvtFrame})
    BY <1>10 DEF CloseEnd
  <2> QED BY <1>10, <2>1 DEF TypeOK, CloseEnd, callVars, readerVars
<1>11. ASSUME NEW k \in Calls, NEW status \in DeviceStatuses,
              DeviceAnswer(k, status)
       PROVE  TypeInv'
  <2>1. [type |-> ExpectedType(cmdOf[k]), seq |-> seqOf[k], of |-> k,
         status |-> status, evts |-> sentEvts] \in Frames
    BY DEF TypeOK, Frames, AnswerTypes, Statuses, ExpectedType
  <2>2. inbound' \in Seq(Frames \cup {EvtFrame})
    BY <1>11, <2>1 DEF TypeOK, DeviceAnswer
  <2> QED BY <1>11, <2>2 DEF TypeOK, DeviceAnswer, Statuses, callVars,
             readerVars, lifeVars
<1>12. CASE DeviceEvent
  BY <1>12 DEF TypeOK, DeviceEvent, callVars, readerVars, lifeVars
<1>13. CASE LinkDrop
  BY <1>13 DEF TypeOK, LinkDrop, callVars, readerVars, lifeVars
<1>14. CASE UNCHANGED vars
  BY <1>14 DEF TypeOK, vars, callVars, readerVars, lifeVars, wireVars
<1> QED BY <1>1, <1>2, <1>3, <1>4, <1>5, <1>6, <1>7, <1>8, <1>9, <1>10, <1>11,
           <1>12, <1>13, <1>14 DEF Next, ReaderStep

\* Every variable of the client, the reader and the wire holds a value of its
\* kind in every reachable state; in particular the sequence number stays a byte.
THEOREM TypeCorrect == Spec => []TypeOK
<1>1. Spec => []TypeInv
  BY TypeInit, TypeStep, PTL DEF Spec
<1> QED BY <1>1, PTL DEF TypeInv

-----------------------------------------------------------------------------
(* The inductive invariant.  A frame anywhere in the system is the answer  *)
(* of the device to one call, and a call only ever gets frames that carry  *)
(* its own number and its own type.                                        *)

\* The last SeqMod calls have pairwise different numbers, and the counter tells
\* how far back each of them is.
Numbering ==
    /\ \A k \in 1..calls :
          calls + 1 - k <= SeqMod =>
              \/ seq = seqOf[k] + (calls + 1 - k)
              \/ seq = seqOf[k] + (calls + 1 - k) - SeqMod
    /\ \A j, k \in 1..calls :
          j < k /\ seqOf[j] = seqOf[k] => k - j >= SeqMod

\* f is what the device answered to call f.of.
Honest(f) ==
    /\ f \in Frames
    /\ f.of <= calls
    /\ f.seq = seqOf[f.of]
    /\ f.type = ExpectedType(cmdOf[f.of])
    /\ f.status = done[f.of]

\* _handle_frame can give f to call k.
Fits(f, k) ==
    /\ k <= calls
    /\ f.seq = seqOf[k]
    /\ f.type = ExpectedType(cmdOf[k])

HonestFrames ==
    /\ \A i \in 1..Len(inbound) : inbound[i].type # "EVT" => Honest(inbound[i])
    /\ readerFrame # NoFrame => Honest(readerFrame)
    /\ \A k \in Calls : frame[k] # NoFrame => Honest(frame[k]) /\ Fits(frame[k], k)
    /\ \A k \in Calls : result[k] # NoFrame => Honest(result[k]) /\ Fits(result[k], k)

\* Numbers in use lead to calls that carry them.
Lookups ==
    /\ \A s \in Seqs : table[s] # 0 => table[s] <= calls /\ seqOf[table[s]] = s
    /\ readerTarget # 0 =>
          /\ readerFrame # NoFrame
          /\ readerTarget <= calls
          /\ seqOf[readerTarget] = readerFrame.seq

\* A request is on the wire only once, and before it is answered.
OncePerCall ==
    /\ \A k \in outbound : k <= calls /\ done[k] = "none"
    /\ \A k \in Calls : done[k] # "none" => k <= calls
    /\ \A c \in Callers : pc[c] \in {"register", "write"} =>
          callOf[c] \notin outbound /\ done[callOf[c]] = "none"
    /\ \A c, d \in Callers : callOf[c] = callOf[d] /\ callOf[c] # 0 => c = d

\* A call is open until its thread decides how it ended.
OpenCalls ==
    /\ \A c \in Callers : pc[c] \in {"register", "write", "wait"} =>
          outcome[callOf[c]] = "none" /\ result[callOf[c]] = NoFrame
    /\ \A k \in Calls : k > calls => outcome[k] = "none" /\ result[k] = NoFrame

IInv ==
    /\ TypeInv
    /\ Numbering
    /\ HonestFrames
    /\ Lookups
    /\ OncePerCall
    /\ OpenCalls

\* The strengthened invariant holds before the first call.
LEMMA InvInit == Init => IInv
<1> SUFFICES ASSUME Init PROVE IInv
  OBVIOUS
<1>1. TypeInv
  BY TypeInit
<1>2. calls = 0 /\ readerFrame = NoFrame /\ readerTarget = 0 /\ Len(inbound) = 0
  BY DEF Init
<1>3. Numbering
  BY <1>2 DEF Numbering
<1>4. HonestFrames
  BY <1>2 DEF Init, HonestFrames
<1>5. Lookups
  BY <1>2 DEF Init, Lookups
<1>6. OncePerCall
  BY DEF Init, OncePerCall
<1>7. OpenCalls
  BY DEF Init, OpenCalls
<1> QED BY <1>1, <1>3, <1>4, <1>5, <1>6, <1>7 DEF IInv

\* Only Alloc touches what is known of the calls, and adds one at the end.
LEMMA CallsGrow ==
    ASSUME IInv, [Next]_vars
    PROVE  \/ UNCHANGED callVars
           \/ \E c \in Callers, cmd \in Commands : Alloc(c, cmd)
BY DEF Next, CallerStep, Register, Write, WriteFails, Return, Timeout, Pop,
       ReaderStep, ReaderTake, ReaderDeliver, ReaderEvent, ReaderFails,
       ReaderExits, Start, CloseBegin, CloseEnd, DeviceAnswer, DeviceEvent,
       LinkDrop, vars

\* Every action keeps calls numbered as they were made: _next_seq only counts.
LEMMA NumberingStep ==
    ASSUME IInv, [Next]_vars
    PROVE  Numbering'
<1>1. CASE UNCHANGED callVars
  BY <1>1 DEF IInv, Numbering, callVars
<1>2. ASSUME NEW c \in Callers, NEW cmd \in Commands, Alloc(c, cmd)
      PROVE  Numbering'
  <2> USE CtrlAssumption DEF IInv, TypeInv, TypeOK
  <2>1. /\ calls \in Nat
        /\ calls' = calls + 1
        /\ calls + 1 \in Calls
        /\ seqOf'[calls + 1] = seq
        /\ \A k \in 1..calls : seqOf'[k] = seqOf[k] /\ seqOf[k] \in Seqs
    BY <1>2 DEF Alloc, Calls
  <2>2. seq' = IF seq + 1 = SeqMod THEN 0 ELSE seq + 1
    BY <1>2, NextSeqValue DEF Alloc
  <2>3. ASSUME NEW k \in 1..calls', calls' + 1 - k <= SeqMod
        PROVE  \/ seq' = seqOf'[k] + (calls' + 1 - k)
               \/ seq' = seqOf'[k] + (calls' + 1 - k) - SeqMod
    <3>1. CASE k = calls + 1
      BY <2>1, <2>2, <3>1 DEF Seqs
    <3>2. CASE k \in 1..calls
      <4> DEFINE d == calls + 1 - k
      <4>1. seq = seqOf[k] + d \/ seq = seqOf[k] + d - SeqMod
        BY <2>1, <2>3, <3>2 DEF Numbering
      <4>2. /\ d \in Nat /\ d + 1 <= SeqMod
            /\ calls' + 1 - k = d + 1
            /\ seqOf[k] \in Seqs /\ seqOf'[k] = seqOf[k] /\ seq \in Seqs
        BY <2>1, <2>3, <3>2
      <4> HIDE DEF d
      <4>3. seq' = seqOf[k] + (d + 1) \/ seq' = seqOf[k] + (d + 1) - SeqMod
        BY <2>2, <4>1, <4>2, StepAway
      <4> QED BY <4>2, <4>3
    <3> QED BY <2>1, <3>1, <3>2
  <2>4. ASSUME NEW j \in 1..calls', NEW k \in 1..calls',
               j < k, seqOf'[j] = seqOf'[k]
        PROVE  k - j >= SeqMod
    <3>1. CASE k \in 1..calls
      BY <2>1, <2>4, <3>1 DEF Numbering
    <3>2. CASE k = calls + 1
      <4>1. j \in 1..calls /\ seqOf[j] = seq
        BY <2>1, <2>4, <3>2
      <4>2. calls + 1 - j <= SeqMod =>
               \/ seq = seqOf[j] + (calls + 1 - j)
               \/ seq = seqOf[j] + (calls + 1 - j) - SeqMod
        BY <4>1 DEF Numbering
      <4> QED BY <2>1, <3>2, <4>1, <4>2 DEF Seqs
    <3> QED BY <2>1, <3>1, <3>2
  <2> QED BY <2>3, <2>4 DEF Numbering
<1> QED BY <1>1, <1>2, CallsGrow

\* What was honest stays honest: a call keeps its number and its command, and
\* the device answers it once.
LEMMA HonestStays ==
    ASSUME IInv, [Next]_vars, NEW f
    PROVE  /\ Honest(f) => Honest(f)'
           /\ \A k \in Calls : Fits(f, k) => Fits(f, k)'
<1> USE DEF IInv, TypeInv, TypeOK, Honest, Fits
<1>1. CASE UNCHANGED <<callVars, done>>
  BY <1>1 DEF callVars
<1>2. ASSUME NEW c \in Callers, NEW cmd \in Commands, Alloc(c, cmd)
      PROVE  /\ Honest(f) => Honest(f)'
             /\ \A k \in Calls : Fits(f, k) => Fits(f, k)'
  <2>1. calls \in Nat /\ calls' = calls + 1 /\ done' = done
    BY <1>2 DEF Alloc, wireVars
  <2>2. \A k \in Calls : k <= calls => seqOf'[k] = seqOf[k] /\ cmdOf'[k] = cmdOf[k]
    BY <1>2, <2>1 DEF Alloc, Calls
  <2>3. f \in Frames => f.of \in Calls
    BY DEF Frames
  <2> HIDE DEF IInv, TypeInv, TypeOK
  <2> QED BY <2>1, <2>2, <2>3 DEF Calls
<1>3. ASSUME NEW k \in Calls, NEW status \in DeviceStatuses,
             DeviceAnswer(k, status)
      PROVE  /\ Honest(f) => Honest(f)'
             /\ \A j \in Calls : Fits(f, j) => Fits(f, j)'
  <2>1. UNCHANGED callVars
    BY <1>3 DEF DeviceAnswer
  <2>2. Honest(f) => f.of # k /\ f.of \in Calls
    BY <1>3 DEF DeviceAnswer, OncePerCall, Frames, Statuses
  <2>3. \A j \in Calls : j # k => done'[j] = done[j]
    BY <1>3 DEF DeviceAnswer
  <2> QED BY <2>1, <2>2, <2>3 DEF callVars
<1> QED BY <1>1, <1>2, <1>3
    DEF Next, CallerStep, Register, Write, WriteFails, Return, Timeout, Pop,
        ReaderStep, ReaderTake, ReaderDeliver, ReaderEvent, ReaderFails,
        ReaderExits, Start, CloseBegin, CloseEnd, DeviceEvent, LinkDrop,
        wireVars, vars

\* The cases of Next in which nothing but the named variables matter.
LEMMA InboundStep ==
    ASSUME IInv, [Next]_vars
    PROVE  (\A i \in 1..Len(inbound) : inbound[i].type # "EVT" => Honest(inbound[i]))'
<1> USE DEF IInv, TypeInv, TypeOK
<1>1. ASSUME NEW i \in 1..Len(inbound), inbound[i].type # "EVT",
             NEW f, f = inbound[i]
      PROVE  Honest(f)'
  BY <1>1, HonestStays DEF HonestFrames
<1>2. CASE UNCHANGED inbound
  BY <1>1, <1>2 DEF Honest
<1>3. CASE ReaderTake \/ ReaderEvent
  <2>1. inbound # <<>> /\ inbound' = Tail(inbound)
    BY <1>3 DEF ReaderTake, ReaderEvent
  <2>2. \A i \in 1..Len(inbound') :
           inbound'[i] = inbound[i + 1] /\ i + 1 \in 1..Len(inbound)
    BY <2>1, StreamParts
  <2>3. ASSUME NEW i \in 1..Len(inbound'), inbound'[i].type # "EVT",
               NEW f, f = inbound'[i]
        PROVE  Honest(f)'
    <3>1. i + 1 \in 1..Len(inbound) /\ f = inbound[i + 1] /\ f.type # "EVT"
      BY <2>2, <2>3
    <3> QED BY <1>1, <3>1
  <2> QED BY <2>3 DEF Honest
<1>4. CASE CloseEnd
  BY <1>4 DEF CloseEnd
<1>5. ASSUME NEW k \in Calls, NEW status \in DeviceStatuses,
             DeviceAnswer(k, status)
      PROVE  (\A i \in 1..Len(inbound) :
                 inbound[i].type # "EVT" => Honest(inbound[i]))'
  <2> DEFINE f == [type |-> ExpectedType(cmdOf[k]), seq |-> seqOf[k], of |-> k,
                   status |-> status, evts |-> sentEvts]
  <2>1. f \in Frames
    BY CtrlAssumption DEF Frames, AnswerTypes, Statuses, ExpectedType
  <2>2. f.of = k /\ f.seq = seqOf[k] /\ f.type = ExpectedType(cmdOf[k])
        /\ f.status = status
    OBVIOUS
  <2>3. inbound' = Append(inbound, f)
    BY <1>5 DEF DeviceAnswer
  <2>4. UNCHANGED callVars /\ done'[k] = status /\ k <= calls
    BY <1>5 DEF DeviceAnswer, OncePerCall
  <2> HIDE DEF f
  <2>5. /\ Len(inbound') = Len(inbound) + 1
        /\ inbound'[Len(inbound) + 1] = f
        /\ \A i \in 1..Len(inbound) : inbound'[i] = inbound[i]
    BY <2>1, <2>3
  <2>6. ASSUME NEW g, g = f
        PROVE  Honest(g)'
    BY <2>1, <2>2, <2>4, <2>6 DEF Honest, callVars, ExpectedType
  <2>7. ASSUME NEW i \in 1..Len(inbound'), inbound'[i].type # "EVT",
               NEW g, g = inbound'[i]
        PROVE  Honest(g)'
    <3>1. CASE i = Len(inbound) + 1
      BY <2>5, <2>6, <2>7, <3>1
    <3>2. CASE i \in 1..Len(inbound)
      <4>1. g = inbound[i] /\ g.type # "EVT"
        BY <2>5, <2>7, <3>2
      <4> QED BY <1>1, <3>2, <4>1
    <3> QED BY <2>5, <3>1, <3>2
  <2> QED BY <2>7 DEF Honest
<1>6. CASE DeviceEvent
  <2>1. /\ Len(inbound') = Len(inbound) + 1
        /\ inbound'[Len(inbound) + 1] = EvtFrame
        /\ \A i \in 1..Len(inbound) : inbound'[i] = inbound[i]
    BY <1>6 DEF DeviceEvent
  <2>2. EvtFrame.type = "EVT"
    BY DEF EvtFrame
  <2> QED BY <1>1, <2>1, <2>2 DEF Honest
<1> QED BY <1>2, <1>3, <1>4, <1>5, <1>6
    DEF Next, CallerStep, Alloc, Register, Write, WriteFails, Return, Timeout,
        Pop, ReaderStep, ReaderDeliver, ReaderFails, ReaderExits, Start,
        CloseBegin, LinkDrop, wireVars, vars

\* Every action keeps the frames on the wire, in the reader and in the calls to
\* what the device answered.
LEMMA HonestFramesStep ==
    ASSUME IInv, [Next]_vars
    PROVE  HonestFrames'
<1> USE DEF IInv, TypeInv, TypeOK
<1>1. (\A i \in 1..Len(inbound) : inbound[i].type # "EVT" => Honest(inbound[i]))'
  BY InboundStep
<1>2. (readerFrame # NoFrame => Honest(readerFrame))'
  <2>1. CASE UNCHANGED readerFrame
    <3>1. readerFrame # NoFrame => Honest(readerFrame)
      BY DEF HonestFrames
    <3> HIDE DEF IInv, TypeInv, TypeOK
    <3> QED BY <2>1, <3>1, HonestStays DEF Honest
  <2>2. CASE ReaderTake
    <3>1. inbound # <<>> /\ Head(inbound).type # "EVT"
      BY <2>2 DEF ReaderTake
    <3>2. Head(inbound) = inbound[1] /\ 1 \in 1..Len(inbound)
      BY <3>1, StreamParts
    <3>3. Honest(Head(inbound))
      BY <3>1, <3>2 DEF HonestFrames
    <3>4. readerFrame' = Head(inbound)
      BY <2>2 DEF ReaderTake
    <3> HIDE DEF IInv, TypeInv, TypeOK
    <3> QED BY <3>3, <3>4, HonestStays DEF Honest
  <2>3. CASE ReaderDeliver
    BY <2>3 DEF ReaderDeliver
  <2> QED BY <2>1, <2>2, <2>3
      DEF Next, CallerStep, Alloc, Register, Write, WriteFails, Return, Timeout,
          Pop, ReaderStep, ReaderEvent, ReaderFails, ReaderExits, Start,
          CloseBegin, CloseEnd, DeviceAnswer, DeviceEvent, LinkDrop, readerVars,
          vars
<1>3. ASSUME NEW k \in Calls, frame'[k] # NoFrame
      PROVE  (Honest(frame[k]) /\ Fits(frame[k], k))'
  <2>1. CASE frame'[k] = frame[k]
    <3>1. Honest(frame[k]) /\ Fits(frame[k], k)
      BY <1>3, <2>1 DEF HonestFrames
    <3> HIDE DEF IInv, TypeInv, TypeOK
    <3> QED BY <2>1, <3>1, HonestStays DEF Honest, Fits
  <2>2. CASE ReaderDeliver /\ frame'[k] # frame[k]
    <3>1. k = readerTarget /\ frame'[k] = readerFrame
          /\ ExpectedType(cmdOf[k]) = readerFrame.type
      BY <2>2 DEF ReaderDeliver
    <3>2. Honest(readerFrame) /\ Fits(readerFrame, k)
      BY <3>1, <1>3 DEF HonestFrames, Lookups, Fits, Calls
    <3> HIDE DEF IInv, TypeInv, TypeOK
    <3> QED BY <3>1, <3>2, HonestStays DEF Honest, Fits
  <2> QED BY <2>1, <2>2
      DEF Next, CallerStep, Alloc, Register, Write, WriteFails, Return, Timeout,
          Pop, ReaderStep, ReaderTake, ReaderEvent, ReaderFails, ReaderExits,
          Start, CloseBegin, CloseEnd, DeviceAnswer, DeviceEvent, LinkDrop, vars
<1>4. ASSUME NEW k \in Calls, result'[k] # NoFrame
      PROVE  (Honest(result[k]) /\ Fits(result[k], k))'
  <2>1. CASE result'[k] = result[k]
    <3>1. Honest(result[k]) /\ Fits(result[k], k)
      BY <1>4, <2>1 DEF HonestFrames
    <3> HIDE DEF IInv, TypeInv, TypeOK
    <3> QED BY <2>1, <3>1, HonestStays DEF Honest, Fits
  <2>2. ASSUME NEW c \in Callers, Return(c), result'[k] # result[k]
        PROVE  (Honest(result[k]) /\ Fits(result[k], k))'
    <3>1. result'[k] = frame[k]
      BY <2>2 DEF Return
    <3>2. Honest(frame[k]) /\ Fits(frame[k], k)
      BY <1>4, <3>1 DEF HonestFrames
    <3> HIDE DEF IInv, TypeInv, TypeOK
    <3> QED BY <3>1, <3>2, HonestStays DEF Honest, Fits
  <2> QED BY <2>1, <2>2
      DEF Next, CallerStep, Alloc, Register, Write, WriteFails, Timeout, Pop,
          ReaderStep, ReaderTake, ReaderDeliver, ReaderEvent, ReaderFails,
          ReaderExits, Start, CloseBegin, CloseEnd, DeviceAnswer, DeviceEvent,
          LinkDrop, vars
<1> QED BY <1>1, <1>2, <1>3, <1>4 DEF HonestFrames

\* Every action keeps the entries of _pending, and what the reader found in it,
\* under the numbers of the calls they belong to.
LEMMA LookupsStep ==
    ASSUME IInv, [Next]_vars
    PROVE  Lookups'
<1> USE DEF IInv, TypeInv, TypeOK
<1>1. \A k \in Calls : k <= calls => k <= calls' /\ seqOf'[k] = seqOf[k]
  <2>1. CASE UNCHANGED callVars
    BY <2>1, CtrlAssumption DEF callVars, Calls
  <2>2. ASSUME NEW c \in Callers, NEW cmd \in Commands, Alloc(c, cmd)
        PROVE  \A k \in Calls : k <= calls => k <= calls' /\ seqOf'[k] = seqOf[k]
    BY <2>2, CtrlAssumption DEF Alloc, Calls
  <2> QED BY <2>1, <2>2, CallsGrow
<1>2. ASSUME NEW s \in Seqs, table'[s] # 0
      PROVE  table'[s] <= calls' /\ seqOf'[table'[s]] = s
  <2>1. CASE table'[s] = table[s]
    BY <1>1, <1>2, <2>1, CtrlAssumption DEF Lookups, Calls
  <2>2. ASSUME NEW c \in Callers, Register(c) \/ Pop(c), table'[s] # table[s]
        PROVE  table'[s] <= calls' /\ seqOf'[table'[s]] = s
    <3>1. callOf[c] \in Calls /\ callOf[c] <= calls
      BY <2>2, CallerInCall DEF Register, Pop
    <3>2. s = seqOf[callOf[c]] /\ table'[s] = callOf[c]
      BY <1>2, <2>2 DEF Register, Pop
    <3> QED BY <1>1, <3>1, <3>2
  <2> QED BY <2>1, <2>2
      DEF Next, CallerStep, Alloc, Write, WriteFails, Return, Timeout,
          ReaderStep, ReaderTake, ReaderDeliver, ReaderEvent, ReaderFails,
          ReaderExits, Start, CloseBegin, CloseEnd, DeviceAnswer, DeviceEvent,
          LinkDrop, vars
<1>3. ASSUME readerTarget' # 0
      PROVE  /\ readerFrame' # NoFrame
             /\ readerTarget' <= calls'
             /\ seqOf'[readerTarget'] = readerFrame'.seq
  <2>1. CASE UNCHANGED readerVars
    BY <1>1, <1>3, <2>1, CtrlAssumption DEF Lookups, readerVars, Calls
  <2>2. CASE ReaderTake
    <3>1. inbound # <<>> /\ Head(inbound) \in Frames
      BY <2>2, StreamParts DEF ReaderTake, EvtFrame
    <3>2. Head(inbound).seq \in Seqs /\ Head(inbound) # NoFrame
      BY <3>1 DEF Frames, NoFrame, AnswerTypes
    <3>3. table[Head(inbound).seq] # 0
      BY <1>3, <2>2 DEF ReaderTake
    <3>4. /\ table[Head(inbound).seq] <= calls
          /\ seqOf[table[Head(inbound).seq]] = Head(inbound).seq
      BY <3>2, <3>3 DEF Lookups
    <3> QED BY <2>2, <3>2, <3>4 DEF ReaderTake, callVars
  <2>3. CASE ReaderDeliver
    BY <1>3, <2>3 DEF ReaderDeliver
  <2>4. CASE UNCHANGED <<readerFrame, readerTarget>>
    BY <1>1, <1>3, <2>4, CtrlAssumption DEF Lookups, Calls
  <2> QED BY <2>1, <2>2, <2>3, <2>4
      DEF Next, CallerStep, Alloc, Register, Write, WriteFails, Return, Timeout,
          Pop, ReaderStep, ReaderEvent, ReaderFails, ReaderExits, Start,
          CloseBegin, CloseEnd, DeviceAnswer, DeviceEvent, LinkDrop, vars
<1> QED BY <1>2, <1>3 DEF Lookups

\* Every action keeps a request to one answer, on its way or handled.
LEMMA OncePerCallStep ==
    ASSUME IInv, [Next]_vars
    PROVE  OncePerCall'
<1> USE DEF IInv, TypeInv, TypeOK, OncePerCall
<1>1. CASE UNCHANGED <<callVars, pc, callOf, outbound, done>>
  BY <1>1 DEF callVars
<1>2. ASSUME NEW c \in Callers, NEW cmd \in Commands, Alloc(c, cmd)
      PROVE  OncePerCall'
  <2>1. calls + 1 \in Calls /\ calls' = calls + 1 /\ calls \in Nat
    BY <1>2, CtrlAssumption DEF Alloc, Calls
  <2>2. calls + 1 \notin outbound /\ done[calls + 1] = "none"
    BY <2>1
  <2>3. /\ callOf' = [callOf EXCEPT ![c] = calls + 1]
        /\ pc' = [pc EXCEPT ![c] = "register"]
        /\ outbound' = outbound /\ done' = done
    BY <1>2 DEF Alloc, wireVars
  <2>4. \A d \in Callers : callOf[d] # calls + 1
    BY <2>1 DEF CallersInCalls
  <2>5. \A k \in outbound' : k <= calls' /\ done'[k] = "none"
    BY <2>1, <2>3, CtrlAssumption DEF Calls
  <2>6. \A k \in Calls : done'[k] # "none" => k <= calls'
    BY <2>1, <2>3, CtrlAssumption DEF Calls
  <2>7. \A d \in Callers : pc'[d] \in {"register", "write"} =>
           callOf'[d] \notin outbound' /\ done'[callOf'[d]] = "none"
    BY <2>2, <2>3
  <2>8. \A d, e \in Callers : callOf'[d] = callOf'[e] /\ callOf'[d] # 0 => d = e
    BY <2>3, <2>4
  <2> QED BY <2>5, <2>6, <2>7, <2>8
<1>3. ASSUME NEW c \in Callers, CallerStep(c)
      PROVE  OncePerCall'
  <2>1. callOf[c] \in Calls /\ callOf[c] <= calls /\ callOf[c] # 0
    <3>1. pc[c] # "idle"
      BY <1>3 DEF CallerStep, Register, Write, WriteFails, Return, Timeout, Pop
    <3> QED BY <3>1, CallerInCall DEF Calls
  <2>2. CASE Write(c)
    <3>1. \A d \in Callers : d # c => callOf[d] # callOf[c]
      BY <2>1
    <3> QED BY <2>1, <2>2, <3>1 DEF Write, callVars
  <2>3. CASE Register(c)
    BY <2>3 DEF Register, callVars, wireVars
  <2>4. CASE WriteFails(c) \/ Return(c) \/ Timeout(c)
    BY <2>4 DEF WriteFails, Return, Timeout, callVars, wireVars
  <2>5. CASE Pop(c)
    BY <2>5 DEF Pop, callVars, wireVars
  <2> QED BY <1>3, <2>2, <2>3, <2>4, <2>5 DEF CallerStep
<1>4. ASSUME NEW k \in Calls, NEW status \in DeviceStatuses,
             DeviceAnswer(k, status)
      PROVE  OncePerCall'
  BY <1>4 DEF DeviceAnswer, callVars
<1>5. CASE CloseEnd \/ LinkDrop
  BY <1>5 DEF CloseEnd, LinkDrop, callVars
<1> QED BY <1>1, <1>2, <1>3, <1>4, <1>5
    DEF Next, ReaderStep, ReaderTake, ReaderDeliver, ReaderEvent, ReaderFails,
        ReaderExits, Start, CloseBegin, DeviceEvent, wireVars, vars

\* Every action keeps a call with an outcome out of the threads still waiting.
LEMMA OpenCallsStep ==
    ASSUME IInv, [Next]_vars
    PROVE  OpenCalls'
<1>1. CASE UNCHANGED <<calls, outcome, result, pc, callOf>>
  BY <1>1 DEF IInv, OpenCalls
<1>2. ASSUME NEW c \in Callers, NEW cmd \in Commands, Alloc(c, cmd)
      PROVE  OpenCalls'
  <2> USE DEF IInv, TypeInv, TypeOK, OpenCalls
  <2>1. calls + 1 \in Calls /\ calls' = calls + 1 /\ calls \in Nat
    BY <1>2, CtrlAssumption DEF Alloc, Calls
  <2>2. outcome[calls + 1] = "none" /\ result[calls + 1] = NoFrame
    BY <2>1
  <2> QED BY <1>2, <2>1, <2>2, CtrlAssumption DEF Alloc, Calls
<1>3. ASSUME NEW c \in Callers, CallerStep(c)
      PROVE  OpenCalls'
  <2> USE DEF IInv, TypeInv, TypeOK, OpenCalls
  <2>1. callOf[c] \in Calls /\ callOf[c] <= calls /\ callOf[c] # 0
    BY <1>3, CallerInCall DEF CallerStep, Register, Write, WriteFails, Return,
       Timeout, Pop, Calls
  <2>2. \A d \in Callers : d # c => callOf[d] # callOf[c]
    BY <2>1 DEF OncePerCall
  <2>3. CASE Register(c) \/ Write(c) \/ Pop(c)
    <3>1. UNCHANGED <<calls, outcome, result>>
      BY <2>3 DEF Register, Write, Pop, callVars
    <3>2. pc[c] \in {"register", "write"} \/ pc'[c] = "idle"
      BY <2>3 DEF Register, Write, Pop
    <3>3. pc'[c] = "idle" \/ callOf'[c] = callOf[c]
      BY <2>3 DEF Register, Write, Pop
    <3>4. \A d \in Callers : d # c => pc'[d] = pc[d] /\ callOf'[d] = callOf[d]
      BY <2>3 DEF Register, Write, Pop
    <3> HIDE DEF TypeInv, TypeOK
    <3> QED BY <3>1, <3>2, <3>3, <3>4
  <2>4. CASE WriteFails(c)
    BY <2>1, <2>2, <2>4, CtrlAssumption DEF WriteFails, callVars, Calls
  <2>5. CASE Timeout(c)
    BY <2>1, <2>2, <2>5, CtrlAssumption DEF Timeout, callVars, Calls
  <2>6. CASE Return(c)
    BY <2>1, <2>2, <2>6, CtrlAssumption DEF Return, callVars, Calls
  <2> QED BY <1>3, <2>3, <2>4, <2>5, <2>6 DEF CallerStep
<1> QED BY <1>1, <1>2, <1>3
    DEF Next, ReaderStep, ReaderTake, ReaderDeliver, ReaderEvent, ReaderFails,
        ReaderExits, Start, CloseBegin, CloseEnd, DeviceAnswer, DeviceEvent,
        LinkDrop, callVars, vars

\* The strengthened invariant holds in every reachable state: the calls are
\* numbered in order, the frames are honest, the table and the reader agree.
THEOREM Invariance == Spec => []IInv
<1>1. IInv /\ [Next]_vars => IInv'
  <2> SUFFICES ASSUME IInv, [Next]_vars PROVE IInv'
    OBVIOUS
  <2>1. TypeInv'
    BY TypeStep DEF IInv
  <2> QED BY <2>1, NumberingStep, HonestFramesStep, LookupsStep, OncePerCallStep,
             OpenCallsStep DEF IInv
<1> QED BY <1>1, InvInit, PTL DEF Spec

\* Two calls with one number are at least SeqMod calls apart.
LEMMA SameNumber ==
    ASSUME IInv, NEW j \in 1..calls, NEW k \in 1..calls, seqOf[j] = seqOf[k]
    PROVE  j = k \/ j >= k + SeqMod \/ k >= j + SeqMod
<1>1. calls \in Nat /\ SeqMod \in Nat
  BY CtrlAssumption DEF IInv, TypeInv, TypeOK
<1>2. j < k => k - j >= SeqMod
  BY DEF IInv, Numbering
<1>3. k < j => j - k >= SeqMod
  BY DEF IInv, Numbering
<1> QED BY <1>1, <1>2, <1>3

\* The answer a call returns is its own unless the numbers came round between
\* the two calls, whatever the threads, the reader and the link do.
THEOREM CrossedAfterWrap == Spec => []CrossedOnlyAfterWrap
<1>1. IInv => CrossedOnlyAfterWrap
  <2> SUFFICES ASSUME IInv, NEW k \in Calls, result[k] # NoFrame
               PROVE  LET j == result[k].of IN
                      j = k \/ j >= k + SeqMod \/ k >= j + SeqMod
    BY DEF CrossedOnlyAfterWrap
  <2>1. Honest(result[k]) /\ Fits(result[k], k)
    BY DEF IInv, HonestFrames
  <2>2. k \in 1..calls /\ result[k].of \in 1..calls
    BY <2>1, CtrlAssumption DEF IInv, TypeInv, TypeOK, Honest, Fits, Frames, Calls
  <2>3. seqOf[result[k].of] = seqOf[k]
    BY <2>1 DEF Honest, Fits
  <2> QED BY <2>2, <2>3, SameNumber
<1> QED BY <1>1, Invariance, PTL

\* The handshake and the commands never take each other's answers.
THEOREM TypesMatch == Spec => []AnswerTypeMatches
<1>1. IInv => AnswerTypeMatches
  BY DEF IInv, HonestFrames, Fits, AnswerTypeMatches
<1> QED BY <1>1, Invariance, PTL

-----------------------------------------------------------------------------
(* The table of requests in flight.                                        *)

\* No way out of _transact leaves an entry of _pending behind, with any number
\* of threads and however often the numbers wrap.
THEOREM NoEntryLeft == Spec => []NoStaleEntry
<1>1. Init => NoStaleEntry
  BY DEF Init, NoStaleEntry
<1>2. IInv /\ NoStaleEntry /\ [Next]_vars => NoStaleEntry'
  <2> SUFFICES ASSUME IInv, NoStaleEntry, [Next]_vars,
                      NEW s \in Seqs, table'[s] # 0
               PROVE  \E c \in Callers : callOf'[c] = table'[s] /\ InFlight(c)'
    BY DEF NoStaleEntry
  <2> USE DEF IInv, TypeInv, TypeOK, InFlight
  <2>1. ASSUME table'[s] = table[s]
        PROVE  \E c \in Callers : callOf[c] = table'[s] /\ InFlight(c)
    BY <2>1 DEF NoStaleEntry
  <2>2. CASE UNCHANGED <<table, pc, callOf>>
    BY <2>1, <2>2
  <2>3. ASSUME NEW c \in Callers, NEW cmd \in Commands, Alloc(c, cmd)
        PROVE  \E d \in Callers : callOf'[d] = table'[s] /\ InFlight(d)'
    BY <2>1, <2>3 DEF Alloc
  <2>4. ASSUME NEW c \in Callers, CallerStep(c)
        PROVE  \E d \in Callers : callOf'[d] = table'[s] /\ InFlight(d)'
    <3>1. CASE Register(c)
      <4>1. CASE s = seqOf[callOf[c]]
        BY <3>1, <4>1 DEF Register
      <4>2. CASE s # seqOf[callOf[c]]
        BY <2>1, <3>1, <4>2 DEF Register
      <4> QED BY <4>1, <4>2
    <3>2. CASE Write(c) \/ WriteFails(c) \/ Return(c) \/ Timeout(c)
      BY <2>1, <3>2 DEF Write, WriteFails, Return, Timeout
    <3>3. CASE Pop(c)
      <4>1. callOf[c] \in Calls
        BY <3>3, CallerInCall DEF Pop
      <4>2. s # seqOf[callOf[c]] /\ table'[s] = table[s]
        BY <3>3, <4>1 DEF Pop
      <4>3. PICK d \in Callers : callOf[d] = table[s] /\ InFlight(d)
        BY <2>1, <4>2
      <4>4. d # c
        BY <4>2, <4>3 DEF Lookups
      <4> QED BY <3>3, <4>2, <4>3, <4>4 DEF Pop
    <3> QED BY <2>4, <3>1, <3>2, <3>3 DEF CallerStep
  <2> QED BY <2>2, <2>3, <2>4
      DEF Next, ReaderStep, ReaderTake, ReaderDeliver, ReaderEvent, ReaderFails,
          ReaderExits, Start, CloseBegin, CloseEnd, DeviceAnswer, DeviceEvent,
          LinkDrop, vars
<1> QED BY <1>1, <1>2, Invariance, PTL DEF Spec

\* Until the numbers wrap, different calls have different numbers.
LEMMA OwnNumber ==
    ASSUME IInv, MaxCalls <= SeqMod,
           NEW j \in 1..calls, NEW k \in 1..calls, seqOf[j] = seqOf[k]
    PROVE  j = k
<1>1. calls \in Nat /\ calls <= MaxCalls /\ SeqMod \in Nat /\ MaxCalls \in Nat
  BY CtrlAssumption DEF IInv, TypeInv, TypeOK
<1> QED BY <1>1, SameNumber

\* Until the numbers wrap, every thread finds its own object under its number.
THEOREM EntryOwned ==
    ASSUME MaxCalls <= SeqMod
    PROVE  Spec => []OwnsItsEntry
<1>1. Init => OwnsItsEntry
  BY DEF Init, OwnsItsEntry, InFlight
<1>2. IInv /\ OwnsItsEntry /\ [Next]_vars => OwnsItsEntry'
  <2> SUFFICES ASSUME IInv, OwnsItsEntry, [Next]_vars,
                      NEW d \in Callers, InFlight(d)'
               PROVE  table'[seqOf'[callOf'[d]]] = callOf'[d]
    BY DEF OwnsItsEntry
  <2> USE DEF IInv, TypeInv, TypeOK, InFlight
  <2>1. CASE UNCHANGED <<table, pc, callOf, seqOf>>
    BY <2>1 DEF OwnsItsEntry
  <2>2. ASSUME NEW c \in Callers, NEW cmd \in Commands, Alloc(c, cmd)
        PROVE  table'[seqOf'[callOf'[d]]] = callOf'[d]
    <3>1. d # c /\ InFlight(d)
      BY <2>2 DEF Alloc
    <3>2. callOf[d] \in 1..calls
      BY <3>1, CallerInCall
    <3> QED BY <2>2, <3>1, <3>2, CtrlAssumption DEF OwnsItsEntry, Alloc
  <2>3. ASSUME NEW c \in Callers, CallerStep(c)
        PROVE  table'[seqOf'[callOf'[d]]] = callOf'[d]
    <3>1. callOf[c] \in Calls /\ callOf[c] \in 1..calls
      BY <2>3, CallerInCall DEF CallerStep, Register, Write, WriteFails, Return,
         Timeout, Pop
    <3>2. CASE Write(c) \/ WriteFails(c) \/ Return(c) \/ Timeout(c)
      BY <3>2 DEF OwnsItsEntry, Write, WriteFails, Return, Timeout, callVars
    <3>3. CASE (Register(c) \/ Pop(c)) /\ d # c
      <4>1. InFlight(d) /\ callOf'[d] = callOf[d] /\ seqOf' = seqOf
        BY <3>3 DEF Register, Pop, callVars
      <4>2. callOf[d] \in 1..calls /\ callOf[d] # callOf[c]
        BY <3>1, <3>3, <4>1, CallerInCall DEF OncePerCall
      <4>3. seqOf[callOf[d]] # seqOf[callOf[c]]
        BY <3>1, <4>2, OwnNumber
      <4>4. table'[seqOf[callOf[d]]] = table[seqOf[callOf[d]]]
        BY <3>3, <4>2, <4>3, CtrlAssumption DEF Register, Pop, Calls
      <4> QED BY <4>1, <4>4 DEF OwnsItsEntry
    <3>4. CASE Register(c) /\ d = c
      BY <3>1, <3>4 DEF Register, callVars
    <3>5. CASE Pop(c) /\ d = c
      BY <3>5 DEF Pop
    <3> QED BY <2>3, <3>2, <3>3, <3>4, <3>5 DEF CallerStep
  <2> QED BY <2>1, <2>2, <2>3
      DEF Next, ReaderStep, ReaderTake, ReaderDeliver, ReaderEvent, ReaderFails,
          ReaderExits, Start, CloseBegin, CloseEnd, DeviceAnswer, DeviceEvent,
          LinkDrop, callVars, vars
<1> QED BY <1>1, <1>2, Invariance, PTL DEF Spec

\* is_open is never true of a client without a reader.
THEOREM ReaderWhileOpen == Spec => []OpenHasReader
<1>1. Init => OpenHasReader
  BY DEF Init, OpenHasReader, IsOpen
<1>2. OpenHasReader /\ [Next]_vars => OpenHasReader'
  <2> SUFFICES ASSUME OpenHasReader, [Next]_vars PROVE OpenHasReader'
    OBVIOUS
  <2> USE DEF OpenHasReader, IsOpen
  <2>1. CASE UNCHANGED <<stop, link, reader>>
    BY <2>1
  <2>2. CASE ReaderTake \/ ReaderDeliver \/ Start
    BY <2>2 DEF ReaderTake, ReaderDeliver, Start
  <2>3. CASE ReaderFails
    BY <2>3 DEF ReaderFails
  <2>4. CASE ReaderExits
    BY <2>4 DEF ReaderExits, lifeVars
  <2>5. CASE CloseBegin \/ CloseEnd
    BY <2>5 DEF CloseBegin, CloseEnd
  <2>6. CASE LinkDrop
    BY <2>6 DEF LinkDrop, readerVars, lifeVars
  <2> QED BY <2>1, <2>2, <2>3, <2>4, <2>5, <2>6
      DEF Next, CallerStep, Alloc, Register, Write, WriteFails, Return, Timeout,
          Pop, ReaderStep, ReaderEvent, DeviceAnswer, DeviceEvent, readerVars,
          lifeVars, vars
<1> QED BY <1>1, <1>2, PTL DEF Spec

-----------------------------------------------------------------------------
(* The client implements CtrlRpc.                                          *)

\* The client starts as CtrlRpc does.
LEMMA RpcInit == Init => Rpc!Init
<1> SUFFICES ASSUME Init PROVE Rpc!Init
  OBVIOUS
<1>1. \A k \in Calls : Phase(k) = "unused" /\ result[k] = NoFrame
  BY CtrlAssumption DEF Init, Phase, Calls
<1> QED BY <1>1 DEF Init, Rpc!Init

\* Steps that change neither a call nor what the device did are stutters.
LEMMA RpcStutter ==
    ASSUME UNCHANGED <<calls, outcome, result, done>>
    PROVE  UNCHANGED Rpc!vars
BY DEF Rpc!vars, Phase

\* Every step of the client is a step of CtrlRpc or changes nothing of it.
LEMMA RpcStep ==
    ASSUME IInv, [Next]_vars, MaxCalls <= SeqMod
    PROVE  [Rpc!Next]_Rpc!vars
<1> USE DEF IInv, TypeInv, TypeOK
<1>1. CASE UNCHANGED <<calls, outcome, result, done>>
  BY <1>1, RpcStutter
<1>2. ASSUME NEW c \in Callers, NEW cmd \in Commands, Alloc(c, cmd)
      PROVE  Rpc!Next
  <2>0. PICK k \in Calls : k = calls + 1
    BY <1>2, CtrlAssumption DEF Alloc, Calls
  <2>1. k = calls + 1 /\ calls' = k /\ calls \in Nat
    BY <1>2, <2>0, CtrlAssumption DEF Alloc, Calls
  <2>2. UNCHANGED <<outcome, result, done>>
    BY <1>2 DEF Alloc, wireVars
  <2>3. outcome[k] = "none" /\ result[k] = NoFrame
    BY <2>1 DEF OpenCalls
  <2>4. Phase(k) = "unused" /\ Phase(k)' = "open"
    BY <2>1, <2>2, <2>3 DEF Phase
  <2>5. \A j \in Calls : j # k => Phase(j)' = Phase(j)
    BY <2>1, <2>2, CtrlAssumption DEF Phase, Calls
  <2>6. \A j \in Calls : j < k => Phase(j) # "unused"
    BY <2>1, CtrlAssumption DEF Phase, Calls
  <2>7. Rpc!Invoke(k)
    BY <2>1, <2>2, <2>4, <2>5, <2>6 DEF Rpc!Invoke
  <2> QED BY <2>1, <2>7 DEF Rpc!Next
<1>3. ASSUME NEW c \in Callers, WriteFails(c) \/ Timeout(c)
      PROVE  Rpc!Next
  <2>0. PICK k \in Calls : k = callOf[c]
    BY <1>3, CallerInCall DEF WriteFails, Timeout
  <2>1. k = callOf[c] /\ k \in 1..calls
    BY <1>3, <2>0, CallerInCall DEF WriteFails, Timeout
  <2>2. /\ outcome[k] = "none" /\ result[k] = NoFrame
        /\ UNCHANGED <<calls, result, done>>
        /\ outcome'[k] # "none"
        /\ \A j \in Calls : j # k => outcome'[j] = outcome[j]
    BY <1>3, <2>1 DEF WriteFails, Timeout, OpenCalls, callVars, wireVars
  <2>3. Phase(k) = "open" /\ Phase(k)' = "failed"
    BY <2>1, <2>2 DEF Phase
  <2>4. \A j \in Calls : j # k => Phase(j)' = Phase(j)
    BY <2>2 DEF Phase
  <2>5. Rpc!Fail(k)
    BY <2>1, <2>2, <2>3, <2>4 DEF Rpc!Fail
  <2> QED BY <2>1, <2>5 DEF Rpc!Next
<1>4. ASSUME NEW c \in Callers, Return(c)
      PROVE  Rpc!Next
  <2>0. PICK k \in Calls : k = callOf[c]
    BY <1>4, CallerInCall DEF Return
  <2>1. k = callOf[c] /\ k \in 1..calls
    BY <1>4, <2>0, CallerInCall DEF Return
  <2>2. /\ outcome[k] = "none" /\ result[k] = NoFrame /\ frame[k] # NoFrame
        /\ UNCHANGED <<calls, done>>
        /\ result'[k] = frame[k]
        /\ \A j \in Calls : j # k =>
               outcome'[j] = outcome[j] /\ result'[j] = result[j]
    BY <1>4, <2>1 DEF Return, OpenCalls, callVars, wireVars
  <2>3. Honest(frame[k]) /\ Fits(frame[k], k)
    BY <2>1, <2>2 DEF HonestFrames
  <2>4. frame[k].of \in 1..calls
    BY <2>3, CtrlAssumption DEF Honest, Frames, Calls
  <2>5. frame[k].of = k
    BY <2>1, <2>3, <2>4, OwnNumber DEF Honest, Fits
  <2>6. frame[k].status = done[k] /\ done[k] # "none"
    BY <2>3, <2>5 DEF Honest, Frames, Statuses
  <2>7. Phase(k) = "open" /\ Phase(k)' = "answered"
    BY <2>1, <2>2 DEF Phase
  <2>8. \A j \in Calls : j # k => Phase(j)' = Phase(j)
    BY <2>2 DEF Phase
  <2> DEFINE Report(f) == IF f = NoFrame THEN "none" ELSE f.status
  <2>9. Report(result'[k]) = done[k]
    BY <2>2, <2>6
  <2>10. [j \in Calls |-> Report(result'[j])] =
             [[j \in Calls |-> Report(result[j])] EXCEPT ![k] = done[k]]
    BY <2>2, <2>9
  <2>11. [j \in Calls |-> Phase(j)'] =
             [[j \in Calls |-> Phase(j)] EXCEPT ![k] = "answered"]
    BY <2>7, <2>8
  <2>12. Rpc!Answer(k)
    BY <2>2, <2>6, <2>7, <2>10, <2>11 DEF Rpc!Answer
  <2> QED BY <2>12 DEF Rpc!Next
<1>5. ASSUME NEW k \in Calls, NEW status \in DeviceStatuses,
             DeviceAnswer(k, status)
      PROVE  Rpc!Next
  <2>1. /\ UNCHANGED <<calls, outcome, result>>
        /\ k <= calls /\ done[k] = "none"
        /\ done' = [done EXCEPT ![k] = status]
    BY <1>5 DEF DeviceAnswer, OncePerCall, callVars
  <2>2. Phase(k) # "unused" /\ \A j \in Calls : Phase(j)' = Phase(j)
    BY <2>1, CtrlAssumption DEF Phase, Calls
  <2>3. Rpc!Execute(k, status)
    BY <2>1, <2>2 DEF Rpc!Execute
  <2>4. status \in Statuses
    BY CtrlAssumption DEF Statuses
  <2> QED BY <2>3, <2>4 DEF Rpc!Next
<1> QED BY <1>1, <1>2, <1>3, <1>4, <1>5
    DEF Next, CallerStep, Register, Write, Pop, ReaderStep, ReaderTake,
        ReaderDeliver, ReaderEvent, ReaderFails, ReaderExits, Start,
        CloseBegin, CloseEnd, DeviceEvent, LinkDrop, callVars, wireVars, vars

\* Until the numbers wrap, request() reports to every caller the device's
\* answer to that very call, or a failure, once and for all.
THEOREM Refinement ==
    ASSUME MaxCalls <= SeqMod
    PROVE  Spec => ImplementsRpc
<1>1. IInv /\ [Next]_vars => [Rpc!Next]_Rpc!vars
  BY RpcStep
<1> QED BY <1>1, RpcInit, Invariance, PTL DEF Spec, ImplementsRpc, Rpc!Spec

-----------------------------------------------------------------------------
(* Events and answers.                                                     *)

\* n[i] events have been given to the listeners when the first i frames on
\* their way have been read, and an answer among them comes behind the events
\* that the device sent before it; all it has sent are then dispatched.
Accounts(n) ==
    /\ n \in [0..Len(inbound) -> Nat]
    /\ n[0] = dispatched
    /\ \A i \in 1..Len(inbound) :
          IF inbound[i].type = "EVT" THEN n[i] = n[i - 1] + 1
          ELSE n[i] = n[i - 1] /\ inbound[i].evts <= n[i]
    /\ link = "up" => n[Len(inbound)] = sentEvts

EventsInv ==
    /\ link = "closed" => inbound = <<>>
    /\ \E n : Accounts(n)
    /\ readerFrame.evts <= dispatched
    /\ \A k \in Calls : frame[k].evts <= dispatched /\ result[k].evts <= dispatched

\* Nothing has come yet.
LEMMA NothingOnItsWay ==
    ASSUME inbound = <<>>, dispatched \in Nat, link = "up" => sentEvts = dispatched
    PROVE  \E n : Accounts(n)
<1> DEFINE n == [i \in 0..0 |-> dispatched]
<1>1. Len(inbound) = 0 /\ n[0] = dispatched
  OBVIOUS
<1>2. n \in [0..Len(inbound) -> Nat]
  BY <1>1
<1> HIDE DEF n
<1>3. Accounts(n)
  BY <1>1, <1>2 DEF Accounts
<1> QED BY <1>3

LEMMA NothingLeftOnItsWay ==
    ASSUME inbound' = <<>>, dispatched' \in Nat, link' = "up" => sentEvts' = dispatched'
    PROVE  (\E n : Accounts(n))'
<1>1. PICK n : n = [i \in 0..0 |-> dispatched']
  OBVIOUS
<1>2. Len(inbound') = 0 /\ n[0] = dispatched'
  BY <1>1
<1>3. n \in [0..Len(inbound') -> Nat]
  BY <1>1, <1>2
<1>4. Accounts(n)'
  BY <1>2, <1>3 DEF Accounts
<1> QED BY <1>4

\* Steps that read and send nothing.
LEMMA AccountsUntouched ==
    ASSUME EventsInv, UNCHANGED <<inbound, dispatched>>,
           link' = "up" => link = "up" /\ sentEvts' = sentEvts
    PROVE  (\E n : Accounts(n))'
BY DEF EventsInv, Accounts

\* A frame is read: an event goes to the listeners.
LEMMA AccountsAfterRead ==
    ASSUME TypeInv, EventsInv, inbound # <<>>, inbound' = Tail(inbound),
           dispatched' = IF Head(inbound).type = "EVT" THEN dispatched + 1 ELSE dispatched,
           UNCHANGED <<link, sentEvts>>
    PROVE  /\ (\E n : Accounts(n))'
           /\ Head(inbound).type # "EVT" => Head(inbound).evts <= dispatched
<1>1. PICK n : Accounts(n)
  BY DEF EventsInv
<1>2. inbound \in Seq(Frames \cup {EvtFrame}) /\ dispatched \in Nat
  BY DEF TypeInv, TypeOK
<1>3. /\ Head(inbound) = inbound[1] /\ 1 \in 1..Len(inbound) /\ Len(inbound) \in Nat
      /\ Len(inbound') = Len(inbound) - 1
      /\ \A i \in 1..Len(inbound') : inbound'[i] = inbound[i + 1] /\ i + 1 \in 1..Len(inbound)
  BY <1>2, StreamParts
<1>4. /\ n \in [0..Len(inbound) -> Nat] /\ n[0] = dispatched
      /\ \A i \in 1..Len(inbound) :
            IF inbound[i].type = "EVT" THEN n[i] = n[i - 1] + 1
            ELSE n[i] = n[i - 1] /\ inbound[i].evts <= n[i]
      /\ link = "up" => n[Len(inbound)] = sentEvts
  BY <1>1 DEF Accounts
<1>5. n[1] = dispatched' /\ (Head(inbound).type # "EVT" => Head(inbound).evts <= dispatched)
  <2>1. 1 - 1 = 0
    OBVIOUS
  <2> QED BY <1>3, <1>4, <2>1
<1>t. PICK m : m = [i \in 0..Len(inbound') |-> n[i + 1]]
  OBVIOUS
<1>6. m \in [0..Len(inbound') -> Nat]
  BY <1>3, <1>4, <1>t
<1>7. \A i \in 0..Len(inbound') : m[i] = n[i + 1]
  BY <1>t
<1>8. m[0] = dispatched'
  BY <1>3, <1>5, <1>7
<1>9. ASSUME NEW i \in 1..Len(inbound')
      PROVE  IF inbound'[i].type = "EVT" THEN m[i] = m[i - 1] + 1
             ELSE m[i] = m[i - 1] /\ inbound'[i].evts <= m[i]
  <2>1. i + 1 \in 1..Len(inbound) /\ inbound'[i] = inbound[i + 1] /\ (i + 1) - 1 = i
    BY <1>3
  <2>2. m[i] = n[i + 1] /\ m[i - 1] = n[i]
    <3>1. i \in 0..Len(inbound') /\ i - 1 \in 0..Len(inbound') /\ (i - 1) + 1 = i
      BY <1>3
    <3> QED BY <1>7, <3>1
  <2> QED BY <1>4, <2>1, <2>2
<1>10. link = "up" => m[Len(inbound')] = sentEvts
  <2>1. Len(inbound') \in 0..Len(inbound') /\ Len(inbound') + 1 = Len(inbound)
    BY <1>3
  <2>2. m[Len(inbound')] = n[Len(inbound)]
    BY <1>7, <2>1
  <2> QED BY <1>4, <2>2
<1>11. Accounts(m)'
  BY <1>6, <1>8, <1>9, <1>10 DEF Accounts
<1> QED BY <1>5, <1>11

\* The device sends an event, or an answer behind all the events it has sent.
LEMMA AccountsAfterSend ==
    ASSUME TypeInv, EventsInv, link = "up", link' = "up", dispatched' = dispatched,
           NEW f \in Frames \cup {EvtFrame}, inbound' = Append(inbound, f),
           IF f.type = "EVT" THEN sentEvts' = sentEvts + 1
           ELSE sentEvts' = sentEvts /\ f.evts <= sentEvts
    PROVE  (\E n : Accounts(n))'
<1>1. PICK n : Accounts(n)
  BY DEF EventsInv
<1>2. inbound \in Seq(Frames \cup {EvtFrame}) /\ dispatched \in Nat /\ sentEvts \in Nat
  BY DEF TypeInv, TypeOK
<1>3. /\ Len(inbound) \in Nat /\ Len(inbound') = Len(inbound) + 1
      /\ \A i \in 1..Len(inbound) : inbound'[i] = inbound[i]
      /\ inbound'[Len(inbound) + 1] = f
  BY <1>2
<1>4. /\ n \in [0..Len(inbound) -> Nat] /\ n[0] = dispatched
      /\ \A i \in 1..Len(inbound) :
            IF inbound[i].type = "EVT" THEN n[i] = n[i - 1] + 1
            ELSE n[i] = n[i - 1] /\ inbound[i].evts <= n[i]
      /\ n[Len(inbound)] = sentEvts
  BY <1>1 DEF Accounts
<1>t. PICK m : m = [i \in 0..Len(inbound') |-> IF i <= Len(inbound) THEN n[i] ELSE sentEvts']
  OBVIOUS
<1>5. sentEvts' \in Nat
  BY <1>2
<1>6. m \in [0..Len(inbound') -> Nat]
  BY <1>3, <1>4, <1>5, <1>t
<1>7. /\ \A i \in 0..Len(inbound) : m[i] = n[i]
      /\ m[Len(inbound) + 1] = sentEvts'
  BY <1>3, <1>t
<1>8. ASSUME NEW i \in 1..Len(inbound')
      PROVE  IF inbound'[i].type = "EVT" THEN m[i] = m[i - 1] + 1
             ELSE m[i] = m[i - 1] /\ inbound'[i].evts <= m[i]
  <2>1. CASE i \in 1..Len(inbound)
    <3>1. m[i] = n[i] /\ m[i - 1] = n[i - 1]
      BY <1>3, <1>7, <2>1
    <3> QED BY <1>3, <1>4, <2>1, <3>1
  <2>2. CASE i = Len(inbound) + 1
    <3>1. i - 1 = Len(inbound) /\ Len(inbound) \in 0..Len(inbound)
      BY <1>3, <2>2
    <3>2. m[i] = sentEvts' /\ m[i - 1] = sentEvts
      BY <1>4, <1>7, <2>2, <3>1
    <3> QED BY <1>3, <2>2, <3>2
  <2> QED BY <1>3, <2>1, <2>2
<1>9. m[0] = dispatched' /\ m[Len(inbound')] = sentEvts'
  BY <1>3, <1>4, <1>7
<1>10. Accounts(m)'
  BY <1>6, <1>8, <1>9 DEF Accounts
<1> QED BY <1>10

LEMMA EventsStep ==
    ASSUME TypeInv, EventsInv, [Next]_vars
    PROVE  EventsInv'
<1>0. \A k \in Calls : frame[k].evts <= dispatched /\ result[k].evts <= dispatched
  BY DEF EventsInv
<1>1. ASSUME UNCHANGED <<inbound, dispatched, readerFrame, frame, result>>,
             link' = "closed" => link = "closed" \/ inbound = <<>>,
             link' = "up" => link = "up" /\ sentEvts' = sentEvts
      PROVE  EventsInv'
  <2>1. (\E n : Accounts(n))'
    BY <1>1, AccountsUntouched
  <2> QED BY <1>1, <2>1 DEF EventsInv
<1>2. ASSUME NEW c \in Callers, NEW cmd \in Commands, Alloc(c, cmd) PROVE EventsInv'
  BY <1>1, <1>2 DEF Alloc, readerVars, wireVars
<1>3. ASSUME NEW c \in Callers, Register(c) \/ Write(c) \/ WriteFails(c) \/ Timeout(c) \/ Pop(c)
      PROVE  EventsInv'
  BY <1>1, <1>3 DEF Register, Write, WriteFails, Timeout, Pop, readerVars, wireVars
<1>4. ASSUME NEW c \in Callers, Return(c) PROVE EventsInv'
  <2>1. /\ UNCHANGED <<inbound, dispatched, readerFrame, frame, link, sentEvts>>
        /\ result' = [result EXCEPT ![callOf[c]] = frame[callOf[c]]]
        /\ callOf[c] \in Calls
    BY <1>4, CallerInCall DEF Return, readerVars, wireVars
  <2>2. result \in [Calls -> Frames \cup {NoFrame}]
    BY DEF TypeInv, TypeOK
  <2>3. \A k \in Calls : result'[k] = result[k] \/ result'[k] = frame[callOf[c]]
    BY <2>1, <2>2
  <2>4. (\E n : Accounts(n))'
    BY <2>1, AccountsUntouched
  <2>5. \A k \in Calls : frame'[k].evts <= dispatched' /\ result'[k].evts <= dispatched'
    BY <1>0, <2>1, <2>3
  <2> QED BY <2>1, <2>4, <2>5 DEF EventsInv
<1>5. CASE ReaderTake \/ ReaderEvent
  <2>1. /\ inbound # <<>> /\ inbound' = Tail(inbound) /\ UNCHANGED <<link, sentEvts, frame, result>>
        /\ dispatched' = IF Head(inbound).type = "EVT" THEN dispatched + 1 ELSE dispatched
        /\ readerFrame' = readerFrame
           \/ (Head(inbound).type # "EVT" /\ readerFrame' = Head(inbound))
    BY <1>5 DEF ReaderTake, ReaderEvent, readerVars
  <2>2. /\ (\E n : Accounts(n))'
        /\ Head(inbound).type # "EVT" => Head(inbound).evts <= dispatched
    BY <2>1, AccountsAfterRead
  <2>3. dispatched \in Nat /\ dispatched' \in Nat /\ dispatched <= dispatched'
    BY <2>1 DEF TypeInv, TypeOK
  <2>4. readerFrame'.evts <= dispatched'
    <3>1. CASE readerFrame' = readerFrame
      <4>1. readerFrame.evts \in Nat /\ readerFrame.evts <= dispatched
        BY DEF TypeInv, TypeOK, EventsInv, Frames, NoFrame
      <4> QED BY <2>3, <3>1, <4>1
    <3>2. CASE Head(inbound).type # "EVT" /\ readerFrame' = Head(inbound)
      BY <2>1, <2>2, <3>2
    <3> QED BY <2>1, <3>1, <3>2
  <2>5. ASSUME NEW k \in Calls PROVE frame'[k].evts <= dispatched' /\ result'[k].evts <= dispatched'
    <3>1. frame[k] \in Frames \cup {NoFrame} /\ result[k] \in Frames \cup {NoFrame}
      BY DEF TypeInv, TypeOK
    <3>2. frame[k].evts \in Nat /\ result[k].evts \in Nat
      BY <3>1 DEF Frames, NoFrame
    <3> QED BY <1>0, <2>1, <2>3, <3>2
  <2>6. link # "closed"
    BY <2>1 DEF EventsInv
  <2> QED BY <2>1, <2>2, <2>4, <2>5, <2>6 DEF EventsInv
<1>6. CASE ReaderDeliver
  <2>1. /\ UNCHANGED <<inbound, dispatched, link, sentEvts, result>> /\ readerFrame' = NoFrame
        /\ frame' = frame \/ frame' = [frame EXCEPT ![readerTarget] = readerFrame]
    BY <1>6 DEF ReaderDeliver, wireVars
  <2>2. frame \in [Calls -> Frames \cup {NoFrame}] /\ dispatched \in Nat
    BY DEF TypeInv, TypeOK
  <2>3. \A k \in Calls : frame'[k] = frame[k] \/ frame'[k] = readerFrame
    BY <2>1, <2>2
  <2>4. (\E n : Accounts(n))'
    BY <2>1, AccountsUntouched
  <2>5. \A k \in Calls : frame'[k].evts <= dispatched' /\ result'[k].evts <= dispatched'
    BY <1>0, <2>1, <2>3 DEF EventsInv
  <2>6. NoFrame.evts <= dispatched
    BY <2>2 DEF NoFrame
  <2> QED BY <2>1, <2>4, <2>5, <2>6 DEF EventsInv
<1>7. CASE ReaderFails \/ ReaderExits \/ CloseBegin \/ LinkDrop \/ UNCHANGED vars
  BY <1>1, <1>7 DEF ReaderFails, ReaderExits, CloseBegin, LinkDrop, vars, wireVars, readerVars
<1>8. CASE Start
  <2>1. /\ UNCHANGED <<inbound, dispatched, readerFrame, frame, result>> /\ inbound = <<>>
        /\ sentEvts' = dispatched
    BY <1>8 DEF Start, EventsInv
  <2>2. dispatched' \in Nat
    BY <2>1 DEF TypeInv, TypeOK
  <2>3. (\E n : Accounts(n))'
    BY <2>1, <2>2, NothingLeftOnItsWay
  <2> QED BY <2>1, <2>3 DEF EventsInv
<1>9. CASE CloseEnd
  <2>1. /\ UNCHANGED <<dispatched, readerFrame, frame, result>> /\ inbound' = <<>> /\ link' = "closed"
    BY <1>9 DEF CloseEnd, readerVars
  <2>2. dispatched' \in Nat
    BY <2>1 DEF TypeInv, TypeOK
  <2>3. (\E n : Accounts(n))'
    BY <2>1, <2>2, NothingLeftOnItsWay
  <2> QED BY <2>1, <2>3 DEF EventsInv
<1>10. ASSUME UNCHANGED <<dispatched, readerFrame, frame, result>>, link = "up", link' = "up",
              (\E n : Accounts(n))'
       PROVE  EventsInv'
  BY <1>10 DEF EventsInv
<1>11. ASSUME NEW k \in Calls, NEW status \in DeviceStatuses, DeviceAnswer(k, status)
       PROVE  EventsInv'
  <2> DEFINE f == [type |-> ExpectedType(cmdOf[k]), seq |-> seqOf[k], of |-> k,
                   status |-> status, evts |-> sentEvts]
  <2>1. f \in Frames /\ f.type # "EVT" /\ f.evts = sentEvts
    BY CtrlAssumption DEF Frames, AnswerTypes, Statuses, ExpectedType, TypeInv, TypeOK
  <2>2. /\ inbound' = Append(inbound, f) /\ link = "up" /\ link' = "up"
        /\ UNCHANGED <<dispatched, readerFrame, frame, result, sentEvts>>
    BY <1>11 DEF DeviceAnswer, readerVars
  <2>3. sentEvts <= sentEvts
    BY DEF TypeInv, TypeOK
  <2> HIDE DEF f
  <2>4. (\E n : Accounts(n))'
    BY <2>1, <2>2, <2>3, AccountsAfterSend
  <2> QED BY <1>10, <2>2, <2>4
<1>12. CASE DeviceEvent
  <2>1. /\ inbound' = Append(inbound, EvtFrame) /\ link = "up" /\ link' = "up"
        /\ UNCHANGED <<dispatched, readerFrame, frame, result>> /\ sentEvts' = sentEvts + 1
    BY <1>12 DEF DeviceEvent, readerVars
  <2>2. EvtFrame \in Frames \cup {EvtFrame} /\ EvtFrame.type = "EVT"
    BY DEF EvtFrame
  <2>3. (\E n : Accounts(n))'
    BY <2>1, <2>2, AccountsAfterSend
  <2> QED BY <1>10, <2>1, <2>3
<1> QED BY <1>2, <1>3, <1>4, <1>5, <1>6, <1>7, <1>8, <1>9, <1>11, <1>12
    DEF Next, CallerStep, ReaderStep

\* When a call has its answer, the events that the device sent before it have
\* been given to the listeners (_handle_frame runs them on the reader).
THEOREM EventsComeFirst == Spec => []EventsBeforeAnswer
<1>1. Init => EventsInv
  <2> SUFFICES ASSUME Init PROVE EventsInv
    OBVIOUS
  <2>1. inbound = <<>> /\ dispatched = 0 /\ link = "closed" /\ sentEvts = 0 /\ 0 \in Nat
    BY DEF Init
  <2>2. \E n : Accounts(n)
    BY <2>1, NothingOnItsWay
  <2> QED BY <2>1, <2>2 DEF Init, EventsInv, NoFrame
<1>2. TypeInv /\ EventsInv /\ [Next]_vars => EventsInv'
  BY EventsStep
<1>3. TypeInv /\ EventsInv => EventsBeforeAnswer
  <2> SUFFICES ASSUME TypeInv, EventsInv, NEW c \in Callers, pc[c] = "pop"
               PROVE  dispatched >= result[callOf[c]].evts
    BY DEF EventsBeforeAnswer
  <2>1. callOf[c] \in Calls
    BY CallerInCall
  <2>2. result[callOf[c]] \in Frames \cup {NoFrame} /\ dispatched \in Nat
    BY <2>1 DEF TypeInv, TypeOK
  <2>3. result[callOf[c]].evts \in Nat
    BY <2>2 DEF Frames, NoFrame
  <2> QED BY <2>1, <2>2, <2>3 DEF EventsInv
<1> QED BY <1>1, <1>2, <1>3, TypeInit, TypeStep, PTL DEF Spec
=============================================================================
