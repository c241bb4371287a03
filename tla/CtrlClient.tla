------------------------------ MODULE CtrlClient ------------------------------
(***************************************************************************)
(* GlassesClient (looktech_glasses_sdk/client.py): requests and responses  *)
(* over the EDU-CTRL channel, in the mode with a background reader.        *)
(*                                                                         *)
(* Several caller threads may be inside _transact at once.  Each takes a   *)
(* sequence number under _seq_lock, registers a _Pending object under that *)
(* number in _pending, writes its frame, waits for the object's event or   *)
(* for a timeout, and removes the number again.  The reader thread looks a *)
(* received frame up by its sequence number under _pending_lock and fills  *)
(* the object it found after releasing that lock.  The object a thread     *)
(* waits on is named by the number of the call, so that an object outlives *)
(* its entry in the table, as it does in the code.                         *)
(*                                                                         *)
(* The device answers a request at any later moment, in any order, or      *)
(* never; a frame that is lost or fails its CRC on either side is a        *)
(* request that is never answered.                                         *)
(***************************************************************************)
EXTENDS Naturals, Sequences

CONSTANTS
    Callers,        \* threads that use one client
    Commands,       \* command identifiers, and HELLO
    HELLO,          \* the handshake, sent by hello() and answered by HELLO_ACK
    SeqMod,         \* values of the seq byte: 256 in the code
    DeviceStatuses, \* what the device's answers can say
    MaxCalls,       \* bound: calls of _transact in one behaviour
    MaxEvents,      \* bound: events the device sends in one behaviour
    MaxStarts       \* bound: calls of start()

ASSUME CtrlAssumption ==
    /\ HELLO \in Commands
    /\ DeviceStatuses \subseteq {"OK", "BAD", "SHORT"}
    /\ SeqMod \in Nat \ {0}
    /\ MaxCalls \in Nat
    /\ MaxEvents \in Nat
    /\ MaxStarts \in Nat

VARIABLES
    seq,          \* GlassesClient._seq
    calls,        \* number of sequence numbers handed out so far
    seqOf,        \* call -> the sequence number it was given
    cmdOf,        \* call -> what it sent
    table,        \* GlassesClient._pending: seq -> call, 0 when absent
    frame,        \* call -> _Pending.frame (NoFrame until its event is set)
    outcome,      \* call -> how _transact and the checks of the answer ended
    result,       \* call -> the frame _transact returned
    pc,           \* caller -> where it is in _transact
    callOf,       \* caller -> the call it is in, 0 when idle
    reader,       \* the reader thread: none, read, deliver
    readerFrame,  \* the frame it is handling
    readerTarget, \* the call it found for that frame, 0 when unmatched
    stop,         \* GlassesClient._stop
    closing,      \* close() is joining the reader
    starts,       \* calls of start() so far
    link,         \* the transport: closed, up, down (dropped by the peer)
    outbound,     \* requests the device has received and not answered
    inbound,      \* frames on their way to the host, in order
    done,         \* call -> the status the device answered it with, or "none"
    sentEvts,     \* events sent (those of an earlier connection: dispatched)
    dispatched    \* events handed to the listeners

callVars   == <<seq, calls, seqOf, cmdOf>>
readerVars == <<reader, readerFrame, readerTarget>>
lifeVars   == <<stop, closing, starts>>
wireVars   == <<outbound, inbound, done, sentEvts>>
vars == <<callVars, table, frame, outcome, result, pc, callOf, readerVars,
          lifeVars, link, wireVars, dispatched>>

-----------------------------------------------------------------------------
Calls == 1..MaxCalls
Seqs  == 0..(SeqMod - 1)

AnswerTypes == {"HELLO_ACK", "RSP"}
Statuses    == {"OK", "BAD", "SHORT"}  \* Status.OK, another status, a cut payload

\* `of' is the request a frame answers and `evts' the events sent before it:
\* neither is on the wire, the properties read them.
Frames == [type : AnswerTypes, seq : Seqs, of : Calls, status : Statuses,
           evts : Nat]
NoFrame  == [type |-> "NONE", seq |-> 0, of |-> 0, status |-> "OK", evts |-> 0]
EvtFrame == [type |-> "EVT", seq |-> 0, of |-> 0, status |-> "OK", evts |-> 0]

Outcomes == {"none", "ok", "status", "mismatch", "short", "timeout", "oserror"}
PCs      == {"idle", "register", "write", "wait", "pop"}

\* The type of frame that answers a request: the expected_type of _Pending.
ExpectedType(cmd) == IF cmd = HELLO THEN "HELLO_ACK" ELSE "RSP"

\* Mutants of NextSeq: the mask is left out; the mask is one bit short.
NextSeqUnmasked(s) == s + 1
NextSeqNarrow(s) == (s + 1) % (IF SeqMod > 1 THEN SeqMod - 1 ELSE 1)

\* _next_seq: self._seq = (self._seq + 1) & 0xFF.
NextSeq(s) == (s + 1) % SeqMod

\* What request() and GlassesSession._request make of the returned frame.
Verdict(cmd, f) ==
    CASE f.status = "SHORT"   -> "short"
      [] f.status # "SHORT" /\ cmd # HELLO /\ cmdOf[f.of] # cmd -> "mismatch"
      [] f.status = "BAD" /\ (cmd = HELLO \/ cmdOf[f.of] = cmd) -> "status"
      [] OTHER                -> "ok"

\* GlassesClient.is_open: a dropped link still looks open to the transport.
IsOpen == ~stop /\ link # "closed"

Init ==
    /\ seq = 0
    /\ calls = 0
    /\ seqOf = [k \in Calls |-> 0]
    /\ cmdOf = [k \in Calls |-> HELLO]
    /\ table = [s \in Seqs |-> 0]
    /\ frame = [k \in Calls |-> NoFrame]
    /\ outcome = [k \in Calls |-> "none"]
    /\ result = [k \in Calls |-> NoFrame]
    /\ pc = [c \in Callers |-> "idle"]
    /\ callOf = [c \in Callers |-> 0]
    /\ reader = "none"
    /\ readerFrame = NoFrame
    /\ readerTarget = 0
    /\ stop = FALSE
    /\ closing = FALSE
    /\ starts = 0
    /\ link = "closed"
    /\ outbound = {}
    /\ inbound = <<>>
    /\ done = [k \in Calls |-> "none"]
    /\ sentEvts = 0
    /\ dispatched = 0

-----------------------------------------------------------------------------
(* The steps of a caller inside _transact.                                 *)

\* _next_seq, under _seq_lock.
Alloc(c, cmd) ==
    /\ pc[c] = "idle"
    /\ calls < MaxCalls
    /\ calls' = calls + 1
    /\ seqOf' = [seqOf EXCEPT ![calls + 1] = seq]
    /\ cmdOf' = [cmdOf EXCEPT ![calls + 1] = cmd]
    /\ seq' = NextSeq(seq)
    /\ callOf' = [callOf EXCEPT ![c] = calls + 1]
    /\ pc' = [pc EXCEPT ![c] = "register"]
    /\ UNCHANGED <<table, frame, outcome, result, readerVars, lifeVars, link,
                   wireVars, dispatched>>

\* self._pending[seq] = pending, under _pending_lock.
Register(c) ==
    /\ pc[c] = "register"
    /\ table' = [table EXCEPT ![seqOf[callOf[c]]] = callOf[c]]
    /\ pc' = [pc EXCEPT ![c] = "write"]
    /\ UNCHANGED <<callVars, frame, outcome, result, callOf, readerVars,
                   lifeVars, link, wireVars, dispatched>>

\* transport.write succeeds; on a dropped link the bytes go nowhere.
Write(c) ==
    /\ pc[c] = "write"
    /\ link # "closed"
    /\ outbound' = IF link = "up" THEN outbound \cup {callOf[c]} ELSE outbound
    /\ pc' = [pc EXCEPT ![c] = "wait"]
    /\ UNCHANGED <<callVars, table, frame, outcome, result, callOf, readerVars,
                   lifeVars, link, inbound, sentEvts, dispatched, done>>

\* Mutant: a failed write skips the finally clause and leaves its entry.
WriteFailsLeaks(c) ==
    /\ pc[c] = "write"
    /\ link # "up"
    /\ outcome' = [outcome EXCEPT ![callOf[c]] = "oserror"]
    /\ callOf' = [callOf EXCEPT ![c] = 0]
    /\ pc' = [pc EXCEPT ![c] = "idle"]
    /\ UNCHANGED <<callVars, table, frame, result, readerVars, lifeVars, link,
                   wireVars, dispatched>>

\* transport.write raises: the channel is closed or has dropped.
WriteFails(c) ==
    /\ pc[c] = "write"
    /\ link # "up"
    /\ outcome' = [outcome EXCEPT ![callOf[c]] = "oserror"]
    /\ pc' = [pc EXCEPT ![c] = "pop"]
    /\ UNCHANGED <<callVars, table, frame, result, callOf, readerVars, lifeVars,
                   link, wireVars, dispatched>>

\* The event is set: the frame is returned and its status and echo checked.
Return(c) ==
    LET k == callOf[c] IN
    /\ pc[c] = "wait"
    /\ frame[k] # NoFrame
    /\ result' = [result EXCEPT ![k] = frame[k]]
    /\ outcome' = [outcome EXCEPT ![k] = Verdict(cmdOf[k], frame[k])]
    /\ pc' = [pc EXCEPT ![c] = "pop"]
    /\ UNCHANGED <<callVars, table, frame, callOf, readerVars, lifeVars, link,
                   wireVars, dispatched>>

\* Mutant: the deadline is looked at only as long as the reader runs.
TimeoutWhileReading(c) ==
    /\ pc[c] = "wait"
    /\ frame[callOf[c]] = NoFrame
    /\ reader # "none"
    /\ outcome' = [outcome EXCEPT ![callOf[c]] = "timeout"]
    /\ pc' = [pc EXCEPT ![c] = "pop"]
    /\ UNCHANGED <<callVars, table, frame, result, callOf, readerVars, lifeVars,
                   link, wireVars, dispatched>>

\* event.wait timed out and the event is still not set at the second look.
Timeout(c) ==
    /\ pc[c] = "wait"
    /\ frame[callOf[c]] = NoFrame
    /\ outcome' = [outcome EXCEPT ![callOf[c]] = "timeout"]
    /\ pc' = [pc EXCEPT ![c] = "pop"]
    /\ UNCHANGED <<callVars, table, frame, result, callOf, readerVars, lifeVars,
                   link, wireVars, dispatched>>

\* Mutant: the finally clause clears the whole table.
PopClears(c) ==
    /\ pc[c] = "pop"
    /\ table' = [s \in Seqs |-> 0]
    /\ callOf' = [callOf EXCEPT ![c] = 0]
    /\ pc' = [pc EXCEPT ![c] = "idle"]
    /\ UNCHANGED <<callVars, frame, outcome, result, readerVars, lifeVars, link,
                   wireVars, dispatched>>

\* The finally clause: self._pending.pop(seq, None).
Pop(c) ==
    /\ pc[c] = "pop"
    /\ table' = [table EXCEPT ![seqOf[callOf[c]]] = 0]
    /\ callOf' = [callOf EXCEPT ![c] = 0]
    /\ pc' = [pc EXCEPT ![c] = "idle"]
    /\ UNCHANGED <<callVars, frame, outcome, result, readerVars, lifeVars, link,
                   wireVars, dispatched>>

-----------------------------------------------------------------------------
(* The reader thread.                                                      *)

\* _handle_frame on an answer: look the number up, under _pending_lock.
ReaderTake ==
    /\ reader = "read"
    /\ inbound # <<>>
    /\ Head(inbound).type # "EVT"
    /\ reader' = "deliver"
    /\ readerFrame' = Head(inbound)
    /\ readerTarget' = table[Head(inbound).seq]
    /\ inbound' = Tail(inbound)
    /\ UNCHANGED <<callVars, table, frame, outcome, result, pc, callOf,
                   lifeVars, link, outbound, sentEvts, dispatched, done>>

\* Mutant: the type of the answer is not compared with expected_type.
ReaderDeliverUntyped ==
    /\ reader = "deliver"
    /\ frame' = IF readerTarget # 0
                THEN [frame EXCEPT ![readerTarget] = readerFrame]
                ELSE frame
    /\ reader' = "read"
    /\ readerFrame' = NoFrame
    /\ readerTarget' = 0
    /\ UNCHANGED <<callVars, table, outcome, result, pc, callOf, lifeVars, link,
                   wireVars, dispatched>>

\* pending.frame = frame; pending.event.set() - outside the lock.
ReaderDeliver ==
    /\ reader = "deliver"
    /\ frame' = IF /\ readerTarget # 0
                   /\ ExpectedType(cmdOf[readerTarget]) = readerFrame.type
                THEN [frame EXCEPT ![readerTarget] = readerFrame]
                ELSE frame
    /\ reader' = "read"
    /\ readerFrame' = NoFrame
    /\ readerTarget' = 0
    /\ UNCHANGED <<callVars, table, outcome, result, pc, callOf, lifeVars, link,
                   wireVars, dispatched>>

\* Mutant: the event is left to be dispatched later, by another thread.
ReaderEventDeferred ==
    /\ reader = "read"
    /\ inbound # <<>>
    /\ Head(inbound).type = "EVT"
    /\ inbound' = Tail(inbound)
    /\ UNCHANGED <<callVars, table, frame, outcome, result, pc, callOf,
                   readerVars, lifeVars, link, outbound, sentEvts, dispatched,
                   done>>

\* _handle_frame on an event: the listeners run on the reader thread.
ReaderEvent ==
    /\ reader = "read"
    /\ inbound # <<>>
    /\ Head(inbound).type = "EVT"
    /\ dispatched' = dispatched + 1
    /\ inbound' = Tail(inbound)
    /\ UNCHANGED <<callVars, table, frame, outcome, result, pc, callOf,
                   readerVars, lifeVars, link, outbound, sentEvts, done>>

\* Mutant: the reader ends without setting _stop.
ReaderFailsSilently ==
    /\ reader = "read"
    /\ link = "down"
    /\ reader' = "none"
    /\ UNCHANGED <<callVars, table, frame, outcome, result, pc, callOf,
                   readerFrame, readerTarget, lifeVars, link, wireVars,
                   dispatched>>

\* transport.read raises: the reader sets _stop and ends.
ReaderFails ==
    /\ reader = "read"
    /\ link = "down"
    /\ reader' = "none"
    /\ stop' = TRUE
    /\ UNCHANGED <<callVars, table, frame, outcome, result, pc, callOf,
                   readerFrame, readerTarget, closing, starts, link, wireVars,
                   dispatched>>

\* Mutant: a read blocks until there is a frame, and only then is _stop seen.
ReaderExitsAfterFrame ==
    /\ reader = "read"
    /\ stop
    /\ inbound # <<>>
    /\ reader' = "none"
    /\ UNCHANGED <<callVars, table, frame, outcome, result, pc, callOf,
                   readerFrame, readerTarget, lifeVars, link, wireVars,
                   dispatched>>

\* The reader finds _stop set at the head of its loop.
ReaderExits ==
    /\ reader = "read"
    /\ stop
    /\ reader' = "none"
    /\ UNCHANGED <<callVars, table, frame, outcome, result, pc, callOf,
                   readerFrame, readerTarget, lifeVars, link, wireVars,
                   dispatched>>

-----------------------------------------------------------------------------
(* start() and close().                                                    *)

\* A new connection owes the host only the events sent on it.
Start ==
    /\ starts < MaxStarts
    /\ link = "closed" /\ reader = "none" /\ ~closing
    /\ starts' = starts + 1
    /\ link' = "up"
    /\ stop' = FALSE
    /\ reader' = "read"
    /\ sentEvts' = dispatched
    /\ UNCHANGED <<callVars, table, frame, outcome, result, pc, callOf,
                   readerFrame, readerTarget, closing, outbound, inbound,
                   dispatched, done>>

CloseBegin ==
    /\ link # "closed"
    /\ ~closing
    /\ stop' = TRUE
    /\ closing' = TRUE
    /\ UNCHANGED <<callVars, table, frame, outcome, result, pc, callOf,
                   readerVars, starts, link, wireVars, dispatched>>

\* The reader has been joined (a read lasts 0.05 s, the join waits 2 s).
CloseEnd ==
    /\ closing
    /\ reader = "none"
    /\ closing' = FALSE
    /\ link' = "closed"
    /\ outbound' = {}
    /\ inbound' = <<>>
    /\ UNCHANGED <<callVars, table, frame, outcome, result, pc, callOf,
                   readerVars, stop, starts, sentEvts, dispatched, done>>

-----------------------------------------------------------------------------
(* The device and the radio link.                                          *)

DeviceAnswer(k, status) ==
    /\ link = "up"
    /\ k \in outbound
    /\ outbound' = outbound \ {k}
    /\ inbound' = Append(inbound, [type |-> ExpectedType(cmdOf[k]),
                                   seq |-> seqOf[k], of |-> k,
                                   status |-> status, evts |-> sentEvts])
    /\ done' = [done EXCEPT ![k] = status]
    /\ UNCHANGED <<callVars, table, frame, outcome, result, pc, callOf,
                   readerVars, lifeVars, link, sentEvts, dispatched>>

DeviceEvent ==
    /\ link = "up"
    /\ sentEvts < MaxEvents
    /\ sentEvts' = sentEvts + 1
    /\ inbound' = Append(inbound, EvtFrame)
    /\ UNCHANGED <<callVars, table, frame, outcome, result, pc, callOf,
                   readerVars, lifeVars, link, outbound, dispatched, done>>

\* Bytes already received stay readable until the reader sees the error.
LinkDrop ==
    /\ link = "up"
    /\ link' = "down"
    /\ outbound' = {}
    /\ UNCHANGED <<callVars, table, frame, outcome, result, pc, callOf,
                   readerVars, lifeVars, inbound, sentEvts, dispatched, done>>

-----------------------------------------------------------------------------
CallerStep(c) ==
    \/ Register(c) \/ Write(c) \/ WriteFails(c)
    \/ Return(c) \/ Timeout(c) \/ Pop(c)

ReaderStep ==
    ReaderTake \/ ReaderDeliver \/ ReaderEvent \/ ReaderFails \/ ReaderExits

Next ==
    \/ \E c \in Callers, cmd \in Commands : Alloc(c, cmd)
    \/ \E c \in Callers : CallerStep(c)
    \/ ReaderStep
    \/ Start \/ CloseBegin \/ CloseEnd
    \/ \E k \in Calls, status \in DeviceStatuses : DeviceAnswer(k, status)
    \/ DeviceEvent
    \/ LinkDrop

Spec == Init /\ [][Next]_vars

\* Threads that can run are run, and a timeout that is due fires.  Nothing is
\* assumed of the device, of the link, or of when the program opens or closes.
Fairness ==
    /\ \A c \in Callers : WF_vars(CallerStep(c))
    /\ WF_vars(ReaderStep)
    /\ WF_vars(CloseEnd)

FairSpec == Spec /\ Fairness

-----------------------------------------------------------------------------
InFlight(c) == pc[c] \in {"write", "wait", "pop"}

TypeOK ==
    /\ seq \in Seqs
    /\ calls \in 0..MaxCalls
    /\ seqOf \in [Calls -> Seqs]
    /\ cmdOf \in [Calls -> Commands]
    /\ table \in [Seqs -> 0..MaxCalls]
    /\ frame \in [Calls -> Frames \cup {NoFrame}]
    /\ outcome \in [Calls -> Outcomes]
    /\ result \in [Calls -> Frames \cup {NoFrame}]
    /\ pc \in [Callers -> PCs]
    /\ callOf \in [Callers -> 0..MaxCalls]
    /\ reader \in {"none", "read", "deliver"}
    /\ readerFrame \in Frames \cup {NoFrame}
    /\ readerTarget \in 0..MaxCalls
    /\ stop \in BOOLEAN
    /\ closing \in BOOLEAN
    /\ starts \in 0..MaxStarts
    /\ link \in {"closed", "up", "down"}
    /\ outbound \subseteq Calls
    /\ inbound \in Seq(Frames \cup {EvtFrame})
    /\ done \in [Calls -> Statuses \cup {"none"}]
    /\ sentEvts \in Nat
    /\ dispatched \in Nat

\* The answer a call returns is its own, unless the sequence numbers came
\* round between the two calls: _handle_frame matches on the seq byte alone,
\* so a late answer is mistaken for a fresh one only SeqMod calls away.
CrossedOnlyAfterWrap ==
    \A k \in Calls : result[k] # NoFrame =>
        LET j == result[k].of IN
        j = k \/ j >= k + SeqMod \/ k >= j + SeqMod

\* The handshake and the commands never take each other's answers, whatever
\* the sequence numbers do (the expected_type test of _handle_frame).
AnswerTypeMatches ==
    \A k \in Calls :
        result[k] # NoFrame => result[k].type = ExpectedType(cmdOf[k])

\* An entry of _pending belongs to a call that is still inside _transact: no
\* way out of it (answer, timeout, failed write) leaves an entry behind.
NoStaleEntry ==
    \A s \in Seqs : table[s] # 0 =>
        \E c \in Callers : callOf[c] = table[s] /\ InFlight(c)

\* A call that has registered finds its own object under its own number until
\* it removes it ("Bookkeeping for one in-flight request, keyed by seq").
OwnsItsEntry ==
    \A c \in Callers :
        InFlight(c) => table[seqOf[callOf[c]]] = callOf[c]

\* When a call returns an answer, every event the device sent before that
\* answer has been given to the listeners: the poll(0) that ends
\* GlassesSession._request finds them in its queue.
EventsBeforeAnswer ==
    \A c \in Callers :
        pc[c] = "pop" /\ result[callOf[c]] # NoFrame =>
            dispatched >= result[callOf[c]].evts

\* is_open never reports a client whose reader has gone: its requests could
\* only time out.
OpenHasReader == IsOpen => reader # "none"

\* Every call ends, also when the link drops, the reader dies or the client
\* is closed under it.
CallsEnd == \A c \in Callers : pc[c] # "idle" ~> pc[c] = "idle"

\* close() always gets past the join of the reader, whatever the reader was
\* doing when _stop was set: the next start() never meets an old reader.
CloseCompletes == closing ~> ~closing

-----------------------------------------------------------------------------
(* The client implements CtrlRpc as long as the sequence numbers of one    *)
(* behaviour do not wrap.                                                  *)

Phase(k) ==
    IF k > calls THEN "unused"
    ELSE IF result[k] # NoFrame THEN "answered"
    ELSE IF outcome[k] = "none" THEN "open"
    ELSE "failed"

Rpc == INSTANCE CtrlRpc WITH
    phase  <- [k \in Calls |-> Phase(k)],
    report <- [k \in Calls |-> IF result[k] = NoFrame THEN "none"
                               ELSE result[k].status],
    done   <- done

\* Every call reports the device's answer to that very call or a failure, once
\* and for all, with any number of threads in _transact.
ImplementsRpc == Rpc!Spec
=============================================================================
