------------------------------- MODULE MacChannel -------------------------------
(***************************************************************************)
(* MacRFCOMMChannel and _channel_worker (looktech_glasses_sdk/mac_bt.py):  *)
(* one RFCOMM channel on macOS.  The channel lives in a process of its     *)
(* own, whose run loop turns the callbacks of IOBluetooth into messages on *)
(* a pipe; the host sends it commands and reads data, acknowledgements and *)
(* the end of the channel from the same pipe.                              *)
(*                                                                         *)
(* The worker may hang in the Bluetooth library at any step, and the pipe  *)
(* to the host holds only so many messages.  Bytes are numbered from 1 in  *)
(* each opening of the channel.                                            *)
(***************************************************************************)
EXTENDS Integers, Sequences, SequencesExt

CONSTANTS
    PipeMax,    \* messages the pipe to the host holds
    Retries,    \* attempts of open() after the first: 1 in the code
    MaxBytes,   \* bound: bytes of the device in one opening
    MaxWrites,  \* bound: writes of the program in one opening
    MaxOpens    \* bound: calls of open()

ASSUME MacAssumption ==
    PipeMax \in Nat \ {0} /\ {Retries, MaxBytes, MaxWrites, MaxOpens} \subseteq Nat

VARIABLES
    host,      \* the call the host is in
    after,     \* what follows the close() in progress
    attempt,   \* attempts of open() that have failed
    conn,      \* _conn is a pipe
    closed,    \* closed
    rx,        \* _rx of the host
    toHost,    \* messages in the pipe to the host
    toWorker,  \* commands in the pipe to the worker
    worker,    \* where the worker is: "none" without a process, "over" when it
               \* has told the host of the end, "ended" when it ended otherwise
    ended,     \* the native channel is closed, as the worker knows
    data,      \* bytes the worker has read and not sent
    air,       \* bytes on their way to the worker
    lost,      \* the device or the link has closed the channel
    sent,      \* history: bytes the device sent in this opening
    out,       \* history: bytes read() returned in this opening
    writes,    \* writes begun in this opening
    written,   \* history: the writes the native channel took
    opens      \* calls of open() so far

hostVars   == <<host, after, attempt, conn, closed, rx, out, writes, opens>>
workerVars == <<worker, ended, data, written>>
airVars    == <<air, lost, sent>>
pipeVars   == <<toHost, toWorker>>
vars == <<hostVars, workerVars, airVars, pipeVars>>

Channel == INSTANCE ByteChannel WITH got <- out

-----------------------------------------------------------------------------
Calls  == {"open", "write", "close"}
Alive  == worker \notin {"none", "over", "ended"}
Say(m) == Len(toHost) < PipeMax /\ toHost' = Append(toHost, m)
Msg(k) == [kind |-> k, bytes |-> <<>>]

Init ==
    /\ host = "idle" /\ after = "idle" /\ attempt = 0 /\ conn = FALSE /\ closed = FALSE
    /\ rx = <<>> /\ out = <<>> /\ writes = 0 /\ opens = 0
    /\ worker = "none" /\ ended = FALSE /\ data = <<>> /\ written = 0
    /\ air = <<>> /\ lost = FALSE /\ sent = <<>>
    /\ toHost = <<>> /\ toWorker = <<>>

-----------------------------------------------------------------------------
(* The host.                                                               *)

\* close(): the command goes to the worker, unless the pipe is broken.
CloseThen(next) ==
    /\ after' = next
    /\ IF conn /\ Alive THEN host' = "close" /\ toWorker' = Append(toWorker, "close")
       ELSE host' = "reap" /\ UNCHANGED toWorker

Close ==
    /\ host = "idle" /\ conn
    /\ CloseThen("idle")
    /\ UNCHANGED <<attempt, conn, closed, rx, out, writes, opens, workerVars, airVars, toHost>>

\* Mutant: a process that does not end in time is left to itself.
ReapLeaves ==
    /\ host = "reap"
    /\ host' = after /\ worker' \in {"none", worker}
    /\ conn' = FALSE /\ rx' = <<>> /\ closed' = TRUE
    /\ UNCHANGED <<after, attempt, out, writes, opens, ended, data, written, airVars, pipeVars>>

\* The finally clause of close(): the process ends or is killed.
Reap ==
    /\ host = "reap"
    /\ host' = after /\ worker' = "none"
    /\ conn' = FALSE /\ rx' = <<>> /\ closed' = TRUE
    /\ UNCHANGED <<after, attempt, out, writes, opens, ended, data, written, airVars, pipeVars>>

\* open() of a channel that is not open: what is left of the last is closed.
Open ==
    /\ host = "idle" /\ (~conn \/ closed) /\ opens < MaxOpens
    /\ opens' = opens + 1 /\ attempt' = 0
    /\ CloseThen("spawn")
    /\ UNCHANGED <<conn, closed, rx, out, writes, workerVars, airVars, toHost>>

\* An attempt: a new pipe and a new process.
Spawn ==
    /\ host = "spawn"
    /\ host' = "open" /\ conn' = TRUE
    /\ toHost' = <<>> /\ toWorker' = <<>>
    /\ worker' = "start" /\ ended' = FALSE /\ data' = <<>> /\ written' = 0
    /\ air' = <<>> /\ lost' = FALSE /\ sent' = <<>> /\ out' = <<>> /\ writes' = 0
    /\ UNCHANGED <<after, attempt, closed, rx, opens>>

Write ==
    /\ host = "idle" /\ conn /\ ~closed /\ writes < MaxWrites
    /\ writes' = writes + 1
    /\ IF Alive THEN host' = "write" /\ toWorker' = Append(toWorker, "write") /\ UNCHANGED after
       ELSE CloseThen("idle")
    /\ UNCHANGED <<attempt, conn, closed, rx, out, opens, workerVars, airVars, toHost>>

Another == attempt < Retries

\* Mutant: a write that fails leaves the channel open for the next one.
RaiseOpen ==
    \/ /\ host = "open"
       /\ IF Another THEN CloseThen("spawn") /\ attempt' = attempt + 1
          ELSE CloseThen("idle") /\ UNCHANGED attempt
    \/ host = "write" /\ host' = "idle" /\ UNCHANGED <<after, attempt, toWorker>>
    \/ host = "close" /\ host' = "reap" /\ UNCHANGED <<after, attempt, toWorker>>
    \/ host = "read" /\ host' = "idle" /\ UNCHANGED <<after, attempt, toWorker>>

\* An IOError of _receive: an attempt to open is made again or given up, a
\* write closes the channel, a close goes on, a read raises.
Raise ==
    \/ /\ host = "open"
       /\ IF Another THEN CloseThen("spawn") /\ attempt' = attempt + 1
          ELSE CloseThen("idle") /\ UNCHANGED attempt
    \/ host = "write" /\ CloseThen("idle") /\ UNCHANGED attempt
    \/ host = "close" /\ host' = "reap" /\ UNCHANGED <<after, attempt, toWorker>>
    \/ host = "read" /\ host' = "idle" /\ UNCHANGED <<after, attempt, toWorker>>

\* A message is taken: data is kept; the end of the channel or an error of the
\* worker closes it; the acknowledgement awaited ends the call.
Take ==
    /\ host \in Calls \cup {"read"} /\ toHost # <<>>
    /\ LET m == Head(toHost) IN
       /\ toHost' = Tail(toHost)
       /\ rx' = IF m.kind = "data" THEN rx \o m.bytes
                ELSE IF m.kind = host /\ host = "open" THEN <<>> ELSE rx
       /\ closed' = IF m.kind \in {"closed", "error"} THEN TRUE
                    ELSE IF m.kind = host /\ host = "open" THEN FALSE ELSE closed
       /\ \/ /\ m.kind = "error" \/ (m.kind = "closed" /\ host # "read")
             /\ Raise
          \/ /\ m.kind \in Calls \cup {"data"} /\ m.kind # host
             /\ UNCHANGED <<host, after, attempt, toWorker>>
          \/ /\ m.kind = host
             /\ host' = IF host = "close" THEN "reap" ELSE "idle"
             /\ UNCHANGED <<after, attempt, toWorker>>
          \/ /\ m.kind = "closed" /\ host = "read"
             /\ host' = "drain"
             /\ UNCHANGED <<after, attempt, toWorker>>
    /\ UNCHANGED <<conn, out, writes, opens, workerVars, airVars>>

\* The pipe is at its end.
Broken ==
    /\ host \in Calls \cup {"read"} /\ toHost = <<>> /\ ~Alive
    /\ closed' = TRUE
    /\ Raise
    /\ UNCHANGED <<conn, rx, out, writes, opens, workerVars, airVars, toHost>>

\* Mutant: an acknowledgement is waited for as long as the worker lives.
WaitOn == FALSE /\ UNCHANGED vars

\* No acknowledgement in time.
TimesOut ==
    /\ host \in Calls /\ toHost = <<>> /\ Alive
    /\ Raise
    /\ UNCHANGED <<conn, closed, rx, out, writes, opens, workerVars, airVars, toHost>>

\* read(): takes what has arrived, unless the channel is closed.
Read ==
    /\ host = "idle" /\ conn
    /\ host' = IF closed THEN "drain" ELSE "read"
    /\ UNCHANGED <<after, attempt, conn, closed, rx, out, writes, opens, workerVars, airVars, pipeVars>>

NothingMore ==
    /\ host = "read" /\ toHost = <<>> /\ Alive
    /\ host' = "drain"
    /\ UNCHANGED <<after, attempt, conn, closed, rx, out, writes, opens, workerVars, airVars, pipeVars>>

\* Mutant: bytes that are returned stay in the buffer.
Peeked(n) == rx

\* The bytes left when n are returned.
Rest(n) == SubSeq(rx, n + 1, Len(rx))

\* Up to max_bytes are returned.
Drain ==
    /\ host = "drain"
    /\ \E n \in 0..Len(rx) :
        /\ n = 0 => rx = <<>>
        /\ out' = out \o SubSeq(rx, 1, n)
        /\ rx' = Rest(n)
    /\ host' = "idle"
    /\ UNCHANGED <<after, attempt, conn, closed, writes, opens, workerVars, airVars, pipeVars>>

-----------------------------------------------------------------------------
(* The worker process.                                                     *)

\* The native channel is opened, or the worker gives up.
WorkerStarts ==
    /\ worker = "start"
    /\ \/ Say(Msg("open")) /\ worker' = "turn"
       \/ Say(Msg("error")) /\ worker' = "ended"
    /\ UNCHANGED <<hostVars, ended, data, written, airVars, toWorker>>

\* Mutant: the loop looks for the end of the channel before it reads.
EndFirst ==
    /\ worker = "turn"
    /\ \E n \in 0..Len(air) :
        /\ ended' = (lost /\ n = Len(air))
        /\ data' = IF ended' THEN <<>> ELSE SubSeq(air, 1, n)
        /\ air' = SubSeq(air, n + 1, Len(air))
    /\ worker' = "send"
    /\ UNCHANGED <<hostVars, written, lost, sent, pipeVars>>

\* A turn of the run loop brings bytes and then, perhaps, the end.
Turn ==
    /\ worker = "turn"
    /\ \E n \in 0..Len(air) :
        /\ data' = SubSeq(air, 1, n)
        /\ air' = SubSeq(air, n + 1, Len(air))
        /\ ended' \in {FALSE, lost /\ n = Len(air)}
    /\ worker' = "send"
    /\ UNCHANGED <<hostVars, written, lost, sent, pipeVars>>

SendData ==
    /\ worker = "send"
    /\ IF data = <<>> THEN UNCHANGED toHost ELSE Say([kind |-> "data", bytes |-> data])
    /\ data' = <<>> /\ worker' = "check"
    /\ UNCHANGED <<hostVars, ended, written, airVars, toWorker>>

\* The end of the channel, or the next command, if there is one.
Check ==
    /\ worker = "check"
    /\ IF ended THEN Say(Msg("closed")) /\ worker' = "over" /\ UNCHANGED toWorker
       ELSE IF toWorker = <<>> THEN worker' = "turn" /\ UNCHANGED pipeVars
       ELSE worker' = Head(toWorker) /\ toWorker' = Tail(toWorker) /\ UNCHANGED toHost
    /\ UNCHANGED <<hostVars, ended, data, written, airVars>>

\* The native channel takes the bytes, or fails once it is lost.
DoWrite ==
    /\ worker = "write"
    /\ \/ Say(Msg("write")) /\ written' = written + 1 /\ worker' = "turn"
       \/ lost /\ Say(Msg("error")) /\ worker' = "ended" /\ UNCHANGED written
    /\ UNCHANGED <<hostVars, ended, data, airVars, toWorker>>

DoClose ==
    /\ worker = "close"
    /\ Say(Msg("close")) /\ worker' = "ended"
    /\ UNCHANGED <<hostVars, ended, data, written, airVars, toWorker>>

-----------------------------------------------------------------------------
(* The device and the link.                                                *)

DeviceSends ==
    /\ Alive /\ worker # "start" /\ ~lost /\ Len(sent) < MaxBytes
    /\ air' = Append(air, Len(sent) + 1) /\ sent' = Append(sent, Len(sent) + 1)
    /\ UNCHANGED <<hostVars, workerVars, lost, pipeVars>>

ChannelLost ==
    /\ Alive /\ worker # "start" /\ ~lost
    /\ lost' = TRUE
    /\ UNCHANGED <<hostVars, workerVars, air, sent, pipeVars>>

WorkerDies ==
    /\ Alive
    /\ worker' = "ended"
    /\ UNCHANGED <<hostVars, ended, data, written, airVars, pipeVars>>

HostCall   == Reap \/ Spawn \/ Take \/ Broken \/ TimesOut \/ NothingMore \/ Drain
HostBegins == Open \/ Write \/ Read \/ Close
WorkerStep == WorkerStarts \/ Turn \/ SendData \/ Check \/ DoWrite \/ DoClose
Next == HostCall \/ HostBegins \/ WorkerStep \/ DeviceSends \/ ChannelLost \/ WorkerDies

Spec == Init /\ [][Next]_vars

\* The host runs and its timeouts pass; the worker need not do anything.
FairSpec == Spec /\ WF_vars(HostCall)

-----------------------------------------------------------------------------
(* Properties.                                                             *)

\* Every variable has its type.
TypeOK ==
    /\ host \in Calls \cup {"idle", "read", "drain", "reap", "spawn"}
    /\ after \in {"idle", "spawn"} /\ attempt \in 0..Retries /\ opens \in 0..MaxOpens
    /\ {conn, closed, ended, lost} \subseteq BOOLEAN
    /\ {rx, data, air, sent, out} \subseteq Seq(1..MaxBytes)
    /\ toHost \in Seq([kind : Calls \cup {"data", "closed", "error"}, bytes : Seq(1..MaxBytes)])
    /\ toWorker \in Seq({"write", "close"})
    /\ worker \in {"none", "start", "turn", "send", "check", "write", "close", "over", "ended"}
    /\ writes \in 0..MaxWrites /\ written \in 0..writes

\* What read() returns since the channel was opened are the bytes of the device
\* in order, whatever messages cross on the pipe, and no bytes of an earlier
\* opening (_receive, read, close).
ImplementsChannel == Channel!Spec

\* A reader that is told of the end of the channel by an empty read has had
\* every byte sent before the end, unless the worker failed (_channel_worker).
AllBeforeEnd ==
    host = "idle" /\ conn /\ closed /\ worker = "over" /\ rx = <<>> => out = sent

\* A write that returns has been taken by the native channel: an acknowledgement
\* of another write is never taken for its own (write, _receive).
AckIsOwn ==
    [][host = "write" /\ toHost # <<>> /\ toHost' = Tail(toHost)
        => (Head(toHost).kind = "write" => written = writes)]_vars

\* A process is started only when there is none left (close, open).
OneWorker == [][worker' = "start" /\ worker # "start" => worker = "none"]_vars

\* Every call ends, though the worker hangs or dies and the pipe fills up.
CallsEnd == []<>(host = "idle")
================================================================================
