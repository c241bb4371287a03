------------------------------- MODULE OtaClient -------------------------------
(***************************************************************************)
(* OTAClient.upgrade (looktech_glasses_sdk/ota_client.py): the host side   *)
(* of a firmware upgrade over the 0x2026 channel, and the device it talks  *)
(* to as far as the host relies on it.                                     *)
(*                                                                         *)
(* The device asks for one block of the image at a time.  The host cuts    *)
(* the block into SEND_DATA packets, each with a serial number of its own, *)
(* and waits for one answer whose number lies between the first and the    *)
(* last of this attempt; an attempt that times out or is rejected is made  *)
(* again with fresh numbers, up to block_retries times.  When the device   *)
(* asks for no more, the host polls VERIFY_DATA and then UPDATE_RESULT,    *)
(* which may ask for further blocks.  The channel is ordered and reliable, *)
(* but an answer may come after the host has given up on it, and the host  *)
(* drops what one read brought after the packet it was waiting for.        *)
(*                                                                         *)
(* The image is cut into units 0..Size-1, of which unit 0 is the header,   *)
(* already sent with CAN_UPDATE; time is counted in polls.                 *)
(***************************************************************************)
EXTENDS Integers, Sequences

CONSTANTS
    Size,       \* units in the image (image.file_len)
    BlockLen,   \* units the device asks for at once
    Chunk,      \* units in one SEND_DATA packet (max_send_data_payload)
    SnMax,      \* highest serial number: 65535 in the code; 0 is skipped
    Retries,    \* block_retries
    MaxPolls,   \* polls that fit in poll_timeout_s
    MaxAsks     \* bound: times UPDATE_RESULT asks for a block again

ASSUME OtaAssumption ==
    /\ Size \in Nat \ {0, 1}
    /\ BlockLen \in Nat \ {0}
    /\ Chunk \in Nat \ {0}
    /\ SnMax \in Nat \ {0}
    /\ Retries \in Nat \ {0}
    /\ MaxPolls \in Nat \ {0}
    /\ MaxAsks \in Nat

\* The packets of all the attempts at two blocks have different numbers: with
\* the code's 65535 numbers and 3 attempts, a block of up to 10922 packets.
ASSUME SerialsSuffice == 2 * Retries * BlockLen <= SnMax

VARIABLES
    phase,     \* where upgrade() is
    waiting,   \* inside _request or _read_response
    sn,        \* OTAClient._sn
    block,     \* the block to send: the variable block of upgrade()
    attempt,   \* attempts at it that have failed
    pos,       \* units of it sent in this attempt: pos of send_data_block
    first,     \* first_sn
    last,      \* last_sn
    polls,     \* requests of the present _poll_verify or _poll_update_result
    toDev,     \* packets the device has yet to read, in order
    toHost,    \* packets the host has yet to read, in order
    ask,       \* device: the block it waits for
    stored,    \* device: the units it has written
    verified,  \* device: it has checked the whole image since the last write
    asks       \* device: blocks it asked for in UPDATE_RESULT

hostVars   == <<phase, waiting, sn, block, attempt, pos, first, last, polls>>
deviceVars == <<ask, stored, verified, asks>>
vars == <<hostVars, toDev, toHost, deviceVars>>

-----------------------------------------------------------------------------
Units  == 1..(Size - 1)
Blocks == [off : 0..Size, len : 0..Size]
NoBlock == [off |-> 0, len |-> 0]
UnitsOf(b) == b.off..(b.off + b.len - 1)

Requests == {"info", "can", "enter", "verify", "result"}
Phases   == Requests \cup {"data", "done", "failed"}
Results  == {"ok", "fail", "progress"}
Running  == phase \notin {"done", "failed"}

Packets == [op : {"info", "can", "enter", "data", "verify", "result"},
            sn : 1..SnMax, block : Blocks]
Answers == [op : {"info", "can", "enter", "data", "verify", "result"},
            sn : 1..SnMax, result : Results, block : Blocks]

\* _next_sn: sixteen bits, of which zero is skipped.
NextSn(n) == IF n = SnMax THEN 1 ELSE n + 1

\* The length of the next SEND_DATA packet of a block.
ChunkLen(b, p) == IF b.len - p > Chunk THEN Chunk ELSE b.len - p

\* The blocks upgrade() accepts to send: not past the end of the image, and
\* (send_data_block) not empty.
Sendable(b) == b.off + b.len <= Size /\ b.len > 0

Init ==
    /\ phase = "info"
    /\ waiting = FALSE
    /\ sn = 0
    /\ block = NoBlock
    /\ attempt = 0
    /\ pos = 0
    /\ first = 0
    /\ last = 0
    /\ polls = 0
    /\ toDev = <<>>
    /\ toHost = <<>>
    /\ ask = NoBlock
    /\ stored = {}
    /\ verified = FALSE
    /\ asks = 0

-----------------------------------------------------------------------------
(* Sending.                                                                *)

\* get_info, can_update, enter_update, verify_data, update_result: each takes
\* a number, writes its packet and waits for the answer with that number.
Request ==
    /\ phase \in Requests
    /\ ~waiting
    /\ sn' = NextSn(sn)
    /\ toDev' = Append(toDev, [op |-> phase, sn |-> NextSn(sn), block |-> NoBlock])
    /\ waiting' = TRUE
    /\ polls' = IF phase \in {"verify", "result"} THEN polls + 1 ELSE polls
    /\ UNCHANGED <<phase, block, attempt, pos, first, last, toHost, deviceVars>>

\* One turn of the loop of send_data_block; after the last it waits.
SendChunk ==
    LET len == ChunkLen(block, pos) IN
    /\ phase = "data"
    /\ ~waiting
    /\ sn' = NextSn(sn)
    /\ first' = IF pos = 0 THEN sn' ELSE first
    /\ last' = sn'
    /\ toDev' = Append(toDev, [op |-> "data", sn |-> sn',
                               block |-> [off |-> block.off + pos, len |-> len]])
    /\ pos' = pos + len
    /\ waiting' = (pos' = block.len)
    /\ UNCHANGED <<phase, block, attempt, polls, toHost, deviceVars>>

-----------------------------------------------------------------------------
(* Receiving.                                                              *)

\* Mutant: any answer to SEND_DATA is taken, whichever attempt it belongs to.
AnyData(a) ==
    IF phase = "data" THEN a.op = "data" ELSE a.op = phase /\ a.sn = sn

\* The packet _request or _read_response returns.
Expected(a) ==
    IF phase = "data"
    THEN a.op = "data" /\ first <= a.sn /\ a.sn <= last
    ELSE a.op = phase /\ a.sn = sn

\* What the loop of upgrade() does with the block it has to send next.
GoTo(b) ==
    /\ block' = b
    /\ attempt' = 0
    /\ pos' = 0
    /\ polls' = 0
    /\ phase' = IF b = NoBlock THEN "verify"
                ELSE IF Sendable(b) THEN "data" ELSE "failed"

Stop ==
    /\ phase' = "failed"
    /\ UNCHANGED <<block, attempt, pos, polls>>

Become(p) ==
    /\ phase' = p
    /\ polls' = 0
    /\ UNCHANGED <<block, attempt, pos>>

\* Another attempt at the block, or last_error is raised.
Retry ==
    IF attempt + 1 < Retries
    THEN /\ attempt' = attempt + 1
         /\ pos' = 0
         /\ UNCHANGED <<phase, block, polls>>
    ELSE Stop

\* Mutant: the deadline is set anew by each answer.
PollForever ==
    /\ polls' = 0
    /\ UNCHANGED <<phase, block, attempt, pos>>

\* time.sleep(interval_s) and another poll, or the deadline has passed.
PollAgain ==
    IF polls < MaxPolls THEN UNCHANGED <<phase, block, attempt, pos, polls>>
    ELSE Stop

\* Mutant: UPDATE_RESULT is taken as the end without a look at its block.
HandleNoReask(a) ==
    CASE phase = "info"   /\ a.result = "ok" -> Become("can")
      [] phase = "can"    /\ a.result = "ok" -> Become("enter")
      [] phase = "enter"  /\ a.result = "ok" -> GoTo(a.block)
      [] phase = "data"   /\ a.result = "ok" -> GoTo(a.block)
      [] phase = "data"   /\ a.result # "ok" -> Retry
      [] phase = "verify" /\ a.result = "ok" -> Become("result")
      [] phase = "result" /\ a.result = "ok" -> Become("done")
      [] phase \in {"verify", "result"} /\ a.result = "progress" -> PollAgain
      [] OTHER -> Stop

\* What upgrade() makes of the answer to its request.
Handle(a) ==
    CASE phase = "info"   /\ a.result = "ok" -> Become("can")
      [] phase = "can"    /\ a.result = "ok" -> Become("enter")
      [] phase = "enter"  /\ a.result = "ok" -> GoTo(a.block)
      [] phase = "data"   /\ a.result = "ok" -> GoTo(a.block)
      [] phase = "data"   /\ a.result # "ok" -> Retry
      [] phase = "verify" /\ a.result = "ok" -> Become("result")
      [] phase = "result" /\ a.result = "ok" ->
            IF a.block = NoBlock THEN Become("done") ELSE GoTo(a.block)
      [] phase \in {"verify", "result"} /\ a.result = "progress" -> PollAgain
      [] OTHER -> Stop

\* One transport.read: n packets.  The first that is expected ends the wait,
\* and those behind it are gone with the loop that returned it.
Read(n) ==
    LET good == {i \in 1..n : Expected(toHost[i])} IN
    /\ waiting
    /\ n <= Len(toHost)
    /\ toHost' = SubSeq(toHost, n + 1, Len(toHost))
    /\ IF good = {}
       THEN UNCHANGED <<phase, waiting, block, attempt, pos, polls>>
       ELSE /\ waiting' = FALSE
            /\ \E i \in good : (\A j \in good : i <= j) /\ Handle(toHost[i])
    /\ UNCHANGED <<sn, first, last, toDev, deviceVars>>

\* No answer in time: only a block is tried again.
Timeout ==
    /\ waiting
    /\ waiting' = FALSE
    /\ IF phase = "data" THEN Retry ELSE Stop
    /\ UNCHANGED <<sn, first, last, toDev, toHost, deviceVars>>

\* The transport raises, in a write or in a read.
ChannelFails ==
    /\ Running
    /\ waiting' = FALSE
    /\ Stop
    /\ UNCHANGED <<sn, first, last, toDev, toHost, deviceVars>>

-----------------------------------------------------------------------------
(* The device: it reads its packets in order, asks for the units it does   *)
(* not have, and answers a block when the block is complete ("ACKs at      *)
(* block boundaries only").                                                *)

\* The next block to ask for, given the units already written.
AskFor(units) ==
    IF Units \subseteq units THEN NoBlock
    ELSE LET off == CHOOSE u \in Units \ units : \A v \in Units \ units : u <= v
             len == CHOOSE l \in 1..BlockLen :
                       /\ \A i \in 0..(l - 1) : off + i \in Units \ units
                       /\ l = BlockLen \/ off + l \notin Units \ units
         IN  [off |-> off, len |-> len]

\* A block upgrade() refuses ("device requested invalid block").
PastTheEnd == [off |-> Size, len |-> 1]

Send(packet, result, b) ==
    toHost' = Append(toHost, [op |-> packet.op, sn |-> packet.sn,
                              result |-> result, block |-> b])

DeviceInfo(p) ==
    /\ p.op \in {"info", "can"}
    /\ \E r \in {"ok", "fail"} : Send(p, r, NoBlock)
    /\ UNCHANGED deviceVars

\* The device may resume an upgrade: the units below `from' are there.
DeviceEnter(p) ==
    /\ p.op = "enter"
    /\ \E from \in Units :
          /\ stored' = 1..(from - 1)
          /\ ask' \in {AskFor(stored'), PastTheEnd}
          /\ Send(p, "ok", ask')
    /\ UNCHANGED <<verified, asks>>

\* A chunk of the block asked for.
DeviceData(p) ==
    /\ p.op = "data"
    /\ UnitsOf(p.block) \subseteq UnitsOf(ask)
    /\ stored' = stored \cup UnitsOf(p.block)
    /\ IF UnitsOf(ask) \subseteq stored'
       THEN ask' = AskFor(stored') /\ Send(p, "ok", ask')
       ELSE UNCHANGED <<ask, toHost>>
    /\ UNCHANGED <<verified, asks>>

\* The last chunk of the block, which fails its CRC: the block is refused.
DeviceRejects(p) ==
    /\ p.op = "data"
    /\ UnitsOf(p.block) \subseteq UnitsOf(ask)
    /\ p.block.off + p.block.len = ask.off + ask.len
    /\ stored' = stored \ UnitsOf(ask)
    /\ Send(p, "fail", ask)
    /\ UNCHANGED <<ask, verified, asks>>

\* A chunk of a block the device already has: a second attempt of a host that
\* missed the answer.  It is ignored, or answered with the block now wanted.
DeviceRepeat(p) ==
    /\ p.op = "data"
    /\ ~(UnitsOf(p.block) \subseteq UnitsOf(ask))
    /\ UNCHANGED toHost \/ Send(p, "ok", ask)
    /\ UNCHANGED deviceVars

DeviceVerify(p) ==
    /\ p.op = "verify"
    /\ \E r \in Results :
          /\ r = "ok" => ask = NoBlock /\ Units \subseteq stored
          /\ verified' = (r = "ok")
          /\ Send(p, r, NoBlock)
    /\ UNCHANGED <<ask, stored, asks>>

DeviceResult(p) ==
    /\ p.op = "result"
    /\ \/ /\ \E r \in Results : (r = "ok" => verified) /\ Send(p, r, NoBlock)
          /\ UNCHANGED deviceVars
       \/ \E u \in Units :
          /\ asks < MaxAsks
          /\ asks' = asks + 1
          /\ stored' = stored \ {u}
          /\ verified' = FALSE
          /\ ask' = [off |-> u, len |-> 1]
          /\ Send(p, "ok", ask')

DeviceReads ==
    /\ toDev # <<>>
    /\ toDev' = Tail(toDev)
    /\ LET p == Head(toDev) IN
          \/ DeviceInfo(p) \/ DeviceEnter(p)
          \/ DeviceData(p) \/ DeviceRejects(p) \/ DeviceRepeat(p)
          \/ DeviceVerify(p) \/ DeviceResult(p)
    /\ UNCHANGED hostVars

-----------------------------------------------------------------------------
Next ==
    \/ Request \/ SendChunk \/ Timeout \/ ChannelFails
    \/ \E n \in 1..Len(toHost) : Read(n)
    \/ DeviceReads

Spec == Init /\ [][Next]_vars

\* The host goes on as long as it can: it sends, and a wait ends with an answer
\* or at its deadline.  Nothing is assumed of the device.
FairSpec ==
    /\ Spec
    /\ WF_vars(Request \/ SendChunk)
    /\ WF_vars(Timeout \/ \E n \in 1..Len(toHost) : Read(n))

-----------------------------------------------------------------------------
TypeOK ==
    /\ phase \in Phases
    /\ waiting \in BOOLEAN
    /\ sn \in 0..SnMax
    /\ block \in Blocks
    /\ attempt \in 0..(Retries - 1)
    /\ pos \in 0..Size
    /\ first \in 0..SnMax
    /\ last \in 0..SnMax
    /\ polls \in 0..MaxPolls
    /\ toDev \in Seq(Packets)
    /\ toHost \in Seq(Answers)
    /\ ask \in Blocks
    /\ stored \subseteq Units
    /\ verified \in BOOLEAN
    /\ asks \in 0..MaxAsks

\* The host goes past a block only when the device has all of it, though
\* answers to earlier attempts and to repeated packets are still on their way.
PassedIsStored ==
    [][phase = "data" /\ waiting /\ phase' \in {"data", "verify"} /\ pos' = 0
          /\ attempt' = 0
       => UnitsOf(block) \subseteq stored]_vars

\* upgrade() returns a result only when the device has written every unit of
\* the image and verified it afterwards.
DoneIsComplete == phase = "done" => Units \subseteq stored /\ verified

\* upgrade() returns or raises, whatever the device answers and even if it
\* stops answering (given that it asks for a bounded number of blocks).
UpgradeEnds == <>~Running
=============================================================================
