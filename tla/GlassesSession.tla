---------------------------- MODULE GlassesSession ----------------------------
(***************************************************************************)
(* GlassesSession (looktech_glasses_sdk/session.py): photos, recordings    *)
(* and firmware upgrades on one connection.                                *)
(*                                                                         *)
(* One thread calls the session.  Its operations send requests, and while  *)
(* they poll, the listeners they call may call the session again: stack    *)
(* holds the operations in progress, the innermost last.  With a pump      *)
(* (macOS) the polls go on inside requests and inside an upgrade; without  *)
(* one, readers in the background fill the queues and an operation polls   *)
(* only where it says so.                                                  *)
(*                                                                         *)
(* Requests are the calls of CtrlRpc, which CtrlClient implements; the     *)
(* device executes those of one connection in the order sent.  Of the      *)
(* events only the failure of a photo matters to the session; any other is *)
(* an occasion for the listeners.  Video and the media import are left to  *)
(* other modules.                                                          *)
(***************************************************************************)
EXTENDS Integers, Sequences

LOCAL INSTANCE SequencesExt

CONSTANTS
    MaxCalls,    \* bound: requests in one behaviour
    MaxTriggers, \* bound: photos triggered when another is begun
    MaxDepth,    \* bound: operations nested in one another
    MaxOutside   \* bound: calls of connect(), errors of the image or the audio
                 \*        channel and events other than the failure of a photo,
                 \*        together

ASSUME SessionAssumption ==
    /\ MaxCalls \in Nat /\ MaxTriggers \in Nat /\ MaxDepth \in Nat \ {0}
    /\ MaxOutside \in Nat

VARIABLES
    pump,      \* GlassesSession._pump is set
    link,      \* none, up, dropped (not noticed yet), down
    stack,     \* the operations in progress
    recording, \* _recording
    audio,     \* AudioStreamClient has an open sink
    pending,   \* _photo_pending
    completed, \* _completed_photo
    error,     \* _photo_error is set
    ota,       \* _ota_running
    incoming,  \* _incoming: events not dispatched yet
    images,    \* _images: saved photos not dispatched yet
    nextName,  \* ImageClient._next_photo_path, 0 for None
    triggers,  \* photos triggered so far: the n-th asks for the name n
    calls,     \* requests sent so far
    cmdOf,     \* call -> its command, the photo it triggers, where it was sent
    phase, report, done,  \* of CtrlRpc
    base,      \* the last call of the connections before this one
    streaming, \* device: it sends audio
    shooting,  \* device: the photo it is taking, 0 for none
    events,    \* events sent so far
    connects,  \* calls of connect() so far
    breaks,    \* errors of the image or the audio channel so far
    broken     \* history: requests of this connection left by such an error

rpcVars    == <<calls, cmdOf, phase, report, done>>
photoVars  == <<pending, completed, error, nextName, triggers>>
recVars    == <<recording, audio>>
queueVars  == <<incoming, images, events>>
deviceVars == <<streaming, shooting>>
lifeVars   == <<pump, base, connects, breaks, broken>>
vars == <<link, stack, recVars, photoVars, ota, queueVars, rpcVars, deviceVars, lifeVars>>

Calls == 1..MaxCalls
Commands == {"TAKE_PHOTO", "AUDIO_START", "AUDIO_STOP"}
Rpc == INSTANCE CtrlRpc WITH Statuses <- {"OK", "BAD"}

-----------------------------------------------------------------------------
(* The operations in progress.  `at' is where an operation is, `call' its   *)
(* request, `poll' what its present poll() is doing: emptying a queue, or  *)
(* running the listeners of an event or of a photo.                        *)

Ops    == {"PHOTO", "START", "CLEANUP", "STOP", "OTA", "WAIT", "CLOSE"}
Places == {"check", "send", "await", "drain", "loop", "settle", "upgrade", "closing"}
Polls  == {"no", "events", "event", "images", "image"}
Frames == [op : Ops, at : Places, poll : Polls, call : 0..MaxCalls]

Triggers == 1..(MaxTriggers + MaxDepth)
Saved == [photo : Triggers, name : Triggers \cup {0}]   \* named by its trigger, or not
NoPhoto == [photo |-> 0, name |-> 0]

\* The requests of this connection.
Sent == (base + 1)..calls

Top == stack[Len(stack)]
Idle == stack = <<>>
In(op, at) == ~Idle /\ Top.op = op /\ Top.at = at /\ Top.poll = "no"

Returned == SubSeq(stack, 1, Len(stack) - 1)
WithTop(f) == Append(Returned, f)
At(place) == [Top EXCEPT !.at = place, !.poll = "no"]
Polling(place) == [Top EXCEPT !.at = place, !.poll = "events"]
New(op, place, poll) == [op |-> op, at |-> place, poll |-> poll, call |-> 0]

\* is_connected: a drop that no read has met yet is not seen.
IsConnected == link \in {"up", "dropped"}

\* Mutant: a request is let through during an upgrade.
MayRequestAlways == IsConnected

\* _require_connected.
MayRequest == IsConnected /\ ~ota

\* An operation can begin where the program or a listener calls it.
Callable ==
    \/ Idle
    \/ ~Idle /\ Top.poll \in {"event", "image"} /\ Len(stack) < MaxDepth

\* Bound: the listeners of one event or photo call the session once.
Heard == [Top EXCEPT !.poll = IF Top.poll = "event" THEN "events" ELSE "images"]

\* Bound: what is begun can still send every request it may need.
Needs(f) == IF f.at \notin {"check", "send"} THEN IF f.op = "START" THEN 1 ELSE 0
            ELSE IF f.op = "START" THEN 2 ELSE IF f.op = "OTA" THEN 0 ELSE 1
Affordable(f) == calls + Needs(f) + FoldSeq(LAMBDA g, n : n + Needs(g), 0, stack) <= MaxCalls

Begin(op, place, poll) ==
    /\ Callable
    /\ MayRequest
    /\ Affordable(New(op, place, poll))
    /\ stack' = Append(IF Idle THEN <<>> ELSE WithTop(Heard), New(op, place, poll))

Init ==
    /\ pump \in BOOLEAN
    /\ link = "none"
    /\ stack = <<>>
    /\ recording = FALSE
    /\ audio = FALSE
    /\ pending = FALSE
    /\ completed = NoPhoto
    /\ error = FALSE
    /\ ota = FALSE
    /\ incoming = <<>>
    /\ images = <<>>
    /\ nextName = 0
    /\ triggers = 0
    /\ calls = 0
    /\ cmdOf = [k \in Calls |-> [cmd |-> "AUDIO_STOP", photo |-> 0, inside |-> FALSE]]
    /\ Rpc!Init
    /\ base = 0
    /\ streaming = FALSE
    /\ shooting = 0
    /\ events = 0
    /\ connects = 0
    /\ breaks = 0
    /\ broken = {}

-----------------------------------------------------------------------------
(* poll(): the events first, then the photos.                              *)

\* Where an operation polls over and over until a deadline.
Loops == {"loop", "settle"} \cup (IF pump THEN {"await", "upgrade"} ELSE {})

\* A poll is reading the channels, or a loop is about to.
Reading == ~Idle /\ (Top.poll = "events" \/ (Top.poll = "no" /\ Top.at \in Loops))

\* How the operation goes on when its request has succeeded, ...
FinishRecording ==
    /\ recording' = FALSE
    /\ audio' = FALSE
    /\ stack' = Returned

Succeed ==
    \/ /\ Top.op \in {"PHOTO", "START"}
       /\ stack' = Returned
       /\ UNCHANGED recVars
    \/ Top.op = "CLEANUP" /\ FinishRecording
    \/ /\ Top.op = "STOP"
       /\ stack' = WithTop(Polling("settle"))
       /\ UNCHANGED recVars
    \/ /\ Top.op = "CLOSE"
       /\ stack' = WithTop(At("closing"))
       /\ UNCHANGED recVars

\* ... and when it has failed, by a timeout or otherwise; `name' is what is
\* left of the name set for the next photo.
\* Mutant: a start that timed out is not followed by a stop.
FailNoCleanup(kind, name) ==
    \/ /\ Top.op = "PHOTO"
       /\ stack' = Returned
       /\ pending' = (pending /\ kind = "timeout")
       /\ nextName' = IF kind = "timeout" THEN name ELSE 0
       /\ UNCHANGED recVars
    \/ /\ Top.op \in {"START", "CLEANUP", "STOP"}
       /\ FinishRecording
       /\ nextName' = name /\ UNCHANGED pending
    \/ /\ Top.op = "CLOSE"
       /\ stack' = WithTop(At("closing"))
       /\ nextName' = name /\ UNCHANGED <<recVars, pending>>

Fail(kind, name) ==
    \/ /\ Top.op = "PHOTO"
       /\ stack' = Returned
       /\ pending' = (pending /\ kind = "timeout")
       /\ nextName' = IF kind = "timeout" THEN name ELSE 0
       /\ UNCHANGED recVars
    \/ /\ Top.op = "START" /\ kind = "timeout"
       /\ stack' = WithTop([At("send") EXCEPT !.op = "CLEANUP"])
       /\ nextName' = name /\ UNCHANGED <<recVars, pending>>
    \/ /\ Top.op = "START" /\ kind # "timeout"
       /\ FinishRecording
       /\ nextName' = name /\ UNCHANGED pending
    \/ /\ Top.op \in {"CLEANUP", "STOP"}
       /\ FinishRecording
       /\ nextName' = name /\ UNCHANGED pending
    \/ /\ Top.op = "CLOSE"
       /\ stack' = WithTop(At("closing"))
       /\ nextName' = name /\ UNCHANGED <<recVars, pending>>

\* A poll of a loop that finds nothing changes nothing and is left out.
PollBegins ==
    /\ ~Idle /\ Top.poll = "no"
    /\ Top.at \in Loops
    /\ incoming # <<>> \/ images # <<>>
    /\ stack' = WithTop(Polling(Top.at))
    /\ UNCHANGED <<link, recVars, photoVars, ota, queueVars, rpcVars, deviceVars, lifeVars>>

DispatchEvent ==
    /\ ~Idle /\ Top.poll \in {"events", "event"}
    /\ incoming # <<>>
    /\ incoming' = Tail(incoming)
    /\ error' = (error \/ (pending /\ Head(incoming) = "failed"))
    /\ pending' = (pending /\ Head(incoming) # "failed")
    /\ stack' = WithTop([Top EXCEPT !.poll = "event"])
    /\ UNCHANGED <<link, recVars, completed, nextName, triggers, ota, images, events,
                   rpcVars, deviceVars, lifeVars>>

\* A loop over no photos is not a step of its own.
EventsDone ==
    /\ ~Idle /\ Top.poll \in {"events", "event"}
    /\ incoming = <<>> /\ images # <<>>
    /\ stack' = WithTop([Top EXCEPT !.poll = "images"])
    /\ UNCHANGED <<link, recVars, photoVars, ota, queueVars, rpcVars, deviceVars, lifeVars>>

DispatchImage ==
    /\ ~Idle /\ Top.poll \in {"images", "image"}
    /\ images # <<>>
    /\ images' = Tail(images)
    /\ completed' = Head(images)
    /\ pending' = FALSE
    /\ stack' = WithTop([Top EXCEPT !.poll = "image"])
    /\ UNCHANGED <<link, recVars, error, nextName, triggers, ota, incoming, events,
                   rpcVars, deviceVars, lifeVars>>

\* The poll(0) at the end of _request is the last of it.
PollEnds ==
    /\ ~Idle /\ Top.poll # "no"
    /\ images = <<>>
    /\ Top.poll \in {"events", "event"} => incoming = <<>>
    /\ IF Top.at = "drain" THEN Succeed
       ELSE stack' = WithTop(At(Top.at)) /\ UNCHANGED recVars
    /\ UNCHANGED <<link, photoVars, ota, queueVars, rpcVars, deviceVars, lifeVars>>

\* The operation whose poll raises: its request ends as it does by any error
\* but a timeout, and every other place is left at once.
Interrupted(name) ==
    /\ IF Top.at = "await" THEN Rpc!Fail(Top.call) ELSE UNCHANGED <<phase, report, done>>
    /\ \/ Top.at \in {"await", "drain"} /\ Fail("other", name) /\ UNCHANGED ota
       \/ Top.at = "settle" /\ FinishRecording /\ nextName' = name /\ UNCHANGED <<pending, ota>>
       \/ /\ Top.at \in {"check", "loop", "upgrade"}
          /\ stack' = Returned
          /\ ota' = (ota /\ Top.at # "upgrade")
          /\ nextName' = name
          /\ UNCHANGED <<recVars, pending>>

\* With a pump, a poll raises when it meets the control channel lost, ...
LinkRaises ==
    /\ link = "dropped"
    /\ link' = "down"
    /\ Interrupted(nextName)
    /\ UNCHANGED <<shooting, breaks, broken>>

\* ... but also when the image or the audio channel ends by an error or the
\* image read cannot be written, which uses up its name: the control channel,
\* and with it the session, stays as it is.
ChannelRaises ==
    /\ connects + breaks + events < MaxOutside
    /\ breaks' = breaks + 1
    /\ broken' = broken \cup (IF Top.at \in {"await", "drain"} THEN {Top.call} ELSE {})
    /\ \/ Interrupted(nextName) /\ UNCHANGED shooting
       \/ shooting # 0 /\ shooting' = 0 /\ Interrupted(0)
    /\ UNCHANGED link

PollBreaks ==
    /\ ~Idle /\ pump
    /\ Reading
    /\ LinkRaises \/ ChannelRaises
    /\ UNCHANGED <<completed, error, triggers, queueVars, calls, cmdOf, streaming, pump,
                   base, connects>>

-----------------------------------------------------------------------------
(* _request.                                                               *)

\* A listener runs inside a start or a stop of a recording.
InsideRecording == \E i \in 1..(Len(stack) - 1) : stack[i].op \in {"START", "CLEANUP", "STOP"}

CommandOf(f) ==
    [cmd    |-> CASE f.op = "PHOTO" -> "TAKE_PHOTO"
                  [] f.op = "START" -> "AUDIO_START"
                  [] OTHER          -> "AUDIO_STOP",
     photo  |-> IF f.op = "PHOTO" THEN triggers ELSE 0,
     inside |-> InsideRecording]

\* On a link that has dropped unnoticed, the bytes may go nowhere.
\* Bound: what Affordable keeps free is enough, so that no request waits for one.
RequestSend ==
    /\ ~Idle /\ Top.at = "send"
    /\ MayRequest
    /\ calls < MaxCalls
    /\ calls' = calls + 1
    /\ cmdOf' = [cmdOf EXCEPT ![calls + 1] = CommandOf(Top)]
    /\ Rpc!Invoke(calls + 1)
    /\ stack' = WithTop([At("await") EXCEPT !.call = calls + 1])
    /\ UNCHANGED <<link, recVars, photoVars, ota, queueVars, deviceVars, lifeVars>>

\* The session is no longer connected, or the write raises.
RequestRefused ==
    /\ ~Idle /\ Top.at = "send"
    /\ ~MayRequest \/ link = "dropped"
    /\ Fail("other", nextName)
    /\ UNCHANGED <<link, completed, error, triggers, ota, queueVars, rpcVars, deviceVars,
                   lifeVars>>

RequestAnswered ==
    /\ ~Idle /\ Top.at = "await" /\ Top.poll = "no"
    /\ Rpc!Answer(Top.call)
    /\ IF done[Top.call] = "OK"
       THEN stack' = WithTop(Polling("drain")) /\ UNCHANGED <<recVars, pending, nextName>>
       ELSE Fail("other", nextName)
    /\ UNCHANGED <<link, completed, error, triggers, ota, queueVars, calls, cmdOf,
                   deviceVars, lifeVars>>

RequestTimesOut ==
    /\ ~Idle /\ Top.at = "await" /\ Top.poll = "no"
    /\ Rpc!Fail(Top.call)
    /\ Fail("timeout", nextName)
    /\ UNCHANGED <<link, completed, error, triggers, ota, queueVars, calls, cmdOf,
                   deviceVars, lifeVars>>

-----------------------------------------------------------------------------
(* trigger_photo and wait_photo.                                           *)

TriggerPhoto ==
    /\ triggers < MaxTriggers
    /\ Begin("PHOTO", "check", "events")
    /\ UNCHANGED <<link, recVars, photoVars, ota, queueVars, rpcVars, deviceVars, lifeVars>>

\* Mutant: a photo that is pending is not looked at.
TriggerAnyway ==
    /\ In("PHOTO", "check")
    /\ completed' = NoPhoto
    /\ error' = FALSE
    /\ pending' = TRUE
    /\ triggers' = triggers + 1
    /\ nextName' = triggers + 1
    /\ stack' = WithTop(At("send"))
    /\ UNCHANGED <<link, recVars, ota, queueVars, rpcVars, deviceVars, lifeVars>>

TriggerChecked ==
    /\ In("PHOTO", "check")
    /\ ~pending
    /\ completed' = NoPhoto
    /\ error' = FALSE
    /\ pending' = TRUE
    /\ triggers' = triggers + 1
    /\ nextName' = triggers + 1
    /\ stack' = WithTop(At("send"))
    /\ UNCHANGED <<link, recVars, ota, queueVars, rpcVars, deviceVars, lifeVars>>

\* "a photo is already pending"
TriggerRefused ==
    /\ In("PHOTO", "check")
    /\ pending
    /\ stack' = Returned
    /\ UNCHANGED <<link, recVars, photoVars, ota, queueVars, rpcVars, deviceVars, lifeVars>>

WaitPhoto ==
    /\ Begin("WAIT", "loop", "events")
    /\ UNCHANGED <<link, recVars, photoVars, ota, queueVars, rpcVars, deviceVars, lifeVars>>

\* Mutant: the deadline of wait_photo is not looked at.
WaitForPhoto ==
    /\ In("WAIT", "loop")
    /\ completed # NoPhoto \/ error
    /\ stack' = Returned
    /\ UNCHANGED <<link, recVars, photoVars, ota, queueVars, rpcVars, deviceVars, lifeVars>>

\* It has the photo, its failure, or no more time.
WaitEnds ==
    /\ In("WAIT", "loop")
    /\ stack' = Returned
    /\ UNCHANGED <<link, recVars, photoVars, ota, queueVars, rpcVars, deviceVars, lifeVars>>

-----------------------------------------------------------------------------
(* record_start and record_stop.                                           *)

RecordStart ==
    /\ ~recording
    /\ Begin("START", "send", "no")
    /\ audio' = TRUE
    /\ recording' = TRUE
    /\ UNCHANGED <<link, photoVars, ota, queueVars, rpcVars, deviceVars, lifeVars>>

RecordStop ==
    /\ recording
    /\ Begin("STOP", "send", "no")
    /\ UNCHANGED <<link, recVars, photoVars, ota, queueVars, rpcVars, deviceVars, lifeVars>>

\* wait(0.1) is over, and the finally clause runs.
RecordSettled ==
    /\ In("STOP", "settle")
    /\ FinishRecording
    /\ UNCHANGED <<link, photoVars, ota, queueVars, rpcVars, deviceVars, lifeVars>>

-----------------------------------------------------------------------------
(* ota.                                                                    *)

Ota ==
    /\ Begin("OTA", "check", "events")
    /\ UNCHANGED <<link, recVars, photoVars, ota, queueVars, rpcVars, deviceVars, lifeVars>>

\* Mutant: only a recording keeps the upgrade from starting.
OtaStartsPending ==
    /\ In("OTA", "check")
    /\ ~recording
    /\ ota' = TRUE
    /\ stack' = WithTop(At("upgrade"))
    /\ UNCHANGED <<link, recVars, photoVars, queueVars, rpcVars, deviceVars, lifeVars>>

\* The upgrade itself is OtaClient's: nothing of it is a request of CtrlRpc.
OtaStarts ==
    /\ In("OTA", "check")
    /\ ~recording /\ ~pending
    /\ ota' = TRUE
    /\ stack' = WithTop(At("upgrade"))
    /\ UNCHANGED <<link, recVars, photoVars, queueVars, rpcVars, deviceVars, lifeVars>>

\* It is busy, has no channel for the upgrade, or the file is not an image.
OtaRefused ==
    /\ In("OTA", "check")
    /\ stack' = Returned
    /\ UNCHANGED <<link, recVars, photoVars, ota, queueVars, rpcVars, deviceVars, lifeVars>>

OtaEnds ==
    /\ In("OTA", "upgrade")
    /\ ota' = FALSE
    /\ stack' = Returned
    /\ UNCHANGED <<link, recVars, photoVars, queueVars, rpcVars, deviceVars, lifeVars>>

-----------------------------------------------------------------------------
(* connect and close: the listeners do not call them.                      *)

Forget ==
    /\ pending' = FALSE
    /\ completed' = NoPhoto
    /\ error' = FALSE
    /\ nextName' = 0
    /\ incoming' = <<>>
    /\ images' = <<>>
    /\ base' = calls
    /\ streaming' = FALSE
    /\ shooting' = 0
    /\ broken' = {}

\* connect() makes new clients and leaves _recording as it is.
Connect ==
    /\ Idle
    /\ ~IsConnected
    /\ connects + breaks + events < MaxOutside
    /\ connects' = connects + 1
    /\ link' = "up"
    /\ Forget
    /\ audio' = FALSE
    /\ UNCHANGED <<stack, recording, triggers, ota, events, rpcVars, pump, breaks>>

\* connect() that fails calls close().
ConnectFails ==
    /\ Idle
    /\ ~IsConnected
    /\ link' = "none"
    /\ Forget
    /\ recording' = FALSE
    /\ audio' = FALSE
    /\ UNCHANGED <<stack, triggers, ota, events, rpcVars, pump, connects, breaks>>

CloseBegin ==
    /\ Idle
    /\ link # "none"
    /\ LET f == New("CLOSE", IF recording /\ IsConnected THEN "send" ELSE "closing", "no")
       IN  Affordable(f) /\ stack' = <<f>>
    /\ UNCHANGED <<link, recVars, photoVars, ota, queueVars, rpcVars, deviceVars, lifeVars>>

\* The device ends what it was doing when the control channel closes.
CloseEnd ==
    /\ In("CLOSE", "closing")
    /\ FinishRecording
    /\ link' = "none"
    /\ streaming' = FALSE
    /\ shooting' = 0
    /\ UNCHANGED <<photoVars, ota, queueVars, rpcVars, lifeVars>>

\* The reader finds the link lost; with a pump a poll does, and goes on if the
\* channel was closed and not broken.
LinkNoticed ==
    /\ pump => Reading
    /\ link = "dropped"
    /\ link' = "down"
    /\ UNCHANGED <<stack, recVars, photoVars, ota, queueVars, rpcVars, deviceVars, lifeVars>>

-----------------------------------------------------------------------------
(* The device.  A photo is accepted when none is being taken; it ends with *)
(* an event that says it failed, with an image, or with an image that      *)
(* loses a sub-frame and that ImageReassembler drops.  It may refuse any    *)
(* request; a refused AUDIO_STOP leaves it streaming.                      *)

DeviceExecutes(k, status) ==
    /\ link = "up"
    /\ k > base /\ k <= calls
    /\ \A j \in Calls : j > k => done[j] = "none"
    /\ Rpc!Execute(k, status)
    /\ LET c == cmdOf[k].cmd IN
       /\ c = "TAKE_PHOTO" /\ status = "OK" => shooting = 0
       /\ shooting' = IF c = "TAKE_PHOTO" /\ status = "OK" THEN cmdOf[k].photo ELSE shooting
       /\ streaming' = IF c = "TAKE_PHOTO" \/ status # "OK" THEN streaming ELSE c = "AUDIO_START"
    /\ UNCHANGED <<link, stack, recVars, photoVars, ota, queueVars, calls, cmdOf, lifeVars>>

PhotoFails ==
    /\ shooting # 0
    /\ shooting' = 0
    /\ incoming' = Append(incoming, "failed")
    /\ UNCHANGED <<link, stack, recVars, photoVars, ota, images, events, rpcVars, streaming,
                   lifeVars>>

\* The image is saved under the name set: by the reader of ImageClient, or
\* with a pump by the poll that reads the last of it.
PhotoSaved ==
    /\ shooting # 0
    /\ pump => Reading
    /\ shooting' = 0
    /\ images' = Append(images, [photo |-> shooting, name |-> nextName])
    /\ nextName' = 0
    /\ UNCHANGED <<link, stack, recVars, pending, completed, error, triggers, ota, incoming,
                   events, rpcVars, streaming, lifeVars>>

\* Without a pump it is the reader that cannot write the image: it has used up
\* the name, and ends.
PhotoDropped ==
    /\ shooting # 0
    /\ shooting' = 0
    /\ nextName' \in {nextName} \cup (IF pump THEN {} ELSE {0})
    /\ UNCHANGED <<link, stack, recVars, pending, completed, error, triggers, ota, queueVars,
                   rpcVars, streaming, lifeVars>>

OtherEvent ==
    /\ link = "up"
    /\ connects + breaks + events < MaxOutside
    /\ events' = events + 1
    /\ incoming' = Append(incoming, "other")
    /\ UNCHANGED <<link, stack, recVars, photoVars, ota, images, rpcVars, deviceVars, lifeVars>>

LinkDrop ==
    /\ link = "up"
    /\ link' = "dropped"
    /\ streaming' = FALSE
    /\ shooting' = 0
    /\ UNCHANGED <<stack, recVars, photoVars, ota, queueVars, rpcVars, lifeVars>>

-----------------------------------------------------------------------------
\* The steps of an operation in progress.
Proceed ==
    \/ PollBegins \/ DispatchEvent \/ EventsDone \/ DispatchImage \/ PollEnds \/ PollBreaks
    \/ RequestSend \/ RequestRefused \/ RequestAnswered \/ RequestTimesOut
    \/ TriggerChecked \/ TriggerRefused \/ WaitEnds \/ RecordSettled
    \/ OtaStarts \/ OtaRefused \/ OtaEnds \/ CloseEnd

Device ==
    \/ \E k \in Calls, status \in {"OK", "BAD"} : DeviceExecutes(k, status)
    \/ PhotoFails \/ PhotoSaved \/ PhotoDropped

Next ==
    \/ TriggerPhoto \/ WaitPhoto \/ RecordStart \/ RecordStop \/ Ota
    \/ Connect \/ ConnectFails \/ CloseBegin
    \/ Proceed
    \/ LinkNoticed
    \/ Device \/ OtherEvent \/ LinkDrop

Spec == Init /\ [][Next]_vars

-----------------------------------------------------------------------------
\* A request of the session is a step of CtrlRpc, whose states these are; a
\* photo is saved under a name a trigger gave or without one, and the requests
\* left by an error are requests of this connection.
TypeOK ==
    /\ pump \in BOOLEAN
    /\ link \in {"none", "up", "dropped", "down"}
    /\ stack \in Seq(Frames) /\ Len(stack) <= MaxDepth
    /\ recording \in BOOLEAN /\ audio \in BOOLEAN
    /\ pending \in BOOLEAN /\ error \in BOOLEAN
    /\ completed \in Saved \cup {NoPhoto}
    /\ ota \in BOOLEAN
    /\ incoming \in Seq({"failed", "other"})
    /\ images \in Seq(Saved)
    /\ nextName \in Triggers \cup {0}
    /\ triggers \in Triggers \cup {0}
    /\ calls \in 0..MaxCalls
    /\ phase \in [Calls -> Rpc!Phases]
    /\ base \in 0..calls
    /\ streaming \in BOOLEAN
    /\ shooting \in Triggers \cup {0}
    /\ breaks \in Nat
    /\ broken \subseteq Sent

\* An upgrade runs only when the session is neither recording nor waiting for
\* a photo: no listener called meanwhile can have begun either (R004).
OtaExclusive == ota => ~recording /\ ~pending

\* A trigger_photo left by an error of the image or the audio channel, whose
\* photo the device takes all the same (session.py:378).
Astray == \E k \in broken : cmdOf[k].cmd = "TAKE_PHOTO" /\ done[k] = "OK"

\* The photo that wait_photo returns is that of the last trigger_photo, under
\* the name given there, also when the request timed out and the image came
\* late (R003), or when listeners triggered photos in between.  The code does
\* not keep this for a photo astray: its name is gone, or the next one's.
PhotoAttribution ==
    completed # NoPhoto /\ ~Astray => completed = [photo |-> triggers, name |-> triggers]

\* The starts of a recording that the device obeyed, with no stop obeyed since.
Unstopped ==
    {k \in Sent :
        /\ cmdOf[k].cmd = "AUDIO_START" /\ done[k] = "OK"
        /\ \A j \in Sent : j > k /\ cmdOf[j].cmd = "AUDIO_STOP" => done[j] # "OK"}

\* Once the device has executed what it was sent, it streams audio only if the
\* session is recording: a start that timed out is followed by a stop.  The
\* code lets go of a stream in three cases only: an error of the image or the
\* audio channel left the start, and no stop is sent (session.py:415); the
\* device refused a stop, and _recording is cleared all the same
\* (session.py:432); or a listener stopped the recording being started and
\* started another, and the outer record_start or record_stop cleared
\* _recording under it.
NoOrphanStream ==
    /\ streaming /\ ~recording
    /\ \A k \in Sent : done[k] # "none"
    => /\ Unstopped # {}
       /\ \A k \in Unstopped :
             \/ k \in broken
             \/ cmdOf[k].inside
             \/ \E j \in Sent : j > k /\ cmdOf[j].cmd = "AUDIO_STOP" /\ done[j] = "BAD"

\* No operation is ever stuck: wherever one is, whatever the device, the link
\* and the listeners called on the way have done, the code has a next step, an
\* answer, a deadline or an error.
NeverStuck == ~Idle => ENABLED Proceed

\* A photo that the device accepted and no longer takes, and that has left
\* nothing to be read, can be taken again: of an image that lost a frame the
\* whole is dropped and the photo taken anew (docs/PROTOCOL.md:249).
RetakePossible ==
    /\ Idle /\ link = "up"
    /\ shooting = 0 /\ incoming = <<>> /\ images = <<>>
    /\ \E k \in Calls :
          /\ report[k] = "OK"
          /\ cmdOf[k].cmd = "TAKE_PHOTO" /\ cmdOf[k].photo = triggers
    => ~pending
=============================================================================
