------------------------------ MODULE AudioStream ------------------------------
(***************************************************************************)
(* Recordings: AudioStreamClient (looktech_glasses_sdk/audio_client.py)    *)
(* under GlassesSession.record_start and record_stop (session.py).         *)
(*                                                                         *)
(* The device streams packages of Sections frames while a recording is on, *)
(* each SnStep numbers after the last; the host writes them to a file and  *)
(* counts the lost packages from the gaps.  Without a pump a reader thread *)
(* reads the channel, which is open for the time of one recording; with a  *)
(* pump (macOS) the channel stays open and whatever polls the session      *)
(* reads it.                                                               *)
(*                                                                         *)
(* Commands travel on the control channel: each is executed some time      *)
(* after it was sent, also when its caller no longer waits.  Cutting the   *)
(* byte stream into packages is StreamParsers; frames are not told apart   *)
(* within a package.  The join of the reader is taken to succeed: its      *)
(* reads last at most 0.05 s and stop() waits for 2 s.                     *)
(***************************************************************************)
EXTENDS Integers, Sequences, FiniteSets, SequencesExt

CONSTANTS
    SnMod,       \* sn of a package is counted modulo this: 2^16
    Sections,    \* frames of a package: 8, or 3
    SnStep,      \* from one package to the next: Sections where sn numbers frames
                 \* (audio_client.py:11), 1 where it numbers packages (PROTOCOL.md:272)
    MaxFiles,    \* bound: recordings begun
    MaxPackages, \* bound: packages the device sends
    MaxFaults    \* bound: timed-out calls and broken reads

\* The gaps the host can tell: fewer packages in a row than SnMod has room for.
ASSUME AudioAssumption ==
    /\ SnMod \in Nat /\ Sections \in Nat \ {0} /\ MaxFiles \in Nat
    /\ SnStep \in Nat \ {0} /\ MaxPackages \in Nat /\ MaxFaults \in Nat
    /\ MaxPackages * SnStep < SnMod

VARIABLES
    threaded,  \* GlassesSession._pump is None
    at,        \* record_start or record_stop in progress, and where it is
    answer,    \* the answer to the command waited for: "none", "OK", "BAD"
    recording, \* GlassesSession._recording
    open,      \* the audio transport is open on the host
    wire,      \* packages on the audio channel that the host has not read
    sink,      \* the file _sink writes to, 0 for None
    lastSn,    \* _last_sn, -1 for None
    stop,      \* _stop
    reader,    \* the reader thread: "none", "read", "handle" or "dead"
    held,      \* packages of its last read, not handled yet
    files,     \* for each recording what was written, _stats, and how it ended
    cmds,      \* commands on their way to the device; the last may be waited for
    streaming, \* device: the stream it sends, 0 for none
    streams,   \* device: streams begun so far
    sn,        \* device: number of the last package, or of its last frame
    sent,      \* device: packages so far
    due,       \* history: packages that reached the channel for the file of _sink
    faults     \* faults so far

deviceVars == <<streaming, streams, sn, sent>>
clientVars == <<open, sink, lastSn, stop, reader, held, files>>
sessionVars == <<threaded, at, answer, recording, cmds>>
vars == <<sessionVars, clientVars, wire, deviceVars, due, faults>>

-----------------------------------------------------------------------------
Idle == at = "idle"
Unused == [got |-> <<>>, lost |-> 0, end |-> "unused"]
NewFile == Cardinality({f \in 1..MaxFiles : files[f].end # "unused"}) + 1

Init ==
    /\ threaded \in BOOLEAN
    /\ at = "idle" /\ answer = "none" /\ recording = FALSE
    /\ open = ~threaded
    /\ wire = <<>> /\ sink = 0 /\ lastSn = -1
    /\ stop = FALSE /\ reader = "none" /\ held = <<>>
    /\ files = [f \in 1..MaxFiles |-> Unused]
    /\ cmds = <<>>
    /\ streaming = 0 /\ streams = 0 /\ sn \in 0..SnMod - 1 /\ sent = 0
    /\ due = {} /\ faults = 0

-----------------------------------------------------------------------------
(* Packages: _check_sn and _handle_package *)

\* Mutant: sn taken for a number of packages.
ExpectedNext(last) == (last + 1) % SnMod

Expected(last) == (last + Sections) % SnMod

LostBefore(last, pk) ==
    LET gap == (pk.sn - Expected(last)) % SnMod
    IN IF last = -1 \/ gap = 0 THEN 0 ELSE IF gap < Sections THEN 1 ELSE gap \div Sections

\* Without a sink poll() drops what it has read.
Handle(pk) ==
    IF sink = 0 THEN UNCHANGED <<lastSn, files>>
    ELSE /\ lastSn' = pk.sn
         /\ files' = [files EXCEPT ![sink].got = Append(@, pk),
                                   ![sink].lost = @ + LostBefore(lastSn, pk)]

\* A poll() of the caller's thread, while a request, record_stop's wait or the
\* program itself polls the session.  What it reads is handled one after the
\* other with nothing of the host in between: one package at a time says as
\* much.
Poll ==
    /\ ~threaded /\ at \notin {"join", "finish"}
    /\ wire # <<>>
    /\ Handle(Head(wire)) /\ wire' = Tail(wire)
    /\ UNCHANGED <<sessionVars, open, sink, stop, reader, held, deviceVars, due, faults>>

\* _reader_loop: the flag is looked at between two polls, not within one.
ReaderReads ==
    /\ reader = "read" /\ ~stop
    /\ \E n \in 1..Len(wire) :
        /\ held' = SubSeq(wire, 1, n)
        /\ wire' = SubSeq(wire, n + 1, Len(wire))
    /\ reader' = "handle"
    /\ UNCHANGED <<sessionVars, open, sink, lastSn, stop, files, deviceVars, due, faults>>

ReaderHandles ==
    /\ reader = "handle"
    /\ Handle(Head(held)) /\ held' = Tail(held)
    /\ reader' = IF Tail(held) = <<>> THEN "read" ELSE "handle"
    /\ UNCHANGED <<sessionVars, wire, open, sink, stop, deviceVars, due, faults>>

ReaderStops ==
    /\ reader = "read" /\ stop
    /\ reader' = "dead"
    /\ UNCHANGED <<sessionVars, wire, open, sink, lastSn, stop, held, files, deviceVars, due, faults>>

\* A read raises: the reader ends, and the recording goes on without it.
ReadBreaks ==
    /\ reader = "read" /\ ~stop /\ faults < MaxFaults
    /\ reader' = "dead"
    /\ files' = [files EXCEPT ![sink].end = "cut"]
    /\ faults' = faults + 1
    /\ UNCHANGED <<sessionVars, wire, open, sink, lastSn, stop, held, deviceVars, due>>

-----------------------------------------------------------------------------
(* The session *)

Call(place, cmd) == at' = place /\ answer' = "none" /\ cmds' = Append(cmds, cmd)

\* record_start: the sink, the counters and the parser are new.
RecordStart ==
    /\ Idle /\ ~recording /\ NewFile <= MaxFiles
    /\ sink' = NewFile /\ files' = [files EXCEPT ![NewFile].end = "open"] /\ due' = {}
    /\ lastSn' = -1
    /\ open' = TRUE
    /\ wire' = IF open THEN wire ELSE <<>>
    /\ stop' = FALSE
    /\ reader' = IF threaded THEN "read" ELSE "none"
    /\ held' = <<>>
    /\ recording' = TRUE
    /\ Call("start", "AUDIO_START")
    /\ UNCHANGED <<threaded, deviceVars, faults>>

\* The transport cannot be opened: start() closes it and the new file again.
StartFails ==
    /\ Idle /\ ~recording /\ NewFile <= MaxFiles /\ faults < MaxFaults
    /\ files' = [files EXCEPT ![NewFile].end = "failed"]
    /\ lastSn' = -1
    /\ open' = FALSE /\ wire' = <<>>
    /\ faults' = faults + 1
    /\ UNCHANGED <<sessionVars, sink, stop, reader, held, deviceVars, due>>

Started ==
    /\ at = "start" /\ answer # "none"
    /\ at' = IF answer = "OK" THEN "idle" ELSE "join"
    /\ UNCHANGED <<threaded, answer, recording, cmds, clientVars, wire, deviceVars, due, faults>>

\* Mutant: only a timeout closes the file again.
StartBreaksOpen ==
    /\ at = "start" /\ answer = "none" /\ faults < MaxFaults
    /\ at' = "idle" /\ recording' = FALSE
    /\ faults' = faults + 1
    /\ UNCHANGED <<threaded, answer, cmds, clientVars, wire, deviceVars, due>>

\* The request fails by something other than a timeout: no stop is sent.
StartBreaks ==
    /\ at = "start" /\ answer = "none" /\ faults < MaxFaults
    /\ at' = "join"
    /\ faults' = faults + 1
    /\ UNCHANGED <<threaded, answer, recording, cmds, clientVars, wire, deviceVars, due>>

\* After a timeout one is, whose end does not matter.
StartTimesOut ==
    /\ at = "start" /\ answer = "none" /\ faults < MaxFaults
    /\ Call("cleanup", "AUDIO_STOP")
    /\ faults' = faults + 1
    /\ UNCHANGED <<threaded, recording, clientVars, wire, deviceVars, due>>

CleanedUp ==
    /\ at = "cleanup"
    /\ \/ answer # "none" /\ UNCHANGED faults
       \/ faults < MaxFaults /\ faults' = faults + 1
    /\ at' = "join" /\ answer' = "none"
    /\ UNCHANGED <<threaded, recording, cmds, clientVars, wire, deviceVars, due>>

RecordStop ==
    /\ Idle /\ recording
    /\ Call("stop", "AUDIO_STOP")
    /\ UNCHANGED <<threaded, recording, clientVars, wire, deviceVars, due, faults>>

\* Mutant: the recording is closed as soon as the stop is confirmed.
AfterStopAtOnce == "join"

AfterStop == "settle"

StopAnswered ==
    /\ at = "stop" /\ answer # "none"
    /\ at' = IF answer = "OK" THEN AfterStop ELSE "join"
    /\ UNCHANGED <<threaded, answer, recording, cmds, clientVars, wire, deviceVars, due, faults>>

StopTimesOut ==
    /\ at = "stop" /\ answer = "none" /\ faults < MaxFaults
    /\ at' = "join"
    /\ faults' = faults + 1
    /\ UNCHANGED <<threaded, answer, recording, cmds, clientVars, wire, deviceVars, due>>

\* With a pump the poll after an answer, or one of the wait, raises when a
\* channel breaks, and no stop is sent after a start.
PumpBreaks ==
    /\ ~threaded /\ faults < MaxFaults
    /\ at = "settle" \/ (at \in {"start", "stop"} /\ answer = "OK")
    /\ at' = "join" /\ answer' = "none"
    /\ faults' = faults + 1
    /\ UNCHANGED <<threaded, recording, cmds, clientVars, wire, deviceVars, due>>

\* wait(0.1): long enough for what is on the channel to be read.
Settled ==
    /\ at = "settle"
    /\ wire = <<>> \/ reader = "dead"
    /\ at' = "join"
    /\ UNCHANGED <<threaded, answer, recording, cmds, clientVars, wire, deviceVars, due, faults>>

\* AudioStreamClient.stop.
SetStop ==
    /\ at = "join"
    /\ stop' = TRUE /\ recording' = FALSE
    /\ at' = "finish"
    /\ UNCHANGED <<threaded, answer, cmds, open, sink, lastSn, reader, held, files, wire, deviceVars, due, faults>>

Finish ==
    /\ at = "finish" /\ reader \in {"none", "dead"}
    /\ reader' = "none" /\ held' = <<>>
    /\ open' = ~threaded
    /\ wire' = IF threaded THEN <<>> ELSE wire
    /\ files' = [files EXCEPT ![sink].end = IF answer = "OK" /\ @ = "open" THEN "stopped" ELSE "failed"]
    /\ sink' = 0
    /\ at' = "idle"
    /\ UNCHANGED <<threaded, answer, recording, cmds, lastSn, stop, deviceVars, due, faults>>

-----------------------------------------------------------------------------
(* The device *)

Waiting == at \in {"start", "cleanup", "stop"} /\ answer = "none"

\* It executes a command or refuses it; a stream goes on with the numbers of the
\* last or begins anew.  The answer to any command but the last comes to nobody.
Execute ==
    /\ cmds # <<>>
    /\ \E ok \in BOOLEAN :
        /\ streaming' = IF ~ok THEN streaming
                        ELSE IF Head(cmds) = "AUDIO_STOP" THEN 0
                        ELSE IF streaming = 0 THEN streams + 1 ELSE streaming
        /\ IF streaming' > streams THEN streams' = streaming' /\ sn' \in {sn, 0}
           ELSE UNCHANGED <<streams, sn>>
        /\ answer' = IF Waiting /\ Len(cmds) = 1 THEN IF ok THEN "OK" ELSE "BAD" ELSE answer
    /\ cmds' = Tail(cmds)
    /\ UNCHANGED <<threaded, at, recording, clientVars, wire, sent, due, faults>>

\* The next package reaches the channel, or is lost when its buffers are full
\* or nobody is connected.
Send ==
    /\ streaming # 0 /\ sent < MaxPackages
    /\ LET pk == [stream |-> streaming, no |-> sent + 1, sn |-> (sn + SnStep) % SnMod]
       IN \/ open /\ wire' = Append(wire, pk) /\ due' = IF sink # 0 THEN due \cup {pk} ELSE due
          \/ UNCHANGED <<wire, due>>
    /\ sent' = sent + 1 /\ sn' = (sn + SnStep) % SnMod
    /\ UNCHANGED <<sessionVars, clientVars, streaming, streams, faults>>

Next ==
    \/ Poll \/ ReaderReads \/ ReaderHandles \/ ReaderStops \/ ReadBreaks
    \/ RecordStart \/ StartFails \/ Started \/ StartBreaks \/ StartTimesOut \/ CleanedUp
    \/ RecordStop \/ StopAnswered \/ StopTimesOut \/ PumpBreaks \/ Settled \/ SetStop \/ Finish
    \/ Execute \/ Send

Spec == Init /\ [][Next]_vars

-----------------------------------------------------------------------------
(* Properties *)

Numbers(f) == [i \in DOMAIN files[f].got |-> files[f].got[i].no]
Streams(f) == {pk.stream : pk \in ToSet(files[f].got)}

\* _check_sn (audio_client.py:393): the packages of one stream are written in
\* the order sent and none twice, and packages plus lost_packages are all that
\* the device sent from the first written to the last, across the wrap of sn.
\* This is so when sn numbers frames, as the code takes it to (SnStep = Sections),
\* and not when it numbers packages, as docs/PROTOCOL.md:272 says (SnStep = 1).
LossCounted ==
    \A f \in 1..MaxFiles :
        LET n == Numbers(f)
        IN n # <<>> /\ Cardinality(Streams(f)) = 1 =>
            /\ \A i \in 1..Len(n) - 1 : n[i] < n[i + 1]
            /\ Len(n) + files[f].lost = n[Len(n)] - n[1] + 1

\* record_stop (session.py:425): when the stop was confirmed and no read has
\* failed, the file holds every package that reached the channel since it was
\* opened, up to the last one before the device stopped.
TailKept ==
    [][\A f \in 1..MaxFiles : files[f].end = "open" /\ files'[f].end = "stopped"
            => due \subseteq ToSet(files'[f].got)]_vars

\* record_start and record_stop: between two calls a file is open exactly while
\* the session says it is recording, whatever failed, and the reader and its
\* channel go with it.
FileWithRecording ==
    Idle => /\ recording <=> sink # 0
            /\ reader # "none" => recording
            /\ threaded => (open => recording)

=============================================================================
