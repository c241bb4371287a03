-------------------------------- MODULE Capture --------------------------------
(***************************************************************************)
(* CaptureClient (looktech_glasses_sdk/capture.py): saved photos, videos   *)
(* and the video configuration, on a session (session.py) that may be      *)
(* closed and connected again under a call in progress.                    *)
(*                                                                         *)
(* A request of the session polls before it returns (session.py:208), and  *)
(* so does the wait between two queries; there a listener may close and    *)
(* reconnect, and the call goes on with what it has read on the connection *)
(* before.  Listeners are "kept short" (session.py:281): in the model they *)
(* begin no capture of their own.                                          *)
(*                                                                         *)
(* The device accepts one capture at a time, keeps the latest operation of *)
(* each kind, lets only the connection that began one ask for it or stop   *)
(* it, and ends the captures of a connection that ends (docs/PROTOCOL.md,  *)
(* section 3); keys of the device may stop a video, and the configuration  *)
(* is shared with others.                                                  *)
(***************************************************************************)
EXTENDS Integers, Sequences, FiniteSets

CONSTANTS
    MaxOps,     \* bound: captures the device accepts
    MaxConns,   \* bound: calls of connect()
    MaxChanges, \* bound: changes of the configuration by others
    MaxFaults,  \* bound: failed requests and lost links
    Profiles    \* resolution and orientation

ASSUME CaptureAssumption ==
    MaxOps \in Nat /\ MaxConns \in Nat /\ MaxChanges \in Nat /\ MaxFaults \in Nat

VARIABLES
    conn,    \* which connection: GlassesSession._client
    up,      \* is_connected
    video,   \* GlassesSession._video_operation, 0 for None
    call,    \* the call in progress: its name, owner, operation, expected profile
    at,      \* where it is
    step,    \* which request it has sent last
    got,     \* what that answered
    back,    \* where a close() under it returns to
    ans,     \* the answer to the request waited for
    cmds,    \* requests on their way to the device
    ops,     \* device: its operations
    profile, \* device: the profile saved, the one asked for last, and whether it is applied
    merged,  \* history: the profile after the last request of this host
    known,   \* history: operations whose acceptance has been read by a call that
             \* has not raised in the poll after it
    changes, faults

deviceVars == <<cmds, ops, profile, merged, changes>>
callVars == <<call, at, step, got, back>>
vars == <<conn, up, video, callVars, ans, deviceVars, known, faults>>

-----------------------------------------------------------------------------
Running == {"STARTING", "RECORDING"}
Active == Running \cup {"STOPPING"}
Over == {"DONE", "FAILED", "UNKNOWN"}

None == [kind |-> "none"]
Bad == [kind |-> "bad"]
Duration == -1   \* a request for the longest duration only
NoCall == [name |-> "none", owner |-> 0, id |-> 0, want |-> 0]

Init ==
    /\ conn = 1 /\ up = TRUE /\ video = 0
    /\ call = NoCall /\ at = "idle" /\ step = "none" /\ got = None /\ back = "none"
    /\ ans = None /\ cmds = <<>> /\ ops = <<>>
    /\ \E p \in Profiles : profile = [saved |-> p, want |-> p, sync |-> "APPLIED"]
    /\ merged = profile.want /\ known = {} /\ changes = 0 /\ faults = 0

-----------------------------------------------------------------------------
(* The device *)

Latest(id) == id \in 1..Len(ops) /\ \A o \in id + 1..Len(ops) : ops[o].kind # ops[id].kind
Owned(c) == Latest(c.arg) /\ ops[c.arg].conn = c.conn
Accept(c, kind) == Append(ops, [kind |-> kind, conn |-> c.conn, state |-> "STARTING"])

\* The device executes the next request of the connection, or refuses it.
Execute ==
    /\ cmds # <<>>
    /\ LET c == Head(cmds)
           Answer(a) == ans' = IF at \in {"sent", "closing"} /\ Len(cmds) = 1 THEN a ELSE ans
           kind == IF c.cmd = "SAVED_PHOTO" THEN "photo" ELSE "video"
       IN \/ /\ c.cmd \in {"SAVED_PHOTO", "VIDEO_START"} /\ Len(ops) < MaxOps
             /\ \A o \in DOMAIN ops : ops[o].state \notin Active
             /\ ops' = Accept(c, kind) /\ UNCHANGED profile
             /\ Answer([kind |-> "op", id |-> Len(ops) + 1])
          \/ /\ c.cmd = "MEDIA_STATUS" /\ Owned(c)
             /\ UNCHANGED <<ops, profile>>
             /\ Answer([kind |-> "status", id |-> c.arg, what |-> ops[c.arg].kind, state |-> ops[c.arg].state])
          \/ /\ c.cmd = "VIDEO_STOP" /\ Owned(c) /\ ops[c.arg].kind = "video" /\ ops[c.arg].state \in Active
             /\ ops' = [ops EXCEPT ![c.arg].state = "STOPPING"] /\ UNCHANGED profile
             /\ Answer([kind |-> "op", id |-> c.arg])
          \/ /\ c.cmd = "SET_VIDEO_CONFIG"
             /\ profile' = IF c.arg = Duration THEN profile
                           ELSE [profile EXCEPT !.want = c.arg, !.sync = "PENDING"]
             /\ UNCHANGED ops
             /\ Answer([kind |-> "config", config |-> profile'])
          \/ /\ c.cmd = "GET_VIDEO_CONFIG"
             /\ UNCHANGED <<ops, profile>>
             /\ Answer([kind |-> "config", config |-> profile])
          \/ /\ c.cmd = "MEDIA_STATUS" => ~Owned(c)
             /\ c.cmd = "VIDEO_STOP" => ~(Owned(c) /\ ops[c.arg].kind = "video" /\ ops[c.arg].state \in Active)
             /\ c.cmd # "GET_VIDEO_CONFIG"
             /\ UNCHANGED <<ops, profile>>
             /\ Answer(Bad)
    /\ cmds' = Tail(cmds)
    /\ merged' = IF Head(cmds).cmd = "SET_VIDEO_CONFIG" THEN profile'.want ELSE merged
    /\ UNCHANGED <<conn, up, video, callVars, known, changes, faults>>

\* A capture goes on, ends, fails, or is stopped by a key or its longest duration.
Advance ==
    /\ \E o \in DOMAIN ops : \E s \in {"RECORDING", "STOPPING"} \cup Over :
        /\ ops[o].state \in Active
        /\ s = "RECORDING" => ops[o].kind = "video" /\ ops[o].state = "STARTING"
        /\ s = "STOPPING" => ops[o].kind = "video" /\ ops[o].state # "STOPPING"
        /\ ops' = [ops EXCEPT ![o].state = s]
    /\ UNCHANGED <<conn, up, video, callVars, ans, cmds, profile, merged, known, changes, faults>>

Synced ==
    /\ profile.sync = "PENDING"
    /\ \/ profile' = [profile EXCEPT !.saved = profile.want, !.sync = "APPLIED"]
       \/ profile' = [profile EXCEPT !.sync = "UNCONFIRMED"]
    /\ UNCHANGED <<conn, up, video, callVars, ans, cmds, ops, merged, known, changes, faults>>

\* Another host or the device asks for a profile, or the sensor refuses one; the
\* device may even say that one is applied while another is saved.
Superseded ==
    /\ changes < MaxChanges
    /\ \/ \E p \in Profiles : profile' = [profile EXCEPT !.want = p, !.sync = "PENDING"]
       \/ profile' \in [saved : Profiles, want : Profiles, sync : {"APPLIED"}]
    /\ changes' = changes + 1
    /\ UNCHANGED <<conn, up, video, callVars, ans, cmds, ops, merged, known, faults>>

\* The connection ends, on either side: what it began is being ended.
Disconnect ==
    /\ up' = FALSE
    /\ cmds' = <<>>
    /\ ops' = [o \in DOMAIN ops |-> IF ops[o].state \in Running THEN [ops[o] EXCEPT !.state = "STOPPING"] ELSE ops[o]]

LinkDrops ==
    /\ up /\ faults < MaxFaults
    /\ Disconnect
    /\ faults' = faults + 1
    /\ UNCHANGED <<conn, video, callVars, ans, profile, merged, known, changes>>

-----------------------------------------------------------------------------
(* Requests of the session *)

\* _require_connected, then the request: to be waited for.
Send(name, cmd, arg) ==
    /\ up
    /\ at' = "sent" /\ step' = name /\ got' = None
    /\ ans' = None
    /\ cmds' = Append(cmds, [cmd |-> cmd, arg |-> arg, conn |-> conn])

\* The call ends, with a result or by raising.
End(how) == at' = "idle" /\ call' = NoCall /\ step' = how /\ got' = None /\ ans' = None /\ UNCHANGED cmds

Raise == End("raised")

\* A request on a session that is not connected raises.
SendOrRaise(name, cmd, arg) ==
    \/ Send(name, cmd, arg) /\ UNCHANGED call
    \/ ~up /\ Raise

\* What a new configuration is to be comes from the answer: the device has
\* filled in what was not asked for.
Answered ==
    /\ at = "sent" /\ ans # None
    /\ known' = IF step = "begin" /\ ans # Bad THEN known \cup {ans.id} ELSE known
    /\ IF ans = Bad THEN Raise
       ELSE /\ at' = "poll" /\ got' = ans
            /\ call' = IF step = "set" /\ call.want # Duration THEN [call EXCEPT !.want = ans.config.want] ELSE call
            /\ UNCHANGED <<step, ans, cmds>>
    /\ UNCHANGED <<conn, up, video, back, ops, profile, merged, changes, faults>>

\* A timeout, a lost link, or an error raised by the poll after the answer, with
\* which the call gives up what the answer said.
RequestFails ==
    /\ at \in {"sent", "poll"}
    /\ \/ faults < MaxFaults /\ faults' = faults + 1
       \/ at = "sent" /\ ~up /\ UNCHANGED faults
    /\ known' = IF at = "poll" /\ step = "begin" THEN known \ {got.id} ELSE known
    /\ Raise
    /\ UNCHANGED <<conn, up, video, back, ops, profile, merged, changes>>

-----------------------------------------------------------------------------
(* The calls.  A deadline may be past at any turn of a loop. *)

Start(name) == call' = [NoCall EXCEPT !.name = name]
Began == at = "poll" /\ step = "begin"

Photo ==
    /\ at = "idle" /\ Start("photo")
    /\ Send("begin", "SAVED_PHOTO", 0)
    /\ UNCHANGED <<conn, up, video, back, ops, profile, merged, known, changes, faults>>

VideoStart ==
    /\ at = "idle" /\ Start("video_start")
    /\ Send("begin", "VIDEO_START", 0)
    /\ UNCHANGED <<conn, up, video, back, ops, profile, merged, known, changes, faults>>

\* Mutant: the operation is kept when its wait has returned.
KeptVideoLater == video

\* _video_operation after the acceptance of a capture.
KeptVideo == IF call.name = "video_start" THEN got.id ELSE video

\* _begin returns and wait() takes the connection there is now as its owner.
Accepted ==
    /\ Began
    /\ video' = KeptVideo
    /\ call' = [call EXCEPT !.owner = conn, !.id = got.id]
    /\ at' = "check"
    /\ UNCHANGED <<conn, up, step, got, back, ans, cmds, ops, profile, merged, known, changes, faults>>

\* wait(): the connection is looked at and the status asked for in one go.
Check ==
    /\ at = "check" /\ call.name # "config"
    /\ IF up /\ conn = call.owner
       THEN Send("status", "MEDIA_STATUS", call.id) /\ UNCHANGED call
       ELSE Raise
    /\ UNCHANGED <<conn, up, video, back, ops, profile, merged, known, changes, faults>>

Judge ==
    /\ at = "poll" /\ step = "status"
    /\ \/ got.state \in {"FAILED", "UNKNOWN"} /\ Raise
       \/ /\ got.state = "DONE" \/ (call.name = "video_start" /\ got.state = "RECORDING")
          /\ End("returned")
       \/ /\ got.state \in Active /\ ~(call.name = "video_start" /\ got.state = "RECORDING")
          /\ \/ Raise
             \/ at' = "pause" /\ UNCHANGED <<call, step, got, ans, cmds>>
    /\ UNCHANGED <<conn, up, video, back, ops, profile, merged, known, changes, faults>>

\* video_stop, of an operation given or of the one the session keeps.
VideoStop ==
    /\ at = "idle"
    /\ \E id \in known \cup {video} :
        /\ id # 0
        /\ call' = [NoCall EXCEPT !.name = "video_stop", !.id = id]
        /\ Send("query", "MEDIA_STATUS", id)
    /\ UNCHANGED <<conn, up, video, back, ops, profile, merged, known, changes, faults>>

Queried ==
    /\ at = "poll" /\ step = "query"
    /\ \/ got.what = "photo" /\ Raise
       \/ got.what = "video" /\ got.state = "DONE" /\ End("returned")
       \/ got.what = "video" /\ got.state \in {"FAILED", "UNKNOWN"} /\ Raise
       \/ got.what = "video" /\ got.state \in Active /\ SendOrRaise("stop", "VIDEO_STOP", call.id)
    /\ UNCHANGED <<conn, up, video, back, ops, profile, merged, known, changes, faults>>

StopAccepted ==
    /\ at = "poll" /\ step = "stop"
    /\ call' = [call EXCEPT !.owner = conn]
    /\ at' = "check"
    /\ UNCHANGED <<conn, up, video, step, got, back, ans, cmds, ops, profile, merged, known, changes, faults>>

\* set_video_config of a profile, or of the duration only: its owner is taken
\* before the request.
SetConfig ==
    /\ at = "idle"
    /\ \E p \in Profiles \cup {Duration} :
        /\ call' = [NoCall EXCEPT !.name = "config", !.owner = conn, !.want = p]
        /\ Send("set", "SET_VIDEO_CONFIG", p)
    /\ UNCHANGED <<conn, up, video, back, ops, profile, merged, known, changes, faults>>

\* Mutant: a new request of another goes unnoticed.
NotSuperseded == TRUE

StillAsked == got.config.want = call.want

\* A profile that is said to be applied and is not the one asked for.
Unmatched == got.config.sync = "APPLIED" /\ got.config.saved # got.config.want

\* The answer is looked at, then the loop of set_video_config.
CheckConfig ==
    /\ at = "poll" /\ step \in {"set", "get"}
    /\ IF Unmatched THEN Raise
       ELSE IF call.want = Duration THEN End("returned")
       ELSE IF ~up \/ conn # call.owner \/ ~StillAsked THEN Raise
       ELSE \/ got.config.sync = "APPLIED" /\ End("returned")
            \/ got.config.sync # "APPLIED" /\ Raise
            \/ got.config.sync # "APPLIED" /\ at' = "pause" /\ UNCHANGED <<call, step, got, ans, cmds>>
    /\ UNCHANGED <<conn, up, video, back, ops, profile, merged, known, changes, faults>>

\* session.wait(0.1) between two turns.
PauseEnds ==
    /\ at = "pause"
    /\ IF call.name = "config" THEN SendOrRaise("get", "GET_VIDEO_CONFIG", 0)
       ELSE IF up THEN at' = "check" /\ UNCHANGED <<call, step, got, ans, cmds>>
       ELSE Raise
    /\ UNCHANGED <<conn, up, video, back, ops, profile, merged, known, changes, faults>>

-----------------------------------------------------------------------------
(* close() and connect(), by the program or by a listener under a call *)

Close ==
    /\ at \in {"idle", "poll", "pause"} /\ back = "none"
    /\ back' = at
    /\ ans' = None
    /\ IF video # 0 /\ up
       THEN /\ at' = "closing"
            /\ cmds' = Append(cmds, [cmd |-> "VIDEO_STOP", arg |-> video, conn |-> conn])
            /\ UNCHANGED <<up, ops>>
       ELSE at' = "closed" /\ Disconnect
    /\ UNCHANGED <<conn, video, call, step, got, profile, merged, known, changes, faults>>

\* The request of close() ends, one way or another.
VideoStopped ==
    /\ at = "closing"
    /\ \/ (ans # None \/ ~up) /\ UNCHANGED faults
       \/ faults < MaxFaults /\ faults' = faults + 1
    /\ at' = "closed" /\ Disconnect
    /\ UNCHANGED <<conn, video, call, step, got, back, ans, profile, merged, known, changes>>

\* The program or the listener goes on without a connection.
StayClosed ==
    /\ at = "closed"
    /\ at' = back /\ back' = "none"
    /\ UNCHANGED <<conn, up, video, call, step, got, ans, deviceVars, known, faults>>

\* connect(), also after a lost link and without a close().
Connect ==
    /\ ~up /\ conn < MaxConns
    /\ \/ at = "closed" /\ at' = back /\ back' = "none"
       \/ at = "idle" /\ UNCHANGED <<at, back>>
    /\ conn' = conn + 1 /\ up' = TRUE /\ video' = 0
    /\ UNCHANGED <<call, step, got, ans, deviceVars, known, faults>>

Next ==
    \/ Execute \/ Advance \/ Synced \/ Superseded \/ LinkDrops
    \/ Answered \/ RequestFails
    \/ Photo \/ VideoStart \/ Accepted \/ Check \/ Judge
    \/ VideoStop \/ Queried \/ StopAccepted
    \/ SetConfig \/ CheckConfig \/ PauseEnds
    \/ Close \/ VideoStopped \/ StayClosed \/ Connect

Spec == Init /\ [][Next]_vars

-----------------------------------------------------------------------------
(* Properties *)

\* An acceptance that has been read and is still in the poll of its request.
BeingBegun(o) == "poll" \in {at, back} /\ step = "begin" /\ got.id = o

\* close() (session.py:501): when the link is up and its requests do not fail,
\* no video of this connection is left starting or recording whose acceptance
\* has been read, whichever call it came from and wherever close() was called.
\* Excepted is the one case in which the session does not know it yet: a
\* listener closes in the poll of VIDEO_START itself (session.py:203-208), and
\* _video_operation is set after that (capture.py:193-194); the video is left
\* to what the device does when the connection ends.
ClosedQuiet ==
    [][at # "closed" /\ at' = "closed" /\ up /\ faults' = faults
        => \A o \in known :
               ops[o].conn = conn /\ ops[o].kind = "video" /\ ~BeingBegun(o) => ops[o].state \notin Running]_vars

\* set_video_config (capture.py:125-135): a call for a profile that returns has
\* seen that very profile applied and saved, with the fields the device filled in
\* when it took the request, on the connection it began on.
ConfigIsOwn ==
    [][call.name = "config" /\ call.want # Duration /\ at' = "idle" /\ step' = "returned"
        => conn = call.owner /\ got.config = [saved |-> merged, want |-> merged, sync |-> "APPLIED"]]_vars

=============================================================================
