------------------------------ MODULE MediaImport ------------------------------
(***************************************************************************)
(* MediaImport (looktech_glasses_sdk/media.py): files of the glasses over  *)
(* HTTP, owned by one connection of the control channel.                   *)
(*                                                                         *)
(* Three threads of the host touch an import: the caller, in an operation  *)
(* that polls the session (so its listeners may close the import in the    *)
(* middle of it); the worker, which runs the HTTP requests one after the   *)
(* other; and the keep-alive, which makes a request of its own when the    *)
(* lock is free.  Any thread may cancel().  Beside them are the link, the  *)
(* device, whose one media item changes and is deleted at will, and other  *)
(* programs that create files.                                             *)
(***************************************************************************)
EXTENDS Integers, Sequences, SequencesExt

CONSTANTS
    Attempts,   \* whole-file attempts: 3 in the code
    Files,      \* files of the item: "main", and "comp" if it has a companion
    Chunks,     \* reads that make up the body of a file
    MaxRevs,    \* bound: revisions of the item
    MaxConns,   \* bound: connections of the control channel
    MaxOps,     \* bound: operations of the program
    MaxFaults   \* bound: cancellations, polls that raise, lost links, changes
                \* of the item and files of other programs, all together

ASSUME MediaAssumption ==
    /\ Files \in {{"main"}, {"main", "comp"}}
    /\ {Attempts, Chunks, MaxRevs, MaxConns} \subseteq Nat \ {0}
    /\ {MaxOps, MaxFaults} \subseteq Nat

VARIABLES
    conn,       \* the connection that is up, 0 if none
    conns,      \* connections so far
    lan,        \* device: it keeps Wi-Fi and HTTP up for this connection
    rev,        \* device: revision of the item; 0 before it is taken, Deleted after
    owner,      \* _owner: 0 before __enter__
    closed,     \* _closed
    closing,    \* where close() is
    cancelled,  \* _cancelled
    canceller,  \* where cancel() of another thread is
    beat,       \* _heartbeat_error is set
    slot,       \* session._media_import is this import
    main,       \* the operation of the caller
    ops,        \* operations so far
    known,      \* _known_items: the revision listed, 0 if none
    http,       \* worker and keep-alive: where they are in _http, and how it ended
    sock,       \* their sockets
    lock,       \* who holds _request_lock
    published,  \* whose socket is in _socket
    queue,      \* jobs submitted to the executor and not begun
    result,     \* how the last job of the worker ended
    got,        \* revisions of the pieces in the temporary file
    target,     \* the final files: <<>> if absent, <<0>> if of another program
    faults,     \* faults so far
    excused     \* history: why a release may be missing: close() came inside
                \* __enter__, or the device did not confirm it

linkVars   == <<conn, conns>>
deviceVars == <<lan, rev>>
stateVars  == <<owner, closed, closing, cancelled, beat, slot>>
mainVars   == <<main, ops, known, target, excused>>
httpVars   == <<http, sock, lock, published, queue, result, got>>
vars == <<linkVars, deviceVars, stateVars, canceller, mainVars, httpVars, faults>>

-----------------------------------------------------------------------------
Threads == {"worker", "keeper"}
Deleted == MaxRevs + 1
Live(r) == r \in 1..MaxRevs
Idle    == [op |-> "none", at |-> "idle", job |-> "catalog",
            file |-> "main", attempt |-> 1, item |-> 0]
Resting(at) == [at |-> at, job |-> "catalog", out |-> "ok"]

\* Places of an operation in which it polls the session.
Polling == {"join", "query", "resolve", "recheck", "wait"}

\* One more fault.
Fault == faults < MaxFaults /\ faults' = faults + 1

\* _check_owner
OwnerOK == ~cancelled /\ ~closed /\ conn = owner /\ ~beat

\* Some cancel() has returned.
CancelReturned == canceller = "done" \/ closing \in {"disconnect", "done"}

Init ==
    /\ conn = 1 /\ conns = 1
    /\ lan = FALSE
    /\ rev \in {0, 1}
    /\ owner = 0 /\ closed = FALSE /\ closing = "no"
    /\ cancelled = FALSE /\ canceller = "no" /\ beat = FALSE /\ slot = FALSE
    /\ main = Idle /\ ops = 0 /\ known = 0
    /\ http = [t \in Threads |-> Resting(IF t = "worker" THEN "idle" ELSE "off")]
    /\ sock = [t \in Threads |-> "none"]
    /\ lock = "none" /\ published = "none"
    /\ queue = <<>> /\ result = "ok" /\ got = <<>>
    /\ target = [f \in Files |-> <<>>]
    /\ excused = "no" /\ faults = 0

-----------------------------------------------------------------------------
(* cancel() and close().                                                   *)

\* Mutant: the flag alone is to stop a request under way.
NoShut == UNCHANGED sock

\* The socket in _socket, if any, is shut down.
Shut == sock' = [t \in Threads |-> IF t = published THEN "shut" ELSE sock[t]]

CancelSets ==
    /\ Fault
    /\ owner # 0 /\ canceller = "no"
    /\ canceller' = "set" /\ cancelled' = TRUE
    /\ UNCHANGED <<linkVars, deviceVars, owner, closed, closing, beat, slot,
                   mainVars, httpVars>>

CancelShuts ==
    /\ canceller = "set"
    /\ canceller' = "done"
    /\ Shut
    /\ UNCHANGED <<linkVars, deviceVars, stateVars, mainVars,
                   http, lock, published, queue, result, got, faults>>

\* close() begins, called by the program or by a listener of a poll.
CloseBegins ==
    /\ closing = "no" /\ owner # 0
    /\ main.at \in Polling \cup {"idle"}
    /\ closing' = "shut" /\ closed' = TRUE /\ cancelled' = TRUE
    /\ excused' = IF main.at = "join" THEN "enter" ELSE excused
    /\ UNCHANGED <<linkVars, deviceVars, owner, beat, slot, canceller,
                   main, ops, known, target, httpVars, faults>>

CloseShuts ==
    /\ closing = "shut"
    /\ closing' = "disconnect"
    /\ Shut
    /\ queue' = <<>>
    /\ UNCHANGED <<linkVars, deviceVars, owner, closed, cancelled, beat, slot, canceller,
                   mainVars, http, lock, published, result, got, faults>>

\* Mutant: a cancelled import is taken to have nothing to release.
CloseReleasesIfOK ==
    /\ closing = "disconnect"
    /\ closing' = "done" /\ slot' = FALSE
    /\ main' = IF main.at = "closing" THEN Idle ELSE main
    /\ IF canceller = "no" THEN lan' = FALSE ELSE UNCHANGED lan
    /\ UNCHANGED <<linkVars, rev, owner, closed, cancelled, beat, canceller,
                   excused, ops, known, target, httpVars, faults>>

\* DISCONNECT, if the connection is still the owner; it may fail unconfirmed.
CloseReleases ==
    /\ closing = "disconnect"
    /\ closing' = "done" /\ slot' = FALSE
    /\ main' = IF main.at = "closing" THEN Idle ELSE main
    /\ \/ conn = owner /\ lan' = FALSE /\ UNCHANGED excused
       \/ conn = owner /\ excused' = "unconfirmed" /\ UNCHANGED lan
       \/ conn # owner /\ UNCHANGED <<lan, excused>>
    /\ UNCHANGED <<linkVars, rev, owner, closed, cancelled, beat, canceller,
                   ops, known, target, httpVars, faults>>

\* A MediaSessionError, or anything but a MediaError: the import is closed,
\* unless it is, and the operation raises.
Abort ==
    /\ IF closed THEN main' = Idle /\ UNCHANGED <<closed, closing, cancelled>>
       ELSE /\ main' = [main EXCEPT !.at = "closing"]
            /\ closed' = TRUE /\ cancelled' = TRUE /\ closing' = "shut"
    /\ UNCHANGED <<owner, beat, slot>>

-----------------------------------------------------------------------------
(* Operations of the caller.                                               *)

\* The caller runs its own code: no close() of a listener is in progress.
Runs(at) == main.at = at /\ closing \in {"no", "done"}

\* The operation goes on at m if the owner is still right.
GoOn(m) == IF OwnerOK THEN main' = m /\ UNCHANGED stateVars ELSE Abort

\* __enter__ takes the slot of the session.
Enter ==
    /\ main = Idle /\ owner = 0 /\ conn # 0
    /\ owner' = conn /\ slot' = TRUE
    /\ main' = [Idle EXCEPT !.op = "enter", !.at = "join"]
    /\ UNCHANGED <<linkVars, deviceVars, closed, closing, cancelled, beat, canceller,
                   ops, known, target, excused, httpVars, faults>>

\* Capabilities, connect and start_media; then the listing.
Join ==
    /\ Runs("join")
    /\ \/ conn # 0 /\ lan' = TRUE /\ GoOn([main EXCEPT !.at = "query"])
       \/ lan' \in {lan, conn # 0} /\ Abort
    /\ UNCHANGED <<linkVars, rev, canceller, ops, known, target, excused, httpVars, faults>>

\* list, download_all, download, delete of an import entered.
Begin(op) ==
    /\ main = Idle /\ owner # 0 /\ closing = "no" /\ ops < MaxOps
    /\ http["keeper"].at # "off"
    /\ ops' = ops + 1
    /\ IF OwnerOK
       THEN /\ main' = [Idle EXCEPT !.op = op,
                            !.at = IF op \in {"list", "all"} THEN "query" ELSE "resolve"]
            /\ UNCHANGED stateVars
       ELSE /\ main' = [Idle EXCEPT !.op = op, !.at = "closing"]
            /\ closed' = TRUE /\ cancelled' = TRUE /\ closing' = "shut"
            /\ UNCHANGED <<owner, beat, slot>>
    /\ UNCHANGED <<linkVars, deviceVars, canceller, known, target, excused, httpVars, faults>>

\* A query on the control channel fails: a MediaError ends the operation and
\* leaves the import open, but __enter__ gives up; anything else closes it.
QueryFails ==
    /\ main.at \in {"query", "resolve"} /\ Runs(main.at)
    /\ \/ Abort
       \/ main.op # "enter" /\ main' = Idle /\ UNCHANGED stateVars
    /\ UNCHANGED <<linkVars, deviceVars, canceller, ops, known, target, excused, httpVars, faults>>

\* CatalogClient.list: the items, without their companions.
Query ==
    /\ Runs("query") /\ conn # 0
    /\ main' = [main EXCEPT !.at = "run", !.job = "catalog", !.item = rev]
    /\ UNCHANGED <<linkVars, deviceVars, stateVars, canceller, ops, known, target, excused, httpVars, faults>>

\* _resolve: the descriptor must be the one selected, if one was listed; a
\* known item that the device lacks may still be deleted.  The companions of
\* an item never listed are asked for first.
Resolve ==
    /\ Runs("resolve") /\ conn # 0
    /\ LET fits == Live(rev) /\ known \in {0, rev}
           gone == main.op = "delete" /\ known # 0 /\ rev = Deleted
           next == IF main.op = "delete" THEN "delete" ELSE "body" IN
       /\ main' = IF fits \/ gone
                  THEN [main EXCEPT !.at = "run", !.item = IF fits THEN rev ELSE @,
                                    !.job = IF known = 0 THEN "catalog" ELSE next]
                  ELSE Idle
       /\ known' = IF fits /\ known # 0 /\ main.op = "delete" THEN rev ELSE known
    /\ UNCHANGED <<linkVars, deviceVars, stateVars, canceller, ops, target, excused, httpVars, faults>>

\* _run, and before it the beginning of _download_file: its name must be free
\* at the first attempt, and each attempt has a temporary file of its own.
Run ==
    /\ Runs("run")
    /\ IF main.job = "body" /\ main.attempt = 1 /\ target[main.file] # <<>>
       THEN main' = Idle /\ UNCHANGED <<stateVars, queue, got>>
       ELSE /\ GoOn([main EXCEPT !.at = "wait"])
            /\ IF OwnerOK
               THEN /\ queue' = Append(queue, main.job)
                    /\ got' = IF main.job = "body" THEN <<>> ELSE got
               ELSE UNCHANGED <<queue, got>>
    /\ UNCHANGED <<linkVars, deviceVars, canceller, ops, known, target, excused,
                   http, sock, lock, published, result, faults>>

\* future.done(): only the caller submits, so its job is the last.
JobDone == queue = <<>> /\ http["worker"].at = "idle"

\* An attempt failed: another, or the end of the operation.
Retry == main' = IF main.job = "body" /\ main.attempt < Attempts
                 THEN [main EXCEPT !.at = "run", !.attempt = @ + 1]
                 ELSE Idle

\* What follows a job, by the job and the operation.  The listing goes on
\* without companions if their catalog cannot be read.
AfterJob ==
    CASE main.job = "catalog" /\ main.op = "all" /\ Live(main.item) ->
            main' = [main EXCEPT !.op = "download", !.at = "resolve"]
      [] main.job = "catalog" /\ main.op = "download" ->
            main' = [main EXCEPT !.at = "run", !.job = "body"]
      [] main.job = "catalog" /\ main.op = "delete" ->
            main' = [main EXCEPT !.at = "run", !.job = "delete"]
      [] main.job = "catalog" /\ main.op \in {"enter", "list", "all"} -> main' = Idle
      [] main.job = "body" /\ result = "ok" ->
            main' = [main EXCEPT !.at = "recheck"]
      [] OTHER -> Retry

\* Mutant: the loop of _run looks at the owner when the job is done.
WaitAbortsDone ==
    /\ Runs("wait") /\ ~OwnerOK /\ JobDone
    /\ Abort
    /\ UNCHANGED <<linkVars, deviceVars, canceller, ops, known, target, excused, httpVars, faults>>

\* A turn of the loop of _run finds the owner gone.
WaitAborts ==
    /\ Runs("wait") /\ ~OwnerOK
    /\ Abort
    /\ UNCHANGED <<linkVars, deviceVars, canceller, ops, known, target, excused, httpVars, faults>>

\* A turn of the loop of _run finds the job done.
WaitEnds ==
    /\ Runs("wait") /\ OwnerOK /\ JobDone
    /\ IF result = "session" THEN Abort /\ UNCHANGED <<http, known>>
       ELSE /\ AfterJob
            /\ known' = IF main.op \in {"enter", "list", "all"} /\ Live(main.item)
                        THEN main.item ELSE known
            /\ http' = IF main.op = "enter"
                       THEN [http EXCEPT !["keeper"] = Resting("idle")] ELSE http
            /\ UNCHANGED stateVars
    /\ UNCHANGED <<linkVars, deviceVars, canceller, ops, target, excused,
                   sock, lock, published, queue, result, got, faults>>

\* The poll raises: an OSError is taken for one of HTTP and leaves the job to
\* itself, its temporary file closed; anything else closes the import.
WaitBreaks ==
    /\ Fault
    /\ Runs("wait")
    /\ \/ /\ IF main.op = "enter" THEN Abort
             ELSE /\ UNCHANGED stateVars
                  /\ IF main.job = "catalog" THEN AfterJob ELSE Retry
          /\ queue' = [i \in DOMAIN queue |-> IF queue[i] = "body" THEN "stale" ELSE queue[i]]
          /\ http' = IF http["worker"].job = "body"
                     THEN [http EXCEPT !["worker"].job = "stale"] ELSE http
       \/ Abort /\ UNCHANGED <<queue, http>>
    /\ UNCHANGED <<linkVars, deviceVars, canceller, ops, known, target, excused,
                   sock, lock, published, result, got>>

\* Mutant: a body of the right length is linked without asking again.
RecheckSkipped ==
    /\ Runs("recheck")
    /\ main' = [main EXCEPT !.at = "link"]
    /\ UNCHANGED <<linkVars, deviceVars, stateVars, canceller, ops, known, target, excused, httpVars, faults>>

\* The descriptor is asked for again and must not have changed.
Recheck ==
    /\ Runs("recheck")
    /\ \/ conn # 0 /\ rev = main.item /\ main' = [main EXCEPT !.at = "link"] /\ UNCHANGED stateVars
       \/ Retry /\ UNCHANGED stateVars
       \/ Abort
    /\ UNCHANGED <<linkVars, deviceVars, canceller, ops, known, target, excused, httpVars, faults>>

\* os.link gives the file its final name, which must be free; then the
\* companion, if this was the main file.
Link ==
    /\ Runs("link")
    /\ IF target[main.file] = <<>>
       THEN /\ target' = [target EXCEPT ![main.file] = got]
            /\ main' = IF main.file = "main" /\ "comp" \in Files
                       THEN [main EXCEPT !.file = "comp", !.at = "run", !.attempt = 1]
                       ELSE Idle
       ELSE main' = Idle /\ UNCHANGED target
    /\ UNCHANGED <<linkVars, deviceVars, stateVars, canceller, ops, known, excused, httpVars, faults>>

-----------------------------------------------------------------------------
(* The worker and the keep-alive.                                          *)

Step(t, at) == http' = [http EXCEPT ![t].at = at]
Ends(t, out) == http' = [http EXCEPT ![t].at = "close", ![t].out = out]

Take ==
    /\ http["worker"].at = "idle" /\ queue # <<>>
    /\ http' = [http EXCEPT !["worker"] = [at |-> "lock", job |-> Head(queue), out |-> "ok"]]
    /\ queue' = Tail(queue)
    /\ UNCHANGED <<linkVars, deviceVars, stateVars, canceller, mainVars, sock, lock, published, result, got, faults>>

\* The worker waits for _request_lock, the keep-alive only tries it; then the
\* first check of _http.
Acquire(t) ==
    /\ http[t].at = IF t = "worker" THEN "lock" ELSE "idle"
    /\ t = "keeper" => ~cancelled
    /\ lock = "none" /\ lock' = t
    /\ IF OwnerOK THEN Step(t, "connect") ELSE Ends(t, "session")
    /\ UNCHANGED <<linkVars, deviceVars, stateVars, canceller, mainVars, sock, published, queue, result, got, faults>>

Connect(t) ==
    /\ http[t].at = "connect"
    /\ \/ Step(t, "publish") /\ sock' = [sock EXCEPT ![t] = "open"]
       \/ Ends(t, "media") /\ UNCHANGED sock
    /\ UNCHANGED <<linkVars, deviceVars, stateVars, canceller, mainVars, lock, published, queue, result, got, faults>>

Publish(t) ==
    /\ http[t].at = "publish"
    /\ published' = t
    /\ Step(t, "recheck")
    /\ UNCHANGED <<linkVars, deviceVars, stateVars, canceller, mainVars, sock, lock, queue, result, got, faults>>

\* Mutant: the check before the connection is thought to be enough.
CheckedBefore(t) ==
    /\ http[t].at = "recheck"
    /\ Step(t, "send")
    /\ UNCHANGED <<linkVars, deviceVars, stateVars, canceller, mainVars, sock, lock, published, queue, result, got, faults>>

\* The check after the socket was published.
CheckAgain(t) ==
    /\ http[t].at = "recheck"
    /\ IF OwnerOK THEN Step(t, "send") ELSE Ends(t, "session")
    /\ UNCHANGED <<linkVars, deviceVars, stateVars, canceller, mainVars, sock, lock, published, queue, result, got, faults>>

\* A write to a socket shut down fails.
Send(t) ==
    /\ http[t].at = "send"
    /\ IF sock[t] = "open" THEN Step(t, "read") ELSE Ends(t, "media")
    /\ UNCHANGED <<linkVars, deviceVars, stateVars, canceller, mainVars, sock, lock, published, queue, result, got, faults>>

\* The server answers: a document, a deletion, or a piece of a file, before
\* which the owner is checked.
ReadAnswer(t) ==
    /\ http[t].at = "read" /\ sock[t] = "open"
    /\ \/ /\ http[t].job = "catalog" /\ \E out \in {"ok", "session"} : Ends(t, out)
          /\ UNCHANGED <<rev, got>>
       \/ /\ http[t].job = "delete" /\ \E out \in {"ok", "media"} : Ends(t, out)
          /\ rev' = IF rev = 0 THEN 0 ELSE Deleted
          /\ UNCHANGED got
       \/ /\ http[t].job = "stale" /\ Ends(t, "media")
          /\ UNCHANGED <<rev, got>>
       \/ /\ http[t].job = "body" /\ Len(got) < Chunks
          /\ IF OwnerOK
             THEN Live(rev) /\ got' = Append(got, rev) /\ UNCHANGED http
             ELSE Ends(t, "session") /\ UNCHANGED got
          /\ UNCHANGED rev
       \/ /\ http[t].job = "body" /\ Len(got) = Chunks /\ Ends(t, "ok")
          /\ UNCHANGED <<rev, got>>
    /\ UNCHANGED <<linkVars, lan, stateVars, canceller, mainVars, sock, lock, published, queue, result, faults>>

\* An error status, a wrong length, a body cut short, a timeout.
ReadFails(t) ==
    /\ http[t].at = "read" /\ sock[t] = "open"
    /\ Ends(t, "media")
    /\ UNCHANGED <<linkVars, deviceVars, stateVars, canceller, mainVars, sock, lock, published, queue, result, got, faults>>

\* The socket was shut down: what was read is an end or half a document.
ReadCut(t) ==
    /\ http[t].at = "read" /\ sock[t] = "shut"
    /\ Ends(t, IF http[t].job = "catalog" THEN "session" ELSE "media")
    /\ UNCHANGED <<linkVars, deviceVars, stateVars, canceller, mainVars, sock, lock, published, queue, result, got, faults>>

\* The finally clauses; the keep-alive gives up at its first error.
Close(t) ==
    /\ http[t].at = "close"
    /\ published' = "none" /\ lock' = "none"
    /\ sock' = [sock EXCEPT ![t] = "none"]
    /\ IF t = "worker"
       THEN Step(t, "idle") /\ result' = http[t].out /\ UNCHANGED beat
       ELSE /\ Step(t, IF http[t].out = "ok" THEN "idle" ELSE "ended")
            /\ beat' = (beat \/ http[t].out # "ok") /\ UNCHANGED result
    /\ UNCHANGED <<linkVars, deviceVars, owner, closed, closing, cancelled, slot, canceller,
                   mainVars, queue, got, faults>>

KeeperEnds ==
    /\ http["keeper"].at = "idle" /\ cancelled
    /\ Step("keeper", "ended")
    /\ UNCHANGED <<linkVars, deviceVars, stateVars, canceller, mainVars, sock, lock, published, queue, result, got, faults>>

-----------------------------------------------------------------------------
(* The link, the device and other programs.                                *)

\* Losing the owner ends what the device does for it.
LinkDrop ==
    /\ Fault
    /\ conn # 0 /\ owner # 0
    /\ conn' = 0 /\ lan' = FALSE
    /\ UNCHANGED <<conns, rev, stateVars, canceller, mainVars, httpVars>>

Reconnect ==
    /\ conn = 0 /\ conns < MaxConns
    /\ conn' = conns + 1 /\ conns' = conns + 1
    /\ UNCHANGED <<deviceVars, stateVars, canceller, mainVars, httpVars, faults>>

ItemChanges ==
    /\ Fault
    /\ rev < Deleted
    /\ rev' \in {rev + 1} \cup (IF rev = 0 THEN {} ELSE {Deleted})
    /\ UNCHANGED <<linkVars, lan, stateVars, canceller, mainVars, httpVars>>

ForeignFile ==
    /\ Fault
    /\ \E f \in Files : target[f] = <<>> /\ target' = [target EXCEPT ![f] = <<0>>]
    /\ UNCHANGED <<linkVars, deviceVars, stateVars, canceller, main, ops, known, excused, httpVars>>

-----------------------------------------------------------------------------
Caller ==
    \/ Join \/ Query \/ QueryFails \/ Resolve \/ Run
    \/ WaitAborts \/ WaitEnds \/ Recheck \/ Link
    \/ CloseShuts \/ CloseReleases

Thread(t) ==
    \/ Acquire(t) \/ Connect(t) \/ Publish(t) \/ CheckAgain(t) \/ Send(t)
    \/ ReadCut(t) \/ Close(t)

Environment ==
    \/ Enter \/ \E op \in {"list", "all", "download", "delete"} : Begin(op)
    \/ CloseBegins \/ WaitBreaks \/ CancelSets
    \/ \E t \in Threads : ReadAnswer(t) \/ ReadFails(t)
    \/ LinkDrop \/ Reconnect \/ ItemChanges \/ ForeignFile

Next ==
    \/ Caller \/ CancelShuts \/ Take \/ KeeperEnds \/ Environment
    \/ \E t \in Threads : Thread(t)

Spec == Init /\ [][Next]_vars

\* The threads of the host run, queries and connection attempts end by their
\* timeouts; nothing is asked of the HTTP server.
FairSpec ==
    /\ Spec
    /\ WF_vars(Caller) /\ WF_vars(CancelShuts) /\ WF_vars(Take) /\ WF_vars(KeeperEnds)
    /\ \A t \in Threads : WF_vars(Thread(t))

-----------------------------------------------------------------------------
(* Properties.                                                             *)

\* Every variable has its type.
TypeOK ==
    /\ conn \in 0..MaxConns /\ conns \in 1..MaxConns
    /\ lan \in BOOLEAN /\ rev \in 0..Deleted
    /\ faults \in 0..MaxFaults
    /\ owner \in 0..MaxConns /\ ops \in 0..MaxOps /\ known \in 0..MaxRevs
    /\ {closed, cancelled, beat, slot} \subseteq BOOLEAN
    /\ excused \in {"no", "enter", "unconfirmed"}
    /\ closing \in {"no", "shut", "disconnect", "done"}
    /\ canceller \in {"no", "set", "done"}
    /\ main \in [op : {"none", "enter", "list", "all", "download", "delete"},
                 at : Polling \cup {"idle", "run", "link", "closing"},
                 job : {"catalog", "body", "delete"}, file : Files,
                 attempt : 1..Attempts, item : 0..Deleted]
    /\ http \in [Threads -> [at : {"off", "idle", "lock", "connect", "publish", "recheck",
                                   "send", "read", "close", "ended"},
                             job : {"catalog", "body", "delete", "stale"},
                             out : {"ok", "media", "session"}]]
    /\ sock \in [Threads -> {"none", "open", "shut"}]
    /\ lock \in Threads \cup {"none"} /\ published \in Threads \cup {"none"}
    /\ queue \in Seq({"catalog", "body", "delete", "stale"})
    /\ result \in {"ok", "media", "session"}
    /\ got \in BoundedSeq(1..MaxRevs, Chunks)
    /\ target \in [Files -> BoundedSeq(0..MaxRevs, Chunks)]

\* Once a cancel() has returned, no HTTP request goes out: cancel() looks for a
\* socket that the worker or the keep-alive may publish just afterwards
\* (cancel, and the second check of _http).
QuietAfterCancel ==
    [][\A t \in Threads :
        http[t].at = "send" /\ http'[t].at = "read" => ~CancelReturned]_vars

\* A final file appears under a free name, complete, and with the one revision
\* the caller selected, whatever the device changes, however often the attempts
\* and the polls fail (_download_file).
AppearsWhole ==
    [][\A f \in Files : target'[f] # target[f] =>
        /\ target[f] = <<>>
        /\ target'[f] \in {<<0>>, [i \in 1..Chunks |-> main.item]}]_vars

\* When a close() has ended on the connection that owns the import, the device
\* no longer keeps Wi-Fi and HTTP for it, whether or not the import had been
\* cancelled or had failed before; a release that was not confirmed and a
\* close() inside __enter__ are excepted (close).
LanReleased == closing = "done" /\ conn = owner /\ excused = "no" => ~lan

\* After a cancellation the worker and the keep-alive come to rest, though the
\* server never answers (cancel, _http, _keepalive).
CancelStops ==
    cancelled ~> /\ http["worker"].at = "idle" /\ queue = <<>>
                 /\ http["keeper"].at \in {"off", "ended"}

\* An operation whose owner is gone, whose import is cancelled or whose
\* keep-alive has failed ends, though the server never answers (_run).
LostEnds == main.at # "idle" /\ ~OwnerOK ~> main.at = "idle"
================================================================================
