-------------------------- MODULE MediaImport_proofs --------------------------
(***************************************************************************)
(* Proofs about MediaImport, for any number of operations, attempts,       *)
(* connections, revisions and faults: nothing is sent after a cancel() has *)
(* returned, a close() that has ended leaves the device released, and a    *)
(* final file is complete and of one revision.                             *)
(***************************************************************************)
EXTENDS MediaImport, TLAPS

-----------------------------------------------------------------------------
(* Nothing is sent after cancel().                                         *)

\* The part of _http inside _request_lock, and its part after the socket was
\* published.
Locked == {"connect", "publish", "recheck", "send", "read", "close"}
Shared == {"recheck", "send", "read"}

Shape ==
    /\ DOMAIN http = Threads /\ \A t \in Threads : "at" \in DOMAIN http[t]
    /\ DOMAIN sock = Threads

\* One thread at a time is inside the lock, and the socket cancel() finds is
\* its own.
OneInside == \A t \in Threads : http[t].at \in Locked => lock = t
FindsSocket == \A t \in Threads : http[t].at \in Shared => published = t

CancelKnown == canceller # "no" \/ closing # "no" => cancelled

\* What passed the second check before cancel() has lost its socket after it.
ShutBeforeSend == CancelReturned => \A t \in Threads : http[t].at = "send" => sock[t] = "shut"

QuietInv == Shape /\ OneInside /\ FindsSocket /\ CancelKnown /\ ShutBeforeSend

\* A step of the caller, of the link or of the device leaves the threads where
\* they are, or starts the keep-alive, and takes back no cancellation.
LEMMA OthersKeepQuiet ==
    ASSUME QuietInv,
           UNCHANGED <<sock, lock, published>>,
           DOMAIN http' = Threads,
           \A t \in Threads : "at" \in DOMAIN http'[t] /\ http'[t].at \in {http[t].at, "idle"},
           CancelReturned' => CancelReturned,
           CancelKnown'
    PROVE  QuietInv'
BY DEF QuietInv, Shape, OneInside, FindsSocket, ShutBeforeSend, Locked, Shared

LEMMA AbortKeepsCancel ==
    ASSUME QuietInv, Abort, canceller' = canceller
    PROVE  (CancelReturned' => CancelReturned) /\ CancelKnown'
BY DEF QuietInv, Abort, CancelReturned, CancelKnown

LEMMA CallerKeepsQuiet ==
    ASSUME QuietInv,
           \/ Enter \/ Join \/ (\E op \in {"list", "all", "download", "delete"} : Begin(op))
           \/ Query \/ QueryFails \/ Resolve \/ Run
           \/ WaitAborts \/ WaitEnds \/ WaitBreaks \/ Recheck \/ Link
    PROVE  /\ QuietInv'
           /\ \A t \in Threads : http'[t].at \in {http[t].at, "idle"}
<1>1. UNCHANGED <<sock, lock, published>>
  BY DEF Enter, Join, Begin, Query, QueryFails, Resolve, Run, WaitAborts, WaitEnds,
         WaitBreaks, Recheck, Link, httpVars
<1>2. /\ DOMAIN http' = Threads
      /\ \A t \in Threads : "at" \in DOMAIN http'[t] /\ http'[t].at \in {http[t].at, "idle"}
  <2> USE DEF QuietInv, Shape
  <2>1. CASE WaitEnds
    BY <2>1 DEF WaitEnds, Resting, Threads
  <2>2. CASE WaitBreaks
    BY <2>2 DEF WaitBreaks, Threads
  <2>3. CASE ~WaitEnds /\ ~WaitBreaks
    <3>1. http' = http
      BY <2>3 DEF Enter, Join, Begin, Query, QueryFails, Resolve, Run, WaitAborts,
                  Recheck, Link, httpVars
    <3> QED BY <3>1
  <2> QED BY <2>1, <2>2, <2>3
<1>3. (CancelReturned' => CancelReturned) /\ CancelKnown'
  <2>1. canceller' = canceller
    BY DEF Enter, Join, Begin, Query, QueryFails, Resolve, Run, WaitAborts, WaitEnds,
           WaitBreaks, Recheck, Link
  <2>2. CASE Abort
    BY <2>1, <2>2, AbortKeepsCancel
  <2>3. CASE UNCHANGED <<cancelled, closing>>
    BY <2>1, <2>3 DEF QuietInv, CancelReturned, CancelKnown
  <2>4. CASE \E op \in {"list", "all", "download", "delete"} : Begin(op)
    BY <2>1, <2>4 DEF Begin, QuietInv, CancelReturned, CancelKnown, stateVars
  <2>5. Abort \/ UNCHANGED <<cancelled, closing>>
        \/ \E op \in {"list", "all", "download", "delete"} : Begin(op)
    BY DEF Enter, Join, Query, QueryFails, Resolve, Run, GoOn, WaitAborts, WaitEnds,
           WaitBreaks, Recheck, Link, stateVars
  <2> QED BY <2>2, <2>3, <2>4, <2>5
<1> QED BY <1>1, <1>2, <1>3, OthersKeepQuiet

\* cancel() and close(), and what goes on around the host.
LEMMA CancelKeepsQuiet ==
    ASSUME QuietInv,
           \/ CancelSets \/ CancelShuts \/ CloseBegins \/ CloseShuts \/ CloseReleases
           \/ LinkDrop \/ Reconnect \/ ItemChanges \/ ForeignFile
    PROVE  QuietInv' /\ http' = http
<1> USE DEF QuietInv, Shape, OneInside, FindsSocket, CancelKnown, ShutBeforeSend, CancelReturned
<1>1. CASE CancelSets
  BY <1>1 DEF CancelSets, httpVars
<1>2. CASE CancelShuts
  BY <1>2 DEF CancelShuts, Shut, stateVars, Shared
<1>3. CASE CloseBegins
  BY <1>3 DEF CloseBegins, httpVars
<1>4. CASE CloseShuts
  BY <1>4 DEF CloseShuts, Shut, Shared
<1>5. CASE CloseReleases
  BY <1>5 DEF CloseReleases, httpVars
<1>6. CASE LinkDrop \/ Reconnect \/ ItemChanges \/ ForeignFile
  BY <1>6 DEF LinkDrop, Reconnect, ItemChanges, ForeignFile, httpVars, stateVars
<1> QED BY <1>1, <1>2, <1>3, <1>4, <1>5, <1>6

\* A thread in _http: it enters the lock alone, publishes its socket before the
\* second check, and leaves both at the end.
LEMMA ThreadKeepsQuiet ==
    ASSUME QuietInv, NEW t \in Threads, Thread(t) \/ ReadAnswer(t) \/ ReadFails(t)
    PROVE  /\ QuietInv'
           /\ \A u \in Threads : http[u].at = "send" /\ http'[u].at = "read" => ~CancelReturned
<1> USE DEF QuietInv, Shape, OneInside, FindsSocket, CancelKnown, ShutBeforeSend, CancelReturned,
            Locked, Shared, Step, Ends, stateVars
<1>1. CASE Acquire(t)
  BY <1>1 DEF Acquire, Threads
<1>2. CASE Connect(t)
  BY <1>2 DEF Connect
<1>3. CASE Publish(t)
  BY <1>3 DEF Publish
<1>4. CASE CheckAgain(t)
  BY <1>4 DEF CheckAgain, OwnerOK
<1>5. CASE Send(t)
  BY <1>5 DEF Send
<1>6. CASE ReadCut(t) \/ ReadFails(t)
  BY <1>6 DEF ReadCut, ReadFails
<1>7. CASE ReadAnswer(t)
  BY <1>7 DEF ReadAnswer
<1>8. CASE Close(t)
  BY <1>8 DEF Close
<1> QED BY <1>1, <1>2, <1>3, <1>4, <1>5, <1>6, <1>7, <1>8 DEF Thread

\* The worker takes a job; the keep-alive ends.
LEMMA RestingKeepQuiet ==
    ASSUME QuietInv, Take \/ KeeperEnds
    PROVE  /\ QuietInv'
           /\ \A u \in Threads : http[u].at = "send" => http'[u].at = "send"
<1> USE DEF QuietInv, Shape, OneInside, FindsSocket, CancelKnown, ShutBeforeSend, CancelReturned,
            Locked, Shared, Threads, stateVars
<1>1. CASE Take
  BY <1>1 DEF Take
<1>2. CASE KeeperEnds
  BY <1>2 DEF KeeperEnds, Step
<1> QED BY <1>1, <1>2

\* A step by what it may do with the threads.
LEMMA QuietStep ==
    ASSUME QuietInv, Next
    PROVE  /\ QuietInv'
           /\ \A u \in Threads : http[u].at = "send" /\ http'[u].at = "read" => ~CancelReturned
<1>1. CASE \/ Enter \/ Join \/ (\E op \in {"list", "all", "download", "delete"} : Begin(op))
           \/ Query \/ QueryFails \/ Resolve \/ Run
           \/ WaitAborts \/ WaitEnds \/ WaitBreaks \/ Recheck \/ Link
  BY <1>1, CallerKeepsQuiet
<1>2. CASE \/ CancelSets \/ CancelShuts \/ CloseBegins \/ CloseShuts \/ CloseReleases
           \/ LinkDrop \/ Reconnect \/ ItemChanges \/ ForeignFile
  BY <1>2, CancelKeepsQuiet
<1>3. CASE \E t \in Threads : Thread(t) \/ ReadAnswer(t) \/ ReadFails(t)
  BY <1>3, ThreadKeepsQuiet
<1>4. CASE Take \/ KeeperEnds
  BY <1>4, RestingKeepQuiet
<1> QED BY <1>1, <1>2, <1>3, <1>4 DEF Next, Caller, Environment

\* The inductive invariant of the lock, the published socket and cancel().
THEOREM SocketFound == Spec => []QuietInv
<1>1. Init => QuietInv
  BY DEF Init, QuietInv, Shape, OneInside, FindsSocket, CancelKnown, ShutBeforeSend,
         CancelReturned, Locked, Shared, Resting, Threads
<1>2. QuietInv /\ [Next]_vars => QuietInv'
  <2>1. QuietInv /\ Next => QuietInv'
    BY QuietStep
  <2>2. QuietInv /\ UNCHANGED vars => QuietInv'
    BY DEF vars, httpVars, stateVars, QuietInv, Shape, OneInside, FindsSocket, CancelKnown,
           ShutBeforeSend, CancelReturned
  <2> QED BY <2>1, <2>2
<1> QED BY <1>1, <1>2, PTL DEF Spec

\* Once a cancel() has returned, no HTTP request goes out, though the worker or
\* the keep-alive may have been connecting while it ran (cancel, _http).
THEOREM NothingSentAfterCancel == Spec => QuietAfterCancel
<1>1. QuietInv /\ [Next]_vars
        => [\A t \in Threads : http[t].at = "send" /\ http'[t].at = "read" => ~CancelReturned]_vars
  BY QuietStep
<1> QED BY <1>1, SocketFound, PTL DEF Spec, QuietAfterCancel

-----------------------------------------------------------------------------
(* close() leaves the device released.                                     *)

\* A connection is the latest or none, and the owner is one of them.
Connections == conns \in Nat \ {0} /\ owner \in 0..conns /\ conn \in {0, conns}

\* Only an import that was entered has operations or a close().
Entered == main.at # "idle" \/ closing # "no" => owner # 0

\* A close() in the middle of __enter__ is excused.
EnterExcused == main.at = "join" /\ closing # "no" => excused # "no"

ReleaseInv == "at" \in DOMAIN main /\ Connections /\ Entered /\ EnterExcused /\ LanReleased

\* An operation never comes back to the place where Wi-Fi and HTTP are begun.
Away == "at" \in DOMAIN main' /\ main'.at # "join"

LEMMA AbortLeaves == ReleaseInv /\ Abort => Away
BY DEF ReleaseInv, Abort, Idle, Away

LEMMA RetryLeaves == ReleaseInv /\ Retry => Away
<1> SUFFICES ASSUME ReleaseInv, Retry PROVE Away
  OBVIOUS
<1>1. CASE main' = [main EXCEPT !.at = "run", !.attempt = @ + 1]
  BY <1>1 DEF ReleaseInv, Away
<1>2. CASE main' = Idle
  BY <1>2 DEF Idle, Away
<1> QED BY <1>1, <1>2 DEF Retry

LEMMA JobLeaves == ReleaseInv /\ AfterJob => Away
<1> SUFFICES ASSUME ReleaseInv, AfterJob PROVE Away
  OBVIOUS
<1>1. CASE Retry
  BY <1>1, RetryLeaves
<1>2. CASE main' = [main EXCEPT !.op = "download", !.at = "resolve"]
  BY <1>2 DEF ReleaseInv, Away
<1>3. CASE main' = [main EXCEPT !.at = "run", !.job = "body"]
  BY <1>3 DEF ReleaseInv, Away
<1>4. CASE main' = [main EXCEPT !.at = "run", !.job = "delete"]
  BY <1>4 DEF ReleaseInv, Away
<1>5. CASE main' = [main EXCEPT !.at = "recheck"]
  BY <1>5 DEF ReleaseInv, Away
<1>6. CASE main' = Idle
  BY <1>6 DEF Idle, Away
<1> QED BY <1>1, <1>2, <1>3, <1>4, <1>5, <1>6, Zenon DEF AfterJob

\* The steps of an operation after the first leave Wi-Fi and HTTP alone.
LEMMA CallerKeepsReleased ==
    ASSUME ReleaseInv,
           \/ (\E op \in {"list", "all", "download", "delete"} : Begin(op))
           \/ Query \/ QueryFails \/ Resolve \/ Run
           \/ WaitAborts \/ WaitEnds \/ WaitBreaks \/ Recheck \/ Link
    PROVE  ReleaseInv'
<1>1. UNCHANGED <<conn, conns, lan, owner, excused>>
  BY DEF Begin, Query, QueryFails, Resolve, Run, GoOn, Abort, WaitAborts, WaitEnds, WaitBreaks,
         Recheck, Link, Retry, AfterJob, linkVars, deviceVars, stateVars
<1>2. Away
  <2>1. CASE \E op \in {"list", "all", "download", "delete"} : Begin(op)
    BY <2>1 DEF Begin, Idle, Away
  <2>2. CASE Query
    BY <2>2 DEF Query, Away, ReleaseInv
  <2>3. CASE QueryFails
    BY <2>3, AbortLeaves DEF QueryFails, Idle, Away
  <2>4. CASE Resolve
    BY <2>4 DEF Resolve, Idle, Away, ReleaseInv
  <2>5. CASE Run
    BY <2>5, AbortLeaves DEF Run, GoOn, Idle, Away, ReleaseInv
  <2>6. CASE WaitAborts
    BY <2>6, AbortLeaves DEF WaitAborts
  <2>7. CASE WaitEnds
    BY <2>7, AbortLeaves, JobLeaves DEF WaitEnds
  <2>8. CASE WaitBreaks
    BY <2>8, AbortLeaves, RetryLeaves, JobLeaves DEF WaitBreaks
  <2>9. CASE Recheck
    BY <2>9, AbortLeaves, RetryLeaves DEF Recheck, Away, ReleaseInv
  <2>10. CASE Link
    <3>1. CASE main' = [main EXCEPT !.file = "comp", !.at = "run", !.attempt = 1]
      BY <3>1 DEF ReleaseInv, Away
    <3>2. CASE main' = Idle
      BY <3>2 DEF Idle, Away
    <3> QED BY <2>10, <3>1, <3>2 DEF Link
  <2> QED BY <2>1, <2>2, <2>3, <2>4, <2>5, <2>6, <2>7, <2>8, <2>9, <2>10
<1>3. closing' \in {closing, "shut"} /\ owner # 0
  BY DEF ReleaseInv, Entered, Begin, Query, QueryFails, Resolve, Run, GoOn, Abort, WaitAborts,
         WaitEnds, WaitBreaks, Recheck, Link, Runs, stateVars
<1> QED BY <1>1, <1>2, <1>3 DEF Away, ReleaseInv, Connections, Entered, EnterExcused, LanReleased

\* The connection, __enter__ and close().
LEMMA OwnerKeepsReleased ==
    ASSUME ReleaseInv,
           \/ Enter \/ Join \/ CloseBegins \/ CloseShuts \/ CloseReleases \/ LinkDrop \/ Reconnect
    PROVE  ReleaseInv'
<1> USE DEF ReleaseInv, Connections, Entered, EnterExcused, LanReleased
<1>1. CASE Enter
  BY <1>1 DEF Enter, Idle, linkVars, deviceVars
<1>2. CASE Join
  BY <1>2 DEF Join, Runs, GoOn, Abort, Idle, linkVars, stateVars
<1>3. CASE CloseBegins
  BY <1>3 DEF CloseBegins, linkVars, deviceVars
<1>4. CASE CloseShuts
  BY <1>4 DEF CloseShuts, linkVars, deviceVars, mainVars
<1>5. CASE CloseReleases
  BY <1>5 DEF CloseReleases, Idle, linkVars
<1>6. CASE LinkDrop
  BY <1>6 DEF LinkDrop, stateVars, mainVars
<1>7. CASE Reconnect
  BY <1>7 DEF Reconnect, deviceVars, stateVars, mainVars
<1> QED BY <1>1, <1>2, <1>3, <1>4, <1>5, <1>6, <1>7

\* cancel(), the threads, the item and other programs.
LEMMA RestKeepsReleased ==
    ASSUME ReleaseInv,
           \/ CancelSets \/ CancelShuts \/ Take \/ KeeperEnds \/ ItemChanges \/ ForeignFile
           \/ \E t \in Threads : Thread(t) \/ ReadAnswer(t) \/ ReadFails(t)
    PROVE  ReleaseInv'
<1>1. UNCHANGED <<conn, conns, lan, owner, excused, main, closing>>
  BY DEF CancelSets, CancelShuts, Take, KeeperEnds, ItemChanges, ForeignFile, Thread, Acquire,
         Connect, Publish, CheckAgain, Send, ReadCut, Close, ReadAnswer, ReadFails,
         linkVars, deviceVars, stateVars, mainVars
<1> QED BY <1>1 DEF ReleaseInv, Connections, Entered, EnterExcused, LanReleased

\* The inductive invariant of the owner, the release and its excuses.
THEOREM OwnerReleases == Spec => []ReleaseInv
<1>1. Init => ReleaseInv
  BY DEF Init, ReleaseInv, Connections, Entered, EnterExcused, LanReleased, Idle
<1>2. ReleaseInv /\ [Next]_vars => ReleaseInv'
  <2>1. ReleaseInv /\ Next => ReleaseInv'
    BY CallerKeepsReleased, OwnerKeepsReleased, RestKeepsReleased DEF Next, Caller, Environment
  <2>2. ReleaseInv /\ UNCHANGED vars => ReleaseInv'
    BY DEF vars, linkVars, deviceVars, stateVars, mainVars, ReleaseInv, Connections, Entered,
           EnterExcused, LanReleased
  <2> QED BY <2>1, <2>2
<1> QED BY <1>1, <1>2, PTL DEF Spec

\* When a close() has ended on the connection that owns the import, Wi-Fi and
\* HTTP are no longer kept for it; a close() inside __enter__ and a release
\* that was not confirmed are excepted (close).
THEOREM CloseReleasesDevice == Spec => []LanReleased
<1>1. ReleaseInv => LanReleased
  BY DEF ReleaseInv
<1> QED BY <1>1, OwnerReleases, PTL
-----------------------------------------------------------------------------
(* A final file is whole.                                                  *)

JobNames == {"catalog", "body", "delete", "stale"}
Outcomes == {"ok", "media", "session"}

MainType == main \in [op : {"none", "enter", "list", "all", "download", "delete"},
                      at : Polling \cup {"idle", "run", "link", "closing"},
                      job : {"catalog", "body", "delete"}, file : Files,
                      attempt : 1..Attempts, item : 0..Deleted]

ImportTypes ==
    /\ MainType
    /\ http \in [Threads -> [at : Locked \cup {"off", "idle", "lock", "ended"},
                             job : JobNames, out : Outcomes]]
    /\ queue \in Seq(JobNames) /\ result \in Outcomes
    /\ rev \in 0..Deleted /\ got \in Seq(1..MaxRevs)
    /\ target \in [Files -> Seq(0..MaxRevs)]

\* The caller waits for a download.
Fetching == main.at = "wait" /\ main.job = "body"

\* A download that somebody waits for is with the executor.
Fetches == http["worker"].at # "idle" /\ http["worker"].job = "body"
Queued == \E i \in DOMAIN queue : queue[i] = "body"

\* A download is with the executor only while the caller waits for it, or once
\* the import is closed and does nothing any more.
OneDownload ==
    /\ Fetches \/ Queued => Fetching \/ (closed /\ main.at \in {"idle", "closing"})
    /\ closed <=> closing # "no"
    /\ http["keeper"].job # "body"

\* The job the caller waits for is the last submitted.
OwnJob ==
    Fetching /\ ~closed =>
        /\ queue # <<>> => queue[Len(queue)] = "body"
        /\ queue = <<>> /\ http["worker"].at # "idle" => http["worker"].job = "body"
        /\ JobDone /\ result = "ok" => Len(got) = Chunks

\* A download that ends well has all pieces.
EndsWhole == Fetches /\ http["worker"].at = "close" /\ http["worker"].out = "ok" => Len(got) = Chunks

\* The revision selected was one of the device when it was asked for.
Selected ==
    /\ main.at \in {"join", "query"} => main.op \in {"enter", "list", "all"}
    /\ main.at = "resolve" => main.op \in {"download", "delete"}
    /\ main.job = "body" => main.op = "download"
    /\ main.op = "download" /\ main.at \in {"run", "wait", "recheck", "link"}
          => Live(main.item) /\ main.item <= rev

\* The pieces were read after it was selected, and until now.
Pieces ==
    /\ \A i \in DOMAIN got : got[i] <= rev
    /\ main.job = "body" /\ main.at \in {"wait", "recheck", "link"}
          => \A i \in DOMAIN got : main.item <= got[i]
    /\ main.at \in {"recheck", "link"} => main.job = "body" /\ Len(got) = Chunks
    /\ main.at = "link" => \A i \in DOMAIN got : got[i] = main.item

WholeInv == ImportTypes /\ OneDownload /\ OwnJob /\ EndsWhole /\ Selected /\ Pieces

\* The members of a sequence.
LEMMA SeqMembers ==
    ASSUME NEW S, NEW s \in Seq(S)
    PROVE  Len(s) \in Nat /\ s \in [1..Len(s) -> S] /\ \A i \in DOMAIN s : s[i] \in S
OBVIOUS

LEMMA TailMembers ==
    ASSUME NEW S, NEW s \in Seq(S), s # <<>>
    PROVE  /\ Tail(s) \in Seq(S) /\ Head(s) \in S /\ Head(s) = s[1] /\ 1 \in DOMAIN s
           /\ Len(Tail(s)) = Len(s) - 1 /\ Len(s) \in Nat \ {0}
           /\ \A i \in DOMAIN Tail(s) : i + 1 \in DOMAIN s /\ Tail(s)[i] = s[i + 1]
           /\ Tail(s) # <<>> => Len(Tail(s)) \in DOMAIN Tail(s) /\ Tail(s)[Len(Tail(s))] = s[Len(s)]
           /\ Tail(s) = <<>> => Len(s) = 1
<1>1. Len(s) \in Nat \ {0} /\ Head(s) = s[1] /\ 1 \in DOMAIN s /\ s[1] \in S
  OBVIOUS
<1>2. /\ Tail(s) \in Seq(S) /\ Len(Tail(s)) = Len(s) - 1
      /\ \A i \in 1..Len(s) - 1 : Tail(s)[i] = s[i + 1]
  BY <1>1
<1>3. \A i \in DOMAIN Tail(s) : i + 1 \in DOMAIN s /\ Tail(s)[i] = s[i + 1]
  BY <1>1, <1>2
<1>4. Tail(s) # <<>> => Len(Tail(s)) \in DOMAIN Tail(s)
  BY <1>1, <1>2
<1>5. Tail(s) = <<>> => Len(Tail(s)) = 0
  <2>1. Len(<<>>) = 0
    OBVIOUS
  <2> QED BY <2>1, Zenon
<1> QED BY <1>1, <1>2, <1>3, <1>4, <1>5

LEMMA SeqOfMembers ==
    ASSUME NEW S, NEW n \in Nat, NEW s \in [1..n -> S]
    PROVE  s \in Seq(S)
OBVIOUS

\* The operation is over, or the import is about to be closed.
Over == main'.at \in {"idle", "closing"} /\ (main'.job = "body" => main'.op = "download")

\* It goes on somewhere else than in a download.
Elsewhere == main'.at \in {"idle", "closing", "join", "query", "resolve", "run"}

LEMMA IdleType == Idle \in [op : {"none", "enter", "list", "all", "download", "delete"},
                            at : Polling \cup {"idle", "run", "link", "closing"},
                            job : {"catalog", "body", "delete"}, file : Files,
                            attempt : 1..Attempts, item : 0..Deleted]
BY MediaAssumption DEF Idle, Polling, Deleted

LEMMA AbortMain ==
    ASSUME WholeInv, Abort
    PROVE  MainType' /\ Over /\ closed' /\ closing' # "no"
<1> USE DEF WholeInv, ImportTypes, OneDownload, Selected
<1>1. CASE closed
  BY <1>1, IdleType DEF Abort, MainType, Over, Idle
<1>2. CASE ~closed
  BY <1>2 DEF Abort, MainType, Over
<1> QED BY <1>1, <1>2

\* A failed attempt is followed by another or by the end.
Again == /\ main'.at = "run" /\ main.job = "body" /\ main'.job = "body"
         /\ main'.op = main.op /\ main'.item = main.item

LEMMA RetryMain ==
    ASSUME WholeInv, Retry
    PROVE  MainType' /\ (Over \/ Again)
<1> USE DEF WholeInv, ImportTypes, Selected
<1>1. CASE main.job = "body" /\ main.attempt < Attempts
  <2>1. main' = [main EXCEPT !.at = "run", !.attempt = @ + 1]
    BY <1>1 DEF Retry
  <2>2. main.attempt + 1 \in 1..Attempts
    BY <1>1, MediaAssumption DEF MainType
  <2> QED BY <1>1, <2>1, <2>2 DEF MainType, Again
<1>2. CASE ~(main.job = "body" /\ main.attempt < Attempts)
  BY <1>2, IdleType DEF Retry, MainType, Over, Idle
<1> QED BY <1>1, <1>2

\* A catalog is followed by what it was read for.
Continues ==
    /\ main.job = "catalog" /\ main.at = "wait"
    /\ \/ main'.at = "resolve" /\ main'.op = "download" /\ main'.job = "catalog"
       \/ /\ main'.at = "run" /\ main'.op = main.op /\ main'.item = main.item
          /\ main'.job \in {"body", "delete"} /\ (main'.job = "body" => main.op = "download")

Arrived == main.job = "body" /\ result = "ok" /\ main' = [main EXCEPT !.at = "recheck"]

LEMMA AfterJobMain ==
    ASSUME WholeInv, AfterJob, main.at = "wait"
    PROVE  MainType' /\ (Over \/ Again \/ Continues \/ Arrived)
<1> USE DEF WholeInv, ImportTypes, MainType
<1>1. CASE Retry
  BY <1>1, RetryMain
<1>2. CASE main.job = "catalog" /\ main' = [main EXCEPT !.op = "download", !.at = "resolve"]
  BY <1>2 DEF Continues, Polling
<1>3. CASE main.job = "catalog" /\ main.op = "download" /\ main' = [main EXCEPT !.at = "run", !.job = "body"]
  BY <1>3 DEF Continues, Polling
<1>4. CASE main.job = "catalog" /\ main' = [main EXCEPT !.at = "run", !.job = "delete"]
  BY <1>4 DEF Continues, Polling
<1>5. CASE Arrived
  BY <1>5 DEF Arrived, Polling
<1>6. CASE main' = Idle
  BY <1>6, IdleType DEF Over, Idle
<1>7. \/ Retry
      \/ main.job = "catalog" /\ main' = [main EXCEPT !.op = "download", !.at = "resolve"]
      \/ main.job = "catalog" /\ main.op = "download" /\ main' = [main EXCEPT !.at = "run", !.job = "body"]
      \/ main.job = "catalog" /\ main' = [main EXCEPT !.at = "run", !.job = "delete"]
      \/ Arrived
      \/ main' = Idle
  BY Zenon DEF AfterJob, Arrived
<1> QED BY <1>1, <1>2, <1>3, <1>4, <1>5, <1>6, <1>7

\* Where the operation is not in a download, little is asked of it.
LEMMA ElsewhereWhole ==
    ASSUME WholeInv, Elsewhere, ImportTypes', OneDownload', Selected', EndsWhole',
           UNCHANGED <<rev, got>>
    PROVE  WholeInv'
BY DEF WholeInv, Elsewhere, OwnJob, Pieces, Fetching

\* The threads go on as they were, and the caller is done.
LEMMA OverWhole ==
    ASSUME WholeInv, MainType', Over, closed', closing' # "no",
           UNCHANGED <<http, queue, result, rev, got, target>>
    PROVE  WholeInv'
<1>1. ImportTypes'
  BY DEF WholeInv, ImportTypes
<1>2. OneDownload' /\ Selected' /\ EndsWhole' /\ Elsewhere
  BY DEF WholeInv, OneDownload, Selected, EndsWhole, Over, Elsewhere, Fetches
<1> QED BY <1>1, <1>2, ElsewhereWhole

LEMMA AbortWhole ==
    ASSUME WholeInv, Abort, UNCHANGED <<http, queue, result, rev, got, target>>
    PROVE  WholeInv'
BY AbortMain, OverWhole

\* Outside of a download, and of the end of an import, none is with the executor.
LEMMA NoDownload ==
    ASSUME WholeInv, main.at \notin {"wait", "closing"}, main.at = "idle" => ~closed
    PROVE  ~Fetches /\ ~Queued
BY DEF WholeInv, OneDownload, Fetching

LEMMA DoneWhole ==
    ASSUME WholeInv, ImportTypes', ~Fetches', ~Queued', http'["keeper"].job # "body",
           Elsewhere, Selected', closed' <=> closing' # "no", UNCHANGED <<rev, got>>
    PROVE  WholeInv'
<1>1. OneDownload' /\ EndsWhole'
  BY DEF OneDownload, EndsWhole
<1> QED BY <1>1, ElsewhereWhole

LEMMA FreeWhole ==
    ASSUME WholeInv, ~Fetches, ~Queued, MainType', Elsewhere, Selected', closed' <=> closing' # "no",
           UNCHANGED <<http, queue, result, rev, got, target>>
    PROVE  WholeInv'
<1>1. ImportTypes'
  BY DEF WholeInv, ImportTypes
<1>2. ~Fetches' /\ ~Queued' /\ http'["keeper"].job # "body"
  BY DEF WholeInv, OneDownload, Fetches, Queued
<1> QED BY <1>1, <1>2, DoneWhole

\* An operation begins, and asks on the control channel.
LEMMA BeginningsWhole ==
    ASSUME WholeInv, Entered,
           \/ Enter \/ Join \/ (\E op \in {"list", "all", "download", "delete"} : Begin(op))
           \/ Query \/ QueryFails \/ Resolve
    PROVE  WholeInv'
<1>0. UNCHANGED <<http, queue, result, rev, got, target>>
  BY DEF Enter, Join, Begin, Query, QueryFails, Resolve, httpVars, deviceVars
<1>1. ~Abort => ~Fetches /\ ~Queued /\ (closed' <=> closing' # "no")
  <2>1. main.at \notin {"wait", "closing"} /\ (main.at = "idle" => ~closed)
    BY DEF Enter, Join, Begin, Query, QueryFails, Resolve, Runs, Idle, Entered, WholeInv, OneDownload
  <2>2. ~Abort => (closed' <=> closing' # "no")
    BY DEF Enter, Join, Begin, Query, QueryFails, Resolve, GoOn, stateVars, WholeInv, OneDownload
  <2> QED BY <2>1, <2>2, NoDownload
<1>2. ~Abort => MainType' /\ Elsewhere /\ Selected'
  <2> USE DEF WholeInv, ImportTypes, MainType, Elsewhere, Selected, Polling
  <2>1. CASE Enter
    BY <2>1, IdleType DEF Enter, Idle
  <2>2. CASE Join
    BY <2>2 DEF Join, GoOn, Runs
  <2>3. CASE \E op \in {"list", "all", "download", "delete"} : Begin(op)
    <3>1. PICK op \in {"list", "all", "download", "delete"} : Begin(op)
      BY <2>3
    <3>2. PICK at \in {"query", "resolve", "closing"} :
            /\ main' = [Idle EXCEPT !.op = op, !.at = at]
            /\ at = "query" => op \in {"list", "all"}
            /\ at = "resolve" => op \in {"download", "delete"}
      BY <3>1 DEF Begin
    <3> QED BY <3>2, IdleType DEF Idle
  <2>4. CASE Query
    BY <2>4 DEF Query, Runs
  <2>5. CASE QueryFails
    BY <2>5, IdleType DEF QueryFails, Idle
  <2>6. CASE Resolve
    <3>1. CASE main' = Idle
      BY <3>1, IdleType DEF Idle
    <3>2. CASE main' # Idle
      <4>1. PICK item \in {rev, main.item}, job \in {"catalog", "delete", "body"} :
              /\ main' = [main EXCEPT !.at = "run", !.item = item, !.job = job]
              /\ job = "body" => main.op # "delete"
              /\ main.op # "delete" => item = rev /\ Live(rev)
        BY <2>6, <3>2 DEF Resolve
      <4>2. main.at = "resolve"
        BY <2>6 DEF Resolve, Runs
      <4>3. /\ main'.op = main.op /\ main'.at = "run" /\ main'.job = job /\ main'.item = item
            /\ MainType'
        BY <4>1
      <4>4. main.op \in {"download", "delete"} /\ rev' = rev
        BY <1>0, <4>2
      <4> QED BY <4>1, <4>3, <4>4 DEF Live, Deleted
    <3> QED BY <3>1, <3>2
  <2> QED BY <2>1, <2>2, <2>3, <2>4, <2>5, <2>6
<1> QED BY <1>0, <1>1, <1>2, AbortWhole, FreeWhole

\* A download is submitted with nothing read yet, and no other is there.
LEMMA RunWhole ==
    ASSUME WholeInv, Run
    PROVE  WholeInv'
<1>1. ~Fetches /\ ~Queued /\ main.at = "run" /\ UNCHANGED <<http, result, rev, target>>
  BY NoDownload DEF Run, Runs, deviceVars
<1>2. CASE Abort /\ UNCHANGED <<queue, got>>
  BY <1>1, <1>2, AbortWhole
<1>3. CASE main' = Idle /\ UNCHANGED <<stateVars, queue, got>>
  <2>1. MainType' /\ Elsewhere /\ Selected' /\ (closed' <=> closing' # "no")
    BY <1>3, IdleType DEF MainType, Elsewhere, Selected, Idle, stateVars, WholeInv, OneDownload
  <2> QED BY <1>1, <1>3, <2>1, FreeWhole
<1>4. CASE /\ main' = [main EXCEPT !.at = "wait"] /\ UNCHANGED stateVars /\ ~closed
           /\ queue' = Append(queue, main.job)
           /\ got' = IF main.job = "body" THEN <<>> ELSE got
  <2> USE DEF WholeInv, ImportTypes, MainType
  <2>1. /\ main' \in [op : {"none", "enter", "list", "all", "download", "delete"},
                      at : Polling \cup {"idle", "run", "link", "closing"},
                      job : {"catalog", "body", "delete"}, file : Files,
                      attempt : 1..Attempts, item : 0..Deleted]
        /\ main'.at = "wait" /\ main'.op = main.op /\ main'.job = main.job
        /\ main'.item = main.item
    BY <1>4 DEF Polling
  <2>2. queue' \in Seq(JobNames) /\ Len(queue') = Len(queue) + 1 /\ queue' # <<>>
        /\ queue'[Len(queue')] = main.job
        /\ \A i \in DOMAIN queue' : (i \in DOMAIN queue /\ queue'[i] = queue[i]) \/ queue'[i] = main.job
    <3>1. queue \in Seq(JobNames) /\ main.job \in JobNames /\ queue' = Append(queue, main.job)
      BY <1>4 DEF JobNames
    <3> QED BY ONLY <3>1
  <2>3. got' \in Seq(1..MaxRevs) /\ got' = IF main.job = "body" THEN <<>> ELSE got
    <3>1. got \in Seq(1..MaxRevs) /\ <<>> \in Seq(1..MaxRevs)
      OBVIOUS
    <3> QED BY <1>4, <3>1, Zenon
  <2>4. ImportTypes'
    BY <1>1, <2>1, <2>2, <2>3
  <2>5. OneDownload'
    BY <1>1, <1>4, <2>1, <2>2 DEF OneDownload, Fetching, Fetches, Queued, stateVars
  <2>6. OwnJob'
    BY <2>1, <2>2 DEF OwnJob, Fetching, JobDone
  <2>7. EndsWhole'
    BY <1>1 DEF EndsWhole, Fetches
  <2>8. Selected'
    BY <1>1, <2>1 DEF Selected, Live
  <2>9. Pieces'
    BY <1>1, <2>1, <2>3 DEF Pieces
  <2> QED BY <2>4, <2>5, <2>6, <2>7, <2>8, <2>9
<1> QED BY <1>2, <1>3, <1>4 DEF Run, GoOn, OwnerOK

\* The operation goes on with what it has selected.
LEMMA GoesOnSelected ==
    ASSUME WholeInv, Over \/ Again \/ Continues, main.at \in {"wait", "recheck"}, rev' = rev
    PROVE  Selected' /\ Elsewhere
BY DEF WholeInv, Selected, Over, Again, Continues, Elsewhere, Live

\* The caller finds its job done.
LEMMA WaitEndsWhole ==
    ASSUME WholeInv, WaitEnds, ~(Abort /\ UNCHANGED http)
    PROVE  WholeInv'
<1>1. /\ main.at = "wait" /\ ~closed /\ queue = <<>> /\ http["worker"].at = "idle"
      /\ AfterJob /\ UNCHANGED <<queue, result, rev, got, target, closed, closing>>
  BY DEF WaitEnds, Runs, OwnerOK, JobDone, deviceVars, stateVars
<1>2. /\ http' \in [Threads -> [at : Locked \cup {"off", "idle", "lock", "ended"},
                                job : JobNames, out : Outcomes]]
      /\ http'["worker"] = http["worker"] /\ http'["keeper"].job # "body"
  <2>1. http' = http \/ http' = [http EXCEPT !["keeper"] = Resting("idle")]
    BY DEF WaitEnds
  <2> QED BY <2>1 DEF WholeInv, ImportTypes, OneDownload, Resting, Threads, JobNames, Outcomes
<1>3. MainType' /\ (Over \/ Again \/ Continues \/ Arrived)
  BY <1>1, AfterJobMain
<1>4. ImportTypes'
  BY <1>1, <1>2, <1>3 DEF WholeInv, ImportTypes
<1>5. ~Fetches' /\ ~Queued'
  BY <1>1, <1>2 DEF Fetches, Queued
<1>6. closed' <=> closing' # "no"
  BY <1>1 DEF WholeInv, OneDownload
<1>7. CASE Arrived
  <2>1. /\ main'.at = "recheck" /\ main'.job = "body" /\ main'.op = main.op
        /\ main'.item = main.item /\ main.job = "body" /\ result = "ok"
    BY <1>7 DEF Arrived, WholeInv, ImportTypes, MainType, Polling
  <2>2. Len(got) = Chunks
    BY <1>1, <2>1 DEF WholeInv, OwnJob, Fetching, JobDone
  <2>3. OneDownload' /\ EndsWhole' /\ OwnJob'
    BY <1>2, <1>5, <1>6, <2>1 DEF OneDownload, EndsWhole, OwnJob, Fetching
  <2>4. Selected'
    BY <1>1, <2>1 DEF WholeInv, Selected, Live
  <2>5. Pieces'
    BY <1>1, <2>1, <2>2 DEF WholeInv, Pieces
  <2> QED BY <1>4, <2>3, <2>4, <2>5 DEF WholeInv
<1>8. CASE ~Arrived
  BY <1>1, <1>2, <1>3, <1>4, <1>5, <1>6, <1>8, GoesOnSelected, DoneWhole
<1> QED BY <1>7, <1>8

\* A poll raises while the caller waits: what is left to itself is nobody's.
LEMMA WaitBreaksWhole ==
    ASSUME WholeInv, WaitBreaks
    PROVE  WholeInv'
<1>1. main.at = "wait" /\ UNCHANGED <<result, rev, got, target>>
  BY DEF WaitBreaks, Runs, deviceVars
<1>2. CASE Abort /\ UNCHANGED <<queue, http>>
  BY <1>1, <1>2, AbortWhole
<1>3. CASE /\ IF main.op = "enter" THEN Abort
              ELSE /\ UNCHANGED stateVars
                   /\ IF main.job = "catalog" THEN AfterJob ELSE Retry
           /\ queue' = [i \in DOMAIN queue |-> IF queue[i] = "body" THEN "stale" ELSE queue[i]]
           /\ http' = IF http["worker"].job = "body"
                      THEN [http EXCEPT !["worker"].job = "stale"] ELSE http
  <2>1. queue' \in Seq(JobNames) /\ ~Queued'
    <3>1. queue \in Seq(JobNames)
      BY DEF WholeInv, ImportTypes
    <3>2. /\ DOMAIN queue' = 1..Len(queue)
          /\ \A i \in DOMAIN queue' : queue'[i] \in JobNames /\ queue'[i] # "body"
      BY <1>3, <3>1 DEF JobNames
    <3>3. queue' \in [1..Len(queue) -> JobNames]
      BY <1>3, <3>1 DEF JobNames
    <3> QED BY <3>1, <3>2, <3>3 DEF Queued
  <2>2. /\ http' \in [Threads -> [at : Locked \cup {"off", "idle", "lock", "ended"},
                                  job : JobNames, out : Outcomes]]
        /\ ~Fetches' /\ http'["keeper"].job # "body"
    BY <1>3 DEF WholeInv, ImportTypes, OneDownload, Fetches, Threads, JobNames
  <2>3. /\ MainType' /\ (Over \/ Again \/ Continues)
        /\ closed' <=> closing' # "no"
    <3>1. CASE main.op = "enter"
      BY <1>3, <3>1, AbortMain
    <3>2. CASE main.op # "enter"
      BY <1>1, <1>3, <3>2, AfterJobMain, RetryMain DEF Arrived, stateVars, WholeInv, OneDownload
    <3> QED BY <3>1, <3>2
  <2>4. ImportTypes'
    BY <1>1, <2>1, <2>2, <2>3 DEF WholeInv, ImportTypes
  <2> QED BY <1>1, <2>1, <2>2, <2>3, <2>4, GoesOnSelected, DoneWhole
<1> QED BY <1>2, <1>3 DEF WaitBreaks

LEMMA WaitWhole ==
    ASSUME WholeInv, WaitAborts \/ WaitEnds \/ WaitBreaks
    PROVE  WholeInv'
<1>1. CASE WaitAborts
  BY <1>1, AbortWhole DEF WaitAborts, httpVars, deviceVars
<1>2. CASE WaitEnds /\ Abort /\ UNCHANGED http
  BY <1>2, AbortWhole DEF WaitEnds, deviceVars
<1> QED BY <1>1, <1>2, WaitEndsWhole, WaitBreaksWhole

\* All pieces are of the revision selected if the device still has it.
LEMMA RecheckWhole ==
    ASSUME WholeInv, Recheck
    PROVE  WholeInv'
<1>1. main.at = "recheck" /\ UNCHANGED <<http, queue, result, rev, got, target>>
  BY DEF Recheck, Runs, httpVars, deviceVars
<1>2. ~Fetches /\ ~Queued
  BY <1>1, NoDownload
<1>3. CASE Abort
  BY <1>1, <1>3, AbortWhole
<1>4. CASE Retry /\ UNCHANGED stateVars
  <2>1. MainType' /\ Selected' /\ Elsewhere
    BY <1>1, <1>4, RetryMain, GoesOnSelected
  <2>2. closed' <=> closing' # "no"
    BY <1>4 DEF stateVars, WholeInv, OneDownload
  <2> QED BY <1>1, <1>2, <2>1, <2>2, FreeWhole
<1>5. CASE rev = main.item /\ main' = [main EXCEPT !.at = "link"] /\ UNCHANGED stateVars
  <2> USE DEF WholeInv, ImportTypes, MainType
  <2>1. /\ main'.at = "link" /\ main'.op = main.op /\ main'.item = main.item
        /\ main'.job = main.job /\ MainType'
    BY <1>5 DEF Polling
  <2>2. ImportTypes'
    BY <1>1, <2>1
  <2>3. OneDownload' /\ EndsWhole' /\ OwnJob'
    BY <1>1, <1>2, <1>5, <2>1 DEF OneDownload, EndsWhole, OwnJob, Fetching, Fetches, Queued, stateVars
  <2>4. Selected'
    BY <1>1, <2>1 DEF Selected, Live
  <2>5. Pieces'
    <3>1. \A i \in DOMAIN got : got[i] \in Int /\ main.item <= got[i] /\ got[i] <= main.item
      <4>1. got \in Seq(1..MaxRevs)
        OBVIOUS
      <4>2. \A i \in DOMAIN got : got[i] \in 1..MaxRevs
        BY <4>1, SeqMembers
      <4> QED BY <1>1, <1>5, <4>2 DEF Pieces
    <3>2. main.item \in Int
      BY DEF Deleted
    <3>3. \A i \in DOMAIN got : got[i] = main.item
      BY <3>1, <3>2
    <3> QED BY <1>1, <2>1, <3>3 DEF Pieces
  <2> QED BY <2>2, <2>3, <2>4, <2>5
<1> QED BY <1>3, <1>4, <1>5 DEF Recheck

\* What is linked is the temporary file; the companion comes next.
LEMMA LinkWhole ==
    ASSUME WholeInv, Link
    PROVE  WholeInv'
<1>1. main.at = "link" /\ UNCHANGED <<http, queue, result, rev, got, closed, closing>>
  BY DEF Link, Runs, httpVars, deviceVars, stateVars
<1>2. ~Fetches /\ ~Queued
  BY <1>1, NoDownload
<1>3. ~Fetches' /\ ~Queued' /\ http'["keeper"].job # "body" /\ (closed' <=> closing' # "no")
  BY <1>1, <1>2 DEF Fetches, Queued, WholeInv, OneDownload
<1>4. target' \in [Files -> Seq(0..MaxRevs)]
  <2>1. target \in [Files -> Seq(0..MaxRevs)] /\ main.file \in Files
    BY DEF WholeInv, ImportTypes, MainType
  <2>2. got \in Seq(0..MaxRevs)
    <3>1. got \in Seq(1..MaxRevs) /\ 1..MaxRevs \subseteq 0..MaxRevs
      BY DEF WholeInv, ImportTypes
    <3>2. Len(got) \in Nat /\ got \in [1..Len(got) -> 0..MaxRevs]
      BY <3>1, SeqMembers
    <3> QED BY <3>2, SeqOfMembers
  <2> QED BY <2>1, <2>2 DEF Link
<1>5. MainType' /\ Selected' /\ Elsewhere
  <2>1. CASE main' = Idle
    BY <2>1, IdleType DEF MainType, Selected, Elsewhere, Idle
  <2>2. CASE "comp" \in Files /\ main' = [main EXCEPT !.file = "comp", !.at = "run", !.attempt = 1]
    <3>1. /\ main'.at = "run" /\ main'.op = main.op /\ main'.item = main.item
          /\ main'.job = main.job /\ MainType'
      <4>1. 1 \in 1..Attempts
        BY MediaAssumption
      <4> QED BY <2>2, <4>1 DEF WholeInv, ImportTypes, MainType
    <3> QED BY <1>1, <3>1 DEF WholeInv, Selected, Elsewhere, Live
  <2> QED BY <2>1, <2>2 DEF Link
<1>6. ImportTypes'
  BY <1>1, <1>4, <1>5 DEF WholeInv, ImportTypes
<1> QED BY <1>1, <1>3, <1>5, <1>6, DoneWhole

\* cancel() and close(), and what goes on around the host.
LEMMA AroundWhole ==
    ASSUME WholeInv,
           \/ CancelSets \/ CancelShuts \/ CloseBegins \/ CloseShuts \/ CloseReleases
           \/ LinkDrop \/ Reconnect \/ ItemChanges \/ ForeignFile
    PROVE  WholeInv'
<1> USE DEF WholeInv
<1>1. CASE CancelSets \/ CancelShuts \/ LinkDrop \/ Reconnect
  <2>1. UNCHANGED <<main, http, queue, result, rev, got, target, closed, closing>>
    BY <1>1 DEF CancelSets, CancelShuts, LinkDrop, Reconnect, deviceVars, stateVars, mainVars, httpVars
  <2> QED BY <2>1 DEF ImportTypes, MainType, OneDownload, OwnJob, EndsWhole, Selected, Pieces,
                      Fetching, Fetches, Queued, JobDone
<1>2. CASE CloseBegins \/ CloseShuts
  <2>1. /\ UNCHANGED <<main, http, result, rev, got, target>> /\ closed' /\ closing' # "no"
        /\ queue' = queue \/ queue' = <<>>
    BY <1>2 DEF CloseBegins, CloseShuts, deviceVars, mainVars, httpVars, OneDownload
  <2>2. ImportTypes'
    <3>1. queue' \in Seq(JobNames)
      <4>1. queue \in Seq(JobNames) /\ <<>> \in Seq(JobNames)
        BY DEF ImportTypes
      <4> QED BY <2>1, <4>1, Zenon
    <3> QED BY <2>1, <3>1 DEF ImportTypes, MainType
  <2>3. OneDownload'
    BY <2>1 DEF OneDownload, Fetching, Fetches, Queued
  <2> QED BY <2>1, <2>2, <2>3 DEF OwnJob, EndsWhole, Selected, Pieces, Fetches
<1>3. CASE CloseReleases
  <2>1. /\ UNCHANGED <<http, queue, result, rev, got, target, closed>> /\ closed' /\ closing' # "no"
        /\ main' = IF main.at = "closing" THEN Idle ELSE main
    BY <1>3 DEF CloseReleases, httpVars, OneDownload
  <2>2. CASE main' = Idle
    <3>1. MainType' /\ Over
      BY <2>2, IdleType DEF MainType, Over, Idle
    <3> QED BY <2>1, <3>1, OverWhole
  <2>3. CASE main' = main
    BY <2>1, <2>3 DEF ImportTypes, MainType, OneDownload, OwnJob, EndsWhole, Selected, Pieces,
                      Fetching, Fetches, Queued, JobDone
  <2> QED BY <2>1, <2>2, <2>3
<1>4. CASE ItemChanges
  <2>1. /\ UNCHANGED <<main, http, queue, result, got, target, closed, closing>>
        /\ rev' \in 0..Deleted /\ rev <= rev'
    BY <1>4, MediaAssumption DEF ItemChanges, ImportTypes, stateVars, mainVars, httpVars, Deleted
  <2>2. ImportTypes' /\ OneDownload' /\ OwnJob' /\ EndsWhole'
    BY <2>1 DEF ImportTypes, MainType, OneDownload, OwnJob, EndsWhole, Fetching, Fetches, Queued, JobDone
  <2>3. Selected'
    BY <2>1 DEF Selected, ImportTypes, MainType, Live, Deleted
  <2>4. Pieces'
    <3>1. \A i \in DOMAIN got : got[i] \in 1..MaxRevs
      BY SeqMembers DEF ImportTypes
    <3>2. \A i \in DOMAIN got : got[i] <= rev'
      BY <2>1, <3>1 DEF Pieces, ImportTypes
    <3> QED BY <2>1, <3>2 DEF Pieces
  <2> QED BY <2>2, <2>3, <2>4
<1>5. CASE ForeignFile
  <2>1. /\ UNCHANGED <<main, http, queue, result, rev, got, closed, closing>>
        /\ target' \in [Files -> Seq(0..MaxRevs)]
    <3>1. <<0>> \in Seq(0..MaxRevs)
      BY MediaAssumption
    <3> QED BY <1>5, <3>1 DEF ForeignFile, ImportTypes, deviceVars, stateVars, httpVars
  <2> QED BY <2>1 DEF ImportTypes, MainType, OneDownload, OwnJob, EndsWhole, Selected, Pieces,
                      Fetching, Fetches, Queued, JobDone
<1> QED BY <1>1, <1>2, <1>3, <1>4, <1>5

\* The worker takes the job submitted last, or another that nobody waits for.
LEMMA TakeWhole ==
    ASSUME WholeInv, Take
    PROVE  WholeInv'
<1> USE DEF WholeInv
<1>1. /\ UNCHANGED <<main, result, rev, got, target, closed, closing>>
      /\ http["worker"].at = "idle" /\ queue # <<>> /\ queue' = Tail(queue)
  BY DEF Take, deviceVars, stateVars, mainVars
<1>2. /\ queue \in Seq(JobNames) /\ queue' \in Seq(JobNames) /\ Head(queue) \in JobNames
      /\ Head(queue) = queue[1] /\ 1 \in DOMAIN queue
      /\ \A i \in DOMAIN queue' : i + 1 \in DOMAIN queue /\ queue'[i] = queue[i + 1]
      /\ queue' # <<>> => queue'[Len(queue')] = queue[Len(queue)]
      /\ queue' = <<>> => Len(queue) = 1
  <2>1. queue \in Seq(JobNames)
    BY DEF ImportTypes
  <2> QED BY <1>1, <2>1, TailMembers
<1>3. /\ http' = [http EXCEPT !["worker"] = [at |-> "lock", job |-> Head(queue), out |-> "ok"]]
      /\ http'["worker"].at = "lock" /\ http'["worker"].job = Head(queue)
      /\ http'["keeper"] = http["keeper"]
  BY DEF Take, ImportTypes, Threads
<1>4. ImportTypes'
  BY <1>1, <1>2, <1>3 DEF ImportTypes, MainType, Outcomes
<1>5. Fetches' \/ Queued' => Queued
  BY <1>2, <1>3 DEF Fetches, Queued
<1>6. OneDownload'
  BY <1>1, <1>3, <1>5 DEF OneDownload, Fetching
<1>7. OwnJob'
  BY <1>1, <1>2, <1>3 DEF OwnJob, Fetching, JobDone
<1>8. EndsWhole'
  BY <1>3 DEF EndsWhole
<1>9. Selected' /\ Pieces'
  BY <1>1 DEF Selected, Pieces
<1> QED BY <1>4, <1>6, <1>7, <1>8, <1>9

\* A thread goes on in _http with nothing read.
LEMMA ThreadWhole ==
    ASSUME WholeInv, NEW t \in Threads,
           NEW at \in Locked \cup {"off", "idle", "lock", "ended"}, NEW out \in Outcomes,
           http[t].at \in Locked \cup {"lock"} \/ t = "keeper",
           http' = [http EXCEPT ![t].at = at, ![t].out = out],
           t = "worker" /\ at = "close" /\ out = "ok" /\ http[t].job = "body"
                => Len(got) = Chunks,
           IF t = "worker" /\ at = "idle" THEN result' = http[t].out /\ http[t].at = "close"
                                          ELSE result' = result,
           UNCHANGED <<main, queue, got, target, closed, closing>>,
           rev' \in 0..Deleted, rev <= rev'
    PROVE  WholeInv'
<1> USE DEF WholeInv
<1>1. /\ http'[t].job = http[t].job /\ http'[t].at = at /\ http'[t].out = out
      /\ \A u \in Threads : u # t => http'[u] = http[u]
      /\ http' \in [Threads -> [at : Locked \cup {"off", "idle", "lock", "ended"},
                                job : JobNames, out : Outcomes]]
  BY DEF ImportTypes
<1>2. "worker" \in Threads /\ "keeper" \in Threads /\ t \in {"worker", "keeper"}
  BY DEF Threads
<1>3. result' \in Outcomes
  BY DEF ImportTypes
<1>4. ImportTypes'
  BY <1>1, <1>3 DEF ImportTypes, MainType
<1>5. (Fetches' => Fetches) /\ Queued' = Queued
  BY <1>1, <1>2 DEF Fetches, Queued, Locked
<1>6. OneDownload'
  BY <1>1, <1>2, <1>5 DEF OneDownload, Fetching
<1>7. OwnJob'
  <2> SUFFICES ASSUME Fetching, ~closed
               PROVE  /\ queue # <<>> => queue[Len(queue)] = "body"
                      /\ queue = <<>> /\ http'["worker"].at # "idle" => http'["worker"].job = "body"
                      /\ JobDone' /\ result' = "ok" => Len(got) = Chunks
    BY DEF OwnJob, Fetching
  <2>1. CASE t = "keeper"
    BY <1>1, <1>2, <2>1 DEF OwnJob, JobDone
  <2>2. CASE t = "worker"
    <3>1. http["worker"].at # "idle"
      BY <2>2 DEF Locked
    <3>2. queue = <<>> => http["worker"].job = "body"
      BY <3>1 DEF OwnJob
    <3>3. JobDone' /\ result' = "ok" => Len(got) = Chunks
      BY <1>1, <2>2, <3>1, <3>2 DEF JobDone, EndsWhole, Fetches
    <3> QED BY <1>1, <2>2, <3>2, <3>3 DEF OwnJob
  <2> QED BY <1>2, <2>1, <2>2
<1>8. EndsWhole'
  BY <1>1, <1>2 DEF EndsWhole, Fetches
<1>9. Selected' /\ Pieces'
  <2>1. \A i \in DOMAIN got : got[i] \in 1..MaxRevs
    BY SeqMembers DEF ImportTypes
  <2>2. \A i \in DOMAIN got : got[i] <= rev'
    BY <2>1 DEF Pieces, ImportTypes
  <2>3. Selected'
    BY DEF Selected, ImportTypes, MainType, Live, Deleted
  <2> QED BY <2>2, <2>3 DEF Pieces
<1> QED BY <1>4, <1>6, <1>7, <1>8, <1>9

\* A step that only moves a thread, in the form of the lemma above.
LEMMA StepWhole ==
    ASSUME WholeInv, NEW t \in Threads,
           NEW at \in Locked \cup {"off", "idle", "lock", "ended"},
           http[t].at \in Locked \cup {"lock"} \/ t = "keeper",
           t = "worker" => at \notin {"close", "idle"},
           Step(t, at),
           UNCHANGED <<main, queue, result, got, target, closed, closing, rev>>
    PROVE  WholeInv'
<1>1. http[t].out \in Outcomes /\ http' = [http EXCEPT ![t].at = at, ![t].out = http[t].out]
  BY DEF WholeInv, ImportTypes, Step
<1>2. rev' \in 0..Deleted /\ rev <= rev'
  BY DEF WholeInv, ImportTypes
<1> QED BY <1>1, <1>2, ThreadWhole

LEMMA EndsStepWhole ==
    ASSUME WholeInv, NEW t \in Threads, NEW out \in Outcomes,
           http[t].at \in Locked,
           t = "worker" /\ out = "ok" /\ http[t].job = "body" => Len(got) = Chunks,
           Ends(t, out),
           UNCHANGED <<main, queue, result, got, target, closed, closing>>,
           rev' \in 0..Deleted, rev <= rev'
    PROVE  WholeInv'
BY ThreadWhole DEF Ends, Locked

\* A piece is read: it is of the revision the device has now.
LEMMA PieceWhole ==
    ASSUME WholeInv, NEW t \in Threads, http[t].at = "read", http[t].job = "body",
           Live(rev), got' = Append(got, rev),
           UNCHANGED <<main, http, queue, result, rev, target, closed, closing>>
    PROVE  WholeInv'
<1> USE DEF WholeInv
<1>1. t = "worker" /\ Fetches /\ http["worker"].at = "read"
  BY DEF OneDownload, Fetches, Threads
<1>2. Fetching \/ main.at \in {"idle", "closing"}
  BY <1>1 DEF OneDownload
<1>3. /\ got \in Seq(1..MaxRevs) /\ rev \in 1..MaxRevs /\ got' \in Seq(1..MaxRevs)
      /\ \A i \in DOMAIN got' : (i \in DOMAIN got /\ got'[i] = got[i]) \/ got'[i] = rev
  <2>1. got \in Seq(1..MaxRevs) /\ rev \in 1..MaxRevs
    BY DEF ImportTypes, Live
  <2> QED BY <2>1
<1>4. ImportTypes' /\ OneDownload' /\ Selected'
  BY <1>3 DEF ImportTypes, MainType, OneDownload, Selected, Fetching, Fetches, Queued
<1>5. OwnJob' /\ EndsWhole'
  BY <1>1 DEF OwnJob, EndsWhole, Fetching, Fetches, JobDone
<1>6. Pieces'
  <2>1. \A i \in DOMAIN got' : got'[i] <= rev
    BY <1>3 DEF Pieces
  <2>2. CASE Fetching
    <3>1. main.item <= rev
      BY <2>2 DEF Fetching, Selected
    <3> QED BY <1>3, <2>1, <2>2, <3>1 DEF Pieces, Fetching
  <2>3. CASE main.at \in {"idle", "closing"}
    BY <2>1, <2>3 DEF Pieces
  <2> QED BY <1>2, <2>2, <2>3
<1> QED BY <1>4, <1>5, <1>6

\* The worker and the keep-alive in _http.
LEMMA HttpWhole ==
    ASSUME WholeInv, NEW t \in Threads, Thread(t) \/ ReadAnswer(t) \/ ReadFails(t)
    PROVE  WholeInv'
<1> USE DEF Locked, Outcomes
<1>1. /\ UNCHANGED <<main, queue, target, closed, closing>>
  BY DEF Thread, Acquire, Connect, Publish, CheckAgain, Send, ReadCut, Close, ReadAnswer, ReadFails,
         mainVars, stateVars
<1>2. rev \in 0..Deleted /\ Deleted \in 0..Deleted /\ rev <= Deleted /\ rev <= rev
  BY MediaAssumption DEF WholeInv, ImportTypes, Deleted
<1>3. CASE Acquire(t)
  <2>1. UNCHANGED <<result, got, rev>>
    BY <1>3 DEF Acquire, deviceVars
  <2>2. CASE Step(t, "connect")
    BY <1>1, <1>3, <2>1, <2>2, StepWhole DEF Acquire, Threads
  <2>3. CASE Ends(t, "session")
    <3>1. http' = [http EXCEPT ![t].at = "close", ![t].out = "session"]
      BY <2>3 DEF Ends
    <3>2. http[t].at \in Locked \cup {"lock"} \/ t = "keeper"
      BY <1>3 DEF Acquire, Threads
    <3>3. /\ "close" \in Locked \cup {"off", "idle", "lock", "ended"} /\ "session" \in Outcomes
          /\ "close" # "idle" /\ "session" # "ok" /\ rev' \in 0..Deleted /\ rev <= rev'
      BY <1>2, <2>1
    <3> HIDE DEF Locked, Outcomes
    <3> QED BY <1>1, <2>1, <3>1, <3>2, <3>3, ThreadWhole
  <2> QED BY <1>3, <2>2, <2>3 DEF Acquire
<1>4. CASE Connect(t) \/ Publish(t) \/ CheckAgain(t) \/ Send(t) \/ ReadCut(t) \/ ReadFails(t)
  <2>1. UNCHANGED <<result, got, rev>> /\ http[t].at \in Locked
    BY <1>4 DEF Connect, Publish, CheckAgain, Send, ReadCut, ReadFails, deviceVars
  <2>2. \/ \E at \in {"publish", "recheck", "send", "read"} : Step(t, at)
        \/ \E out \in {"media", "session"} : Ends(t, out)
    BY <1>4 DEF Connect, Publish, CheckAgain, Send, ReadCut, ReadFails
  <2>3. CASE \E at \in {"publish", "recheck", "send", "read"} : Step(t, at)
    BY <1>1, <2>1, <2>3, StepWhole
  <2>4. CASE \E out \in {"media", "session"} : Ends(t, out)
    BY <1>1, <1>2, <2>1, <2>4, EndsStepWhole
  <2> QED BY <2>2, <2>3, <2>4
<1>5. CASE Close(t)
  <2>1. UNCHANGED <<got, rev>> /\ http[t].at = "close" /\ http[t].out \in Outcomes
    BY <1>5 DEF Close, deviceVars, WholeInv, ImportTypes
  <2>2. PICK at \in {"idle", "ended"} : Step(t, at) /\ (t = "worker" => at = "idle")
    BY <1>5 DEF Close
  <2>3. http' = [http EXCEPT ![t].at = at, ![t].out = http[t].out]
    BY <2>2 DEF Step, WholeInv, ImportTypes
  <2>4. IF t = "worker" /\ at = "idle" THEN result' = http[t].out ELSE result' = result
    BY <1>5, <2>2 DEF Close
  <2> QED BY <1>1, <1>2, <2>1, <2>2, <2>3, <2>4, ThreadWhole
<1>6. CASE ReadAnswer(t)
  <2>1. result' = result /\ http[t].at = "read"
    BY <1>6 DEF ReadAnswer
  <2>2. \/ \E out \in Outcomes :
             /\ Ends(t, out) /\ got' = got /\ rev' \in {rev, Deleted}
             /\ out = "ok" /\ http[t].job = "body" => Len(got) = Chunks
        \/ http[t].job = "body" /\ Live(rev) /\ got' = Append(got, rev) /\ http' = http /\ rev' = rev
    <3>1. CASE http[t].job = "body"
      BY <1>6, <3>1 DEF ReadAnswer
    <3>2. CASE http[t].job # "body"
      BY <1>2, <1>6, <3>2 DEF ReadAnswer
    <3> QED BY <3>1, <3>2
  <2>3. CASE \E out \in Outcomes :
               /\ Ends(t, out) /\ got' = got /\ rev' \in {rev, Deleted}
               /\ out = "ok" /\ http[t].job = "body" => Len(got) = Chunks
    BY <1>1, <1>2, <2>1, <2>3, EndsStepWhole
  <2>4. CASE http[t].job = "body" /\ Live(rev) /\ got' = Append(got, rev) /\ http' = http /\ rev' = rev
    BY <1>1, <2>1, <2>4, PieceWhole
  <2> QED BY <2>2, <2>3, <2>4
<1> QED BY <1>3, <1>4, <1>5, <1>6 DEF Thread

LEMMA KeeperEndsWhole ==
    ASSUME WholeInv, KeeperEnds
    PROVE  WholeInv'
BY StepWhole DEF KeeperEnds, Threads, mainVars, deviceVars, stateVars

\* The inductive invariant of a download: with the executor one at a time, and
\* only while the caller waits for it; its pieces no older than the revision
\* that was selected, and no newer than that of the device.
THEOREM OneRevision == Spec => [](WholeInv /\ ReleaseInv)
<1>1. Init => WholeInv
  <2> SUFFICES ASSUME Init PROVE WholeInv
    OBVIOUS
  <2>1. /\ <<>> \in Seq(JobNames) /\ <<>> \in Seq(1..MaxRevs) /\ <<>> \in Seq(0..MaxRevs)
        /\ Len(<<>>) = 0 /\ DOMAIN <<>> = {}
    OBVIOUS
  <2>2. MainType
    BY IdleType DEF Init, MainType
  <2>3. ImportTypes
    BY <2>1, <2>2, MediaAssumption DEF Init, ImportTypes, Resting, Threads, JobNames, Outcomes, Deleted
  <2>4. OneDownload /\ EndsWhole
    BY <2>1 DEF Init, OneDownload, EndsWhole, Fetches, Queued, Resting, Threads
  <2>5. OwnJob /\ Selected /\ Pieces
    BY <2>1 DEF Init, OwnJob, Selected, Pieces, Fetching, Idle
  <2> QED BY <2>3, <2>4, <2>5 DEF WholeInv
<1>2. WholeInv /\ ReleaseInv /\ [Next]_vars => WholeInv'
  <2> SUFFICES ASSUME WholeInv, ReleaseInv, [Next]_vars PROVE WholeInv'
    OBVIOUS
  <2>1. CASE \/ Enter \/ Join \/ (\E op \in {"list", "all", "download", "delete"} : Begin(op))
             \/ Query \/ QueryFails \/ Resolve
    BY <2>1, BeginningsWhole DEF ReleaseInv
  <2>2. CASE Run \/ WaitAborts \/ WaitEnds \/ WaitBreaks \/ Recheck \/ Link
    BY <2>2, RunWhole, WaitWhole, RecheckWhole, LinkWhole
  <2>3. CASE \/ CancelSets \/ CancelShuts \/ CloseBegins \/ CloseShuts \/ CloseReleases
             \/ LinkDrop \/ Reconnect \/ ItemChanges \/ ForeignFile
    BY <2>3, AroundWhole
  <2>4. CASE Take \/ KeeperEnds \/ \E t \in Threads : Thread(t) \/ ReadAnswer(t) \/ ReadFails(t)
    BY <2>4, TakeWhole, KeeperEndsWhole, HttpWhole
  <2>5. CASE UNCHANGED vars
    BY <2>5 DEF vars, linkVars, deviceVars, stateVars, mainVars, httpVars, WholeInv, ImportTypes,
                MainType, OneDownload, OwnJob, EndsWhole, Selected, Pieces, Fetching, Fetches,
                Queued, JobDone
  <2> QED BY <2>1, <2>2, <2>3, <2>4, <2>5 DEF Next, Caller, Environment
<1> QED BY <1>1, <1>2, OwnerReleases, PTL DEF Spec

\* A final file appears under a free name, complete, and with the one revision
\* the caller selected, whatever the device changes between two pieces and
\* however attempts and polls fail (_download_file).
THEOREM FilesAppearWhole == Spec => AppearsWhole
<1>1. WholeInv /\ [Next]_vars
        => [\A f \in Files : target'[f] # target[f] =>
              /\ target[f] = <<>>
              /\ target'[f] \in {<<0>>, [i \in 1..Chunks |-> main.item]}]_vars
  <2> SUFFICES ASSUME WholeInv, Next, NEW f \in Files, target'[f] # target[f]
               PROVE  /\ target[f] = <<>>
                      /\ target'[f] \in {<<0>>, [i \in 1..Chunks |-> main.item]}
    OBVIOUS
  <2>1. target \in [Files -> Seq(0..MaxRevs)] /\ main.file \in Files
    BY DEF WholeInv, ImportTypes, MainType
  <2>2. CASE ForeignFile
    BY <2>1, <2>2 DEF ForeignFile
  <2>3. CASE Link
    <3>1. f = main.file /\ target[f] = <<>> /\ target'[f] = got
      BY <2>1, <2>3 DEF Link
    <3>2. /\ got \in [1..Len(got) -> 1..MaxRevs] /\ Len(got) = Chunks
          /\ \A i \in DOMAIN got : got[i] = main.item
      BY <2>3, SeqMembers DEF Link, Runs, WholeInv, ImportTypes, Pieces
    <3>3. got = [i \in 1..Chunks |-> main.item]
      BY <3>2
    <3> QED BY <3>1, <3>3
  <2>4. ForeignFile \/ Link
    <3>1. target' # target
      OBVIOUS
    <3> QED BY <3>1 DEF Next, Caller, Environment, Thread, Enter, Join, Begin, Query, QueryFails,
            Resolve, Run, WaitAborts, WaitEnds, WaitBreaks, Recheck, CloseBegins, CloseShuts,
            CloseReleases, CancelSets, CancelShuts, LinkDrop, Reconnect, ItemChanges, Take,
            KeeperEnds, Acquire, Connect, Publish, CheckAgain, Send, ReadCut, Close, ReadAnswer,
            ReadFails, mainVars
  <2> QED BY <2>2, <2>3, <2>4
<1> QED BY <1>1, OneRevision, PTL DEF Spec, AppearsWhole
=============================================================================
