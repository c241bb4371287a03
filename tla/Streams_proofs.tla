----------------------------- MODULE Streams_proofs -----------------------------
(***************************************************************************)
(* Proofs about the byte streams between host and device: MacChannel, for  *)
(* any size of the pipe and any number of attempts, bytes, writes and      *)
(* openings (one process at a time, the bytes in order and the end after   *)
(* them, and acknowledgements of its own); and the parsers of              *)
(* StreamParsers, for any bytes, lengths, checksum, garbage and reads.     *)
(***************************************************************************)
EXTENDS MacChannel, StreamParsers, FiniteSetTheorems, TLAPS

\* The places of a worker inside its loop; a process is "start" only once.
InLoop == {"turn", "send", "check", "write", "close"}

\* What the host does next when it has a close() behind it is what it wanted
\* the close() for, and then no process is left; commands are commands.
WorkerInv ==
    /\ toWorker \in Seq({"write", "close"})
    /\ after \in {"idle", "spawn"}
    /\ host = "spawn" => worker = "none"
    /\ worker \in InLoop \cup {"none", "start", "over", "ended"}

\* A close() inside another call leaves the commands commands.
LEMMA CloseKeepsWorker ==
    ASSUME WorkerInv, NEW next \in {"idle", "spawn"}, CloseThen(next)
    PROVE  toWorker' \in Seq({"write", "close"}) /\ after' = next /\ host' \in {"close", "reap"}
BY DEF WorkerInv, CloseThen

\* An error leads into a close(), or out of the call.
LEMMA RaiseKeepsWorker ==
    ASSUME WorkerInv, Raise
    PROVE  /\ toWorker' \in Seq({"write", "close"}) /\ after' \in {"idle", "spawn"}
           /\ host' \in {"close", "reap", "idle"}
<1>1. CASE CloseThen("idle")
  BY <1>1, CloseKeepsWorker
<1>2. CASE CloseThen("spawn")
  BY <1>2, CloseKeepsWorker
<1>3. CASE host' \in {"reap", "idle"} /\ UNCHANGED <<after, toWorker>>
  BY <1>3 DEF WorkerInv
<1> QED BY <1>1, <1>2, <1>3 DEF Raise

\* A step of the host: only Spawn starts a process, and only after Reap.
LEMMA HostKeepsWorker ==
    ASSUME WorkerInv, HostCall \/ HostBegins
    PROVE  WorkerInv' /\ (worker' = "start" /\ worker # "start" => worker = "none")
<1>1. CASE Reap
  BY <1>1 DEF Reap, WorkerInv, pipeVars
<1>2. CASE Spawn
  BY <1>2 DEF Spawn, WorkerInv
<1>3. CASE Take
  <2>1. worker' = worker
    BY <1>3 DEF Take, workerVars
  <2>2. CASE Raise
    BY <2>1, <2>2, RaiseKeepsWorker DEF WorkerInv
  <2>3. CASE UNCHANGED <<after, toWorker>> /\ host' \in {host, "reap", "idle", "drain"}
    BY <2>1, <2>3 DEF WorkerInv
  <2> QED BY <1>3, <2>2, <2>3 DEF Take
<1>4. CASE Broken \/ TimesOut
  BY <1>4, RaiseKeepsWorker DEF Broken, TimesOut, WorkerInv, workerVars
<1>5. CASE NothingMore \/ Drain \/ Read
  BY <1>5 DEF NothingMore, Drain, Read, WorkerInv, workerVars, pipeVars
<1>6. CASE Open \/ Close
  BY <1>6, CloseKeepsWorker DEF Open, Close, WorkerInv, workerVars
<1>7. CASE Write
  <2>1. worker' = worker
    BY <1>7 DEF Write, workerVars
  <2>2. CASE CloseThen("idle")
    BY <2>1, <2>2, CloseKeepsWorker DEF WorkerInv
  <2>3. CASE host' = "write" /\ toWorker' = Append(toWorker, "write") /\ UNCHANGED after
    BY <2>1, <2>3 DEF WorkerInv
  <2> QED BY <1>7, <2>2, <2>3 DEF Write
<1> QED BY <1>1, <1>2, <1>3, <1>4, <1>5, <1>6, <1>7 DEF HostCall, HostBegins

\* A step of the worker, which does not come back from its end.
LEMMA WorkerKeepsWorker ==
    ASSUME WorkerInv, WorkerStep \/ DeviceSends \/ ChannelLost \/ WorkerDies
    PROVE  WorkerInv' /\ (worker' = "start" => worker = "start")
<1> USE DEF WorkerInv, InLoop, hostVars
<1>1. CASE WorkerStarts
  BY <1>1 DEF WorkerStarts
<1>2. CASE Turn
  BY <1>2 DEF Turn, pipeVars
<1>3. CASE SendData
  BY <1>3 DEF SendData
<1>4. CASE Check
  <2>1. toWorker # <<>> => Head(toWorker) \in {"write", "close"} /\ Tail(toWorker) \in Seq({"write", "close"})
    OBVIOUS
  <2> QED BY <1>4, <2>1 DEF Check, pipeVars
<1>5. CASE DoWrite
  BY <1>5 DEF DoWrite
<1>6. CASE DoClose
  BY <1>6 DEF DoClose
<1>7. CASE DeviceSends
  BY <1>7 DEF DeviceSends, workerVars, pipeVars
<1>8. CASE ChannelLost
  BY <1>8 DEF ChannelLost, workerVars, pipeVars
<1>9. CASE WorkerDies
  BY <1>9 DEF WorkerDies, Alive, pipeVars
<1> QED BY <1>1, <1>2, <1>3, <1>4, <1>5, <1>6, <1>7, <1>8, <1>9 DEF WorkerStep

\* The inductive invariant of processes and commands.
THEOREM WorkerReaped == Spec => []WorkerInv
<1>1. Init => WorkerInv
  BY DEF Init, WorkerInv, InLoop
<1>2. WorkerInv /\ [Next]_vars => WorkerInv'
  <2>1. WorkerInv /\ Next => WorkerInv'
    BY HostKeepsWorker, WorkerKeepsWorker DEF Next
  <2>2. WorkerInv /\ UNCHANGED vars => WorkerInv'
    BY DEF vars, hostVars, workerVars, pipeVars, WorkerInv
  <2> QED BY <2>1, <2>2
<1> QED BY <1>1, <1>2, PTL DEF Spec

\* A process is started only when there is none left, whatever call failed and
\* however the last one ended (close, open).
THEOREM OneProcess == Spec => OneWorker
<1>1. WorkerInv /\ [Next]_vars => [worker' = "start" /\ worker # "start" => worker = "none"]_vars
  BY HostKeepsWorker, WorkerKeepsWorker DEF Next
<1> QED BY <1>1, WorkerReaped, PTL DEF Spec, OneWorker

-----------------------------------------------------------------------------
(* Runs of bytes.  The device numbers its bytes, so what was sent, and each *)
(* piece of it, is known by its ends.                                      *)

\* The bytes a + 1 to b in their order.
Run(s, a, b) ==
    /\ s \in Seq(Nat) /\ a \in Nat /\ b \in Nat
    /\ Len(s) = b - a
    /\ \A i \in 1..Len(s) : s[i] = a + i

\* A sequence and another behind it.
LEMMA Joined ==
    ASSUME NEW S, NEW s \in Seq(S), NEW t \in Seq(S)
    PROVE  /\ s \o t \in Seq(S) /\ Len(s \o t) = Len(s) + Len(t)
           /\ \A i \in 1..Len(s) : (s \o t)[i] = s[i]
           /\ \A i \in 1..Len(t) : (s \o t)[Len(s) + i] = t[i]
OBVIOUS

LEMMA RunNone ==
    ASSUME NEW a \in Nat
    PROVE  Run(<<>>, a, a) /\ \A b : Run(<<>>, a, b) => b = a
BY DEF Run

LEMMA RunJoined ==
    ASSUME NEW s, NEW t, NEW a, NEW b, NEW c, Run(s, a, b), Run(t, b, c)
    PROVE  Run(s \o t, a, c)
<1>1. /\ s \in Seq(Nat) /\ t \in Seq(Nat) /\ a \in Nat /\ b \in Nat /\ c \in Nat
      /\ Len(s) = b - a /\ Len(t) = c - b
      /\ \A i \in 1..Len(s) : s[i] = a + i
      /\ \A i \in 1..Len(t) : t[i] = b + i
  BY DEF Run
<1>2. /\ s \o t \in Seq(Nat) /\ Len(s \o t) = Len(s) + Len(t)
      /\ \A i \in 1..Len(s) : (s \o t)[i] = s[i]
      /\ \A i \in 1..Len(t) : (s \o t)[Len(s) + i] = t[i]
  <2>1. s \in Seq(Nat) /\ t \in Seq(Nat)
    BY <1>1
  <2> QED BY <2>1, Joined
<1>3. ASSUME NEW i \in 1..Len(s \o t) PROVE (s \o t)[i] = a + i
  <2>1. CASE i \in 1..Len(s)
    BY <1>1, <1>2, <2>1
  <2>2. CASE i - Len(s) \in 1..Len(t)
    <3>1. PICK j \in 1..Len(t) : j = i - Len(s)
      BY <2>2
    <3>2. i = Len(s) + j /\ b + j = a + i
      BY <1>1, <1>3, <3>1
    <3> QED BY <1>1, <1>2, <3>2
  <2> QED BY <1>1, <1>2, <1>3, <2>1, <2>2
<1> QED BY <1>1, <1>2, <1>3 DEF Run

\* The first n bytes of a run, and the others.
LEMMA RunParts ==
    ASSUME NEW s, NEW a, NEW b, Run(s, a, b), NEW n \in 0..Len(s)
    PROVE  Run(SubSeq(s, 1, n), a, a + n) /\ Run(SubSeq(s, n + 1, Len(s)), a + n, b)
<1>1. /\ s \in Seq(Nat) /\ a \in Nat /\ b \in Nat /\ Len(s) = b - a
      /\ \A i \in 1..Len(s) : s[i] = a + i
  BY DEF Run
<1>2. /\ SubSeq(s, 1, n) \in Seq(Nat) /\ Len(SubSeq(s, 1, n)) = n
      /\ \A i \in 1..n : SubSeq(s, 1, n)[i] = s[i]
      /\ SubSeq(s, n + 1, Len(s)) \in Seq(Nat) /\ Len(SubSeq(s, n + 1, Len(s))) = Len(s) - n
      /\ \A i \in 1..(Len(s) - n) : SubSeq(s, n + 1, Len(s))[i] = s[n + i]
  <2>1. SubSeq(s, 1, n) \in Seq(Nat) /\ SubSeq(s, n + 1, Len(s)) \in Seq(Nat)
    <3>1. s \in Seq(Nat) /\ n \in Nat /\ n <= Len(s) /\ Len(s) \in Nat
      BY <1>1
    <3> QED BY <3>1
  <2> QED BY <1>1, <2>1
<1> QED BY <1>1, <1>2 DEF Run

LEMMA RunOneMore ==
    ASSUME NEW s, NEW a, NEW b, Run(s, a, b)
    PROVE  Run(Append(s, b + 1), a, b + 1)
<1>1. /\ s \in Seq(Nat) /\ a \in Nat /\ b \in Nat /\ Len(s) = b - a
      /\ \A i \in 1..Len(s) : s[i] = a + i
  BY DEF Run
<1>2. /\ Append(s, b + 1) \in Seq(Nat) /\ Len(Append(s, b + 1)) = Len(s) + 1
      /\ \A i \in 1..Len(s) : Append(s, b + 1)[i] = s[i]
      /\ Append(s, b + 1)[Len(s) + 1] = b + 1
  BY <1>1
<1> QED BY <1>1, <1>2 DEF Run

\* A run that begins at the same byte and is not longer is a prefix.
LEMMA RunPrefix ==
    ASSUME NEW s, NEW t, NEW a, NEW b, NEW c, Run(s, a, b), Run(t, a, c), b <= c
    PROVE  /\ Len(s) \in 0..Len(t) /\ s = SubSeq(t, 1, Len(s)) /\ SubSeq(s, 1, Len(s)) = s
           /\ b = c => s = t
<1>1. /\ s \in Seq(Nat) /\ t \in Seq(Nat) /\ a \in Nat /\ b \in Nat /\ c \in Nat
      /\ Len(s) = b - a /\ Len(t) = c - a
      /\ \A i \in 1..Len(s) : s[i] = a + i
      /\ \A i \in 1..Len(t) : t[i] = a + i
  BY DEF Run
<1>2. Len(s) \in 0..Len(t)
  BY <1>1
<1>3. s = SubSeq(t, 1, Len(s)) /\ SubSeq(s, 1, Len(s)) = s
  <2>1. /\ SubSeq(t, 1, Len(s)) \in Seq(Nat) /\ Len(SubSeq(t, 1, Len(s))) = Len(s)
        /\ \A i \in 1..Len(s) : SubSeq(t, 1, Len(s))[i] = t[i]
    <3>1. SubSeq(t, 1, Len(s)) \in Seq(Nat)
      <4>1. t \in Seq(Nat) /\ Len(s) \in Nat /\ Len(s) <= Len(t)
        BY <1>1, <1>2
      <4> QED BY <4>1
    <3> QED BY <1>1, <1>2, <3>1
  <2>2. \A i \in 1..Len(s) : SubSeq(t, 1, Len(s))[i] = s[i]
    BY <1>1, <1>2, <2>1
  <2> QED BY <1>1, <2>1, <2>2
<1>4. b = c => s = t
  BY <1>1
<1> QED BY <1>2, <1>3, <1>4

-----------------------------------------------------------------------------
(* Runs in messages.                                                       *)

\* The messages m carry the bytes a + 1 to b: f tells how far each one gets.
Carries(f, m, a, b) ==
    /\ f \in [0..Len(m) -> 0..b]
    /\ f[0] = a /\ f[Len(m)] = b
    /\ \A i \in 1..Len(m) : Run(m[i].bytes, f[i - 1], f[i])

Messages == [kind : Calls \cup {"data", "closed", "error"}, bytes : Seq(Nat)]

LEMMA NoMessage ==
    ASSUME NEW a \in Nat
    PROVE  /\ \E f : Carries(f, <<>>, a, a)
           /\ \A f, b : Carries(f, <<>>, a, b) => b = a
<1>1. Carries([i \in 0..0 |-> a], <<>>, a, a)
  BY DEF Carries
<1> QED BY <1>1 DEF Carries

LEMMA MessageTaken ==
    ASSUME NEW m \in Seq(Messages), m # <<>>, NEW f, NEW a, NEW b \in Nat, Carries(f, m, a, b)
    PROVE  \E c \in Nat : \E g : Run(Head(m).bytes, a, c) /\ Carries(g, Tail(m), c, b)
<1>1. /\ Len(m) \in Nat /\ 1 \in 1..Len(m) /\ Head(m) = m[1] /\ Len(Tail(m)) = Len(m) - 1
      /\ \A i \in 1..Len(Tail(m)) : Tail(m)[i] = m[i + 1] /\ i + 1 \in 1..Len(m)
  OBVIOUS
<1>2. /\ f \in [0..Len(m) -> 0..b] /\ f[0] = a /\ f[Len(m)] = b
      /\ \A i \in 1..Len(m) : Run(m[i].bytes, f[i - 1], f[i])
  BY DEF Carries
<1>3. PICK g : g = [i \in 0..Len(Tail(m)) |-> f[i + 1]]
  OBVIOUS
<1>4. g \in [0..Len(Tail(m)) -> 0..b] /\ \A i \in 0..Len(Tail(m)) : g[i] = f[i + 1]
  BY <1>1, <1>2, <1>3
<1>5. g[0] = f[1] /\ g[Len(Tail(m))] = b
  BY <1>1, <1>2, <1>4
<1>6. ASSUME NEW i \in 1..Len(Tail(m)) PROVE Run(Tail(m)[i].bytes, g[i - 1], g[i])
  <2>1. /\ i \in 0..Len(Tail(m)) /\ i - 1 \in 0..Len(Tail(m)) /\ (i - 1) + 1 = i
        /\ (i + 1) - 1 = i /\ i + 1 \in 1..Len(m)
    BY <1>1
  <2>2. g[i - 1] = f[i] /\ g[i] = f[i + 1]
    BY <1>4, <2>1
  <2>3. Run(m[i + 1].bytes, f[(i + 1) - 1], f[i + 1])
    BY <1>2, <2>1
  <2> QED BY <1>1, <2>1, <2>2, <2>3
<1>7. Run(Head(m).bytes, a, f[1]) /\ f[1] \in Nat
  <2>1. 1 - 1 = 0 /\ 1 \in 0..Len(m)
    BY <1>1
  <2> QED BY <1>1, <1>2, <2>1
<1>8. Carries(g, Tail(m), f[1], b)
  BY <1>4, <1>5, <1>6 DEF Carries
<1> QED BY <1>7, <1>8

LEMMA MessageSaid ==
    ASSUME NEW m \in Seq(Messages), NEW x \in Messages, NEW f, NEW a, NEW b \in Nat, NEW c,
           Carries(f, m, a, b), Run(x.bytes, b, c)
    PROVE  \E g : Carries(g, Append(m, x), a, c)
<1>1. /\ Len(m) \in Nat /\ Len(Append(m, x)) = Len(m) + 1
      /\ \A i \in 1..Len(m) : Append(m, x)[i] = m[i]
      /\ Append(m, x)[Len(m) + 1] = x
  OBVIOUS
<1>2. /\ f \in [0..Len(m) -> 0..b] /\ f[0] = a /\ f[Len(m)] = b
      /\ \A i \in 1..Len(m) : Run(m[i].bytes, f[i - 1], f[i])
  BY DEF Carries
<1>3. c \in Nat /\ b <= c
  BY DEF Run
<1>4. PICK g : g = [i \in 0..Len(Append(m, x)) |-> IF i <= Len(m) THEN f[i] ELSE c]
  OBVIOUS
<1>5. /\ g \in [0..Len(Append(m, x)) -> 0..c]
      /\ \A i \in 0..Len(m) : g[i] = f[i]
      /\ g[Len(m) + 1] = c
  BY <1>1, <1>2, <1>3, <1>4
<1>6. ASSUME NEW i \in 1..Len(Append(m, x)) PROVE Run(Append(m, x)[i].bytes, g[i - 1], g[i])
  <2>1. CASE i \in 1..Len(m)
    <3>1. i \in 0..Len(m) /\ i - 1 \in 0..Len(m)
      BY <1>1, <2>1
    <3> QED BY <1>1, <1>2, <1>5, <2>1, <3>1
  <2>2. CASE i = Len(m) + 1
    <3>1. i - 1 = Len(m) /\ Len(m) \in 0..Len(m)
      BY <1>1, <2>2
    <3> QED BY <1>1, <1>2, <1>5, <2>2, <3>1
  <2> QED BY <1>1, <1>6, <2>1, <2>2
<1>7. g[0] = a /\ g[Len(Append(m, x))] = c
  BY <1>1, <1>2, <1>5
<1> QED BY <1>5, <1>6, <1>7 DEF Carries

-----------------------------------------------------------------------------
(* Types.                                                                  *)

TypeInv ==
    /\ WorkerInv
    /\ host \in Calls \cup {"idle", "read", "drain", "reap", "spawn"}
    /\ conn \in BOOLEAN /\ closed \in BOOLEAN /\ ended \in BOOLEAN /\ lost \in BOOLEAN
    /\ rx \in Seq(Nat) /\ data \in Seq(Nat) /\ air \in Seq(Nat)
    /\ sent \in Seq(Nat) /\ out \in Seq(Nat)
    /\ toHost \in Seq(Messages)
    /\ writes \in Nat /\ written \in Nat

\* What a Take does to the pipe, whatever follows from it.
LEMMA TakeParts ==
    ASSUME TypeInv, Take
    PROVE  /\ Head(toHost) \in Messages /\ toHost' = Tail(toHost) /\ toHost' \in Seq(Messages)
           /\ toHost # <<>> /\ Len(toHost) \in Nat /\ Len(toHost') = Len(toHost) - 1
           /\ Head(toHost) = toHost[1] /\ 1 \in 1..Len(toHost)
           /\ \A i \in 1..Len(toHost') : toHost'[i] = toHost[i + 1] /\ i + 1 \in 1..Len(toHost)
           /\ UNCHANGED <<conn, out, writes, worker, ended, data, written, air, lost, sent>>
<1>1. toHost # <<>> /\ toHost' = Tail(toHost) /\ UNCHANGED <<conn, out, writes, workerVars, airVars>>
  BY DEF Take
<1>2. toHost \in Seq(Messages)
  BY DEF TypeInv
<1> QED BY <1>1, <1>2 DEF workerVars, airVars

\* Where the host is after an error.
LEMMA RaiseTypes ==
    ASSUME TypeInv, Raise
    PROVE  host' \in {"idle", "close", "reap"}
BY RaiseKeepsWorker DEF TypeInv

LEMMA HostTypes ==
    ASSUME TypeInv, HostCall \/ HostBegins
    PROVE  TypeInv'
<1>0. WorkerInv'
  BY HostKeepsWorker DEF TypeInv
<1>1. CASE Reap
  <2>1. /\ host' \in {"idle", "spawn"} /\ rx' = <<>> /\ conn' = FALSE /\ closed' = TRUE
        /\ UNCHANGED <<out, writes, ended, data, written, airVars, toHost>>
    BY <1>1 DEF Reap, TypeInv, WorkerInv, pipeVars
  <2>2. rx' \in Seq(Nat)
    BY <2>1
  <2> QED BY <1>0, <2>1, <2>2 DEF TypeInv, airVars
<1>2. CASE Spawn
  <2>1. <<>> \in Seq(Nat) /\ <<>> \in Seq(Messages)
    OBVIOUS
  <2> QED BY <1>0, <1>2, <2>1 DEF Spawn, TypeInv, Calls
<1>3. CASE Take
  <2>1. Head(toHost).bytes \in Seq(Nat) /\ Head(toHost) \in Messages /\ toHost' \in Seq(Messages)
    BY <1>3, TakeParts DEF Messages
  <2>2. rx' \in Seq(Nat) /\ closed' \in BOOLEAN
    <3>1. rx' \in {rx \o Head(toHost).bytes, <<>>, rx} /\ closed' \in {TRUE, FALSE, closed}
      BY <1>3 DEF Take
    <3>2. rx \in Seq(Nat) /\ <<>> \in Seq(Nat) /\ closed \in BOOLEAN
      BY DEF TypeInv
    <3>3. rx \o Head(toHost).bytes \in Seq(Nat)
      BY <2>1, <3>2
    <3> QED BY <3>1, <3>2, <3>3
  <2>3. host' \in Calls \cup {"idle", "read", "drain", "reap", "spawn"}
    BY <1>3, RaiseTypes DEF Take, TypeInv, Calls
  <2> QED BY <1>0, <1>3, <2>1, <2>2, <2>3, TakeParts DEF TypeInv
<1>4. CASE Broken \/ TimesOut
  <2>1. host' \in Calls \cup {"idle", "read", "drain", "reap", "spawn"}
    BY <1>4, RaiseTypes DEF Broken, TimesOut, Calls
  <2> QED BY <1>0, <1>4, <2>1 DEF Broken, TimesOut, TypeInv, workerVars, airVars
<1>5. CASE NothingMore \/ Read
  BY <1>0, <1>5 DEF NothingMore, Read, TypeInv, workerVars, airVars, pipeVars
<1>6. CASE Drain
  <2>1. out' \in Seq(Nat) /\ rx' \in Seq(Nat)
    <3>1. PICK n \in 0..Len(rx) : out' = out \o SubSeq(rx, 1, n) /\ rx' = SubSeq(rx, n + 1, Len(rx))
      BY <1>6 DEF Drain, Rest
    <3>2. rx \in Seq(Nat) /\ out \in Seq(Nat) /\ Len(rx) \in Nat
      BY DEF TypeInv
    <3>3. SubSeq(rx, 1, n) \in Seq(Nat) /\ SubSeq(rx, n + 1, Len(rx)) \in Seq(Nat)
      BY <3>2
    <3> QED BY <3>1, <3>2, <3>3
  <2> QED BY <1>0, <1>6, <2>1 DEF Drain, TypeInv, workerVars, airVars, pipeVars
<1>7. CASE Open \/ Close
  <2>1. host' \in {"close", "reap"}
    BY <1>7 DEF Open, Close, CloseThen
  <2> QED BY <1>0, <1>7, <2>1 DEF Open, Close, TypeInv, Calls, workerVars, airVars
<1>8. CASE Write
  <2>1. host' \in {"write", "close", "reap"}
    BY <1>8 DEF Write, CloseThen
  <2> QED BY <1>0, <1>8, <2>1 DEF Write, TypeInv, Calls, workerVars, airVars
<1> QED BY <1>1, <1>2, <1>3, <1>4, <1>5, <1>6, <1>7, <1>8 DEF HostCall, HostBegins

\* A message that is said is the last in the pipe.
LEMMA SaidLast ==
    ASSUME toHost \in Seq(Messages), NEW m \in Messages, Say(m)
    PROVE  /\ toHost' = Append(toHost, m) /\ toHost' \in Seq(Messages)
           /\ Len(toHost) \in Nat /\ Len(toHost') = Len(toHost) + 1
           /\ toHost'[Len(toHost) + 1] = m
           /\ \A i \in 1..Len(toHost) : toHost'[i] = toHost[i]
BY DEF Say

LEMMA MessagesMade ==
    /\ \A k \in Calls \cup {"closed", "error"} : Msg(k) \in Messages /\ Msg(k).bytes = <<>>
                                                 /\ Msg(k).kind = k
    /\ \A b \in Seq(Nat) : [kind |-> "data", bytes |-> b] \in Messages
<1>1. <<>> \in Seq(Nat)
  OBVIOUS
<1> QED BY <1>1 DEF Msg, Messages

\* Of the steps of the worker: what it says, and what it leaves alone.
LEMMA WorkerSays ==
    ASSUME TypeInv, WorkerStarts \/ SendData \/ Check \/ DoWrite \/ DoClose, toHost' # toHost
    PROVE  \E m \in Messages :
              /\ Say(m)
              /\ \/ m.bytes = data /\ data' = <<>> /\ m.kind = "data" /\ worker = "send"
                    /\ worker' = "check"
                 \/ m.bytes = <<>> /\ data' = data /\ m.kind # "data"
              /\ m.kind = "open" => worker = "start"
              /\ m.kind \in {"closed", "error"} => worker' \in {"over", "ended"}
              /\ m.kind = "closed" => worker' = "over"
              /\ m.kind = "write" <=> worker = "write" /\ worker' = "turn"
              /\ m.kind = "write" <=> written' # written
<1>1. data \in Seq(Nat) /\ written \in Nat
  BY DEF TypeInv
<1>2. CASE WorkerStarts
  <2>1. PICK k \in {"open", "error"} : Say(Msg(k)) /\ worker' = (IF k = "open" THEN "turn" ELSE "ended")
    BY <1>2 DEF WorkerStarts
  <2>2. UNCHANGED <<data, written>> /\ worker = "start"
    BY <1>2 DEF WorkerStarts
  <2> QED BY <2>1, <2>2, MessagesMade DEF Calls
<1>3. CASE SendData
  <2>1. PICK m : m = [kind |-> "data", bytes |-> data]
    OBVIOUS
  <2>2. Say(m) /\ UNCHANGED written /\ data' = <<>> /\ worker' = "check" /\ worker = "send"
    BY <1>3, <2>1 DEF SendData
  <2>3. m \in Messages /\ m.kind = "data" /\ m.bytes = data
    BY <1>1, <2>1, MessagesMade
  <2> QED BY <2>2, <2>3
<1>4. CASE Check
  <2>1. Say(Msg("closed")) /\ worker' = "over" /\ UNCHANGED <<data, written>> /\ worker = "check"
    BY <1>4 DEF Check, pipeVars
  <2> QED BY <2>1, MessagesMade
<1>5. CASE DoWrite
  <2>1. PICK k \in {"write", "error"} :
           /\ Say(Msg(k)) /\ worker' = (IF k = "write" THEN "turn" ELSE "ended")
           /\ written' = (IF k = "write" THEN written + 1 ELSE written)
    BY <1>5 DEF DoWrite
  <2>2. data' = data /\ worker = "write" /\ written + 1 # written
    BY <1>1, <1>5 DEF DoWrite
  <2> QED BY <2>1, <2>2, MessagesMade DEF Calls
<1>6. CASE DoClose
  <2>1. Say(Msg("close")) /\ worker' = "ended" /\ UNCHANGED <<data, written>> /\ worker = "close"
    BY <1>6 DEF DoClose
  <2> QED BY <2>1, MessagesMade DEF Calls
<1> QED BY <1>2, <1>3, <1>4, <1>5, <1>6

-----------------------------------------------------------------------------
(* The way of the bytes.                                                   *)

\* The bytes that were sent and not returned yet follow one another through
\* the buffer of the host, the pipe, the worker and the air.
Underway ==
    \E a, b, c, d \in Nat : \E f :
        /\ Run(out, 0, a)
        /\ Run(rx, a, b)
        /\ Carries(f, toHost, b, c)
        /\ Run(data, c, d)
        /\ Run(air, d, Len(sent))

\* A connection that is not there is left by close() only, with no bytes; the
\* first message of a worker comes before all bytes.
FlowInv ==
    /\ Run(sent, 0, Len(sent))
    /\ \E a \in 0..Len(sent) : Run(out, 0, a)
    /\ IF conn THEN Underway ELSE rx = <<>> /\ host \in {"idle", "reap", "spawn"}
    /\ host = "spawn" => ~conn
    /\ worker = "start" => toHost = <<>> /\ rx = <<>>
    /\ data # <<>> => worker \in {"send", "ended", "none"}
    /\ \A i \in 1..Len(toHost) :
          /\ toHost[i].kind # "data" => toHost[i].bytes = <<>>
          /\ toHost[i].kind = "open" => i = 1 /\ rx = <<>>

LEMMA FlowUntouched ==
    ASSUME FlowInv, UNCHANGED <<out, rx, toHost, data, air, sent, conn>>,
           host' \in {"idle", "reap"} \/ (host' # "spawn" /\ conn),
           worker' = "start" => worker = "start",
           data # <<>> => worker' \in {"send", "ended", "none"}
    PROVE  FlowInv'
BY DEF FlowInv, Underway

LEMMA FlowSame ==
    ASSUME FlowInv, UNCHANGED <<out, rx, toHost, data, air, sent, conn, host>>,
           worker' = "start" => worker = "start",
           data # <<>> => worker' \in {"send", "ended", "none"}
    PROVE  FlowInv'
BY DEF FlowInv, Underway

\* What is returned after a step are bytes that were sent.
LEMMA OutAfter ==
    ASSUME Underway', Run(sent, 0, Len(sent))'
    PROVE  (\E a \in 0..Len(sent) : Run(out, 0, a))'
<1>1. PICK a, b, c, d, f :
        /\ a \in Nat /\ b \in Nat /\ c \in Nat /\ d \in Nat
        /\ Run(out', 0, a) /\ Run(rx', a, b) /\ Carries(f, toHost', b, c)
        /\ Run(data', c, d) /\ Run(air', d, Len(sent'))
  BY DEF Underway
<1>2. a <= b /\ c <= d /\ d <= Len(sent') /\ Len(sent') \in Nat
  BY <1>1 DEF Run
<1>3. b <= c
  <2>1. f \in [0..Len(toHost') -> 0..c] /\ f[0] = b /\ f[Len(toHost')] = c
    BY <1>1 DEF Carries
  <2>2. Len(toHost') \in Nat /\ 0 \in 0..Len(toHost')
    BY <2>1
  <2> QED BY <1>1, <2>1, <2>2
<1> QED BY <1>1, <1>2, <1>3


\* A message is taken: its bytes are behind those in the buffer.
LEMMA TakeFlow ==
    ASSUME TypeInv, FlowInv, Take
    PROVE  FlowInv'
<1>1. /\ Head(toHost) \in Messages /\ toHost' = Tail(toHost) /\ toHost # <<>>
      /\ toHost \in Seq(Messages) /\ Head(toHost) = toHost[1] /\ 1 \in 1..Len(toHost)
      /\ \A i \in 1..Len(toHost') : toHost'[i] = toHost[i + 1] /\ i + 1 \in 1..Len(toHost)
      /\ UNCHANGED <<conn, out, worker, data, air, sent>>
  BY TakeParts DEF TypeInv
<1>2. rx \in Seq(Nat) /\ rx \o <<>> = rx
  BY DEF TypeInv
<1>3. rx' = rx \o Head(toHost).bytes
  <2>1. CASE Head(toHost).kind = "data"
    BY <2>1 DEF Take
  <2>2. CASE Head(toHost).kind # "data"
    <3>1. Head(toHost).bytes = <<>> /\ (Head(toHost).kind = "open" => rx = <<>>)
      BY <1>1, <2>2 DEF FlowInv
    <3>2. rx' = rx \/ (rx' = <<>> /\ Head(toHost).kind = "open")
      BY <2>2 DEF Take
    <3> QED BY <1>2, <3>1, <3>2
  <2> QED BY <2>1, <2>2
<1>4. conn /\ host' # "spawn"
  <2>1. host \in Calls \cup {"read"}
    BY DEF Take
  <2>2. conn
    BY <2>1 DEF FlowInv, Calls
  <2>3. host' # "spawn"
    BY <2>1, RaiseTypes DEF Take, Calls
  <2> QED BY <2>2, <2>3
<1>5. Underway'
  <2>1. PICK a, b, c, d, f :
        /\ a \in Nat /\ b \in Nat /\ c \in Nat /\ d \in Nat
          /\ Run(out, 0, a) /\ Run(rx, a, b) /\ Carries(f, toHost, b, c)
          /\ Run(data, c, d) /\ Run(air, d, Len(sent))
    BY <1>4 DEF FlowInv, Underway
  <2>2. PICK e, g : e \in Nat /\ Run(Head(toHost).bytes, b, e) /\ Carries(g, Tail(toHost), e, c)
    BY <1>1, <2>1, MessageTaken
  <2>3. Run(rx', a, e)
    BY <1>3, <2>1, <2>2, RunJoined
  <2> QED BY <1>1, <2>1, <2>2, <2>3 DEF Underway
<1>6. \A i \in 1..Len(toHost') : toHost'[i].kind # "open"
  <2> SUFFICES ASSUME NEW i \in 1..Len(toHost'), toHost'[i].kind = "open" PROVE FALSE
    OBVIOUS
  <2>1. i + 1 \in 1..Len(toHost) /\ toHost[i + 1].kind = "open" /\ i + 1 # 1
    BY <1>1
  <2> QED BY <2>1 DEF FlowInv
<1>7. \A i \in 1..Len(toHost') : toHost'[i].kind # "data" => toHost'[i].bytes = <<>>
  BY <1>1 DEF FlowInv
<1>8. /\ Run(sent, 0, Len(sent))' /\ (\E a \in 0..Len(sent) : Run(out, 0, a))'
      /\ (data # <<>> => worker \in {"send", "ended", "none"})'
      /\ worker' # "start"
  BY <1>1 DEF FlowInv
<1> QED BY <1>1, <1>4, <1>5, <1>6, <1>7, <1>8 DEF FlowInv

\* Bytes are returned from the buffer.
LEMMA DrainFlow ==
    ASSUME TypeInv, FlowInv, Drain
    PROVE  FlowInv'
<1>1. PICK n \in 0..Len(rx) : out' = out \o SubSeq(rx, 1, n) /\ rx' = SubSeq(rx, n + 1, Len(rx))
  BY DEF Drain, Rest
<1>2. host' = "idle" /\ UNCHANGED <<conn, worker, data, air, sent, toHost>>
  BY DEF Drain, workerVars, airVars, pipeVars
<1>3. conn
  BY DEF Drain, FlowInv
<1>4. Underway'
  <2>1. PICK a, b, c, d, f :
        /\ a \in Nat /\ b \in Nat /\ c \in Nat /\ d \in Nat
          /\ Run(out, 0, a) /\ Run(rx, a, b) /\ Carries(f, toHost, b, c)
          /\ Run(data, c, d) /\ Run(air, d, Len(sent))
    BY <1>3 DEF FlowInv, Underway
  <2>2. Run(SubSeq(rx, 1, n), a, a + n) /\ Run(SubSeq(rx, n + 1, Len(rx)), a + n, b)
    BY <2>1, RunParts
  <2>3. a + n \in Nat
    BY <2>2 DEF Run
  <2>4. Run(out', 0, a + n) /\ Run(rx', a + n, b)
    BY <1>1, <2>1, <2>2, RunJoined
  <2> QED BY <1>2, <2>1, <2>3, <2>4 DEF Underway
<1>5. Run(sent, 0, Len(sent))'
  BY <1>2 DEF FlowInv
<1>6. (\E a \in 0..Len(sent) : Run(out, 0, a))'
  BY <1>4, <1>5, OutAfter
<1>7. rx = <<>> => rx' = <<>>
  BY <1>1
<1> QED BY <1>2, <1>3, <1>4, <1>5, <1>6, <1>7 DEF FlowInv

\* The other steps of the host: between Reap and Spawn there are no bytes.
LEMMA HostFlow ==
    ASSUME TypeInv, FlowInv, HostCall \/ HostBegins
    PROVE  FlowInv'
<1>1. CASE Reap
  <2>1. /\ host' \in {"idle", "spawn"} /\ rx' = <<>> /\ conn' = FALSE /\ worker' = "none"
        /\ UNCHANGED <<out, toHost, data, sent>>
    BY <1>1 DEF Reap, TypeInv, WorkerInv, workerVars, airVars, pipeVars
  <2> QED BY <2>1 DEF FlowInv
<1>2. CASE Spawn
  <2>1. rx = <<>>
    BY <1>2 DEF Spawn, FlowInv
  <2>2. /\ host' = "open" /\ conn' = TRUE /\ worker' = "start" /\ rx' = <<>> /\ out' = <<>>
        /\ toHost' = <<>> /\ data' = <<>> /\ air' = <<>> /\ sent' = <<>>
    BY <1>2, <2>1 DEF Spawn
  <2>3. Run(<<>>, 0, 0) /\ Len(<<>>) = 0 /\ \E f : Carries(f, <<>>, 0, 0)
    BY RunNone, NoMessage
  <2>4. Underway'
    BY <2>2, <2>3 DEF Underway
  <2>5. Run(sent, 0, Len(sent))' /\ (\E a \in 0..Len(sent) : Run(out, 0, a))'
    BY <2>2, <2>3
  <2>6. \A i \in 1..Len(toHost') : FALSE
    BY <2>2
  <2> QED BY <2>2, <2>4, <2>5, <2>6 DEF FlowInv
<1>3. CASE Take
  BY <1>3, TakeFlow
<1>4. CASE Drain
  BY <1>4, DrainFlow
<1>5. CASE Broken \/ TimesOut
  <2>1. conn
    BY <1>5 DEF Broken, TimesOut, FlowInv, Calls
  <2>2. host' # "spawn" /\ UNCHANGED <<out, rx, toHost, data, air, sent, conn, worker>>
    BY <1>5, RaiseTypes DEF Broken, TimesOut, workerVars, airVars
  <2> QED BY <2>1, <2>2, FlowUntouched DEF FlowInv
<1>6. CASE NothingMore \/ Read
  <2>1. conn
    BY <1>6 DEF NothingMore, Read, FlowInv
  <2>2. host' # "spawn" /\ UNCHANGED <<out, rx, toHost, data, air, sent, conn, worker>>
    BY <1>6 DEF NothingMore, Read, workerVars, airVars, pipeVars
  <2> QED BY <2>1, <2>2, FlowUntouched DEF FlowInv
<1>7. CASE Open \/ Close \/ Write
  <2>1. UNCHANGED <<out, rx, toHost, data, air, sent, conn, worker>>
    BY <1>7 DEF Open, Close, Write, workerVars, airVars
  <2>2. host' # "spawn" /\ (host' = "reap" \/ conn)
    BY <1>7 DEF Open, Close, Write, CloseThen
  <2> QED BY <2>1, <2>2, FlowUntouched DEF FlowInv
<1> QED BY <1>1, <1>2, <1>3, <1>4, <1>5, <1>6, <1>7 DEF HostCall, HostBegins

\* A message is said: it carries the bytes read, or none.
LEMMA SayFlow ==
    ASSUME TypeInv, FlowInv, WorkerStarts \/ SendData \/ Check \/ DoWrite \/ DoClose,
           toHost' # toHost
    PROVE  FlowInv'
<1>1. PICK m \in Messages :
        /\ Say(m)
        /\ \/ m.bytes = data /\ data' = <<>> /\ m.kind = "data" /\ worker = "send"
              /\ worker' = "check"
           \/ m.bytes = <<>> /\ data' = data /\ m.kind # "data"
        /\ m.kind = "open" => worker = "start"
  BY WorkerSays
<1>2. toHost \in Seq(Messages) /\ data \in Seq(Nat)
  BY DEF TypeInv
<1>3. /\ toHost' = Append(toHost, m) /\ Len(toHost) \in Nat /\ Len(toHost') = Len(toHost) + 1
      /\ toHost'[Len(toHost) + 1] = m
      /\ \A i \in 1..Len(toHost) : toHost'[i] = toHost[i]
  BY <1>1, <1>2, SaidLast
<1>4. UNCHANGED <<host, conn, rx, out, air, sent>> /\ worker' # "start"
  BY DEF WorkerStarts, SendData, Check, DoWrite, DoClose, hostVars, airVars, TypeInv, WorkerInv
<1>5. conn => Underway'
  <2> SUFFICES ASSUME conn PROVE Underway'
    OBVIOUS
  <2>1. PICK a, b, c, d, f :
          /\ a \in Nat /\ b \in Nat /\ c \in Nat /\ d \in Nat
          /\ Run(out, 0, a) /\ Run(rx, a, b) /\ Carries(f, toHost, b, c)
          /\ Run(data, c, d) /\ Run(air, d, Len(sent))
    BY DEF FlowInv, Underway
  <2>2. CASE m.bytes = data /\ data' = <<>>
    <3>1. PICK g : Carries(g, Append(toHost, m), b, d)
      <4>1. Run(m.bytes, c, d)
        BY <2>1, <2>2
      <4> QED BY <1>2, <2>1, <4>1, MessageSaid
    <3>2. Run(data', d, d)
      BY <2>1, <2>2, RunNone
    <3> QED BY <1>3, <1>4, <2>1, <3>1, <3>2 DEF Underway
  <2>3. CASE m.bytes = <<>> /\ data' = data
    <3>1. PICK g : Carries(g, Append(toHost, m), b, c)
      <4>1. Run(m.bytes, c, c)
        BY <2>1, <2>3, RunNone
      <4> QED BY <1>2, <2>1, <4>1, MessageSaid
    <3> QED BY <1>3, <1>4, <2>1, <2>3, <3>1 DEF Underway
  <2> QED BY <1>1, <2>2, <2>3
<1>6. data' # <<>> => worker' \in {"send", "ended", "none"}
  <2>1. data' # <<>> => data' = data /\ m.kind # "data"
    BY <1>1
  <2>2. data # <<>> => worker \in {"send", "ended", "none"}
    BY DEF FlowInv
  <2>3. CASE SendData
    BY <2>3 DEF SendData
  <2>4. CASE ~SendData
    <3>1. worker \in {"start", "check", "write", "close"} /\ data' = data
      BY <2>4 DEF WorkerStarts, Check, DoWrite, DoClose
    <3> QED BY <2>2, <3>1
  <2> QED BY <2>3, <2>4
<1>7. ASSUME NEW i \in 1..Len(toHost')
      PROVE  /\ toHost'[i].kind # "data" => toHost'[i].bytes = <<>>
             /\ toHost'[i].kind = "open" => i = 1 /\ rx' = <<>>
  <2>1. CASE i \in 1..Len(toHost)
    BY <1>3, <1>4, <2>1 DEF FlowInv
  <2>2. CASE i = Len(toHost) + 1
    <3>1. m.kind = "open" => toHost = <<>> /\ rx = <<>>
      BY <1>1 DEF FlowInv
    <3>2. toHost'[i] = m
      BY <1>3, <2>2
    <3>3. toHost = <<>> => i = 1
      BY <2>2
    <3> QED BY <1>1, <1>4, <3>1, <3>2, <3>3
  <2>3. i \in 1..Len(toHost) \/ i = Len(toHost) + 1
    BY <1>3
  <2> QED BY <2>1, <2>2, <2>3
<1>8. Run(sent, 0, Len(sent))' /\ (\E a \in 0..Len(sent) : Run(out, 0, a))'
  BY <1>4 DEF FlowInv
<1>9. IF conn' THEN Underway' ELSE rx' = <<>> /\ host' \in {"idle", "reap", "spawn"}
  BY <1>4, <1>5 DEF FlowInv
<1> QED BY <1>4, <1>6, <1>7, <1>8, <1>9 DEF FlowInv

\* The run loop takes bytes from the air.
LEMMA TurnFlow ==
    ASSUME TypeInv, FlowInv, Turn
    PROVE  FlowInv'
<1>1. PICK n \in 0..Len(air) : data' = SubSeq(air, 1, n) /\ air' = SubSeq(air, n + 1, Len(air))
  BY DEF Turn
<1>2. /\ UNCHANGED <<host, conn, rx, out, toHost, sent>> /\ worker = "turn" /\ worker' = "send"
  BY DEF Turn, hostVars, pipeVars
<1>3. conn => Underway'
  <2> SUFFICES ASSUME conn PROVE Underway'
    OBVIOUS
  <2>1. PICK a, b, c, d, f :
          /\ a \in Nat /\ b \in Nat /\ c \in Nat /\ d \in Nat
          /\ Run(out, 0, a) /\ Run(rx, a, b) /\ Carries(f, toHost, b, c)
          /\ Run(data, c, d) /\ Run(air, d, Len(sent))
    BY DEF FlowInv, Underway
  <2>2. c = d
    <3>1. data = <<>>
      BY <1>2 DEF FlowInv
    <3> QED BY <2>1, <3>1, RunNone
  <2>3. Run(data', d, d + n) /\ Run(air', d + n, Len(sent))
    BY <1>1, <2>1, RunParts
  <2>4. d + n \in Nat
    BY <2>1
  <2> QED BY <1>2, <2>1, <2>2, <2>3, <2>4 DEF Underway
<1>4. IF conn' THEN Underway' ELSE rx' = <<>> /\ host' \in {"idle", "reap", "spawn"}
  BY <1>2, <1>3 DEF FlowInv
<1> QED BY <1>2, <1>4 DEF FlowInv

\* The device sends a byte.
LEMMA SendFlow ==
    ASSUME TypeInv, FlowInv, DeviceSends
    PROVE  FlowInv'
<1>1. /\ air' = Append(air, Len(sent) + 1) /\ sent' = Append(sent, Len(sent) + 1)
      /\ UNCHANGED <<host, conn, rx, out, toHost, data, worker>>
  BY DEF DeviceSends, hostVars, workerVars, pipeVars
<1>2. sent \in Seq(Nat) /\ Len(sent) \in Nat /\ Len(sent') = Len(sent) + 1
  BY <1>1 DEF TypeInv
<1>3. Run(sent', 0, Len(sent) + 1)
  BY <1>1, RunOneMore DEF FlowInv
<1>4. (\E a \in 0..Len(sent) : Run(out, 0, a))'
  <2>1. PICK a \in 0..Len(sent) : Run(out, 0, a)
    BY DEF FlowInv
  <2>2. a \in 0..Len(sent')
    BY <1>2
  <2> QED BY <1>1, <2>1, <2>2
<1>5. conn => Underway'
  <2> SUFFICES ASSUME conn PROVE Underway'
    OBVIOUS
  <2>1. PICK a, b, c, d, f :
          /\ a \in Nat /\ b \in Nat /\ c \in Nat /\ d \in Nat
          /\ Run(out, 0, a) /\ Run(rx, a, b) /\ Carries(f, toHost, b, c)
          /\ Run(data, c, d) /\ Run(air, d, Len(sent))
    BY DEF FlowInv, Underway
  <2>2. Run(air', d, Len(sent'))
    BY <1>1, <1>2, <2>1, RunOneMore
  <2> QED BY <1>1, <2>1, <2>2 DEF Underway
<1>6. IF conn' THEN Underway' ELSE rx' = <<>> /\ host' \in {"idle", "reap", "spawn"}
  BY <1>1, <1>5 DEF FlowInv
<1> QED BY <1>1, <1>2, <1>3, <1>4, <1>6 DEF FlowInv

LEMMA WorkerFlow ==
    ASSUME TypeInv, FlowInv, WorkerStep \/ DeviceSends \/ ChannelLost \/ WorkerDies
    PROVE  FlowInv'
<1>1. CASE Turn
  BY <1>1, TurnFlow
<1>2. CASE DeviceSends
  BY <1>2, SendFlow
<1>3. CASE WorkerStarts \/ SendData \/ Check \/ DoWrite \/ DoClose
  <2>1. CASE toHost' # toHost
    BY <1>3, <2>1, SayFlow
  <2>2. CASE toHost' = toHost
    <3>1. CASE SendData
      <4>1. data = <<>> /\ data' = <<>> /\ worker' = "check"
            /\ UNCHANGED <<host, conn, rx, out, air, sent>>
        <5>1. ~Say([kind |-> "data", bytes |-> data])
          <6>1. toHost \in Seq(Messages) /\ [kind |-> "data", bytes |-> data] \in Messages
            BY MessagesMade DEF TypeInv
          <6>2. PICK m \in Messages : m = [kind |-> "data", bytes |-> data]
            BY <6>1
          <6>3. Say(m) => Len(toHost') = Len(toHost) + 1 /\ Len(toHost) \in Nat
            BY <6>1, SaidLast
          <6> QED BY <2>2, <6>2, <6>3
        <5> QED BY <3>1, <5>1 DEF SendData, hostVars, airVars
      <4> QED BY <2>2, <4>1, FlowSame
    <3>2. CASE ~SendData
      <4>1. UNCHANGED <<host, conn, rx, out, data, air, sent>> /\ worker # "send"
            /\ worker' # "start"
        <5>1. toWorker # <<>> => Head(toWorker) \in {"write", "close"}
          BY DEF TypeInv, WorkerInv
        <5>2. CASE Check
          BY <5>1, <5>2 DEF Check, hostVars, airVars
        <5>3. CASE WorkerStarts \/ DoWrite \/ DoClose
          BY <5>3 DEF WorkerStarts, DoWrite, DoClose, hostVars, airVars
        <5> QED BY <1>3, <3>2, <5>2, <5>3
      <4>2. data = <<>> \/ worker' = "none"
        BY <1>3, <3>2 DEF FlowInv, WorkerStarts, Check, DoWrite, DoClose
      <4> QED BY <2>2, <4>1, <4>2, FlowSame
    <3> QED BY <3>1, <3>2
  <2> QED BY <2>1, <2>2
<1>4. CASE ChannelLost \/ WorkerDies
  <2>1. /\ UNCHANGED <<host, conn, rx, out, toHost, data, air, sent>>
        /\ worker' \in {worker, "ended"}
    BY <1>4 DEF ChannelLost, WorkerDies, hostVars, workerVars, airVars, pipeVars
  <2>2. data # <<>> => worker' \in {"send", "ended", "none"}
    BY <2>1 DEF FlowInv
  <2> QED BY <2>1, <2>2, FlowSame
<1> QED BY <1>1, <1>2, <1>3, <1>4 DEF WorkerStep

LEMMA WorkerTypes ==
    ASSUME TypeInv, WorkerStep \/ DeviceSends \/ ChannelLost \/ WorkerDies
    PROVE  TypeInv'
<1>0. WorkerInv'
  BY WorkerKeepsWorker DEF TypeInv
<1>1. UNCHANGED <<host, conn, closed, rx, out, writes>>
  BY DEF WorkerStep, WorkerStarts, Turn, SendData, Check, DoWrite, DoClose, DeviceSends,
         ChannelLost, WorkerDies, hostVars
<1>2. toHost' \in Seq(Messages)
  <2>1. CASE toHost' = toHost
    BY <2>1 DEF TypeInv
  <2>2. CASE toHost' # toHost
    <3>1. WorkerStarts \/ SendData \/ Check \/ DoWrite \/ DoClose
      BY <2>2 DEF WorkerStep, Turn, DeviceSends, ChannelLost, WorkerDies, pipeVars
    <3>2. PICK m \in Messages : Say(m)
      BY <2>2, <3>1, WorkerSays
    <3> QED BY <3>2, SaidLast DEF TypeInv
  <2> QED BY <2>1, <2>2
<1>3. CASE Turn
  <2>1. PICK n \in 0..Len(air) : data' = SubSeq(air, 1, n) /\ air' = SubSeq(air, n + 1, Len(air))
    BY <1>3 DEF Turn
  <2>2. data' \in Seq(Nat) /\ air' \in Seq(Nat)
    <3>1. air \in Seq(Nat) /\ Len(air) \in Nat
      BY DEF TypeInv
    <3>2. SubSeq(air, 1, n) \in Seq(Nat) /\ SubSeq(air, n + 1, Len(air)) \in Seq(Nat)
      BY <3>1
    <3> QED BY <2>1, <3>2
  <2>3. ended' \in BOOLEAN /\ UNCHANGED <<lost, sent, written>>
    BY <1>3 DEF Turn, TypeInv
  <2> QED BY <1>0, <1>1, <1>2, <2>2, <2>3 DEF TypeInv
<1>4. CASE DeviceSends
  <2>1. air' \in Seq(Nat) /\ sent' \in Seq(Nat)
    BY <1>4 DEF DeviceSends, TypeInv
  <2> QED BY <1>0, <1>1, <1>2, <1>4, <2>1 DEF DeviceSends, TypeInv, workerVars
<1>5. CASE WorkerStarts \/ SendData \/ Check \/ DoWrite \/ DoClose \/ ChannelLost \/ WorkerDies
  <2>1. UNCHANGED <<air, sent, ended>> /\ (lost' = lost \/ lost' = TRUE) /\ data' \in {data, <<>>}
        /\ written' \in {written, written + 1}
    BY <1>5 DEF WorkerStarts, SendData, Check, DoWrite, DoClose, ChannelLost, WorkerDies,
                airVars, workerVars
  <2>2. data' \in Seq(Nat) /\ written' \in Nat /\ lost' \in BOOLEAN
    <3>1. data \in Seq(Nat) /\ <<>> \in Seq(Nat) /\ written \in Nat /\ lost \in BOOLEAN
      BY DEF TypeInv
    <3>2. written + 1 \in Nat
      BY <3>1
    <3> QED BY <2>1, <3>1, <3>2
  <2> QED BY <1>0, <1>1, <1>2, <2>1, <2>2 DEF TypeInv
<1> QED BY <1>3, <1>4, <1>5 DEF WorkerStep

\* Types and the way of the bytes are inductive together.
THEOREM BytesInOrder == Spec => [](TypeInv /\ FlowInv)
<1>1. Init => TypeInv /\ FlowInv
  <2> SUFFICES ASSUME Init PROVE TypeInv /\ FlowInv
    OBVIOUS
  <2>1. <<>> \in Seq(Nat) /\ <<>> \in Seq(Messages) /\ <<>> \in Seq({"write", "close"})
    OBVIOUS
  <2>2. TypeInv
    BY <2>1 DEF Init, TypeInv, WorkerInv
  <2>3. Run(<<>>, 0, 0) /\ Len(<<>>) = 0
    BY RunNone
  <2>4. \A i \in 1..Len(toHost) : FALSE
    BY <2>3 DEF Init
  <2>5. Run(sent, 0, Len(sent)) /\ \E a \in 0..Len(sent) : Run(out, 0, a)
    BY <2>3 DEF Init
  <2>6. FlowInv
    BY <2>4, <2>5 DEF Init, FlowInv
  <2> QED BY <2>2, <2>6
<1>2. TypeInv /\ FlowInv /\ [Next]_vars => TypeInv' /\ FlowInv'
  <2>1. TypeInv /\ Next => TypeInv'
    BY HostTypes, WorkerTypes DEF Next
  <2>2. TypeInv /\ FlowInv /\ Next => FlowInv'
    BY HostFlow, WorkerFlow DEF Next
  <2>3. TypeInv /\ FlowInv /\ UNCHANGED vars => TypeInv' /\ FlowInv'
    <3> SUFFICES ASSUME TypeInv, FlowInv, UNCHANGED vars PROVE TypeInv' /\ FlowInv'
      OBVIOUS
    <3>1. UNCHANGED <<host, after, conn, closed, rx, out, writes, worker, ended, data, written, air,
                      lost, sent, toHost, toWorker>>
      BY DEF vars, hostVars, workerVars, airVars, pipeVars
    <3>2. TypeInv'
      BY <3>1 DEF TypeInv, WorkerInv
    <3>3. FlowInv'
      BY <3>1, FlowSame DEF FlowInv
    <3> QED BY <3>2, <3>3
  <2> QED BY <2>1, <2>2, <2>3
<1> QED BY <1>1, <1>2, PTL DEF Spec

-----------------------------------------------------------------------------
(* MacChannel implements ByteChannel.                                      *)

LEMMA DrainReceives ==
    ASSUME TypeInv, FlowInv, FlowInv', Drain, out' # out
    PROVE  Channel!Receive
<1>1. UNCHANGED sent
  BY DEF Drain, airVars
<1>2. PICK a \in 0..Len(sent) : Run(out', 0, a)
  BY <1>1 DEF FlowInv
<1>3. Run(sent, 0, Len(sent))
  BY DEF FlowInv
<1>4. out' \in Channel!Prefixes(sent)
  <2>1. Len(out') \in 0..Len(sent) /\ out' = SubSeq(sent, 1, Len(out'))
    BY <1>2, <1>3, RunPrefix
  <2> QED BY <2>1, Zenon DEF Channel!Prefixes
<1>5. PICK b \in 0..Len(sent) : Run(out, 0, b)
  BY DEF FlowInv
<1>6. b <= a
  <2>1. PICK n \in 0..Len(rx) : out' = out \o SubSeq(rx, 1, n)
    BY DEF Drain
  <2>2. Len(out') = Len(out) + n /\ Len(out) = b /\ Len(out') = a /\ n \in Nat
    <3>1. rx \in Seq(Nat) /\ out \in Seq(Nat) /\ Len(rx) \in Nat
      BY DEF TypeInv
    <3>2. SubSeq(rx, 1, n) \in Seq(Nat) /\ Len(SubSeq(rx, 1, n)) = n
      BY <3>1
    <3>3. Len(out') = Len(out) + Len(SubSeq(rx, 1, n))
      BY <2>1, <3>1, <3>2, Joined
    <3>4. Len(out) = b /\ Len(out') = a
      BY <1>2, <1>5 DEF Run
    <3> QED BY <3>2, <3>3, <3>4
  <2> QED BY <1>2, <1>5, <2>2
<1>7. Channel!IsStrictPrefix(out, out')
  <2>1. Len(out) \in 0..Len(out') /\ out = SubSeq(out', 1, Len(out)) /\ SubSeq(out, 1, Len(out)) = out
    BY <1>2, <1>5, <1>6, RunPrefix
  <2>2. Len(out) <= Len(out')
    BY <2>1
  <2> QED BY <2>1, <2>2 DEF Channel!IsStrictPrefix, Channel!IsPrefix
<1> QED BY <1>1, <1>4, <1>7 DEF Channel!Receive

LEMMA ChannelStep ==
    ASSUME TypeInv, FlowInv, FlowInv', [Next]_vars
    PROVE  [Channel!Transmit \/ Channel!Receive \/ Channel!Reopen]_<<sent, out>>
<1>1. CASE Drain
  <2>1. UNCHANGED sent
    BY <1>1 DEF Drain, airVars
  <2> QED BY <1>1, <2>1, DrainReceives
<1>2. CASE Spawn
  BY <1>2 DEF Spawn, Channel!Reopen
<1>3. CASE DeviceSends
  BY <1>3 DEF DeviceSends, hostVars, Channel!Transmit
<1>4. CASE HostBegins \/ Reap \/ Take \/ Broken \/ TimesOut \/ NothingMore
  BY <1>4 DEF HostBegins, Open, Write, Read, Close, Reap, Take, Broken, TimesOut, NothingMore, airVars
<1>5. CASE WorkerStep \/ ChannelLost \/ WorkerDies
  BY <1>5 DEF WorkerStep, WorkerStarts, Turn, SendData, Check, DoWrite, DoClose, ChannelLost,
              WorkerDies, hostVars, airVars
<1>6. CASE UNCHANGED vars
  BY <1>6 DEF vars, hostVars, airVars
<1> QED BY <1>1, <1>2, <1>3, <1>4, <1>5, <1>6 DEF Next, HostCall

\* What read() returns since the channel was opened are the bytes of the device
\* in order, none twice and none of an earlier opening, however the calls fail
\* and wherever the worker ends (_receive, read, close, open).
THEOREM ReadsInOrder == Spec => ImplementsChannel
<1>1. Init => Channel!Init
  BY DEF Init, Channel!Init
<1> QED BY <1>1, ChannelStep, BytesInOrder, PTL DEF Spec, ImplementsChannel, Channel!Spec

-----------------------------------------------------------------------------
(* The end of the channel.                                                 *)

\* The worker is over when it has no bytes and none are to come; the end, or an
\* error, is the last it says; and a channel that is closed outside open() and
\* close() was closed by the last message of a worker that is not there.
EndInv ==
    /\ ended => lost /\ air = <<>>
    /\ worker \in {"check", "over"} => data = <<>>
    /\ worker = "over" => ended
    /\ \A i \in 1..Len(toHost) :
          toHost[i].kind \in {"closed", "error"} => i = Len(toHost) /\ ~Alive
    /\ closed /\ conn /\ host \in {"idle", "read", "drain", "write"} => toHost = <<>> /\ ~Alive

\* A step of the host leaves the worker as it is, unless it reaps or starts it.
LEMMA HostKeepsEnd ==
    ASSUME TypeInv, FlowInv, EndInv, HostCall \/ HostBegins
    PROVE  EndInv'
<1>1. CASE Reap
  BY <1>1 DEF Reap, EndInv, Alive, airVars, pipeVars
<1>2. CASE Spawn
  <2>1. /\ toHost' = <<>> /\ ended' = FALSE /\ data' = <<>> /\ host' = "open" /\ worker' = "start"
    BY <1>2 DEF Spawn
  <2>2. \A i \in 1..Len(toHost') : FALSE
    BY <2>1
  <2> QED BY <2>1, <2>2 DEF EndInv
<1>3. CASE Take
  <2>1. /\ toHost # <<>> /\ Len(toHost) \in Nat /\ Len(toHost') = Len(toHost) - 1
        /\ Head(toHost) = toHost[1] /\ 1 \in 1..Len(toHost) /\ toHost' \in Seq(Messages)
        /\ \A i \in 1..Len(toHost') : toHost'[i] = toHost[i + 1] /\ i + 1 \in 1..Len(toHost)
        /\ UNCHANGED <<conn, worker, ended, data, air, lost>>
    BY <1>3, TakeParts
  <2>2. ASSUME NEW i \in 1..Len(toHost'), toHost'[i].kind \in {"closed", "error"}
        PROVE  i = Len(toHost') /\ ~Alive
    <3>1. i + 1 = Len(toHost) /\ ~Alive
      BY <2>1, <2>2 DEF EndInv
    <3> QED BY <2>1, <2>2, <3>1
  <2>3. conn
    BY <1>3 DEF Take, FlowInv, Calls
  <2>4. closed' /\ host' \in {"idle", "read", "drain", "write"} => toHost' = <<>> /\ ~Alive
    <3> SUFFICES ASSUME closed', host' \in {"idle", "read", "drain", "write"}
                 PROVE toHost' = <<>> /\ ~Alive
      OBVIOUS
    <3>1. CASE Head(toHost).kind \in {"closed", "error"}
      <4>1. 1 = Len(toHost) /\ ~Alive
        BY <2>1, <3>1 DEF EndInv
      <4>2. Len(toHost') = 0
        <5>1. Len(toHost') = Len(toHost) - 1
          BY <2>1
        <5> QED BY <4>1, <5>1
      <4> QED BY <2>1, <4>1, <4>2
    <3>2. CASE Head(toHost).kind \notin {"closed", "error"}
      <4>1. closed /\ host \in {"read", "write"}
        BY <1>3, <3>2 DEF Take, Calls
      <4> QED BY <2>1, <2>3, <4>1 DEF EndInv
    <3> QED BY <3>1, <3>2
  <2> QED BY <2>1, <2>2, <2>4 DEF EndInv, Alive
<1>4. CASE Broken
  <2>1. toHost = <<>> /\ ~Alive /\ UNCHANGED <<toHost, worker, ended, data, air, lost>>
    BY <1>4 DEF Broken, workerVars, airVars
  <2> QED BY <2>1 DEF EndInv, Alive
<1>5. CASE TimesOut
  <2>1. UNCHANGED <<toHost, conn, closed, worker, ended, data, air, lost>> /\ Alive
    BY <1>5 DEF TimesOut, workerVars, airVars
  <2>2. conn
    BY <1>5 DEF TimesOut, FlowInv, Calls
  <2>3. host' \in {"close", "reap"}
    BY <1>5, <2>1, <2>2 DEF TimesOut, Raise, CloseThen, Calls
  <2> QED BY <2>1, <2>3 DEF EndInv, Alive
<1>6. CASE NothingMore \/ Read \/ Drain
  <2>1. /\ UNCHANGED <<toHost, conn, closed, worker, ended, data, air, lost>>
        /\ host \in {"idle", "read", "drain"}
    BY <1>6 DEF NothingMore, Read, Drain, workerVars, airVars, pipeVars
  <2> QED BY <2>1 DEF EndInv, Alive
<1>7. CASE Open \/ Close \/ Write
  <2>1. UNCHANGED <<toHost, conn, closed, worker, ended, data, air, lost>>
    BY <1>7 DEF Open, Close, Write, workerVars, airVars
  <2>2. host' \in {"close", "reap"} \/ (host' = "write" /\ ~closed)
    BY <1>7 DEF Open, Close, Write, CloseThen
  <2> QED BY <2>1, <2>2 DEF EndInv, Alive
<1> QED BY <1>1, <1>2, <1>3, <1>4, <1>5, <1>6, <1>7 DEF HostCall, HostBegins

LEMMA WorkerKeepsEnd ==
    ASSUME TypeInv, FlowInv, EndInv, WorkerStep \/ DeviceSends \/ ChannelLost \/ WorkerDies
    PROVE  EndInv'
<1>0. UNCHANGED <<host, conn, closed>> /\ Alive
  BY DEF WorkerStep, WorkerStarts, Turn, SendData, Check, DoWrite, DoClose, DeviceSends,
         ChannelLost, WorkerDies, Alive, hostVars
<1>1. ~(closed /\ conn /\ host \in {"idle", "read", "drain", "write"})
  BY <1>0 DEF EndInv
<1>2. \A i \in 1..Len(toHost) : toHost[i].kind \notin {"closed", "error"}
  BY <1>0 DEF EndInv
<1>3. CASE Turn
  <2>1. PICK n \in 0..Len(air) :
          /\ air' = SubSeq(air, n + 1, Len(air))
          /\ ended' => lost /\ n = Len(air)
    BY <1>3 DEF Turn, TypeInv
  <2>2. n = Len(air) => air' = <<>>
    BY <2>1 DEF TypeInv
  <2>3. toHost' = toHost /\ worker' = "send" /\ lost' = lost
    BY <1>3 DEF Turn, pipeVars
  <2> QED BY <1>0, <1>1, <1>2, <2>1, <2>2, <2>3 DEF EndInv
<1>4. CASE DeviceSends
  <2>1. UNCHANGED <<toHost, ended, data, worker, lost>> /\ ~lost
    BY <1>4 DEF DeviceSends, workerVars, pipeVars
  <2> QED BY <1>0, <1>1, <1>2, <2>1 DEF EndInv
<1>5. CASE ChannelLost \/ WorkerDies
  <2>1. UNCHANGED <<toHost, ended, data, air>> /\ worker' \in {worker, "ended"} /\ (lost => lost')
    BY <1>5 DEF ChannelLost, WorkerDies, workerVars, airVars, pipeVars
  <2> QED BY <1>0, <1>1, <1>2, <2>1 DEF EndInv
<1>6. CASE WorkerStarts \/ SendData \/ Check \/ DoWrite \/ DoClose
  <2>1. UNCHANGED <<ended, air, lost>>
    BY <1>6 DEF WorkerStarts, SendData, Check, DoWrite, DoClose, airVars
  <2>2. toWorker # <<>> => Head(toWorker) \in {"write", "close"}
    BY DEF TypeInv, WorkerInv
  <2>3. worker' = "over" => worker = "check" /\ ended
    BY <1>6, <2>2 DEF WorkerStarts, SendData, Check, DoWrite, DoClose
  <2>4. worker' = "check" => data' = <<>>
    BY <1>6, <2>2 DEF WorkerStarts, SendData, Check, DoWrite, DoClose
  <2>5. worker = "check" => data' = <<>>
    BY <1>6 DEF WorkerStarts, SendData, Check, DoWrite, DoClose, EndInv
  <2>6. ASSUME NEW i \in 1..Len(toHost'), toHost'[i].kind \in {"closed", "error"}
        PROVE  i = Len(toHost') /\ worker' \in {"over", "ended"}
    <3>1. CASE toHost' = toHost
      BY <1>2, <2>6, <3>1
    <3>2. CASE toHost' # toHost
      <4>1. PICK m \in Messages : Say(m) /\ (m.kind \in {"closed", "error"} => worker' \in {"over", "ended"})
        BY <1>6, <3>2, WorkerSays
      <4>2. /\ Len(toHost) \in Nat /\ Len(toHost') = Len(toHost) + 1
            /\ toHost'[Len(toHost) + 1] = m
            /\ \A j \in 1..Len(toHost) : toHost'[j] = toHost[j]
        BY <4>1, SaidLast DEF TypeInv
      <4>3. i \notin 1..Len(toHost)
        BY <1>2, <2>6, <4>2
      <4>4. i = Len(toHost) + 1
        BY <4>2, <4>3
      <4> QED BY <2>6, <4>1, <4>2, <4>4
    <3> QED BY <3>1, <3>2
  <2> QED BY <1>0, <1>1, <2>1, <2>3, <2>4, <2>5, <2>6 DEF EndInv, Alive
<1> QED BY <1>3, <1>4, <1>5, <1>6 DEF WorkerStep

\* A reader that finds the channel closed and no bytes left has had every byte
\* sent before the end, unless the worker failed (_channel_worker, read).
THEOREM EndComesLast == Spec => []AllBeforeEnd
<1>1. Init => EndInv
  <2> SUFFICES ASSUME Init PROVE EndInv
    OBVIOUS
  <2>1. \A i \in 1..Len(toHost) : FALSE
    BY DEF Init
  <2> QED BY <2>1 DEF Init, EndInv
<1>2. TypeInv /\ FlowInv /\ EndInv /\ [Next]_vars => EndInv'
  <2>1. TypeInv /\ FlowInv /\ EndInv /\ Next => EndInv'
    BY HostKeepsEnd, WorkerKeepsEnd DEF Next
  <2>2. EndInv /\ UNCHANGED vars => EndInv'
    BY DEF vars, hostVars, workerVars, airVars, pipeVars, EndInv, Alive
  <2> QED BY <2>1, <2>2
<1>3. TypeInv /\ FlowInv /\ EndInv => AllBeforeEnd
  <2> SUFFICES ASSUME FlowInv, EndInv, host = "idle", conn, closed, worker = "over", rx = <<>>
               PROVE out = sent
    BY DEF AllBeforeEnd
  <2>1. toHost = <<>> /\ data = <<>> /\ air = <<>>
    BY DEF EndInv
  <2>2. PICK a, b, c, d, f :
          /\ a \in Nat /\ b \in Nat /\ c \in Nat /\ d \in Nat
          /\ Run(out, 0, a) /\ Run(rx, a, b) /\ Carries(f, toHost, b, c)
          /\ Run(data, c, d) /\ Run(air, d, Len(sent))
    BY DEF FlowInv, Underway
  <2>3. a = b /\ c = d /\ d = Len(sent)
    BY <2>1, <2>2, RunNone
  <2>4. b = c
    BY <2>1, <2>2, NoMessage
  <2>5. Run(out, 0, Len(sent)) /\ Run(sent, 0, Len(sent)) /\ Len(sent) <= Len(sent)
    BY <2>2, <2>3, <2>4 DEF FlowInv
  <2> QED BY <2>5, RunPrefix
<1> QED BY <1>1, <1>2, <1>3, BytesInOrder, PTL DEF Spec

-----------------------------------------------------------------------------
(* Acknowledgements.                                                       *)

\* No command is on its way, none is being done, and no write is acknowledged
\* that the host has not heard of.
Idle == toWorker = <<>> /\ worker \notin {"write", "close"}
NoAck == \A i \in 1..Len(toHost) : toHost[i].kind # "write"

\* Every write but the one in progress has been taken and acknowledged.
Quiet == Idle /\ NoAck /\ written = writes

\* A write that waits for its acknowledgement: the command is on its way, or is
\* being done or was lost with the worker, or has been done.
Commanded == toWorker = <<"write">> /\ worker \notin {"write", "close"} /\ NoAck /\ written + 1 = writes
AtWork    == toWorker = <<>> /\ worker \in {"write", "ended"} /\ NoAck /\ written + 1 = writes
Acked     == /\ Idle /\ written = writes
             /\ \A i, j \in 1..Len(toHost) :
                   toHost[i].kind = "write" /\ toHost[j].kind = "write" => i = j

\* A write that is given up leads to close(), so that the channel is quiet
\* whenever it is open and no write is in progress.
AckInv ==
    /\ conn /\ host \in {"open", "idle", "read", "drain"} => Quiet
    /\ host = "write" => Commanded \/ AtWork \/ Acked

LEMMA HostKeepsAcks ==
    ASSUME TypeInv, FlowInv, AckInv, HostCall \/ HostBegins
    PROVE  AckInv'
<1>1. CASE Reap
  BY <1>1 DEF Reap, AckInv, TypeInv, WorkerInv
<1>2. CASE Spawn
  <2>1. /\ toHost' = <<>> /\ toWorker' = <<>> /\ host' = "open" /\ worker' = "start"
        /\ written' = 0 /\ writes' = 0
    BY <1>2 DEF Spawn
  <2>2. \A i \in 1..Len(toHost') : FALSE
    BY <2>1
  <2> QED BY <2>1, <2>2 DEF AckInv, Quiet, Idle, NoAck
<1>3. CASE Take
  <2>1. /\ toHost # <<>> /\ Len(toHost) \in Nat /\ Head(toHost) = toHost[1] /\ 1 \in 1..Len(toHost)
        /\ \A i \in 1..Len(toHost') : toHost'[i] = toHost[i + 1] /\ i + 1 \in 1..Len(toHost)
        /\ UNCHANGED <<conn, worker, writes, written>>
    BY <1>3, TakeParts
  <2>2. NoAck => NoAck'
    BY <2>1 DEF NoAck
  <2>3. conn
    BY <1>3 DEF Take, FlowInv, Calls
  <2>4. CASE host' \in {"close", "reap", "spawn"}
    BY <2>4 DEF AckInv
  <2>5. CASE host' \notin {"close", "reap", "spawn"}
    <3>1. toWorker' = toWorker
      BY <1>3, <2>5 DEF Take, Raise, CloseThen
    <3>2. CASE host \in {"open", "read"}
      <4>1. Quiet
        BY <2>3, <3>2 DEF AckInv
      <4>2. Quiet'
        BY <2>1, <2>2, <3>1, <4>1 DEF Quiet, Idle
      <4>3. host' # "write"
        BY <1>3, <3>2, RaiseTypes DEF Take, Calls
      <4> QED BY <4>2, <4>3 DEF AckInv
    <3>3. CASE host = "write"
      <4>1. CASE Head(toHost).kind = "write"
        <5>1. Acked
          BY <2>1, <3>3, <4>1 DEF AckInv, Commanded, AtWork, NoAck
        <5>2. ASSUME NEW i \in 1..Len(toHost'), toHost'[i].kind = "write" PROVE FALSE
          <6>1. i + 1 \in 1..Len(toHost) /\ toHost[i + 1].kind = "write" /\ toHost[1].kind = "write"
                /\ 1 \in 1..Len(toHost) /\ i + 1 # 1
            BY <2>1, <4>1, <5>2
          <6> QED BY <5>1, <6>1 DEF Acked
        <5>3. Quiet'
          BY <2>1, <3>1, <5>1, <5>2 DEF Acked, Quiet, Idle, NoAck
        <5>4. host' = "idle"
          BY <1>3, <3>3, <4>1 DEF Take, Calls
        <5> QED BY <5>3, <5>4 DEF AckInv
      <4>2. CASE Head(toHost).kind # "write"
        <5>1. host' = "write"
          <6>1. Raise => host' \in {"close", "reap"}
            BY <3>3 DEF Raise, CloseThen
          <6> QED BY <1>3, <2>5, <3>3, <4>2, <6>1 DEF Take, Calls
        <5>2. Acked => Acked'
          <6> SUFFICES ASSUME Acked PROVE Acked'
            OBVIOUS
          <6>1. ASSUME NEW i \in 1..Len(toHost'), NEW j \in 1..Len(toHost'),
                       toHost'[i].kind = "write", toHost'[j].kind = "write"
                PROVE  i = j
            <7>1. /\ i + 1 \in 1..Len(toHost) /\ j + 1 \in 1..Len(toHost)
                  /\ toHost[i + 1].kind = "write" /\ toHost[j + 1].kind = "write"
              BY <2>1, <6>1
            <7>2. i + 1 = j + 1
              BY <7>1 DEF Acked
            <7> QED BY <7>2
          <6> QED BY <2>1, <3>1, <6>1 DEF Acked, Idle
        <5>3. (Commanded => Commanded') /\ (AtWork => AtWork')
          BY <2>1, <2>2, <3>1 DEF Commanded, AtWork
        <5> QED BY <3>3, <5>1, <5>2, <5>3 DEF AckInv
      <4> QED BY <4>1, <4>2
    <3>4. CASE host = "close"
      BY <1>3, <2>5, <3>4 DEF Take, Raise, Calls
    <3> QED BY <1>3, <3>2, <3>3, <3>4 DEF Take, Calls
  <2> QED BY <2>4, <2>5
<1>4. CASE Broken \/ TimesOut
  <2>1. UNCHANGED <<toHost, conn, worker, writes, written>> /\ host \in Calls \cup {"read"}
    BY <1>4 DEF Broken, TimesOut, workerVars, airVars
  <2>2. CASE host = "read"
    <3>1. host' = "idle" /\ toWorker' = toWorker
      BY <1>4, <2>2 DEF Broken, TimesOut, Raise, Calls
    <3> QED BY <2>1, <2>2, <3>1 DEF AckInv, Quiet, Idle, NoAck
  <2>3. CASE host \in Calls
    <3>1. host' \in {"close", "reap"}
      BY <1>4, <2>3 DEF Broken, TimesOut, Raise, CloseThen, Calls
    <3> QED BY <3>1 DEF AckInv
  <2> QED BY <2>1, <2>2, <2>3
<1>5. CASE NothingMore \/ Read \/ Drain
  <2>1. /\ UNCHANGED <<toHost, toWorker, conn, worker, writes, written>>
        /\ host \in {"idle", "read", "drain"} /\ host' \in {"idle", "read", "drain"}
    BY <1>5 DEF NothingMore, Read, Drain, workerVars, airVars, pipeVars
  <2> QED BY <2>1 DEF AckInv, Quiet, Idle, NoAck
<1>6. CASE Open \/ Close
  BY <1>6 DEF Open, Close, CloseThen, AckInv
<1>7. CASE Write
  <2>1. CASE Alive
    <3>1. Quiet
      BY <1>7 DEF Write, AckInv
    <3>2. toWorker' = <<"write">>
      BY <1>7, <2>1, <3>1 DEF Write, Quiet, Idle
    <3>3. UNCHANGED <<toHost, worker, written>> /\ writes' = writes + 1 /\ host' = "write"
      BY <1>7, <2>1 DEF Write, workerVars
    <3> QED BY <3>1, <3>2, <3>3 DEF AckInv, Commanded, Quiet, Idle, NoAck
  <2>2. CASE ~Alive
    BY <1>7, <2>2 DEF Write, CloseThen, AckInv
  <2> QED BY <2>1, <2>2
<1> QED BY <1>1, <1>2, <1>3, <1>4, <1>5, <1>6, <1>7 DEF HostCall, HostBegins

LEMMA WorkerKeepsAcks ==
    ASSUME TypeInv, FlowInv, AckInv, WorkerStep \/ DeviceSends \/ ChannelLost \/ WorkerDies
    PROVE  AckInv'
<1>0. UNCHANGED <<host, conn, writes>> /\ writes \in Nat /\ written \in Nat
  BY DEF WorkerStep, WorkerStarts, Turn, SendData, Check, DoWrite, DoClose, DeviceSends,
         ChannelLost, WorkerDies, hostVars, TypeInv
<1>1. CASE WorkerDies
  <2>1. UNCHANGED <<toHost, toWorker, written>> /\ worker' = "ended"
    BY <1>1 DEF WorkerDies, pipeVars
  <2> QED BY <1>0, <2>1 DEF AckInv, Quiet, Commanded, AtWork, Acked, Idle, NoAck
<1>2. CASE Turn \/ DeviceSends \/ ChannelLost
  <2>1. /\ UNCHANGED <<toHost, toWorker, written>>
        /\ worker' = worker \/ (worker = "turn" /\ worker' = "send")
    BY <1>2 DEF Turn, DeviceSends, ChannelLost, workerVars, pipeVars
  <2> QED BY <1>0, <2>1 DEF AckInv, Quiet, Commanded, AtWork, Acked, Idle, NoAck
<1>3. CASE (WorkerStarts \/ SendData \/ Check \/ DoWrite \/ DoClose) /\ toHost' = toHost
  <2>1. CASE Check /\ toWorker # <<>>
    <3>1. worker' = Head(toWorker) /\ toWorker' = Tail(toWorker) /\ UNCHANGED written
      <4>1. Msg("closed") \in Messages
        BY MessagesMade
      <4>2. Say(Msg("closed")) => Len(toHost') = Len(toHost) + 1 /\ Len(toHost) \in Nat
        BY <4>1, SaidLast DEF TypeInv
      <4>3. ~ended
        BY <1>3, <2>1, <4>2 DEF Check
      <4> QED BY <2>1, <4>3 DEF Check
    <3>2. ~Quiet /\ ~AtWork /\ ~Acked
      BY <2>1 DEF Quiet, AtWork, Acked, Idle
    <3>3. Commanded => toWorker' = <<>> /\ worker' = "write"
      BY <3>1 DEF Commanded
    <3>4. Commanded => AtWork'
      BY <1>0, <1>3, <3>1, <3>3 DEF Commanded, AtWork, NoAck
    <3> QED BY <1>0, <3>2, <3>4 DEF AckInv
  <2>2. CASE ~(Check /\ toWorker # <<>>)
    <3>1. toWorker' = toWorker
      BY <1>3, <2>2 DEF WorkerStarts, SendData, Check, DoWrite, DoClose, pipeVars
    <3>2. worker \notin {"write", "close"} /\ worker' \notin {"write", "close"} /\ UNCHANGED written
          /\ worker # "ended"
      <4>1. \A m \in Messages : ~Say(m)
        <5> SUFFICES ASSUME NEW m \in Messages, Say(m) PROVE FALSE
          OBVIOUS
        <5>1. Len(toHost') = Len(toHost) + 1 /\ Len(toHost) \in Nat
          BY SaidLast DEF TypeInv
        <5> QED BY <1>3, <5>1
      <4>2. \A k \in Calls \cup {"closed", "error"} : ~Say(Msg(k))
        BY <4>1, MessagesMade
      <4>3. ~DoWrite /\ ~DoClose /\ ~WorkerStarts
        BY <4>2 DEF DoWrite, DoClose, WorkerStarts, Calls
      <4> QED BY <1>3, <2>2, <4>3 DEF SendData, Check, Calls
    <3> QED BY <1>0, <1>3, <3>1, <3>2 DEF AckInv, Quiet, Commanded, AtWork, Acked, Idle, NoAck
  <2> QED BY <2>1, <2>2
<1>4. CASE (WorkerStarts \/ SendData \/ Check \/ DoWrite \/ DoClose) /\ toHost' # toHost
  <2>1. PICK m \in Messages :
          /\ Say(m)
          /\ m.kind = "write" <=> worker = "write" /\ worker' = "turn"
          /\ m.kind = "write" <=> written' # written
    BY <1>4, WorkerSays
  <2>2. /\ Len(toHost) \in Nat /\ Len(toHost') = Len(toHost) + 1
        /\ toHost'[Len(toHost) + 1] = m
        /\ \A i \in 1..Len(toHost) : toHost'[i] = toHost[i]
    BY <2>1, SaidLast DEF TypeInv
  <2>3. /\ toWorker' = toWorker /\ worker' \notin {"write", "close"}
        /\ worker = "write" => worker' \in {"turn", "ended"}
    <3>1. Check => ended
      BY <1>4 DEF Check, pipeVars
    <3> QED BY <1>4, <3>1 DEF WorkerStarts, SendData, Check, DoWrite, DoClose
  <2>4. worker # "ended"
    BY <1>4 DEF WorkerStarts, SendData, Check, DoWrite, DoClose
  <2>5. CASE m.kind # "write"
    <3>1. \A i \in 1..Len(toHost') : toHost'[i].kind = "write" => i \in 1..Len(toHost)
      BY <2>2, <2>5
    <3>2. (NoAck => NoAck') /\ (Acked => Acked')
      BY <1>0, <2>1, <2>2, <2>3, <2>5, <3>1 DEF NoAck, Acked, Idle
    <3>3. written' = written /\ (worker = "write" => worker' = "ended")
      BY <2>1, <2>3, <2>5
    <3> QED BY <1>0, <2>3, <2>4, <3>2, <3>3 DEF AckInv, Quiet, Commanded, AtWork, Idle
  <2>6. CASE m.kind = "write"
    <3>1. worker = "write" /\ worker' = "turn" /\ written' = written + 1
      <4>1. DoWrite /\ written' # written
        BY <1>4, <2>1, <2>6 DEF WorkerStarts, SendData, Check, DoClose
      <4> QED BY <2>1, <2>6, <4>1 DEF DoWrite
    <3>2. ~Quiet /\ ~Commanded /\ ~Acked
      BY <3>1 DEF Quiet, Commanded, Acked, Idle
    <3>3. AtWork => Acked'
      <4> SUFFICES ASSUME AtWork PROVE Acked'
        OBVIOUS
      <4>1. \A i \in 1..Len(toHost') : toHost'[i].kind = "write" => i = Len(toHost) + 1
        BY <2>2 DEF AtWork, NoAck
      <4> QED BY <1>0, <2>3, <3>1, <4>1 DEF AtWork, Acked, Idle
    <3> QED BY <1>0, <3>2, <3>3 DEF AckInv
  <2> QED BY <2>5, <2>6
<1> QED BY <1>1, <1>2, <1>3, <1>4 DEF WorkerStep

\* A write that returns has been taken by the native channel: it never takes
\* the acknowledgement of a write that was given up (write, _receive).
THEOREM AcksAreOwn == Spec => AckIsOwn
<1>1. Init => AckInv
  BY DEF Init, AckInv
<1>2. TypeInv /\ FlowInv /\ AckInv /\ [Next]_vars => AckInv'
  <2>1. TypeInv /\ FlowInv /\ AckInv /\ Next => AckInv'
    BY HostKeepsAcks, WorkerKeepsAcks DEF Next
  <2>2. AckInv /\ UNCHANGED vars => AckInv'
    <3> SUFFICES ASSUME AckInv, UNCHANGED vars PROVE AckInv'
      OBVIOUS
    <3>1. UNCHANGED <<host, conn, writes, worker, written, toHost, toWorker>>
      BY DEF vars, hostVars, workerVars, pipeVars
    <3> QED BY <3>1 DEF AckInv, Quiet, Commanded, AtWork, Acked, Idle, NoAck
  <2> QED BY <2>1, <2>2
<1>3. AckInv /\ TypeInv /\ [Next]_vars
        => [host = "write" /\ toHost # <<>> /\ toHost' = Tail(toHost)
              => (Head(toHost).kind = "write" => written = writes)]_vars
  <2> SUFFICES ASSUME AckInv, TypeInv, host = "write", toHost # <<>>, Head(toHost).kind = "write"
               PROVE written = writes
    OBVIOUS
  <2>1. Head(toHost) = toHost[1] /\ 1 \in 1..Len(toHost)
    BY DEF TypeInv
  <2>2. ~NoAck
    BY <2>1 DEF NoAck
  <2> QED BY <2>2 DEF AckInv, Commanded, AtWork, Acked
<1> QED BY <1>1, <1>2, <1>3, BytesInOrder, PTL DEF Spec, AckIsOwn

-----------------------------------------------------------------------------
(* Parsers: pieces of a sequence.                                          *)

\* A set of natural numbers that is not empty has a least element: among the
\* finite intervals that end in it, one is minimal for inclusion.
LEMMA LeastNatural ==
    ASSUME NEW S, S \subseteq Nat, S # {}
    PROVE  \E x \in S : \A y \in S : x <= y
<1> DEFINE T == {0..n : n \in S}
<1>1. IsWellFoundedOn(StrictSubsetOrdering(Nat), FiniteSubsetsOf(Nat))
  BY FS_StrictSubsetOrderingWellFounded
<1>2. T \subseteq FiniteSubsetsOf(Nat)
  <2>1. SUFFICES ASSUME NEW n \in S PROVE 0..n \in FiniteSubsetsOf(Nat)
    OBVIOUS
  <2>2. IsFiniteSet(0..n)
    BY FS_Interval
  <2> QED BY <2>2 DEF FiniteSubsetsOf
<1>3. PICK x \in T : \A y \in T : <<y, x>> \notin StrictSubsetOrdering(Nat)
  <2>1. T # {}
    OBVIOUS
  <2> HIDE DEF T
  <2> QED BY <1>1, <1>2, <2>1, WFMin
<1>4. PICK n \in S : x = 0..n
  OBVIOUS
<1>5. ASSUME NEW m \in S, m < n PROVE FALSE
  <2>1. 0..m \subseteq 0..n /\ n \notin 0..m /\ n \in 0..n
    BY <1>5
  <2>2. 0..m \in SUBSET Nat /\ 0..n \in SUBSET Nat
    OBVIOUS
  <2>3. <<0..m, 0..n>> \in StrictSubsetOrdering(Nat)
    BY <2>1, <2>2 DEF StrictSubsetOrdering
  <2> QED BY <2>3, <1>3, <1>4
<1>6. ASSUME NEW y \in S PROVE n <= y
  <2>1. n \in Nat /\ y \in Nat
    OBVIOUS
  <2> QED BY <2>1, <1>5
<1> QED BY <1>6

\* What holds at a position when it holds at all later ones holds everywhere.
LEMMA Backwards ==
    ASSUME NEW n \in Nat, NEW T,
           \A p \in 0..n : (\A q \in p + 1..n : q \in T) => p \in T
    PROVE  0..n \subseteq T
<1> DEFINE S == {n - p : p \in 0..n \ T}
<1>1. SUFFICES ASSUME S # {} PROVE FALSE
  OBVIOUS
<1>2. S \subseteq Nat
  OBVIOUS
<1>3. PICK x \in S : \A y \in S : x <= y
  <2> HIDE DEF S
  <2> QED BY <1>1, <1>2, LeastNatural
<1>4. PICK p \in 0..n \ T : x = n - p
  OBVIOUS
<1>5. ASSUME NEW q \in p + 1..n, q \notin T PROVE FALSE
  <2>1. n - q \in S /\ n - q < n - p
    BY <1>5
  <2> HIDE DEF S
  <2> QED BY <2>1, <1>2, <1>3, <1>4
<1> QED BY <1>4, <1>5

LEMMA Element ==
    ASSUME NEW S, NEW s \in Seq(S), NEW i \in 1..Len(s)
    PROVE  s[i] \in S
OBVIOUS

LEMMA SameElements ==
    ASSUME NEW S, NEW s \in Seq(S), NEW t \in Seq(S), Len(s) = Len(t),
           \A i \in 1..Len(s) : s[i] = t[i]
    PROVE  s = t
OBVIOUS

LEMMA Slice ==
    ASSUME NEW S, NEW s \in Seq(S), NEW a \in Nat, NEW n \in Nat, a + n <= Len(s)
    PROVE  /\ Bytes(s, a, n) \in Seq(S) /\ Len(Bytes(s, a, n)) = n
           /\ \A i \in 1..n : Bytes(s, a, n)[i] = s[a + i]
BY DEF Bytes

\* A piece of a piece is a piece.
LEMMA SliceOfSlice ==
    ASSUME NEW S, NEW s \in Seq(S), NEW a \in Nat, NEW n \in Nat, a + n <= Len(s),
           NEW p \in Nat, NEW m \in Nat, p + m <= n
    PROVE  Bytes(Bytes(s, a, n), p, m) = Bytes(s, a + p, m)
<1> DEFINE t == Bytes(s, a, n)
           u == Bytes(t, p, m)
           v == Bytes(s, a + p, m)
<1>1. t \in Seq(S) /\ Len(t) = n /\ \A i \in 1..n : t[i] = s[a + i]
  BY Slice
<1>2. u \in Seq(S) /\ Len(u) = m /\ \A i \in 1..m : u[i] = t[p + i]
  <2>1. ASSUME NEW r \in Seq(S), p + m <= Len(r)
        PROVE  /\ Bytes(r, p, m) \in Seq(S) /\ Len(Bytes(r, p, m)) = m
               /\ \A i \in 1..m : Bytes(r, p, m)[i] = r[p + i]
    BY <2>1, Slice
  <2> HIDE DEF t
  <2>2. t \in Seq(S) /\ p + m <= Len(t)
    BY <1>1
  <2> QED BY <2>1, <2>2
<1>3. v \in Seq(S) /\ Len(v) = m /\ \A i \in 1..m : v[i] = s[(a + p) + i]
  <2>1. a + p \in Nat /\ (a + p) + m <= Len(s)
    OBVIOUS
  <2> QED BY <2>1, Slice
<1> HIDE DEF t, u, v
<1>4. ASSUME NEW i \in 1..m PROVE u[i] = v[i]
  <2>1. p + i \in 1..n /\ a + (p + i) = (a + p) + i
    OBVIOUS
  <2> QED BY <1>1, <1>2, <1>3, <2>1
<1>5. u = v
  <2>1. /\ u \in Seq(S) /\ v \in Seq(S) /\ Len(u) = Len(v)
        /\ \A i \in 1..Len(u) : u[i] = v[i]
    BY <1>2, <1>3, <1>4
  <2> QED BY <2>1, SameElements
<1> QED BY <1>5 DEF t, u, v

\* Pieces that follow one another.
LEMMA SlicesJoined ==
    ASSUME NEW S, NEW s \in Seq(S), NEW a \in Nat, NEW n \in Nat, NEW m \in Nat, a + n + m <= Len(s)
    PROVE  Bytes(s, a, n) \o Bytes(s, a + n, m) = Bytes(s, a, n + m)
<1> DEFINE t == Bytes(s, a, n)
           u == Bytes(s, a + n, m)
           v == Bytes(s, a, n + m)
<1>1. t \in Seq(S) /\ Len(t) = n /\ \A i \in 1..n : t[i] = s[a + i]
  <2>1. a + n <= Len(s)
    OBVIOUS
  <2> QED BY <2>1, Slice
<1>2. u \in Seq(S) /\ Len(u) = m /\ \A i \in 1..m : u[i] = s[(a + n) + i]
  <2>1. a + n \in Nat /\ (a + n) + m <= Len(s)
    OBVIOUS
  <2> QED BY <2>1, Slice
<1>3. v \in Seq(S) /\ Len(v) = n + m /\ \A i \in 1..n + m : v[i] = s[a + i]
  <2>1. n + m \in Nat /\ a + (n + m) <= Len(s)
    OBVIOUS
  <2> QED BY <2>1, Slice
<1> HIDE DEF t, u, v
<1>4. /\ t \o u \in Seq(S) /\ Len(t \o u) = n + m
      /\ \A i \in 1..n : (t \o u)[i] = t[i]
      /\ \A i \in 1..m : (t \o u)[n + i] = u[i]
  <2>1. t \in Seq(S) /\ u \in Seq(S)
    BY <1>1, <1>2
  <2>2. /\ t \o u \in Seq(S) /\ Len(t \o u) = Len(t) + Len(u)
        /\ \A i \in 1..Len(t) : (t \o u)[i] = t[i]
        /\ \A i \in 1..Len(u) : (t \o u)[Len(t) + i] = u[i]
    BY <2>1, Joined
  <2>3. Len(t) = n /\ Len(u) = m
    BY <1>1, <1>2
  <2> QED BY <2>2, <2>3
<1>5. ASSUME NEW i \in 1..n + m PROVE (t \o u)[i] = v[i]
  <2>1. CASE i <= n
    <3>1. i \in 1..n
      BY <2>1
    <3> QED BY <1>1, <1>3, <1>4, <3>1
  <2>2. CASE i > n
    <3>1. i - n \in 1..m /\ n + (i - n) = i /\ (a + n) + (i - n) = a + i
      BY <2>2
    <3>2. (t \o u)[i] = u[i - n]
      BY <1>4, <3>1
    <3>3. u[i - n] = s[a + i]
      BY <1>2, <3>1
    <3> QED BY <1>3, <3>2, <3>3
  <2>3. i <= n \/ i > n
    OBVIOUS
  <2> QED BY <2>1, <2>2, <2>3
<1>6. t \o u = v
  <2>1. /\ t \o u \in Seq(S) /\ v \in Seq(S) /\ Len(t \o u) = Len(v)
        /\ \A i \in 1..Len(t \o u) : (t \o u)[i] = v[i]
    BY <1>3, <1>4, <1>5
  <2> QED BY <2>1, SameElements
<1> QED BY <1>6 DEF t, u, v

\* A piece of a stream that has grown, and the piece that was added.
LEMMA SliceGrown ==
    ASSUME NEW S, NEW s \in Seq(S), NEW t \in Seq(S), NEW a \in Nat, NEW n \in Nat, a + n <= Len(s)
    PROVE  Bytes(s \o t, a, n) = Bytes(s, a, n)
<1> DEFINE w == s \o t
           u == Bytes(w, a, n)
           v == Bytes(s, a, n)
<1>1. w \in Seq(S) /\ a + n <= Len(w) /\ \A i \in 1..Len(s) : w[i] = s[i]
  BY Joined
<1>2. v \in Seq(S) /\ Len(v) = n /\ \A i \in 1..n : v[i] = s[a + i]
  BY Slice
<1> HIDE DEF w, v
<1>3. u \in Seq(S) /\ Len(u) = n /\ \A i \in 1..n : u[i] = w[a + i]
  <2>1. ASSUME NEW r \in Seq(S), a + n <= Len(r)
        PROVE  /\ Bytes(r, a, n) \in Seq(S) /\ Len(Bytes(r, a, n)) = n
               /\ \A i \in 1..n : Bytes(r, a, n)[i] = r[a + i]
    BY <2>1, Slice
  <2> QED BY <1>1, <2>1
<1> HIDE DEF u
<1>4. ASSUME NEW i \in 1..n PROVE u[i] = v[i]
  <2>1. a + i \in 1..Len(s)
    OBVIOUS
  <2> QED BY <1>1, <1>2, <1>3, <2>1
<1>5. u = v
  BY <1>2, <1>3, <1>4
<1> QED BY <1>5 DEF u, v, w

LEMMA SliceAdded ==
    ASSUME NEW S, NEW s \in Seq(S), NEW t \in Seq(S)
    PROVE  Bytes(s \o t, Len(s), Len(t)) = t
<1> DEFINE w == s \o t
           u == Bytes(w, Len(s), Len(t))
<1>1. /\ w \in Seq(S) /\ Len(s) \in Nat /\ Len(t) \in Nat /\ Len(s) + Len(t) <= Len(w)
      /\ \A i \in 1..Len(t) : w[Len(s) + i] = t[i]
  BY Joined
<1> HIDE DEF w
<1>2. u \in Seq(S) /\ Len(u) = Len(t) /\ \A i \in 1..Len(t) : u[i] = w[Len(s) + i]
  BY <1>1, Slice
<1> HIDE DEF u
<1>3. u = t
  BY <1>1, <1>2
<1> QED BY <1>3 DEF u, w

\* The whole sequence, and what is left of it, as pieces.
LEMMA SliceAll ==
    ASSUME NEW S, NEW s \in Seq(S), NEW a \in 0..Len(s)
    PROVE  /\ Bytes(s, 0, Len(s)) = s /\ SubSeq(s, a + 1, Len(s)) = Bytes(s, a, Len(s) - a)
           /\ SubSeq(s, 1, a) = Bytes(s, 0, a)
<1>1. 0 + 1 = 1 /\ 0 + Len(s) = Len(s) /\ a + (Len(s) - a) = Len(s) /\ 0 + a = a
  OBVIOUS
<1>2. SubSeq(s, 1, Len(s)) = s
  OBVIOUS
<1> QED BY <1>1, <1>2 DEF Bytes

-----------------------------------------------------------------------------
(* Parsers: candidates.                                                    *)

LEMMA Formats ==
    ASSUME NEW k \in Kinds
    PROVE  /\ k \in {"ctrl", "audio", "ota"}
           /\ Overhead(k) \in {3, 4} /\ (k = "ctrl" => Overhead(k) = 4) /\ (k # "ctrl" => Overhead(k) = 3)
           /\ MaxSize(k) \in Nat /\ Top \in Nat /\ Top >= 5
<1>1. k \in {"ctrl", "audio", "ota"}
  BY ParsersAssumption
<1> QED BY <1>1, ParsersAssumption DEF Overhead, MaxSize, EXTRA

LEMMA HeaderBytes ==
    ASSUME NEW k \in Kinds, NEW b \in Seq(0..Top), NEW p \in Nat, p + Overhead(k) <= Len(b)
    PROVE  /\ Header(k, b, p) \in Seq(0..Top) /\ Len(Header(k, b, p)) = Overhead(k)
           /\ Byte(Header(k, b, p), 0) \in 0..Top /\ Byte(Header(k, b, p), 1) \in 0..Top
           /\ Byte(Header(k, b, p), 2) \in 0..Top
           /\ Byte(Header(k, b, p), 0) = b[p + 1] /\ Byte(Header(k, b, p), 1) = b[p + 2]
<1> DEFINE h == Header(k, b, p)
<1>1. Overhead(k) \in Nat /\ Overhead(k) >= 3
  BY Formats
<1>2. h \in Seq(0..Top) /\ Len(h) = Overhead(k) /\ \A i \in 1..Overhead(k) : h[i] = b[p + i]
  BY <1>1, Slice DEF Header
<1>3. 1 \in 1..Overhead(k) /\ 2 \in 1..Overhead(k) /\ 3 \in 1..Overhead(k)
  BY <1>1
<1>4. \A i \in 1..Overhead(k) : h[i] \in 0..Top
  <2>1. ASSUME NEW r \in Seq(0..Top), NEW i \in 1..Len(r) PROVE r[i] \in 0..Top
    BY Element
  <2> HIDE DEF h
  <2> QED BY <1>2, <2>1
<1>5. Byte(h, 0) = h[1] /\ Byte(h, 1) = h[2] /\ Byte(h, 2) = h[3]
  BY DEF Byte
<1> HIDE DEF h
<1>6. h[1] = b[p + 1] /\ h[2] = b[p + 2]
  BY <1>2, <1>3
<1>7. h[1] \in 0..Top /\ h[2] \in 0..Top /\ h[3] \in 0..Top
  BY <1>3, <1>4
<1> QED BY <1>2, <1>5, <1>6, <1>7 DEF h

\* A plausible header announces a frame that is no longer than the longest.
LEMMA PlausibleSize ==
    ASSUME NEW k \in Kinds, NEW b \in Seq(0..Top), NEW p \in Nat, p + Overhead(k) <= Len(b),
           Begins(k, b, p)
    PROVE  SizeAt(k, b, p) \in Overhead(k)..MaxSize(k)
<1> DEFINE h == Header(k, b, p)
<1>1. Byte(h, 1) \in 0..Top /\ Byte(h, 2) \in 0..Top
  BY HeaderBytes
<1>2. Plausible(k, h) /\ SizeAt(k, b, p) = Overhead(k) + Area(k, h)
  BY DEF Begins, SizeAt, Size
<1> HIDE DEF h
<1>3. Area(k, h) \in Nat /\ Overhead(k) + Area(k, h) <= MaxSize(k)
  <2>1. CASE k = "ctrl"
    BY <1>1, <1>2, <2>1, ParsersAssumption DEF Area, Plausible, MaxSize, Overhead
  <2>2. CASE k = "audio"
    <3>1. HeaderPlausible(Byte(h, 2), Area(k, h)) /\ Area(k, h) = Byte(h, 1) - 1
      BY <1>2, <2>2 DEF Area, Plausible, EXTRA
    <3>2. Byte(h, 2) \in 1..MaxSections /\ Byte(h, 2) <= Area(k, h)
      BY <3>1 DEF HeaderPlausible
    <3>3. Overhead(k) = 3 /\ MaxSize(k) = 3 + (Top - 1) /\ Top \in Nat
      BY <2>2, ParsersAssumption DEF MaxSize, Overhead, EXTRA
    <3> DEFINE c == Area(k, h)
               d == Byte(h, 1)
    <3>4. c = d - 1 /\ d \in 0..Top /\ c >= 1
      <4>1. Byte(h, 2) \in Int /\ Byte(h, 2) >= 1 /\ d \in 0..Top /\ c = d - 1
        BY <1>1, <3>1, <3>2
      <4> HIDE DEF c, d
      <4> QED BY <3>2, <4>1, <3>3 DEF c
    <3> HIDE DEF c, d
    <3>5. c \in Nat /\ 3 + c <= 3 + (Top - 1)
      BY <3>3, <3>4
    <3> QED BY <3>3, <3>5 DEF c
  <2>3. CASE k = "ota"
    BY <1>1, <1>2, <2>3, ParsersAssumption DEF Area, Plausible, MaxSize, Overhead
  <2> QED BY <2>1, <2>2, <2>3, Formats
<1>4. Overhead(k) \in Nat /\ MaxSize(k) \in Nat
  BY Formats
<1> QED BY <1>2, <1>3, <1>4

\* The loop advances, and stays within the buffer.
LEMMA Advances ==
    ASSUME NEW k \in Kinds, NEW b \in Seq(0..Top), NEW p \in 0..Len(b), ~Waits(k, b, p)
    PROVE  Following(k, b, p) \in p + 1..Len(b)
<1>1. p \in Nat /\ Len(b) \in Nat /\ Overhead(k) \in {3, 4} /\ (k # "ctrl" => Overhead(k) = 3)
  BY Formats
<1>2. ~(Len(b) - p < Overhead(k))
  BY DEF Waits
<1>3. p + Overhead(k) <= Len(b)
  BY <1>1, <1>2
<1>4. CASE Takes(k, b, p)
  <2>1. Begins(k, b, p) /\ ~(Len(b) - p < SizeAt(k, b, p))
    BY <1>4 DEF Takes, Waits
  <2>2. SizeAt(k, b, p) \in Overhead(k)..MaxSize(k) /\ MaxSize(k) \in Nat
    BY <1>1, <1>3, <2>1, PlausibleSize, Formats
  <2>3. p + SizeAt(k, b, p) \in p + 1..Len(b)
    BY <1>1, <2>1, <2>2
  <2>4. Starts(k, Header(k, b, p))
    BY <2>1 DEF Begins
  <2> QED BY <1>4, <2>3, <2>4 DEF Following
<1>5. CASE ~Takes(k, b, p)
  <2>1. Following(k, b, p) \in {p + 1, p + 2}
    BY <1>5 DEF Following, Resume
  <2> QED BY <1>1, <1>3, <2>1
<1> QED BY <1>4, <1>5

\* What the loop does at a position of a piece of a stream is what it does there
\* in the stream; where the piece ends with the stream, it also waits there.
LEMMA Local ==
    ASSUME NEW k \in Kinds, NEW w \in Seq(0..Top), NEW d \in Nat, NEW n \in Nat, d + n <= Len(w),
           NEW p \in 0..n
    PROVE  LET b == Bytes(w, d, n)
           IN /\ ~Waits(k, b, p) => /\ ~Waits(k, w, d + p)
                                    /\ Takes(k, w, d + p) <=> Takes(k, b, p)
                                    /\ SizeAt(k, w, d + p) = SizeAt(k, b, p)
                                    /\ Following(k, w, d + p) = d + Following(k, b, p)
              /\ d + n = Len(w) /\ Waits(k, b, p) => Waits(k, w, d + p)
<1> DEFINE b == Bytes(w, d, n)
<1>1. b \in Seq(0..Top) /\ Len(b) = n
  BY Slice
<1>2. Overhead(k) \in Nat /\ p \in Nat /\ d + p \in Nat /\ Len(w) \in Nat
  BY Formats
<1>3. ASSUME p + Overhead(k) <= n
      PROVE  /\ Header(k, w, d + p) = Header(k, b, p) /\ SizeAt(k, w, d + p) = SizeAt(k, b, p)
             /\ Begins(k, w, d + p) <=> Begins(k, b, p)
  <2>1. Header(k, w, d + p) = Header(k, b, p)
    BY <1>2, <1>3, SliceOfSlice DEF Header
  <2> QED BY <2>1 DEF SizeAt, Begins
<1>4. ASSUME p + Overhead(k) <= n, Begins(k, b, p) PROVE SizeAt(k, b, p) \in Nat
  <2>1. p + Overhead(k) <= Len(b)
    BY <1>1, <1>4
  <2>2. SizeAt(k, b, p) \in Overhead(k)..MaxSize(k)
    <3> HIDE DEF b
    <3> QED BY <1>1, <1>2, <1>4, <2>1, PlausibleSize
  <2>3. MaxSize(k) \in Nat
    BY Formats
  <2> QED BY <1>2, <2>2, <2>3
<1>5. ASSUME ~Waits(k, b, p)
      PROVE  /\ ~Waits(k, w, d + p)
             /\ Takes(k, w, d + p) <=> Takes(k, b, p)
             /\ SizeAt(k, w, d + p) = SizeAt(k, b, p)
             /\ Following(k, w, d + p) = d + Following(k, b, p)
  <2>1. p + Overhead(k) <= n /\ (Begins(k, b, p) => ~(n - p < SizeAt(k, b, p)))
    BY <1>1, <1>2, <1>5 DEF Waits
  <2>2. /\ Header(k, w, d + p) = Header(k, b, p) /\ SizeAt(k, w, d + p) = SizeAt(k, b, p)
        /\ Begins(k, w, d + p) <=> Begins(k, b, p)
    BY <1>3, <2>1
  <2>3. ~(Len(w) - (d + p) < Overhead(k))
    BY <1>2, <2>1
  <2>4. ASSUME Begins(k, b, p)
        PROVE  /\ ~(Len(w) - (d + p) < SizeAt(k, b, p))
               /\ Bytes(w, d + p, SizeAt(k, b, p)) = Bytes(b, p, SizeAt(k, b, p))
    <3>1. SizeAt(k, b, p) \in Nat /\ ~(n - p < SizeAt(k, b, p))
      BY <1>4, <2>1, <2>4
    <3> DEFINE z == SizeAt(k, b, p)
    <3>2. z \in Nat /\ p + z <= n /\ d + p + z <= Len(w)
      BY <3>1, <1>2
    <3> HIDE DEF z
    <3>3. ~(Len(w) - (d + p) < z) /\ Bytes(w, d + p, z) = Bytes(b, p, z)
      BY <3>2, <1>2, SliceOfSlice
    <3> QED BY <3>3 DEF z
  <2>5. ~Waits(k, w, d + p)
    BY <2>2, <2>3, <2>4 DEF Waits
  <2>6. Takes(k, w, d + p) <=> Takes(k, b, p)
    BY <2>2, <2>4 DEF Takes
  <2>7. Following(k, w, d + p) = d + Following(k, b, p)
    <3>1. CASE ~Starts(k, Header(k, b, p))
      BY <3>1, <2>2, <1>2 DEF Following
    <3>2. CASE Starts(k, Header(k, b, p)) /\ Takes(k, b, p)
      <4>1. SizeAt(k, b, p) \in Nat
        BY <3>2, <1>4, <2>1 DEF Takes
      <4>2. Following(k, w, d + p) = d + p + SizeAt(k, b, p) /\ Following(k, b, p) = p + SizeAt(k, b, p)
        BY <3>2, <2>2, <2>6 DEF Following
      <4> QED BY <4>1, <4>2, <1>2
    <3>3. CASE Starts(k, Header(k, b, p)) /\ ~Takes(k, b, p)
      <4>1. Following(k, w, d + p) = Resume(k, d + p) /\ Following(k, b, p) = Resume(k, p)
        BY <3>3, <2>2, <2>6 DEF Following
      <4> QED BY <4>1, <1>2 DEF Resume
    <3> QED BY <3>1, <3>2, <3>3
  <2> QED BY <2>2, <2>5, <2>6, <2>7
<1>6. ASSUME d + n = Len(w), Waits(k, b, p) PROVE Waits(k, w, d + p)
  <2>1. CASE p + Overhead(k) <= n
    <3>1. /\ SizeAt(k, w, d + p) = SizeAt(k, b, p) /\ (Begins(k, w, d + p) <=> Begins(k, b, p))
      BY <1>3, <2>1
    <3>2. Begins(k, b, p) /\ n - p < SizeAt(k, b, p)
      BY <1>1, <1>2, <1>6, <2>1 DEF Waits
    <3>3. Len(w) - (d + p) = n - p
      BY <1>2, <1>6
    <3> QED BY <3>1, <3>2, <3>3 DEF Waits
  <2>2. CASE ~(p + Overhead(k) <= n)
    <3>1. Len(w) - (d + p) < Overhead(k)
      BY <1>2, <1>6, <2>2
    <3> QED BY <3>1 DEF Waits
  <2> QED BY <2>1, <2>2
<1> QED BY <1>5, <1>6

-----------------------------------------------------------------------------
(* Parsers: the loop.                                                      *)

\* What Loop says of a position when f says what comes after it.
Turned(k, b, f, p) ==
    IF Waits(k, b, p) THEN [taken |-> <<>>, left |-> p]
    ELSE LET rest == f[Following(k, b, p)]
         IN IF Takes(k, b, p)
            THEN [taken |-> <<[at |-> p, size |-> SizeAt(k, b, p)]>> \o rest.taken, left |-> rest.left]
            ELSE rest

\* The recursion of Loop is sound: from the last position back, there is a
\* function that satisfies its equation.
LEMMA LoopExists ==
    ASSUME NEW k \in Kinds, NEW b \in Seq(0..Top)
    PROVE  \E f : f = [p \in 0..Len(b) |-> Turned(k, b, f, p)]
<1> DEFINE n == Len(b)
           Solves(f, p) == f = [i \in p..n |-> Turned(k, b, f, i)]
           T == {p \in 0..n : \E f : Solves(f, p)}
<1>1. n \in Nat
  OBVIOUS
<1>2. ASSUME NEW p \in 0..n, \A q \in p + 1..n : q \in T PROVE p \in T
  <2>1. PICK g : p < n => Solves(g, p + 1)
    <3>1. CASE p < n
      <4>1. p + 1 \in p + 1..n
        BY <1>1, <3>1
      <4> QED BY <4>1, <1>2
    <3>2. CASE ~(p < n)
      BY <3>2
    <3> QED BY <3>1, <3>2
  <2> DEFINE f == [i \in p..n |-> IF i = p THEN Turned(k, b, g, p) ELSE g[i]]
  <2>2. ASSUME NEW i \in p + 1..n PROVE f[i] = g[i] /\ g[i] = Turned(k, b, g, i)
    <3>1. i \in p..n /\ i # p /\ p < n
      BY <2>2, <1>1
    <3>2. g = [j \in p + 1..n |-> Turned(k, b, g, j)]
      BY <2>1, <3>1
    <3> QED BY <3>1, <3>2
  <2>3. ASSUME NEW i \in p..n PROVE Turned(k, b, f, i) = Turned(k, b, g, i)
    <3>1. CASE Waits(k, b, i)
      BY <3>1 DEF Turned
    <3>2. CASE ~Waits(k, b, i)
      <4>1. i \in 0..n
        BY <1>1
      <4>2. Following(k, b, i) \in i + 1..n
        BY <3>2, <4>1, Advances
      <4>3. Following(k, b, i) \in p + 1..n
        BY <1>1, <4>2
      <4>4. f[Following(k, b, i)] = g[Following(k, b, i)]
        BY <2>2, <4>3
      <4> HIDE DEF f
      <4> QED BY <4>4 DEF Turned
    <3> QED BY <3>1, <3>2
  <2>4. ASSUME NEW i \in p..n PROVE f[i] = Turned(k, b, f, i)
    <3>1. CASE i = p
      <4>1. f[i] = Turned(k, b, g, p)
        BY <3>1
      <4> HIDE DEF f
      <4> QED BY <2>3, <3>1, <4>1
    <3>2. CASE i # p
      <4>1. i \in p + 1..n
        BY <3>2, <1>1
      <4> HIDE DEF f
      <4> QED BY <2>2, <2>3, <4>1
    <3> QED BY <3>1, <3>2
  <2>5. Solves(f, p)
    <3>1. f = [i \in p..n |-> f[i]]
      OBVIOUS
    <3> HIDE DEF f
    <3>2. [i \in p..n |-> f[i]] = [i \in p..n |-> Turned(k, b, f, i)]
      BY <2>4
    <3> QED BY <3>1, <3>2
  <2> HIDE DEF f, Solves
  <2> QED BY <2>5
<1>3. 0..n \subseteq T
  <2> HIDE DEF T, n
  <2> QED BY <1>1, <1>2, Backwards
<1>4. 0 \in 0..n
  BY <1>1
<1>5. \E f : Solves(f, 0)
  <2> HIDE DEF Solves
  <2> QED BY <1>3, <1>4
<1> QED BY <1>5

LEMMA LoopIs ==
    ASSUME NEW k \in Kinds, NEW b \in Seq(0..Top), NEW p \in 0..Len(b)
    PROVE  Loop(k, b)[p] = Turned(k, b, Loop(k, b), p)
<1> DEFINE Solves(f) == f = [i \in 0..Len(b) |-> Turned(k, b, f, i)]
<1>1. PICK g : Solves(g)
  BY LoopExists
<1>2. Loop(k, b) = CHOOSE f : Solves(f)
  BY Zenon DEF Loop, Turned
<1> HIDE DEF Solves
<1>3. Solves(Loop(k, b))
  BY <1>1, <1>2, Zenon
<1>4. Loop(k, b) = [i \in 0..Len(b) |-> Turned(k, b, Loop(k, b), i)]
  BY <1>3 DEF Solves
<1> DEFINE f == Loop(k, b)
           g2 == [i \in 0..Len(b) |-> Turned(k, b, f, i)]
<1>5. g2[p] = Turned(k, b, f, p)
  OBVIOUS
<1>6. f = g2
  BY <1>4
<1> HIDE DEF f, g2
<1>7. f[p] = Turned(k, b, f, p)
  BY <1>5, <1>6
<1> QED BY <1>7 DEF f

Spots == [at : Nat, size : Nat]
Scans(p, n) == [taken : Seq(Spots), left : p..n]

\* The cases of a turn.
LEMMA LoopTurns ==
    ASSUME NEW k \in Kinds, NEW b \in Seq(0..Top), NEW p \in 0..Len(b)
    PROVE  LET f == Loop(k, b)
               rest == f[Following(k, b, p)]
           IN /\ Waits(k, b, p) => f[p] = [taken |-> <<>>, left |-> p]
              /\ ~Waits(k, b, p) /\ ~Takes(k, b, p) => f[p] = rest
              /\ ~Waits(k, b, p) /\ Takes(k, b, p) =>
                    /\ f[p] = [taken |-> <<[at |-> p, size |-> SizeAt(k, b, p)]>> \o rest.taken,
                               left |-> rest.left]
                    /\ SizeAt(k, b, p) \in Nat /\ Following(k, b, p) = p + SizeAt(k, b, p)
<1>1. Loop(k, b)[p] = Turned(k, b, Loop(k, b), p)
  BY LoopIs
<1>2. ASSUME ~Waits(k, b, p), Takes(k, b, p)
      PROVE  SizeAt(k, b, p) \in Nat /\ Following(k, b, p) = p + SizeAt(k, b, p)
  <2>1. Begins(k, b, p) /\ Starts(k, Header(k, b, p)) /\ ~(Len(b) - p < Overhead(k))
    BY <1>2 DEF Takes, Begins, Waits
  <2>2. p \in Nat /\ Overhead(k) \in Nat /\ MaxSize(k) \in Nat /\ Len(b) \in Nat
    BY Formats
  <2>3. SizeAt(k, b, p) \in Overhead(k)..MaxSize(k)
    BY <2>1, <2>2, PlausibleSize
  <2> QED BY <1>2, <2>1, <2>2, <2>3 DEF Following
<1> QED BY <1>1, <1>2 DEF Turned

LEMMA Before ==
    ASSUME NEW S, NEW x \in S, NEW s \in Seq(S)
    PROVE  /\ <<x>> \o s \in Seq(S) /\ Len(<<x>> \o s) = 1 + Len(s)
           /\ (<<x>> \o s)[1] = x /\ \A i \in 1..Len(s) : (<<x>> \o s)[1 + i] = s[i]
OBVIOUS

LEMMA LoopTypes ==
    ASSUME NEW k \in Kinds, NEW b \in Seq(0..Top)
    PROVE  \A p \in 0..Len(b) : Loop(k, b)[p] \in Scans(p, Len(b))
<1> DEFINE n == Len(b)
           f == Loop(k, b)
           T == {p \in 0..n : f[p] \in Scans(p, n)}
<1>1. n \in Nat
  OBVIOUS
<1>2. ASSUME NEW p \in 0..n, \A q \in p + 1..n : q \in T PROVE p \in T
  <2>1. CASE Waits(k, b, p)
    <3>1. f[p] = [taken |-> <<>>, left |-> p]
      BY <2>1, LoopTurns
    <3>2. <<>> \in Seq(Spots) /\ p \in p..n
      BY <1>1
    <3> HIDE DEF f, n
    <3>3. f[p] \in Scans(p, n)
      BY <3>1, <3>2 DEF Scans
    <3> QED BY <3>3
  <2>2. CASE ~Waits(k, b, p)
    <3> DEFINE q == Following(k, b, p)
    <3>1. q \in p + 1..n
      BY <2>2, Advances
    <3>2. f[q] \in Scans(q, n)
      BY <1>2, <3>1
    <3>3. f[q].taken \in Seq(Spots) /\ f[q].left \in p..n /\ f[q] = [taken |-> f[q].taken, left |-> f[q].left]
      <4>1. q..n \subseteq p..n
        BY <1>1, <3>1
      <4> HIDE DEF f, q, n
      <4> QED BY <3>2, <4>1 DEF Scans
    <3>4. CASE ~Takes(k, b, p)
      <4>1. f[p] = f[q]
        BY <2>2, <3>4, LoopTurns
      <4> HIDE DEF f, q, n
      <4>2. f[p] \in Scans(p, n)
        BY <3>3, <4>1 DEF Scans
      <4> QED BY <4>2
    <3>5. CASE Takes(k, b, p)
      <4> DEFINE x == [at |-> p, size |-> SizeAt(k, b, p)]
      <4>1. /\ f[p] = [taken |-> <<x>> \o f[q].taken, left |-> f[q].left]
            /\ SizeAt(k, b, p) \in Nat
        BY <2>2, <3>5, LoopTurns
      <4>2. x \in Spots
        BY <4>1 DEF Spots
      <4> HIDE DEF f, q, n, x
      <4>3. <<x>> \o f[q].taken \in Seq(Spots)
        BY <3>3, <4>2, Before
      <4>4. f[p] \in Scans(p, n)
        BY <3>3, <4>1, <4>3 DEF Scans
      <4> QED BY <4>4
    <3> QED BY <3>4, <3>5
  <2> QED BY <2>1, <2>2
<1>3. 0..n \subseteq T
  <2> HIDE DEF T, n
  <2> QED BY <1>1, <1>2, Backwards
<1> QED BY <1>3

\* Where the loop ends it waits.
LEMMA LoopEnds ==
    ASSUME NEW k \in Kinds, NEW b \in Seq(0..Top)
    PROVE  \A p \in 0..Len(b) : Waits(k, b, Loop(k, b)[p].left)
<1> DEFINE n == Len(b)
           f == Loop(k, b)
           T == {p \in 0..n : Waits(k, b, f[p].left)}
<1>1. n \in Nat
  OBVIOUS
<1>2. ASSUME NEW p \in 0..n, \A q \in p + 1..n : q \in T PROVE p \in T
  <2>1. CASE Waits(k, b, p)
    <3>1. f[p] = [taken |-> <<>>, left |-> p]
      BY <2>1, LoopTurns
    <3> HIDE DEF f
    <3> QED BY <2>1, <3>1
  <2>2. CASE ~Waits(k, b, p)
    <3> DEFINE q == Following(k, b, p)
    <3>1. q \in p + 1..n
      BY <2>2, Advances
    <3>2. Waits(k, b, f[q].left)
      BY <1>2, <3>1
    <3>3. f[p].left = f[q].left
      <4>1. /\ ~Takes(k, b, p) => f[p] = f[q]
            /\ Takes(k, b, p) =>
                 f[p] = [taken |-> <<[at |-> p, size |-> SizeAt(k, b, p)]>> \o f[q].taken,
                         left |-> f[q].left]
        BY <2>2, LoopTurns
      <4> HIDE DEF f, q
      <4> QED BY <4>1
    <3> QED BY <3>2, <3>3
  <2> QED BY <2>1, <2>2
<1>3. 0..n \subseteq T
  <2> HIDE DEF T, n
  <2> QED BY <1>1, <1>2, Backwards
<1> QED BY <1>3

\* Frames of a piece, at their places in the stream.
LEMMA MovedSpots ==
    ASSUME NEW s \in Seq(Spots), NEW d \in Nat
    PROVE  /\ Moved(s, d) \in Seq(Spots) /\ Len(Moved(s, d)) = Len(s)
           /\ \A i \in 1..Len(s) : Moved(s, d)[i] = [at |-> s[i].at + d, size |-> s[i].size]
<1> DEFINE F(i) == [at |-> s[i].at + d, size |-> s[i].size]
<1>1. DOMAIN s = 1..Len(s) /\ Len(s) \in Nat
  OBVIOUS
<1>2. ASSUME NEW i \in 1..Len(s) PROVE F(i) \in Spots
  <2>1. s[i] \in Spots
    BY Element
  <2>2. s[i].at \in Nat /\ s[i].size \in Nat
    BY <2>1 DEF Spots
  <2>3. s[i].at + d \in Nat
    BY <2>2
  <2> QED BY <2>2, <2>3 DEF Spots
<1>3. Moved(s, d) = [i \in 1..Len(s) |-> F(i)]
  BY <1>1 DEF Moved
<1> HIDE DEF F
<1>4. [i \in 1..Len(s) |-> F(i)] \in Seq(Spots)
  BY <1>1, <1>2
<1>5. Len([i \in 1..Len(s) |-> F(i)]) = Len(s)
  BY <1>1
<1>6. \A i \in 1..Len(s) : [j \in 1..Len(s) |-> F(j)][i] = F(i)
  OBVIOUS
<1> QED BY <1>3, <1>4, <1>5, <1>6 DEF F

LEMMA MovedNone ==
    ASSUME NEW d
    PROVE  Moved(<<>>, d) = <<>>
BY DEF Moved

LEMMA MovedBefore ==
    ASSUME NEW x \in Spots, NEW s \in Seq(Spots), NEW d \in Nat
    PROVE  Moved(<<x>> \o s, d) = <<[at |-> x.at + d, size |-> x.size]>> \o Moved(s, d)
<1> DEFINE y == [at |-> x.at + d, size |-> x.size]
           t == <<x>> \o s
           m == Moved(s, d)
           u == Moved(t, d)
           v == <<y>> \o m
<1>1. /\ t \in Seq(Spots) /\ Len(t) = 1 + Len(s) /\ t[1] = x
      /\ \A i \in 1..Len(s) : t[1 + i] = s[i]
  BY Before
<1>2. /\ m \in Seq(Spots) /\ Len(m) = Len(s)
      /\ \A i \in 1..Len(s) : m[i] = [at |-> s[i].at + d, size |-> s[i].size]
  BY MovedSpots
<1>3. y \in Spots
  <2>1. x.at + d \in Nat /\ x.size \in Nat
    BY DEF Spots
  <2> QED BY <2>1 DEF Spots
<1>4. Len(s) \in Nat
  OBVIOUS
<1> HIDE DEF t, m
<1>5. /\ u \in Seq(Spots) /\ Len(u) = Len(t)
      /\ \A i \in 1..Len(t) : u[i] = [at |-> t[i].at + d, size |-> t[i].size]
  BY <1>1, MovedSpots
<1>6. u[1] = y
  BY <1>1, <1>4, <1>5
<1> HIDE DEF u, y
<1>7. /\ v \in Seq(Spots) /\ Len(v) = 1 + Len(m) /\ v[1] = y
      /\ \A i \in 1..Len(m) : v[1 + i] = m[i]
  BY <1>2, <1>3, Before
<1> HIDE DEF v
<1>8. ASSUME NEW i \in 1..1 + Len(s) PROVE u[i] = v[i]
  <2>1. CASE i = 1
    BY <2>1, <1>6, <1>7
  <2>2. CASE i # 1
    <3>1. i - 1 \in 1..Len(s) /\ i = 1 + (i - 1) /\ i \in 1..Len(t)
      BY <2>2, <1>1, <1>4
    <3>2. u[i] = [at |-> s[i - 1].at + d, size |-> s[i - 1].size]
      BY <3>1, <1>1, <1>5
    <3>3. v[i] = m[i - 1] /\ m[i - 1] = [at |-> s[i - 1].at + d, size |-> s[i - 1].size]
      BY <3>1, <1>2, <1>7
    <3> QED BY <3>2, <3>3
  <2> QED BY <2>1, <2>2
<1>9. u = v
  BY <1>1, <1>2, <1>5, <1>7, <1>8
<1> QED BY <1>9 DEF u, v, y, t, m

\* The loop on the rest of a stream does what the loop on the stream does there.
LEMMA LoopOfRest ==
    ASSUME NEW k \in Kinds, NEW w \in Seq(0..Top), NEW d \in 0..Len(w)
    PROVE  LET b == Bytes(w, d, Len(w) - d)
           IN \A p \in 0..Len(w) - d :
                Loop(k, w)[d + p] = [taken |-> Moved(Loop(k, b)[p].taken, d),
                                     left |-> d + Loop(k, b)[p].left]
<1> DEFINE n == Len(w) - d
           b == Bytes(w, d, n)
           f == Loop(k, b)
           g == Loop(k, w)
           Same(p) == g[d + p] = [taken |-> Moved(f[p].taken, d), left |-> d + f[p].left]
           T == {p \in 0..n : Same(p)}
<1>1. n \in Nat /\ d \in Nat /\ d + n <= Len(w) /\ d + n = Len(w)
  OBVIOUS
<1>2. b \in Seq(0..Top) /\ Len(b) = n
  <2> HIDE DEF n
  <2> QED BY <1>1, Slice
<1>3. ASSUME NEW p \in 0..n
      PROVE  /\ ~Waits(k, b, p) => /\ ~Waits(k, w, d + p)
                                   /\ Takes(k, w, d + p) <=> Takes(k, b, p)
                                   /\ SizeAt(k, w, d + p) = SizeAt(k, b, p)
                                   /\ Following(k, w, d + p) = d + Following(k, b, p)
             /\ Waits(k, b, p) => Waits(k, w, d + p)
  <2> HIDE DEF n
  <2> QED BY <1>1, Local
<1>4. ASSUME NEW p \in 0..n PROVE d + p \in 0..Len(w) /\ p \in 0..Len(b)
  BY <1>1, <1>2
<1>5. ASSUME NEW p \in 0..n, \A q \in p + 1..n : q \in T PROVE p \in T
  <2>1. CASE Waits(k, b, p)
    <3>1. f[p] = [taken |-> <<>>, left |-> p]
      <4> HIDE DEF b
      <4> QED BY <2>1, <1>2, <1>4, LoopTurns
    <3>2. g[d + p] = [taken |-> <<>>, left |-> d + p]
      <4> HIDE DEF b, n
      <4> QED BY <2>1, <1>3, <1>4, LoopTurns
    <3> HIDE DEF f, g, n, b
    <3>3. Same(p)
      BY <3>1, <3>2, MovedNone
    <3> QED BY <3>3
  <2>2. CASE ~Waits(k, b, p)
    <3> DEFINE q == Following(k, b, p)
    <3>1. q \in p + 1..n
      <4> HIDE DEF b
      <4> QED BY <2>2, <1>2, <1>4, Advances
    <3>2. Same(q) /\ q \in 0..n
      <4>1. q \in 0..n
        BY <1>1, <3>1
      <4> HIDE DEF q
      <4> QED BY <1>5, <3>1, <4>1
    <3>3. /\ ~Waits(k, w, d + p) /\ (Takes(k, w, d + p) <=> Takes(k, b, p))
          /\ SizeAt(k, w, d + p) = SizeAt(k, b, p) /\ Following(k, w, d + p) = d + q
      BY <2>2, <1>3
    <3>4. f[q] \in Scans(q, n)
      <4> HIDE DEF b, q
      <4> QED BY <1>2, <1>4, <3>2, LoopTypes
    <3>5. f[q].taken \in Seq(Spots)
      <4> HIDE DEF f, q
      <4> QED BY <3>4 DEF Scans
    <3>6. CASE ~Takes(k, b, p)
      <4>1. f[p] = f[q]
        <5> HIDE DEF b
        <5> QED BY <2>2, <3>6, <1>2, <1>4, LoopTurns
      <4>2. g[d + p] = g[d + q]
        <5>1. d + p \in 0..Len(w) /\ ~Takes(k, w, d + p)
          BY <1>4, <3>3, <3>6
        <5> HIDE DEF b, n, q
        <5>2. g[d + p] = g[Following(k, w, d + p)]
          BY <3>3, <5>1, LoopTurns
        <5> QED BY <3>3, <5>2
      <4> HIDE DEF f, g, q, n, b
      <4>3. Same(p)
        BY <3>2, <4>1, <4>2
      <4> QED BY <4>3
    <3>7. CASE Takes(k, b, p)
      <4> DEFINE z == SizeAt(k, b, p)
                 x == [at |-> p, size |-> z]
      <4>1. f[p] = [taken |-> <<x>> \o f[q].taken, left |-> f[q].left] /\ z \in Nat
        <5> HIDE DEF b
        <5> QED BY <2>2, <3>7, <1>2, <1>4, LoopTurns
      <4>2. g[d + p] = [taken |-> <<[at |-> d + p, size |-> z]>> \o g[d + q].taken,
                        left |-> g[d + q].left]
        <5>1. d + p \in 0..Len(w) /\ Takes(k, w, d + p)
          BY <1>4, <3>3, <3>7
        <5> HIDE DEF b, n, q
        <5>2. g[d + p] = [taken |-> <<[at |-> d + p, size |-> SizeAt(k, w, d + p)]>>
                                        \o g[Following(k, w, d + p)].taken,
                          left |-> g[Following(k, w, d + p)].left]
          BY <3>3, <5>1, LoopTurns
        <5> QED BY <3>3, <5>2
      <4> HIDE DEF f, g, q, n, b, z
      <4>3. x \in Spots /\ [at |-> x.at + d, size |-> x.size] = [at |-> d + p, size |-> z]
        BY <1>1, <4>1 DEF Spots
      <4> HIDE DEF x
      <4>4. Moved(<<x>> \o f[q].taken, d)
                = <<[at |-> d + p, size |-> z]>> \o Moved(f[q].taken, d)
        <5>1. \A t \in Seq(Spots) : Moved(<<x>> \o t, d)
                                      = <<[at |-> x.at + d, size |-> x.size]>> \o Moved(t, d)
          BY <1>1, <4>3, MovedBefore
        <5> QED BY <3>5, <4>3, <5>1
      <4>5. /\ f[p].taken = <<x>> \o f[q].taken /\ f[p].left = f[q].left
            /\ g[d + q].taken = Moved(f[q].taken, d) /\ g[d + q].left = d + f[q].left
        BY <3>2, <4>1
      <4>6. Same(p)
        BY <4>2, <4>4, <4>5
      <4> QED BY <4>6
    <3> QED BY <3>6, <3>7
  <2> QED BY <2>1, <2>2
<1>6. 0..n \subseteq T
  <2> HIDE DEF T, n
  <2> QED BY <1>1, <1>5, Backwards
<1> QED BY <1>6

LEMMA Associative ==
    ASSUME NEW S, NEW r \in Seq(S), NEW s \in Seq(S), NEW t \in Seq(S)
    PROVE  (r \o s) \o t = r \o (s \o t)
OBVIOUS

LEMMA NothingBefore ==
    ASSUME NEW S, NEW s \in Seq(S)
    PROVE  <<>> \o s = s
OBVIOUS

\* The loop on a stream is the loop on its beginning, and then the loop on the
\* stream from where that ended.
LEMMA LoopOfLonger ==
    ASSUME NEW k \in Kinds, NEW w \in Seq(0..Top), NEW n \in 0..Len(w)
    PROVE  LET b == Bytes(w, 0, n)
           IN \A p \in 0..n :
                LET r == Loop(k, b)[p]
                IN Loop(k, w)[p] = [taken |-> r.taken \o Loop(k, w)[r.left].taken,
                                    left |-> Loop(k, w)[r.left].left]
<1> DEFINE b == Bytes(w, 0, n)
           f == Loop(k, b)
           g == Loop(k, w)
           Same(p) == g[p] = [taken |-> f[p].taken \o g[f[p].left].taken, left |-> g[f[p].left].left]
           T == {p \in 0..n : Same(p)}
<1>1. n \in Nat /\ 0 + n <= Len(w) /\ \A p \in 0..n : 0 + p = p /\ p \in 0..Len(w)
  OBVIOUS
<1>2. b \in Seq(0..Top) /\ Len(b) = n
  BY <1>1, Slice
<1>3. ASSUME NEW p \in 0..n, ~Waits(k, b, p)
      PROVE  /\ ~Waits(k, w, p) /\ (Takes(k, w, p) <=> Takes(k, b, p))
             /\ SizeAt(k, w, p) = SizeAt(k, b, p)
             /\ Following(k, w, p) = Following(k, b, p) /\ Following(k, b, p) \in p + 1..n
  <2>1. Following(k, b, p) \in p + 1..n
    <3> HIDE DEF b
    <3> QED BY <1>2, <1>3, Advances
  <2>2. 0 \in Nat /\ 0 + p = p /\ 0 + Following(k, b, p) = Following(k, b, p)
    BY <1>1, <2>1
  <2>3. /\ ~Waits(k, w, 0 + p) /\ (Takes(k, w, 0 + p) <=> Takes(k, b, p))
        /\ SizeAt(k, w, 0 + p) = SizeAt(k, b, p)
        /\ Following(k, w, 0 + p) = 0 + Following(k, b, p)
    BY <1>1, <1>3, Local
  <2> QED BY <2>1, <2>2, <2>3
<1>4. ASSUME NEW p \in 0..n
      PROVE  /\ f[p].taken \in Seq(Spots) /\ f[p].left \in p..n
             /\ g[p].taken \in Seq(Spots) /\ g[p] = [taken |-> g[p].taken, left |-> g[p].left]
  <2>1. f[p] \in Scans(p, n)
    <3> HIDE DEF b
    <3> QED BY <1>2, LoopTypes
  <2>2. g[p] \in Scans(p, Len(w))
    BY <1>1, LoopTypes
  <2> HIDE DEF f, g
  <2> QED BY <2>1, <2>2 DEF Scans
<1>5. ASSUME NEW p \in 0..n, \A q \in p + 1..n : q \in T PROVE p \in T
  <2>1. CASE Waits(k, b, p)
    <3>1. f[p] = [taken |-> <<>>, left |-> p]
      <4> HIDE DEF b
      <4> QED BY <2>1, <1>2, LoopTurns
    <3>2. <<>> \o g[p].taken = g[p].taken
      <4> HIDE DEF g
      <4> QED BY <1>4, NothingBefore
    <3> HIDE DEF f, g, b
    <3>3. Same(p)
      BY <1>4, <3>1, <3>2
    <3> QED BY <3>3
  <2>2. CASE ~Waits(k, b, p)
    <3> DEFINE q == Following(k, b, p)
    <3>1. /\ ~Waits(k, w, p) /\ (Takes(k, w, p) <=> Takes(k, b, p))
          /\ SizeAt(k, w, p) = SizeAt(k, b, p) /\ Following(k, w, p) = q /\ q \in p + 1..n
      BY <2>2, <1>3
    <3>2. q \in 0..n /\ Same(q)
      <4>1. q \in 0..n
        BY <1>1, <3>1
      <4> HIDE DEF q
      <4> QED BY <1>5, <3>1, <4>1
    <3>3. CASE ~Takes(k, b, p)
      <4>1. f[p] = f[q]
        <5> HIDE DEF b
        <5> QED BY <2>2, <3>3, <1>2, LoopTurns
      <4>2. g[p] = g[q]
        <5> HIDE DEF b, q
        <5> QED BY <3>1, <3>3, <1>1, LoopTurns
      <4> HIDE DEF f, g, q, b
      <4>3. Same(p)
        BY <3>2, <4>1, <4>2
      <4> QED BY <4>3
    <3>4. CASE Takes(k, b, p)
      <4> DEFINE z == SizeAt(k, b, p)
                 x == [at |-> p, size |-> z]
      <4>1. f[p] = [taken |-> <<x>> \o f[q].taken, left |-> f[q].left] /\ z \in Nat
        <5> HIDE DEF b
        <5> QED BY <2>2, <3>4, <1>2, LoopTurns
      <4>2. g[p] = [taken |-> <<x>> \o g[q].taken, left |-> g[q].left]
        <5>1. p \in 0..Len(w) /\ Takes(k, w, p)
          BY <1>1, <3>1, <3>4
        <5> HIDE DEF b, q
        <5>2. g[p] = [taken |-> <<[at |-> p, size |-> SizeAt(k, w, p)]>>
                                    \o g[Following(k, w, p)].taken,
                      left |-> g[Following(k, w, p)].left]
          BY <3>1, <5>1, LoopTurns
        <5> QED BY <3>1, <5>2
      <4>3. f[q].left \in 0..n /\ f[q].taken \in Seq(Spots)
        <5>1. q \in Nat /\ f[q].left \in q..n /\ f[q].taken \in Seq(Spots)
          <6> HIDE DEF f, q
          <6> QED BY <1>4, <3>2
        <5> HIDE DEF f, q
        <5> QED BY <5>1, <1>1
      <4>4. g[f[q].left].taken \in Seq(Spots)
        <5> HIDE DEF f, g, q
        <5> QED BY <1>4, <4>3
      <4>5. <<x>> \in Seq(Spots)
        <5>1. x \in Spots
          BY <4>1 DEF Spots
        <5> HIDE DEF x
        <5> QED BY <5>1
      <4> HIDE DEF f, g, q, b, x
      <4>6. (<<x>> \o f[q].taken) \o g[f[q].left].taken = <<x>> \o (f[q].taken \o g[f[q].left].taken)
        <5>1. ASSUME NEW r \in Seq(Spots), NEW t \in Seq(Spots), NEW u \in Seq(Spots)
              PROVE  (r \o t) \o u = r \o (t \o u)
          BY Associative, SMTT(30)
        <5> QED BY <4>3, <4>4, <4>5, <5>1
      <4>7. /\ f[p].taken = <<x>> \o f[q].taken /\ f[p].left = f[q].left
            /\ g[q].taken = f[q].taken \o g[f[q].left].taken /\ g[q].left = g[f[q].left].left
        <5>1. f[p].taken = <<x>> \o f[q].taken /\ f[p].left = f[q].left
          BY <4>1
        <5>2. /\ g[q].taken = f[q].taken \o g[f[q].left].taken
              /\ g[q].left = g[f[q].left].left
          <6> DEFINE s == f[q].taken \o g[f[q].left].taken
                     l == g[f[q].left].left
          <6>1. g[q] = [taken |-> s, left |-> l]
            BY <3>2
          <6> HIDE DEF s, l
          <6>2. g[q].taken = s /\ g[q].left = l
            BY <6>1
          <6> QED BY <6>2 DEF s, l
        <5> QED BY <5>1, <5>2
      <4>8. Same(p)
        BY <4>2, <4>6, <4>7
      <4> QED BY <4>8
    <3> QED BY <3>3, <3>4
  <2> QED BY <2>1, <2>2
<1>6. 0..n \subseteq T
  <2> HIDE DEF T
  <2> QED BY <1>1, <1>5, Backwards
<1> QED BY <1>6

-----------------------------------------------------------------------------
(* Parsers: whole frames.                                                  *)

LEMMA Framed ==
    ASSUME NEW S, NEW h \in Seq(S), NEW m \in Seq(S), NEW t \in Seq(S)
    PROVE  /\ (h \o m) \o t \in Seq(S) /\ Len((h \o m) \o t) = Len(h) + Len(m) + Len(t)
           /\ \A i \in 1..Len(h) : ((h \o m) \o t)[i] = h[i]
           /\ \A i \in 1..Len(t) : ((h \o m) \o t)[Len(h) + Len(m) + i] = t[i]
           /\ Bytes((h \o m) \o t, Len(h), Len(m)) = m
<1>1. /\ h \o m \in Seq(S) /\ Len(h \o m) = Len(h) + Len(m)
      /\ \A i \in 1..Len(h) : (h \o m)[i] = h[i]
  BY Joined
<1>2. Bytes(h \o m, Len(h), Len(m)) = m
  BY SliceAdded
<1>3. Len(h) \in Nat /\ Len(m) \in Nat
  OBVIOUS
<1> DEFINE w == h \o m
<1> HIDE DEF w
<1>4. w \in Seq(S) /\ Len(w) = Len(h) + Len(m) /\ \A i \in 1..Len(h) : w[i] = h[i]
  BY <1>1 DEF w
<1>5. /\ w \o t \in Seq(S) /\ Len(w \o t) = Len(w) + Len(t)
      /\ \A i \in 1..Len(w) : (w \o t)[i] = w[i]
      /\ \A i \in 1..Len(t) : (w \o t)[Len(w) + i] = t[i]
  <2>1. \A r \in Seq(S) :
           /\ r \o t \in Seq(S) /\ Len(r \o t) = Len(r) + Len(t)
           /\ \A i \in 1..Len(r) : (r \o t)[i] = r[i]
           /\ \A i \in 1..Len(t) : (r \o t)[Len(r) + i] = t[i]
    BY Joined
  <2> QED BY <1>4, <2>1
<1>6. \A i \in 1..Len(h) : (w \o t)[i] = h[i]
  <2>1. \A i \in 1..Len(h) : i \in 1..Len(w)
    BY <1>3, <1>4
  <2> QED BY <2>1, <1>4, <1>5
<1>7. Bytes(w \o t, Len(h), Len(m)) = Bytes(w, Len(h), Len(m))
  <2>1. Len(h) + Len(m) <= Len(w)
    BY <1>3, <1>4
  <2> QED BY <2>1, <1>3, <1>4, SliceGrown
<1>8. /\ Len(w \o t) = Len(h) + Len(m) + Len(t)
      /\ \A i \in 1..Len(t) : (w \o t)[Len(h) + Len(m) + i] = t[i]
  BY <1>4, <1>5
<1>9. Bytes(w \o t, Len(h), Len(m)) = m
  BY <1>2, <1>7 DEF w
<1> QED BY <1>5, <1>6, <1>8, <1>9 DEF w

\* What the loop looks at in the header of a frame f.
LEMMA FrameHeader ==
    ASSUME NEW k \in Kinds, NEW f \in Seq(0..Top), Overhead(k) <= Len(f)
    PROVE  LET h == Bytes(f, 0, Overhead(k))
           IN /\ Byte(h, 0) = f[1] /\ Byte(h, 1) = f[2] /\ Byte(h, 2) = f[3]
              /\ Area(k, h) = Area(k, f) /\ (Starts(k, h) <=> Starts(k, f))
              /\ (Plausible(k, h) <=> Plausible(k, f)) /\ Size(k, h) = Size(k, f)
<1> DEFINE h == Bytes(f, 0, Overhead(k))
<1>1. Overhead(k) \in Nat /\ Overhead(k) >= 3 /\ 0 + Overhead(k) <= Len(f) /\ 0 \in Nat
  BY Formats
<1>2. \A i \in 1..Overhead(k) : h[i] = f[0 + i]
  BY <1>1, Slice
<1>3. h[1] = f[1] /\ h[2] = f[2] /\ h[3] = f[3]
  <2>1. 1 \in 1..Overhead(k) /\ 2 \in 1..Overhead(k) /\ 3 \in 1..Overhead(k)
    BY <1>1
  <2>2. 0 + 1 = 1 /\ 0 + 2 = 2 /\ 0 + 3 = 3
    OBVIOUS
  <2> HIDE DEF h
  <2> QED BY <1>2, <2>1, <2>2
<1>4. \A s : Byte(s, 0) = s[1] /\ Byte(s, 1) = s[2] /\ Byte(s, 2) = s[3]
  BY DEF Byte
<1> HIDE DEF h
<1>5. Byte(h, 0) = Byte(f, 0) /\ Byte(h, 1) = Byte(f, 1) /\ Byte(h, 2) = Byte(f, 2)
  BY <1>3, <1>4
<1>6. Area(k, h) = Area(k, f)
  BY <1>5 DEF Area
<1>7. Starts(k, h) <=> Starts(k, f)
  BY <1>5 DEF Starts
<1>8. Plausible(k, h) <=> Plausible(k, f)
  BY <1>5, <1>6 DEF Plausible
<1>9. Size(k, h) = Size(k, f)
  BY <1>6 DEF Size
<1> QED BY <1>4, <1>5, <1>6, <1>7, <1>8, <1>9 DEF h

\* encode_frame, and the frames of the other channels: what is sent passes all
\* the tests of the loop.
LEMMA Encoded ==
    ASSUME NEW k \in Kinds, NEW p \in Payloads[k]
    PROVE  LET e == Encode(k, p)
           IN /\ e \in Seq(0..Top) /\ Overhead(k) <= Len(e)
              /\ Starts(k, e) /\ Plausible(k, e) /\ Size(k, e) = Len(e) /\ Sound(k, e)
<1>1. Sendable(k, p) /\ (k = "ctrl" => Crc(<<Len(p)>> \o p) \in 0..Top)
  BY ParsersAssumption
<1>2. p \in Seq(0..Top) /\ Len(p) \in Nat
  BY <1>1 DEF Sendable
<1>3. Top \in Nat /\ Top >= 5 /\ MaxPayload \in 0..Top /\ MaxSections \in 0..Top
  BY ParsersAssumption
<1>4. CASE k = "ctrl"
  <2> DEFINE l == Len(p)
             h == <<SYNC0, SYNC1>>
             m == <<l>> \o p
             c == Crc(m)
             e == (h \o m) \o <<c>>
  <2>1. l <= MaxPayload /\ l \in 0..Top /\ c \in 0..Top
    BY <1>1, <1>2, <1>3, <1>4 DEF Sendable
  <2>2. h \in Seq(0..Top) /\ Len(h) = 2 /\ h[1] = SYNC0 /\ h[2] = SYNC1
    BY <1>3 DEF SYNC0, SYNC1
  <2>3. m \in Seq(0..Top) /\ Len(m) = 1 + l /\ m[1] = l
    <3> HIDE DEF l
    <3> QED BY <1>2, <2>1, Before DEF l
  <2>4. <<c>> \in Seq(0..Top) /\ Len(<<c>>) = 1 /\ <<c>>[1] = c
    <3> HIDE DEF c
    <3> QED BY <2>1
  <2>5. Encode(k, p) = e
    <3>1. Encode(k, p) = (<<SYNC0, SYNC1, l>> \o p) \o <<c>>
      BY <1>4 DEF Encode
    <3>2. <<SYNC0, SYNC1, l>> = h \o <<l>>
      OBVIOUS
    <3>3. <<l>> \in Seq(0..Top)
      BY <2>1
    <3>4. (h \o <<l>>) \o p = h \o m
      <4>1. ASSUME NEW r \in Seq(0..Top), NEW s \in Seq(0..Top), NEW t \in Seq(0..Top)
            PROVE  (r \o s) \o t = r \o (s \o t)
        BY Associative, SMTT(30)
      <4> QED BY <4>1, <2>2, <3>3, <1>2
    <3> QED BY <3>1, <3>2, <3>4
  <2> HIDE DEF h, m, c
  <2>6. /\ e \in Seq(0..Top) /\ Len(e) = Len(h) + Len(m) + Len(<<c>>)
        /\ \A i \in 1..Len(h) : e[i] = h[i]
        /\ \A i \in 1..Len(<<c>>) : e[Len(h) + Len(m) + i] = <<c>>[i]
        /\ Bytes(e, Len(h), Len(m)) = m
    <3>1. \A r, s, t \in Seq(0..Top) :
             /\ (r \o s) \o t \in Seq(0..Top) /\ Len((r \o s) \o t) = Len(r) + Len(s) + Len(t)
             /\ \A i \in 1..Len(r) : ((r \o s) \o t)[i] = r[i]
             /\ \A i \in 1..Len(t) : ((r \o s) \o t)[Len(r) + Len(s) + i] = t[i]
             /\ Bytes((r \o s) \o t, Len(r), Len(s)) = s
      BY Framed
    <3> QED BY <3>1, <2>2, <2>3, <2>4
  <2> HIDE DEF e
  <2>7. Len(e) = 4 + l /\ e[1] = SYNC0 /\ e[2] = SYNC1 /\ e[4 + l] = c /\ Bytes(e, 2, 1 + l) = m
    <3>1. 1 \in 1..Len(h) /\ 2 \in 1..Len(h) /\ 1 \in 1..Len(<<c>>)
      BY <2>2, <2>4
    <3>2. Len(h) + Len(m) + 1 = 4 + l
      BY <2>2, <2>3, <2>1
    <3> QED BY <2>2, <2>3, <2>4, <2>6, <3>1, <3>2
  <2>8. e[3] = l
    <3>1. 2 + (1 + l) <= Len(e) /\ 1 + l \in Nat /\ 1 \in 1..1 + l
      BY <2>1, <2>7
    <3>2. \A i \in 1..1 + l : Bytes(e, 2, 1 + l)[i] = e[2 + i]
      <4>1. \A s \in Seq(0..Top) : 2 + (1 + l) <= Len(s) =>
               \A i \in 1..1 + l : Bytes(s, 2, 1 + l)[i] = s[2 + i]
        BY <3>1, Slice
      <4> QED BY <3>1, <2>6, <4>1
    <3>3. m[1] = e[2 + 1]
      BY <2>7, <3>1, <3>2
    <3> QED BY <2>3, <3>3
  <2>9. Byte(e, 0) = e[1] /\ Byte(e, 1) = e[2] /\ Byte(e, 2) = e[3] /\ Byte(e, 3 + l) = e[4 + l]
    BY <2>1 DEF Byte
  <2>10. Area(k, e) = l /\ Overhead(k) = 4
    BY <1>4, <2>8, <2>9 DEF Area, Overhead
  <2>11. Starts(k, e) /\ Plausible(k, e) /\ Size(k, e) = Len(e)
    BY <1>4, <2>1, <2>7, <2>9, <2>10 DEF Starts, Plausible, Size
  <2>12. Sound(k, e)
    BY <1>4, <2>7, <2>9, <2>10 DEF Sound, c
  <2>13. Overhead(k) <= Len(e)
    BY <2>1, <2>7, <2>10
  <2> QED BY <2>5, <2>6, <2>11, <2>12, <2>13
<1>5. CASE k = "ota"
  <2> DEFINE l == Len(p)
             h == <<TAG, l>>
             t == <<APPENDIX>>
             e == (h \o p) \o t
  <2>1. l \in 0..Top
    BY <1>1, <1>2, <1>3, <1>5 DEF Sendable
  <2>2. /\ h \in Seq(0..Top) /\ Len(h) = 2 /\ h[1] = TAG /\ h[2] = l
        /\ t \in Seq(0..Top) /\ Len(t) = 1 /\ t[1] = APPENDIX
    <3> HIDE DEF l
    <3> QED BY <1>3, <2>1 DEF TAG, APPENDIX
  <2>3. Encode(k, p) = e
    BY <1>5 DEF Encode
  <2> HIDE DEF h, t
  <2>4. /\ e \in Seq(0..Top) /\ Len(e) = Len(h) + Len(p) + Len(t)
        /\ \A i \in 1..Len(h) : e[i] = h[i]
        /\ \A i \in 1..Len(t) : e[Len(h) + Len(p) + i] = t[i]
    <3>1. \A r, s, u \in Seq(0..Top) :
             /\ (r \o s) \o u \in Seq(0..Top) /\ Len((r \o s) \o u) = Len(r) + Len(s) + Len(u)
             /\ \A i \in 1..Len(r) : ((r \o s) \o u)[i] = r[i]
             /\ \A i \in 1..Len(u) : ((r \o s) \o u)[Len(r) + Len(s) + i] = u[i]
      BY Framed
    <3> QED BY <3>1, <2>2, <1>2
  <2> HIDE DEF e
  <2>5. Len(e) = 3 + l /\ e[1] = TAG /\ e[2] = l /\ e[3 + l] = APPENDIX
    <3>1. 1 \in 1..Len(h) /\ 2 \in 1..Len(h) /\ 1 \in 1..Len(t)
      BY <2>2
    <3>2. Len(h) + Len(p) + 1 = 3 + l
      BY <2>2, <2>1
    <3> QED BY <2>2, <2>4, <3>1, <3>2
  <2>6. Byte(e, 0) = e[1] /\ Byte(e, 1) = e[2] /\ Byte(e, 2 + l) = e[3 + l]
    BY <2>1 DEF Byte
  <2>7. Area(k, e) = l /\ Overhead(k) = 3
    BY <1>5, <2>5, <2>6 DEF Area, Overhead
  <2>8. Starts(k, e) /\ Plausible(k, e) /\ Size(k, e) = Len(e) /\ Sound(k, e)
    BY <1>5, <2>5, <2>6, <2>7 DEF Starts, Plausible, Size, Sound
  <2>9. Overhead(k) <= Len(e)
    BY <2>1, <2>5, <2>7
  <2> QED BY <2>3, <2>4, <2>8, <2>9
<1>6. CASE k = "audio"
  <2> DEFINE l == Len(p)
             n == CHOOSE i \in SectionsOf(p) : TRUE
             h == <<TAG, l + 1, n>>
             e == h \o p
  <2>1. l + 1 <= Top /\ SectionsOf(p) # {}
    BY <1>1, <1>6 DEF Sendable, EXTRA
  <2>2. n \in SectionsOf(p)
    BY <2>1
  <2>3. n \in 1..MaxSections /\ HeaderPlausible(n, l) /\ WalkEnds(p, n)
    <3> HIDE DEF n
    <3> QED BY <2>2 DEF SectionsOf
  <2> HIDE DEF n
  <2>4. h \in Seq(0..Top) /\ Len(h) = 3 /\ h[1] = TAG /\ h[2] = l + 1 /\ h[3] = n
    <3>1. n \in 0..Top /\ l + 1 \in 0..Top /\ TAG \in 0..Top
      BY <1>2, <1>3, <2>1, <2>3 DEF TAG
    <3> HIDE DEF l
    <3> QED BY <3>1
  <2>5. Encode(k, p) = e
    BY <1>6 DEF Encode, EXTRA, n
  <2> HIDE DEF h
  <2>6. /\ e \in Seq(0..Top) /\ Len(e) = Len(h) + Len(p)
        /\ \A i \in 1..Len(h) : e[i] = h[i]
    <3>1. \A r, s \in Seq(0..Top) :
             /\ r \o s \in Seq(0..Top) /\ Len(r \o s) = Len(r) + Len(s)
             /\ \A i \in 1..Len(r) : (r \o s)[i] = r[i]
      BY Joined
    <3> QED BY <3>1, <2>4, <1>2
  <2>7. Bytes(e, 3, l) = p
    <3>1. Bytes(e, Len(h), Len(p)) = p
      BY <2>4, <1>2, SliceAdded
    <3> QED BY <3>1, <2>4
  <2> HIDE DEF e
  <2>8. e[1] = TAG /\ e[2] = l + 1 /\ e[3] = n
    <3>1. 1 \in 1..Len(h) /\ 2 \in 1..Len(h) /\ 3 \in 1..Len(h)
      BY <2>4
    <3> QED BY <2>4, <2>6, <3>1
  <2>9. Byte(e, 0) = e[1] /\ Byte(e, 1) = e[2] /\ Byte(e, 2) = e[3]
    BY DEF Byte
  <2>10. Area(k, e) = l /\ Overhead(k) = 3
    BY <1>2, <1>6, <2>8, <2>9 DEF Area, Overhead, EXTRA
  <2>11. Starts(k, e) /\ Plausible(k, e) /\ Sound(k, e)
    BY <1>6, <2>3, <2>7, <2>8, <2>9, <2>10 DEF Starts, Plausible, Sound
  <2>12. Size(k, e) = Len(e) /\ Overhead(k) <= Len(e)
    BY <1>2, <2>4, <2>6, <2>10 DEF Size
  <2> QED BY <2>5, <2>6, <2>11, <2>12
<1> QED BY <1>4, <1>5, <1>6, Formats

\* The loop takes a whole frame when it comes to it.
LEMMA WholeTaken ==
    ASSUME NEW k \in Kinds, NEW b \in Seq(0..Top), NEW a \in Nat, NEW p \in Payloads[k],
           a + Len(Encode(k, p)) <= Len(b), Bytes(b, a, Len(Encode(k, p))) = Encode(k, p)
    PROVE  /\ Len(Encode(k, p)) \in Nat /\ Overhead(k) <= Len(Encode(k, p))
           /\ SizeAt(k, b, a) = Len(Encode(k, p)) /\ Takes(k, b, a) /\ ~Waits(k, b, a)
           /\ a + Overhead(k) <= Len(b) /\ Starts(k, Header(k, b, a))
<1> DEFINE e == Encode(k, p)
           m == Len(e)
<1>1. /\ e \in Seq(0..Top) /\ Overhead(k) <= m
      /\ Starts(k, e) /\ Plausible(k, e) /\ Size(k, e) = m /\ Sound(k, e)
  BY Encoded
<1>2. m \in Nat /\ Overhead(k) \in Nat /\ Len(b) \in Nat /\ a + Overhead(k) <= Len(b)
  <2>1. m \in Nat
    <3> HIDE DEF e
    <3> QED BY <1>1
  <2>2. a + m <= Len(b) /\ Overhead(k) \in Nat
    BY Formats
  <2> HIDE DEF m
  <2> QED BY <1>1, <2>1, <2>2
<1>3. Header(k, b, a) = Bytes(e, 0, Overhead(k))
  <2>1. Bytes(b, a, m) = e /\ a + m <= Len(b)
    OBVIOUS
  <2>2. 0 \in Nat /\ 0 + Overhead(k) <= m /\ a + 0 = a
    <3> HIDE DEF m
    <3> QED BY <1>1, <1>2
  <2> HIDE DEF e, m
  <2>3. Bytes(Bytes(b, a, m), 0, Overhead(k)) = Bytes(b, a + 0, Overhead(k))
    BY <1>2, <2>1, <2>2, SliceOfSlice
  <2> QED BY <2>1, <2>2, <2>3 DEF Header
<1>4. /\ Starts(k, Bytes(e, 0, Overhead(k))) /\ Plausible(k, Bytes(e, 0, Overhead(k)))
      /\ Size(k, Bytes(e, 0, Overhead(k))) = m
  <2> HIDE DEF e
  <2> QED BY <1>1, FrameHeader
<1>5. Begins(k, b, a) /\ SizeAt(k, b, a) = m
  <2> HIDE DEF e
  <2> QED BY <1>3, <1>4 DEF Begins, SizeAt
<1>6. Takes(k, b, a)
  BY <1>1, <1>5 DEF Takes
<1>7. ~Waits(k, b, a)
  <2>1. ~(Len(b) - a < Overhead(k)) /\ ~(Len(b) - a < m)
    <3>1. a + m <= Len(b)
      OBVIOUS
    <3> HIDE DEF m
    <3> QED BY <1>2, <3>1
  <2> QED BY <1>5, <2>1 DEF Waits
<1> QED BY <1>1, <1>2, <1>3, <1>4, <1>5, <1>6, <1>7

LEMMA ToSetBefore ==
    ASSUME NEW S, NEW x \in S, NEW s \in Seq(S)
    PROVE  {x} \cup ToSet(s) \subseteq ToSet(<<x>> \o s)
<1> DEFINE t == <<x>> \o s
<1>1. /\ t \in Seq(S) /\ Len(t) = 1 + Len(s) /\ t[1] = x /\ \A i \in 1..Len(s) : t[1 + i] = s[i]
  BY Before
<1>2. Len(s) \in Nat /\ DOMAIN s = 1..Len(s)
  OBVIOUS
<1> HIDE DEF t
<1>3. DOMAIN t = 1..Len(t)
  BY <1>1
<1>4. \A i \in 1..Len(t) : t[i] \in ToSet(t)
  BY <1>3 DEF ToSet
<1>5. 1 \in 1..Len(t) /\ \A i \in 1..Len(s) : 1 + i \in 1..Len(t)
  BY <1>1, <1>2
<1>6. x \in ToSet(t) /\ \A i \in 1..Len(s) : s[i] \in ToSet(t)
  BY <1>1, <1>4, <1>5
<1>7. ToSet(s) \subseteq ToSet(t)
  BY <1>2, <1>6 DEF ToSet
<1> QED BY <1>6, <1>7 DEF t

\* Frames taken that are the one of size m at a, or lie across its beginning.
Met(frames, a, m) ==
    \/ [at |-> a, size |-> m] \in ToSet(frames)
    \/ \E g \in ToSet(frames) : g.at < a /\ a < g.at + g.size

\* A whole frame that is in the buffer is taken, or a frame across it is, or the
\* loop ends before it at a plausible header whose bytes have not all come.
LEMMA WholeMet ==
    ASSUME NEW k \in Kinds, NEW b \in Seq(0..Top), NEW a \in Nat, NEW p \in Payloads[k],
           a + Len(Encode(k, p)) <= Len(b), Bytes(b, a, Len(Encode(k, p))) = Encode(k, p)
    PROVE  LET r == Loop(k, b)[0]
           IN \/ Met(r.taken, a, Len(Encode(k, p)))
              \/ r.left < a /\ Len(b) - r.left < SizeAt(k, b, r.left)
<1> DEFINE m == Len(Encode(k, p))
           n == Len(b)
           f == Loop(k, b)
           Stays(i) == f[i].left < a /\ n - f[i].left < SizeAt(k, b, f[i].left)
           T == {i \in 0..a : Met(f[i].taken, a, m) \/ Stays(i)}
<1>1. /\ m \in Nat /\ Overhead(k) <= m /\ SizeAt(k, b, a) = m /\ Takes(k, b, a) /\ ~Waits(k, b, a)
      /\ a + Overhead(k) <= n /\ Starts(k, Header(k, b, a)) /\ a + m <= n
  BY WholeTaken
<1> HIDE DEF m
<1>2. n \in Nat /\ Overhead(k) \in Nat /\ \A i \in 0..a : i \in 0..n /\ i \in Nat /\ i + Overhead(k) <= n
  <2>1. n \in Nat /\ Overhead(k) \in Nat
    BY Formats
  <2> DEFINE o == Overhead(k)
  <2>2. o \in Nat /\ a + o <= n
    BY <1>1, <2>1
  <2> HIDE DEF n, o
  <2>3. \A i \in 0..a : i \in 0..n /\ i \in Nat /\ i + o <= n
    BY <2>1, <2>2 DEF n
  <2> QED BY <2>1, <2>3 DEF o
<1>3. ASSUME NEW i \in 0..n
      PROVE  f[i].taken \in Seq(Spots)
  <2>1. f[i] \in Scans(i, n)
    BY LoopTypes
  <2> HIDE DEF f
  <2> QED BY <2>1 DEF Scans
<1>4. ASSUME NEW i \in 0..a, \A j \in i + 1..a : j \in T PROVE i \in T
  <2> DEFINE q == Following(k, b, i)
  <2>1. i \in 0..n /\ i + Overhead(k) <= n
    BY <1>2
  <2>2. CASE Waits(k, b, i)
    <3>1. f[i] = [taken |-> <<>>, left |-> i]
      BY <2>1, <2>2, LoopTurns
    <3>2. i # a
      BY <1>1, <2>2
    <3>3. i < a /\ n - i < SizeAt(k, b, i)
      <4>1. ~(n - i < Overhead(k))
        BY <1>2, <2>1
      <4>2. n - i < SizeAt(k, b, i)
        BY <2>2, <4>1 DEF Waits
      <4> QED BY <3>2, <4>2
    <3>4. f[i].left = i
      <4> HIDE DEF f
      <4> QED BY <3>1
    <3> HIDE DEF f
    <3> QED BY <3>3, <3>4
  <2>3. CASE ~Waits(k, b, i) /\ Takes(k, b, i)
    <3> DEFINE z == SizeAt(k, b, i)
               x == [at |-> i, size |-> z]
    <3>1. f[i] = [taken |-> <<x>> \o f[q].taken, left |-> f[q].left] /\ z \in Nat /\ q = i + z
      BY <2>1, <2>3, LoopTurns
    <3>2. q \in i + 1..n /\ q \in 0..n
      <4>1. q \in i + 1..n
        BY <2>1, <2>3, Advances
      <4> QED BY <4>1, <1>2
    <3>3. f[q].taken \in Seq(Spots)
      BY <1>3, <3>2
    <3>4. x \in Spots
      BY <3>1 DEF Spots
    <3>5. f[i].taken = <<x>> \o f[q].taken /\ f[i].left = f[q].left
      <4> DEFINE u == <<x>> \o f[q].taken
                 l == f[q].left
      <4>1. f[i] = [taken |-> u, left |-> l]
        BY <3>1
      <4> HIDE DEF u, l, f
      <4>2. f[i].taken = u /\ f[i].left = l
        BY <4>1
      <4> QED BY <4>2 DEF u, l
    <3>6. x \in ToSet(f[i].taken) /\ ToSet(f[q].taken) \subseteq ToSet(f[i].taken)
      <4> HIDE DEF f, q, x
      <4>1. \A s \in Seq(Spots) : {x} \cup ToSet(s) \subseteq ToSet(<<x>> \o s)
        BY <3>4, ToSetBefore
      <4> QED BY <3>3, <3>5, <4>1
    <3>7. CASE i = a
      <4>1. x = [at |-> a, size |-> m]
        BY <1>1, <3>7
      <4>2. Met(f[i].taken, a, m)
        <5> HIDE DEF f, x
        <5> QED BY <3>6, <4>1 DEF Met
      <4> HIDE DEF f
      <4> QED BY <4>2
    <3>8. CASE i < a /\ a < q
      <4>1. x.at < a /\ a < x.at + x.size
        BY <3>1, <3>8
      <4>2. Met(f[i].taken, a, m)
        <5> HIDE DEF f, x
        <5> QED BY <3>6, <4>1 DEF Met
      <4> HIDE DEF f
      <4> QED BY <4>2
    <3>9. CASE q <= a
      <4>1. q \in i + 1..a
        <5> HIDE DEF q
        <5> QED BY <3>2, <3>9
      <4>2. Met(f[q].taken, a, m) \/ Stays(q)
        <5> HIDE DEF q
        <5> QED BY <1>4, <4>1
      <4>3. Met(f[q].taken, a, m) => Met(f[i].taken, a, m)
        <5> HIDE DEF f, q
        <5> QED BY <3>6 DEF Met
      <4>4. Stays(q) => Stays(i)
        <5> HIDE DEF f, q
        <5> QED BY <3>5
      <4> HIDE DEF f, q
      <4> QED BY <4>2, <4>3, <4>4
    <3> HIDE DEF f, T
    <3>10. i = a \/ (i < a /\ a < q) \/ q <= a
      <4> HIDE DEF q
      <4> QED BY <1>2, <3>2
    <3> HIDE DEF q
    <3> QED BY <3>7, <3>8, <3>9, <3>10
  <2>4. CASE ~Waits(k, b, i) /\ ~Takes(k, b, i)
    <3>1. f[i] = f[q]
      BY <2>1, <2>4, LoopTurns
    <3>2. i # a
      BY <1>1, <2>4
    <3>3. q \in i + 1..a
      <4>1. CASE ~Starts(k, Header(k, b, i))
        BY <3>2, <4>1, <1>2 DEF Following
      <4>2. CASE Starts(k, Header(k, b, i)) /\ k # "ctrl"
        BY <2>4, <3>2, <4>2, <1>2 DEF Following, Resume
      <4>3. CASE Starts(k, Header(k, b, i)) /\ k = "ctrl"
        <5>1. q = i + 2
          BY <2>4, <4>3 DEF Following, Resume
        <5>2. b[i + 2] = SYNC1
          <6>1. Byte(Header(k, b, i), 1) = b[i + 2]
            BY <1>2, <2>1, HeaderBytes
          <6> QED BY <4>3, <6>1 DEF Starts
        <5>3. b[a + 1] = SYNC0
          <6>1. Byte(Header(k, b, a), 0) = b[a + 1]
            BY <1>1, HeaderBytes
          <6> QED BY <1>1, <4>3, <6>1 DEF Starts
        <5>4. i + 1 # a
          <6>1. i + 1 = a => i + 2 = a + 1
            OBVIOUS
          <6> QED BY <5>2, <5>3, <6>1 DEF SYNC0, SYNC1
        <5> QED BY <1>2, <3>2, <5>1, <5>4
      <4> QED BY <4>1, <4>2, <4>3
    <3>4. Met(f[q].taken, a, m) \/ Stays(q)
      <4> HIDE DEF q
      <4> QED BY <1>4, <3>3
    <3> HIDE DEF f, q
    <3> QED BY <3>1, <3>4
  <2> QED BY <2>2, <2>3, <2>4
<1>5. 0..a \subseteq T
  <2> HIDE DEF T
  <2> QED BY <1>4, Backwards
<1>6. 0 \in T
  <2>1. 0 \in 0..a
    OBVIOUS
  <2> HIDE DEF T
  <2> QED BY <1>5, <2>1
<1> QED BY <1>6 DEF m

-----------------------------------------------------------------------------
(* Parsers: the invariant.                                                 *)

\* A frame that was sent whole is in the stream as it was encoded.
Sent(f) ==
    /\ f \in Spots /\ f.at + f.size <= Len(wire)
    /\ \E p \in Payloads[kind] :
        f.size = Len(Encode(kind, p)) /\ Bytes(wire, f.at, f.size) = Encode(kind, p)

Apart(f, g) == f.at + f.size <= g.at \/ g.at + g.size <= f.at

ParserTypes ==
    /\ kind \in Kinds /\ wire \in Seq(0..Top) /\ read \in 0..Len(wire)

\* The stream is made of bytes and, among them, of frames that lie apart; and
\* the buffer and the frames taken are those of one feed() with all that was
\* read.
ParserInv ==
    /\ ParserTypes
    /\ \A f \in whole : Sent(f)
    /\ \A f, g \in whole : f = g \/ Apart(f, g)
    /\ ReadsDontMatter

LEMMA ParserStarts == ParserInit => ParserInv
<1> SUFFICES ASSUME ParserInit PROVE ParserInv
  OBVIOUS
<1>1. /\ kind \in Kinds /\ wire = <<>> /\ whole = {} /\ read = 0 /\ buf = <<>> /\ got = <<>>
  BY DEF ParserInit
<1>2. wire \in Seq(0..Top) /\ Len(wire) = 0 /\ 0 \in 0..Len(wire)
  BY <1>1
<1>3. SubSeq(wire, 1, read) = <<>>
  BY <1>1
<1>4. Scan(kind, <<>>) = [taken |-> <<>>, left |-> 0]
  <2>1. <<>> \in Seq(0..Top) /\ Len(<<>>) = 0 /\ 0 \in 0..Len(<<>>)
    OBVIOUS
  <2> DEFINE e == <<>>
  <2>2. Len(e) = 0 /\ e \in Seq(0..Top)
    OBVIOUS
  <2> HIDE DEF e
  <2>3. Waits(kind, e, 0)
    BY <1>1, <2>2, Formats DEF Waits
  <2>4. 0 \in 0..Len(e)
    BY <2>2
  <2>5. Loop(kind, e)[0] = [taken |-> <<>>, left |-> 0]
    <3>1. \A b \in Seq(0..Top) : \A p \in 0..Len(b) :
             Waits(kind, b, p) => Loop(kind, b)[p] = [taken |-> <<>>, left |-> p]
      BY <1>1, LoopTurns
    <3> QED BY <2>2, <2>3, <2>4, <3>1
  <2> QED BY <2>5 DEF Scan, e
<1>5. ReadsDontMatter
  <2>1. SubSeq(wire, 0 + 1, read) = <<>>
    BY <1>1
  <2>2. Scan(kind, <<>>).taken = <<>> /\ Scan(kind, <<>>).left = 0
    BY <1>4
  <2> QED BY <1>1, <1>3, <2>1, <2>2 DEF ReadsDontMatter
<1> QED BY <1>1, <1>2, <1>5 DEF ParserInv, ParserTypes

\* What is left of a read and the frames it gave do not change when more is sent.
LEMMA EmitKeeps ==
    ASSUME ParserInv, NEW e \in Seq(0..Top), Emit(e)
    PROVE  /\ ParserTypes' /\ ReadsDontMatter'
           /\ Len(wire') = Len(wire) + Len(e) /\ Bytes(wire', Len(wire), Len(e)) = e
           /\ \A f : Sent(f) => Sent(f)'
<1>1. kind \in Kinds /\ wire \in Seq(0..Top) /\ read \in 0..Len(wire)
  BY DEF ParserInv, ParserTypes
<1>2. wire' = wire \o e /\ kind' = kind /\ read' = read /\ buf' = buf /\ got' = got
  BY DEF Emit
<1>3. /\ wire' \in Seq(0..Top) /\ Len(wire') = Len(wire) + Len(e) /\ Len(wire) \in Nat /\ Len(e) \in Nat
      /\ Bytes(wire', Len(wire), Len(e)) = e
  BY <1>1, <1>2, Joined, SliceAdded
<1>4. read \in 0..Len(wire')
  BY <1>1, <1>3
<1>5. ASSUME NEW a \in Nat, NEW n \in Nat, a + n <= Len(wire)
      PROVE  Bytes(wire', a, n) = Bytes(wire, a, n)
  BY <1>1, <1>2, <1>5, SliceGrown
<1>6. ReadsDontMatter'
  <2> DEFINE w == SubSeq(wire, 1, read)
             l == Scan(kind, w).left
  <2>1. w = Bytes(wire, 0, read) /\ SubSeq(wire', 1, read) = Bytes(wire', 0, read)
    BY <1>1, <1>3, <1>4, SliceAll
  <2>2. Bytes(wire', 0, read) = Bytes(wire, 0, read)
    <3>1. 0 \in Nat /\ read \in Nat /\ 0 + read <= Len(wire)
      BY <1>1
    <3> QED BY <3>1, <1>5
  <2>3. w \in Seq(0..Top) /\ Len(w) = read
    <3>1. 0 \in Nat /\ read \in Nat /\ 0 + read <= Len(wire)
      BY <1>1
    <3> HIDE DEF w
    <3> QED BY <1>1, <2>1, <3>1, Slice
  <2>4. l \in 0..read
    <3>1. 0 \in 0..Len(w)
      BY <1>1, <2>3
    <3> HIDE DEF w
    <3>2. Scan(kind, w) \in Scans(0, Len(w))
      BY <1>1, <2>3, <3>1, LoopTypes DEF Scan
    <3> QED BY <2>3, <3>2 DEF Scans
  <2>5. SubSeq(wire', l + 1, read) = SubSeq(wire, l + 1, read)
    <3> HIDE DEF l
    <3>1. l \in Nat /\ read - l \in Nat /\ l + (read - l) = read /\ read <= Len(wire)
      BY <1>1, <2>4
    <3>2. Bytes(wire', l, read - l) = Bytes(wire, l, read - l)
      BY <1>5, <3>1
    <3> QED BY <3>1, <3>2 DEF Bytes
  <2>6. got = Scan(kind, w).taken /\ buf = SubSeq(wire, l + 1, read)
    BY DEF ParserInv, ReadsDontMatter
  <2> QED BY <1>2, <2>1, <2>2, <2>5, <2>6 DEF ReadsDontMatter
<1>7. ASSUME NEW f, Sent(f) PROVE Sent(f)'
  <2>1. f.at \in Nat /\ f.size \in Nat /\ f.at + f.size <= Len(wire)
    BY <1>7 DEF Sent, Spots
  <2>2. Bytes(wire', f.at, f.size) = Bytes(wire, f.at, f.size)
    BY <1>5, <2>1
  <2>3. f.at + f.size <= Len(wire')
    BY <1>3, <2>1
  <2> QED BY <1>2, <1>7, <2>2, <2>3 DEF Sent
<1> QED BY <1>1, <1>2, <1>3, <1>4, <1>6, <1>7 DEF ParserTypes

\* What is left when the loop waits is shorter than a frame.
LEMMA NeverCut ==
    ASSUME NEW k \in Kinds, NEW b \in Seq(0..Top)
    PROVE  Len(b) - Scan(k, b).left < MaxBuffer(k)
<1> DEFINE l == Scan(k, b).left
<1>1. Overhead(k) \in Nat /\ MaxSize(k) \in Nat /\ Overhead(k) <= MaxSize(k)
  <2>1. Overhead(k) <= MaxSize(k)
    BY Formats, ParsersAssumption DEF MaxSize, EXTRA, Overhead
  <2> QED BY <2>1, Formats
<1>2. 0 \in 0..Len(b) /\ Len(b) \in Nat
  OBVIOUS
<1>3. l \in 0..Len(b) /\ Waits(k, b, l)
  <2>1. Loop(k, b)[0] \in Scans(0, Len(b)) /\ Waits(k, b, Loop(k, b)[0].left)
    BY <1>2, LoopTypes, LoopEnds
  <2> QED BY <2>1 DEF Scan, Scans
<1> HIDE DEF l
<1>4. CASE Len(b) - l < Overhead(k)
  BY <1>1, <1>2, <1>3, <1>4 DEF MaxBuffer, l
<1>5. CASE ~(Len(b) - l < Overhead(k))
  <2>1. Begins(k, b, l) /\ Len(b) - l < SizeAt(k, b, l)
    BY <1>3, <1>5 DEF Waits
  <2>2. l \in Nat /\ l + Overhead(k) <= Len(b)
    BY <1>1, <1>2, <1>3, <1>5
  <2>3. SizeAt(k, b, l) \in Overhead(k)..MaxSize(k)
    BY <2>1, <2>2, PlausibleSize
  <2>4. Len(b) - l < MaxSize(k)
    BY <1>1, <1>2, <1>3, <2>1, <2>3
  <2> QED BY <2>4 DEF MaxBuffer, l
<1> QED BY <1>4, <1>5

\* One more read.
LEMMA FeedKeeps ==
    ASSUME ParserInv, Feed
    PROVE  ParserTypes' /\ ReadsDontMatter'
<1>1. kind \in Kinds /\ wire \in Seq(0..Top) /\ read \in 0..Len(wire) /\ Len(wire) \in Nat
  BY DEF ParserInv, ParserTypes
<1> DEFINE v == SubSeq(wire, 1, read)
           all == Scan(kind, v)
           l == all.left
<1>2. got = all.taken /\ buf = SubSeq(wire, l + 1, read)
  BY DEF ParserInv, ReadsDontMatter
<1>3. PICK n \in 1..Len(wire) - read :
        LET b == buf \o Bytes(wire, read, n)
            r == Scan(kind, b)
        IN /\ got' = got \o Moved(r.taken, read - Len(buf))
           /\ buf' = Trim(kind, SubSeq(b, r.left + 1, Len(b)))
           /\ read' = read + n
           /\ UNCHANGED <<kind, wire, whole, parts>>
  BY DEF Feed
<1> DEFINE z == read + n
           w == Bytes(wire, 0, z)
           b == Bytes(wire, l, z - l)
           r == Scan(kind, b)
<1>4. z \in Nat /\ z <= Len(wire) /\ read \in 0..z /\ read \in Nat /\ n \in Nat
  BY <1>1
<1>5. w \in Seq(0..Top) /\ Len(w) = z
  <2> HIDE DEF z
  <2>1. 0 \in Nat /\ 0 + z <= Len(wire)
    BY <1>4
  <2> QED BY <1>1, <1>4, <2>1, Slice
<1>6. v = Bytes(wire, 0, read) /\ v = Bytes(w, 0, read) /\ v \in Seq(0..Top) /\ Len(v) = read
  <2>1. v = Bytes(wire, 0, read)
    BY <1>1, SliceAll
  <2>2. 0 \in Nat /\ 0 + z <= Len(wire) /\ 0 + read <= z /\ 0 + 0 = 0 /\ 0 + read <= Len(wire)
    BY <1>1, <1>4
  <2> HIDE DEF z, v
  <2>3. Bytes(Bytes(wire, 0, z), 0, read) = Bytes(wire, 0 + 0, read)
    BY <1>1, <1>4, <2>2, SliceOfSlice
  <2>4. v \in Seq(0..Top) /\ Len(v) = read
    BY <1>1, <1>4, <2>1, <2>2, Slice
  <2> QED BY <2>1, <2>2, <2>3, <2>4
<1>7. all \in Scans(0, read)
  <2>1. 0 \in 0..read
    BY <1>1
  <2> HIDE DEF v
  <2> QED BY <1>1, <1>6, <2>1, LoopTypes DEF Scan
<1>8. all.taken \in Seq(Spots) /\ l \in 0..read
  <2> HIDE DEF all
  <2> QED BY <1>7 DEF Scans
<1> HIDE DEF l
<1>9. l \in Nat /\ z - l \in Nat /\ l + (z - l) = z /\ l \in 0..z /\ l + (read - l) = read /\ read - l \in Nat
  BY <1>1, <1>4, <1>8
<1> HIDE DEF z
<1>10. b \in Seq(0..Top) /\ Len(b) = z - l /\ b = Bytes(w, l, Len(w) - l)
  <2>1. b \in Seq(0..Top) /\ Len(b) = z - l
    <3>1. l + (z - l) <= Len(wire)
      BY <1>4, <1>9
    <3> QED BY <1>1, <1>9, <3>1, Slice
  <2>2. Bytes(Bytes(wire, 0, z), l, z - l) = Bytes(wire, 0 + l, z - l)
    <3>1. 0 \in Nat /\ 0 + z <= Len(wire) /\ l + (z - l) <= z
      BY <1>4, <1>9
    <3> QED BY <1>1, <1>4, <1>9, <3>1, SliceOfSlice
  <2>3. 0 + l = l
    BY <1>9
  <2>4. Bytes(w, l, z - l) = b
    BY <2>2, <2>3
  <2> QED BY <2>1, <2>4, <1>5
<1>11. buf = Bytes(wire, l, read - l) /\ Len(buf) = read - l /\ buf \o Bytes(wire, read, n) = b
  <2>1. buf = Bytes(wire, l, read - l)
    BY <1>2, <1>9 DEF Bytes
  <2>2. Len(Bytes(wire, l, read - l)) = read - l
    <3> DEFINE m == read - l
    <3>1. m \in Nat /\ l + m <= Len(wire)
      BY <1>1, <1>9
    <3> HIDE DEF m
    <3>2. Len(Bytes(wire, l, m)) = m
      BY <1>1, <1>9, <3>1, Slice
    <3> QED BY <3>2 DEF m
  <2>3. Bytes(wire, l, read - l) \o Bytes(wire, l + (read - l), n) = Bytes(wire, l, (read - l) + n)
    <3> DEFINE m == read - l
    <3>1. m \in Nat /\ l + m + n <= Len(wire)
      BY <1>1, <1>4, <1>9
    <3> HIDE DEF m
    <3>2. Bytes(wire, l, m) \o Bytes(wire, l + m, n) = Bytes(wire, l, m + n)
      <4>1. ASSUME NEW s \in Seq(0..Top), l + m + n <= Len(s)
            PROVE  Bytes(s, l, m) \o Bytes(s, l + m, n) = Bytes(s, l, m + n)
        <5>1. l \in Nat /\ m \in Nat /\ n \in Nat
          BY <1>4, <1>9, <3>1
        <5> QED BY <4>1, <5>1, SlicesJoined
      <4> QED BY <1>1, <3>1, <4>1
    <3> QED BY <3>2 DEF m
  <2>4. (read - l) + n = z - l
    BY <1>1, <1>4, <1>9 DEF z
  <2> QED BY <2>1, <2>2, <2>3, <2>4, <1>9
<1>12. read - Len(buf) = l
  BY <1>1, <1>9, <1>11
<1>13. r \in Scans(0, Len(b)) /\ Len(b) - r.left < MaxBuffer(kind)
  <2>1. 0 \in 0..Len(b)
    BY <1>9, <1>10
  <2> HIDE DEF b
  <2> QED BY <1>1, <1>10, <2>1, LoopTypes, NeverCut DEF Scan
<1>14. r.taken \in Seq(Spots) /\ r.left \in 0..Len(b)
  <2> HIDE DEF r, b
  <2> QED BY <1>13 DEF Scans
\* What one feed() with everything gives.
<1>15. Scan(kind, w) = [taken |-> all.taken \o Moved(r.taken, l), left |-> l + r.left]
  <2>1. Loop(kind, w)[0] = [taken |-> all.taken \o Loop(kind, w)[l].taken,
                            left |-> Loop(kind, w)[l].left]
    <3>1. read \in 0..Len(w) /\ 0 \in 0..read
      BY <1>4, <1>5
    <3> HIDE DEF w, v
    <3>2. Loop(kind, w)[0] = [taken |-> Loop(kind, v)[0].taken \o Loop(kind, w)[Loop(kind, v)[0].left].taken,
                              left |-> Loop(kind, w)[Loop(kind, v)[0].left].left]
      <4>1. \A p \in 0..read :
               LET q == Loop(kind, Bytes(w, 0, read))[p]
               IN Loop(kind, w)[p] = [taken |-> q.taken \o Loop(kind, w)[q.left].taken,
                                      left |-> Loop(kind, w)[q.left].left]
        BY <1>1, <1>5, <3>1, LoopOfLonger
      <4>2. Bytes(w, 0, read) = v
        BY <1>6
      <4> QED BY <3>1, <4>1, <4>2
    <3> QED BY <3>2 DEF Scan, l
  <2>2. Loop(kind, w)[l + 0] = [taken |-> Moved(Loop(kind, b)[0].taken, l),
                                left |-> l + Loop(kind, b)[0].left]
    <3>1. l \in 0..Len(w) /\ 0 \in 0..Len(w) - l
      BY <1>5, <1>9
    <3> HIDE DEF w, b
    <3> QED BY <1>1, <1>5, <1>10, <3>1, LoopOfRest
  <2>3. l + 0 = l
    BY <1>9
  <2> HIDE DEF w, b, all
  <2>4. Loop(kind, w)[l].taken = Moved(r.taken, l) /\ Loop(kind, w)[l].left = l + r.left
    BY <2>2, <2>3 DEF Scan
  <2> QED BY <2>1, <2>4 DEF Scan
<1>16. got' = all.taken \o Moved(r.taken, l)
  BY <1>2, <1>3, <1>11, <1>12
<1>17. buf' = SubSeq(wire, l + r.left + 1, z)
  <2> DEFINE rest == SubSeq(b, r.left + 1, Len(b))
             y == r.left
  <2>1. rest = Bytes(b, y, Len(b) - y)
    <3>1. y \in 0..Len(b) /\ b \in Seq(0..Top)
      BY <1>10, <1>14
    <3> HIDE DEF b, y
    <3>2. SubSeq(b, y + 1, Len(b)) = Bytes(b, y, Len(b) - y)
      BY <3>1, SliceAll
    <3> QED BY <3>2 DEF y
  <2>2. y \in Nat /\ Len(b) - y \in Nat /\ y + (Len(b) - y) = Len(b)
    <3>1. y \in 0..Len(b) /\ Len(b) \in Nat
      BY <1>9, <1>10, <1>14
    <3> HIDE DEF y, b
    <3> QED BY <3>1
  <2>3. Len(rest) = Len(b) - y
    <3> HIDE DEF b, y, rest
    <3>1. y + (Len(b) - y) <= Len(b)
      BY <1>9, <1>10, <2>2
    <3> QED BY <1>10, <2>1, <2>2, <3>1, Slice
  <2>4. MaxBuffer(kind) \in Nat
    BY <1>1, Formats DEF MaxBuffer
  <2>5. Trim(kind, rest) = rest
    <3>1. ~(Len(rest) > MaxBuffer(kind))
      <4>1. Len(b) - y < MaxBuffer(kind)
        BY <1>13
      <4> HIDE DEF rest, b, y
      <4> QED BY <2>2, <2>3, <2>4, <4>1
    <3> HIDE DEF rest
    <3> QED BY <3>1 DEF Trim
  <2>6. buf' = rest
    BY <1>3, <1>11, <2>5
  <2>7. Bytes(b, y, Len(b) - y) = Bytes(wire, l + y, Len(b) - y)
    <3>1. l + (z - l) <= Len(wire) /\ y + (Len(b) - y) <= z - l
      BY <1>4, <1>9, <1>10, <2>2
    <3> DEFINE m == Len(b) - y
    <3>2. m \in Nat /\ y + m <= z - l
      BY <2>2, <3>1
    <3> HIDE DEF m, y
    <3>3. Bytes(Bytes(wire, l, z - l), y, m) = Bytes(wire, l + y, m)
      BY <1>1, <1>9, <2>2, <3>1, <3>2, SliceOfSlice
    <3> QED BY <3>3 DEF m
  <2>8. Bytes(wire, l + y, Len(b) - y) = SubSeq(wire, l + y + 1, z)
    <3>1. (l + y) + (Len(b) - y) = z
      <4> DEFINE m == Len(b)
      <4>1. m \in Nat /\ y \in 0..m /\ m = z - l
        BY <1>9, <1>10, <1>14
      <4> HIDE DEF m, y
      <4>2. (l + y) + (m - y) = z
        BY <1>4, <1>9, <4>1
      <4> QED BY <4>2 DEF m
    <3> HIDE DEF b, y
    <3> QED BY <3>1 DEF Bytes
  <2> HIDE DEF b, rest
  <2> QED BY <2>1, <2>6, <2>7, <2>8
<1>18. read' = z /\ kind' = kind /\ wire' = wire
  BY <1>3 DEF z
<1>19. SubSeq(wire, 1, z) = w
  <2>1. z \in 0..Len(wire)
    BY <1>1, <1>4
  <2> QED BY <1>1, <2>1, SliceAll
<1>20. ReadsDontMatter'
  <2> HIDE DEF w, all, r, b
  <2> DEFINE s == all.taken \o Moved(r.taken, l)
             e == l + r.left
  <2>1. Scan(kind, w).taken = got' /\ SubSeq(wire, Scan(kind, w).left + 1, z) = buf'
    <3>1. Scan(kind, w) = [taken |-> s, left |-> e] /\ got' = s /\ buf' = SubSeq(wire, e + 1, z)
      BY <1>15, <1>16, <1>17
    <3> HIDE DEF s, e
    <3>2. Scan(kind, w).taken = s /\ Scan(kind, w).left = e
      BY <3>1
    <3> QED BY <3>1, <3>2
  <2> QED BY <1>18, <1>19, <2>1 DEF ReadsDontMatter
<1>21. ParserTypes'
  BY <1>1, <1>4, <1>18 DEF ParserTypes
<1> QED BY <1>20, <1>21

LEMMA SendKeeps ==
    ASSUME ParserInv, SendFrame
    PROVE  ParserInv'
<1>1. PICK p \in Payloads[kind] :
        /\ Emit(Encode(kind, p))
        /\ whole' = whole \cup {[at |-> Len(wire), size |-> Len(Encode(kind, p))]}
  BY DEF SendFrame
<1> DEFINE e == Encode(kind, p)
<1>0. PICK x : x = [at |-> Len(wire), size |-> Len(e)]
  OBVIOUS
<1>2. e \in Seq(0..Top) /\ Len(e) \in Nat /\ kind \in Kinds /\ kind' = kind /\ Len(wire) \in Nat
  <2>1. kind \in Kinds /\ Len(wire) \in Nat /\ kind' = kind
    BY <1>1 DEF ParserInv, ParserTypes, Emit
  <2>2. e \in Seq(0..Top)
    BY <2>1, Encoded
  <2> HIDE DEF e
  <2> QED BY <2>1, <2>2
<1>3. /\ ParserTypes' /\ ReadsDontMatter'
      /\ Len(wire') = Len(wire) + Len(e) /\ Bytes(wire', Len(wire), Len(e)) = e
      /\ \A f : Sent(f) => Sent(f)'
  BY <1>1, <1>2, EmitKeeps
<1>4. Sent(x)'
  <2>1. x \in Spots /\ x.at = Len(wire) /\ x.size = Len(e)
    BY <1>2, <1>0 DEF Spots
  <2>2. x.at + x.size <= Len(wire')
    BY <1>2, <1>3, <2>1
  <2>3. x.size = Len(Encode(kind', p)) /\ Bytes(wire', x.at, x.size) = Encode(kind', p)
    BY <1>2, <1>3, <2>1
  <2>4. p \in Payloads[kind']
    BY <1>2
  <2> HIDE DEF e
  <2> QED BY <2>1, <2>2, <2>3, <2>4 DEF Sent
<1>5. \A f \in whole : Sent(f) /\ f.at \in Nat /\ f.size \in Nat /\ f.at + f.size <= x.at
  BY <1>0 DEF ParserInv, Sent, Spots
<1>6. whole' = whole \cup {x}
  BY <1>1, <1>0
<1>7. \A f \in whole' : Sent(f)'
  BY <1>3, <1>4, <1>5, <1>6
<1>8. \A f, g \in whole' : f = g \/ Apart(f, g)
  <2>1. \A f, g \in whole : f = g \/ Apart(f, g)
    BY DEF ParserInv
  <2>2. \A f \in whole : Apart(f, x) /\ Apart(x, f)
    BY <1>5 DEF Apart
  <2> QED BY <1>6, <2>1, <2>2
<1> QED BY <1>3, <1>7, <1>8 DEF ParserInv, Apart

LEMMA ParserStep == ParserInv /\ [ParserNext]_parserVars => ParserInv'
<1> SUFFICES ASSUME ParserInv, [ParserNext]_parserVars PROVE ParserInv'
  OBVIOUS
<1>1. CASE SendFrame
  BY <1>1, SendKeeps
<1>2. CASE SendGarbage
  <2>1. PICK g \in Garbage[kind] : Emit(g) /\ UNCHANGED whole
    BY <1>2 DEF SendGarbage
  <2>2. g \in Seq(0..Top)
    BY ParsersAssumption DEF ParserInv, ParserTypes
  <2>3. ParserTypes' /\ ReadsDontMatter' /\ \A f : Sent(f) => Sent(f)'
    BY <2>1, <2>2, EmitKeeps
  <2> QED BY <2>1, <2>3 DEF ParserInv, Apart
<1>3. CASE Feed
  <2>1. ParserTypes' /\ ReadsDontMatter'
    BY <1>3, FeedKeeps
  <2>2. kind' = kind /\ wire' = wire /\ whole' = whole
    BY <1>3 DEF Feed
  <2> QED BY <2>1, <2>2 DEF ParserInv, Sent, Apart
<1>4. CASE UNCHANGED parserVars
  BY <1>4 DEF ParserInv, ParserTypes, Sent, Apart, ReadsDontMatter, parserVars
<1> QED BY <1>1, <1>2, <1>3, <1>4 DEF ParserNext

LEMMA Parsed == ParserSpec => []ParserInv
<1> QED BY ParserStarts, ParserStep, PTL DEF ParserSpec

\* However the transport cuts a stream of any bytes into reads, the three feed()
\* loops take the frames, and keep the bytes, that one feed() with everything
\* would, and the limit on their buffers never cuts one.
THEOREM OneFeed == ParserSpec => []ReadsDontMatter
<1>1. ParserInv => ReadsDontMatter
  BY DEF ParserInv
<1> QED BY <1>1, Parsed, PTL

\* The three feed() loops find their way back: a frame sent whole among any
\* garbage is taken, unless bytes that pass for a frame were taken across it, or
\* an earlier header waits for its bytes.
THEOREM Resynchronised == ParserSpec => []MissedOnlyToAnother
<1>1. ASSUME ParserInv PROVE MissedOnlyToAnother
  <2> SUFFICES ASSUME NEW f \in whole, f.at + f.size <= read
               PROVE  \/ f \in ToSet(got)
                      \/ \E g \in ToSet(got) \ whole : Overlap(f, g)
                      \/ read - Len(buf) < f.at /\ Len(buf) < Size(kind, buf)
    BY DEF MissedOnlyToAnother
  <2>1. kind \in Kinds /\ wire \in Seq(0..Top) /\ read \in 0..Len(wire) /\ Len(wire) \in Nat
    BY <1>1 DEF ParserInv, ParserTypes
  <2>2. Sent(f) /\ f \in Spots /\ f.at \in Nat /\ f.size \in Nat /\ f = [at |-> f.at, size |-> f.size]
    BY <1>1 DEF ParserInv, Sent, Spots
  <2>3. PICK p \in Payloads[kind] :
          f.size = Len(Encode(kind, p)) /\ Bytes(wire, f.at, f.size) = Encode(kind, p)
    BY <2>2 DEF Sent
  <2> DEFINE b == SubSeq(wire, 1, read)
             r == Scan(kind, b)
             l == r.left
  <2>4. got = r.taken /\ buf = SubSeq(wire, l + 1, read)
    BY <1>1 DEF ParserInv, ReadsDontMatter
  <2>5. b = Bytes(wire, 0, read) /\ b \in Seq(0..Top) /\ Len(b) = read
    <3>1. b = Bytes(wire, 0, read)
      BY <2>1, SliceAll
    <3>2. 0 \in Nat /\ read \in Nat /\ 0 + read <= Len(wire)
      BY <2>1
    <3> HIDE DEF b
    <3> QED BY <2>1, <3>1, <3>2, Slice
  <2>6. \A a, n \in Nat : a + n <= read => Bytes(b, a, n) = Bytes(wire, a, n)
    <3> TAKE a, n \in Nat
    <3> HAVE a + n <= read
    <3>1. 0 \in Nat /\ read \in Nat /\ 0 + read <= Len(wire) /\ 0 + a = a
      BY <2>1
    <3>2. Bytes(Bytes(wire, 0, read), a, n) = Bytes(wire, 0 + a, n)
      BY <2>1, <3>1, SliceOfSlice
    <3> HIDE DEF b
    <3> QED BY <2>5, <3>1, <3>2
  <2>7. Bytes(b, f.at, f.size) = Encode(kind, p)
    BY <2>2, <2>3, <2>6
  <2>8. \/ Met(r.taken, f.at, f.size)
        \/ l < f.at /\ Len(b) - l < SizeAt(kind, b, l)
    <3> HIDE DEF b
    <3>1. f.at + Len(Encode(kind, p)) <= Len(b) /\ Bytes(b, f.at, Len(Encode(kind, p))) = Encode(kind, p)
      BY <2>3, <2>5, <2>7
    <3> QED BY <2>1, <2>2, <2>3, <2>5, <3>1, WholeMet DEF Scan
  <2>9. l \in 0..read
    <3> HIDE DEF b
    <3>1. 0 \in 0..Len(b)
      BY <2>1, <2>5
    <3>2. r \in Scans(0, Len(b))
      BY <2>1, <2>5, <3>1, LoopTypes DEF Scan
    <3> HIDE DEF r
    <3> QED BY <2>5, <3>2 DEF Scans
  <2> HIDE DEF r, b
  <2>10. CASE Met(r.taken, f.at, f.size)
    <3>1. CASE f \in ToSet(r.taken)
      BY <2>4, <3>1
    <3>2. CASE f \notin ToSet(r.taken)
      <4>1. PICK g \in ToSet(r.taken) : g.at < f.at /\ f.at < g.at + g.size
        BY <2>2, <2>10, <3>2 DEF Met
      <4>2. g \notin whole
        <5>1. SUFFICES ASSUME g \in whole PROVE FALSE
          OBVIOUS
        <5>2. g.at \in Nat /\ g.size \in Nat /\ (f = g \/ Apart(f, g))
          BY <1>1, <5>1 DEF ParserInv, Sent, Spots
        <5> QED BY <2>2, <4>1, <5>2 DEF Apart
      <4>3. CASE g.at \in Nat /\ g.size \in Nat
        <5>1. Overlap(f, g)
          BY <2>2, <4>1, <4>3 DEF Overlap
        <5> QED BY <2>4, <4>1, <4>2, <5>1
      <4>4. g.at \in Nat /\ g.size \in Nat
        <5>1. r.taken \in Seq(Spots)
          <6>1. 0 \in 0..Len(b)
            BY <2>1, <2>5
          <6>2. r \in Scans(0, Len(b))
            BY <2>1, <2>5, <6>1, LoopTypes DEF Scan, r
          <6> QED BY <6>2 DEF Scans
        <5>2. g \in Spots
          <6>1. \A i \in 1..Len(r.taken) : r.taken[i] \in Spots
            BY <5>1, Element
          <6>2. DOMAIN r.taken = 1..Len(r.taken)
            BY <5>1
          <6> QED BY <6>1, <6>2 DEF ToSet
        <5> QED BY <5>2 DEF Spots
      <4> QED BY <4>3, <4>4
    <3> QED BY <3>1, <3>2
  <2>11. CASE l < f.at /\ Len(b) - l < SizeAt(kind, b, l)
    <3> DEFINE n == read - l
    <3> HIDE DEF l
    <3>1. l \in Nat /\ n \in Nat /\ l + n = read /\ l + n <= Len(wire)
      BY <2>1, <2>9
    <3> HIDE DEF n
    <3>2. buf = Bytes(wire, l, n)
      BY <2>4, <3>1 DEF Bytes, l
    <3>3. buf \in Seq(0..Top) /\ Len(buf) = n
      BY <2>1, <3>1, <3>2, Slice
    <3>4. Overhead(kind) \in Nat /\ Overhead(kind) <= f.size
      BY <2>1, <2>3, Encoded, Formats
    <3>5. Overhead(kind) <= n /\ l + Overhead(kind) <= read
      BY <2>1, <2>2, <2>11, <3>1, <3>4
    <3>6. Header(kind, b, l) = Bytes(buf, 0, Overhead(kind))
      <4>1. Header(kind, b, l) = Bytes(wire, l, Overhead(kind))
        BY <2>6, <3>1, <3>4, <3>5 DEF Header
      <4>2. Bytes(Bytes(wire, l, n), 0, Overhead(kind)) = Bytes(wire, l + 0, Overhead(kind))
        <5>1. 0 \in Nat /\ 0 + Overhead(kind) <= n
          BY <3>4, <3>5
        <5> DEFINE o == Overhead(kind)
        <5> HIDE DEF o
        <5>2. o \in Nat /\ 0 + o <= n
          BY <3>4, <5>1 DEF o
        <5>3. Bytes(Bytes(wire, l, n), 0, o) = Bytes(wire, l + 0, o)
          BY <2>1, <3>1, <5>1, <5>2, SliceOfSlice
        <5> QED BY <5>3 DEF o
      <4>3. l + 0 = l
        BY <3>1
      <4> QED BY <3>2, <4>1, <4>2, <4>3
    <3>7. SizeAt(kind, b, l) = Size(kind, buf)
      <4>1. Size(kind, Bytes(buf, 0, Overhead(kind))) = Size(kind, buf)
        BY <2>1, <3>3, <3>5, FrameHeader
      <4> QED BY <3>6, <4>1 DEF SizeAt
    <3>8. read - Len(buf) = l /\ Len(b) - l = Len(buf)
      <4>1. read - n = l /\ read - l = n
        BY <2>1, <3>1
      <4> QED BY <2>5, <3>3, <4>1
    <3> QED BY <2>11, <3>7, <3>8
  <2> QED BY <2>8, <2>10, <2>11
<1> QED BY <1>1, Parsed, PTL
=============================================================================
