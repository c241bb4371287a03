-------------------------- MODULE AudioStream_proofs --------------------------
(***************************************************************************)
(* Proofs about AudioStream, for any number of recordings, packages and    *)
(* faults, any cycle of numbers and any number of frames in a package: the *)
(* file, the flag of the session, the reader and the channel of a          *)
(* recording come and go together; a recording whose stop was confirmed    *)
(* holds every package that reached its channel; and, when sn numbers      *)
(* frames, what is written and what is counted as lost are all that was    *)
(* sent from the first package written to the last.                        *)
(***************************************************************************)
EXTENDS AudioStream, FiniteSetTheorems, TLAPS

-----------------------------------------------------------------------------
(* The file of a recording.                                                *)

\* The places of record_start and record_stop in which the session records;
\* only the last of them, inside AudioStreamClient.stop, comes after.
Recording == {"start", "cleanup", "stop", "settle", "join"}

\* A call in progress has a file, and the flag says so until stop() is in the
\* middle of closing it; a reader and a channel are there for a file only.
RecordingInv ==
    /\ at \in Recording => recording /\ sink # 0
    /\ at = "finish" => ~recording /\ sink # 0
    /\ Idle => (recording <=> sink # 0)
    /\ reader # "none" => sink # 0
    /\ threaded /\ open => sink # 0
    /\ at \in Recording \cup {"idle", "finish"}

\* The file of a new recording is a file: 0 stands for none.
LEMMA NewFileIsOne == NewFile # 0
<1> DEFINE F == {f \in 1..MaxFiles : files[f].end # "unused"}
<1>1. 1..MaxFiles \in SUBSET Int /\ IsFiniteSet(1..MaxFiles)
  BY FS_Interval, AudioAssumption
<1>2. IsFiniteSet(F)
  BY <1>1, FS_Subset
<1>3. Cardinality(F) \in Nat
  BY <1>2, FS_CardinalityType
<1> QED BY <1>3 DEF NewFile

\* What is on the channel does not decide about the recording.
LEMMA PackagesLeaveRecording ==
    ASSUME RecordingInv, Poll \/ ReaderReads \/ ReaderHandles \/ ReaderStops \/ ReadBreaks \/ Execute \/ Send
    PROVE  RecordingInv'
<1> USE DEF RecordingInv, Recording, Idle
<1>1. CASE Poll
  BY <1>1 DEF Poll, sessionVars
<1>2. CASE ReaderReads
  BY <1>2 DEF ReaderReads, sessionVars
<1>3. CASE ReaderHandles
  BY <1>3 DEF ReaderHandles, sessionVars
<1>4. CASE ReaderStops
  BY <1>4 DEF ReaderStops, sessionVars
<1>5. CASE ReadBreaks
  BY <1>5 DEF ReadBreaks, sessionVars
<1>6. CASE Execute
  BY <1>6 DEF Execute, clientVars
<1>7. CASE Send
  BY <1>7 DEF Send, clientVars, sessionVars
<1> QED BY <1>1, <1>2, <1>3, <1>4, <1>5, <1>6, <1>7

\* A recording begins with its file, or leaves no trace in the session.
LEMMA BeginningsKeepRecording ==
    ASSUME RecordingInv, RecordStart \/ StartFails \/ Started \/ StartBreaks \/ StartTimesOut \/ CleanedUp
    PROVE  RecordingInv'
<1> USE DEF RecordingInv, Recording, Idle
<1>1. CASE RecordStart
  BY <1>1, NewFileIsOne DEF RecordStart, Call
<1>2. CASE StartFails
  BY <1>2 DEF StartFails, sessionVars
<1>3. CASE Started
  BY <1>3 DEF Started, clientVars
<1>4. CASE StartBreaks
  BY <1>4 DEF StartBreaks, clientVars
<1>5. CASE StartTimesOut
  BY <1>5 DEF StartTimesOut, clientVars, Call
<1>6. CASE CleanedUp
  BY <1>6 DEF CleanedUp, clientVars
<1> QED BY <1>1, <1>2, <1>3, <1>4, <1>5, <1>6

\* ... and it ends with it, whether the stop is answered or not.
LEMMA EndsKeepRecording ==
    ASSUME RecordingInv,
           \/ RecordStop \/ StopAnswered \/ StopTimesOut \/ PumpBreaks
           \/ Settled \/ SetStop \/ Finish
    PROVE  RecordingInv'
<1> USE DEF RecordingInv, Recording, Idle
<1>1. CASE RecordStop
  BY <1>1 DEF RecordStop, clientVars, Call
<1>2. CASE StopAnswered
  BY <1>2 DEF StopAnswered, AfterStop, clientVars
<1>3. CASE StopTimesOut
  BY <1>3 DEF StopTimesOut, clientVars
<1>4. CASE Settled
  BY <1>4 DEF Settled, clientVars
<1>5. CASE SetStop
  BY <1>5 DEF SetStop
<1>6. CASE Finish
  BY <1>6 DEF Finish
<1>7. CASE PumpBreaks
  BY <1>7 DEF PumpBreaks, clientVars
<1> QED BY <1>1, <1>2, <1>3, <1>4, <1>5, <1>6, <1>7

\* The file of a recording is there from record_start to the end of
\* AudioStreamClient.stop, whatever fails in between.
THEOREM RecordingHasFile == Spec => []RecordingInv
<1>1. Init => RecordingInv
  BY DEF Init, RecordingInv, Recording, Idle
<1>2. RecordingInv /\ [Next]_vars => RecordingInv'
  <2> SUFFICES ASSUME RecordingInv, [Next]_vars PROVE RecordingInv'
    OBVIOUS
  <2>1. CASE Next
    BY <2>1, PackagesLeaveRecording, BeginningsKeepRecording, EndsKeepRecording DEF Next
  <2>2. CASE UNCHANGED vars
    BY <2>2 DEF vars, sessionVars, clientVars, RecordingInv, Recording, Idle
  <2> QED BY <2>1, <2>2
<1> QED BY <1>1, <1>2, PTL DEF Spec

\* Between two calls a file is open exactly while the session says it records,
\* and the reader and the channel are those of a recording (record_start,
\* record_stop).
THEOREM FileFollowsFlag == Spec => []FileWithRecording
<1>1. RecordingInv => FileWithRecording
  BY DEF RecordingInv, FileWithRecording, Idle
<1> QED BY <1>1, RecordingHasFile, PTL
-----------------------------------------------------------------------------
(* Losses are counted and the tail is kept.                                *)

Package == [stream : Nat, no : Nat, sn : 0..SnMod - 1]
File == [got : Seq(Package), lost : Int, end : {"unused", "open", "cut", "failed", "stopped"}]

AudioTypes ==
    /\ sink \in 0..MaxFiles /\ lastSn \in -1..SnMod - 1
    /\ wire \in Seq(Package) /\ held \in Seq(Package)
    /\ files \in [1..MaxFiles -> File]
    /\ cmds \in Seq({"AUDIO_START", "AUDIO_STOP"})
    /\ streams \in Nat /\ streaming \in {0, streams}
    /\ sn \in 0..SnMod - 1 /\ sent \in 0..MaxPackages

\* b is the number n packages after a.
Apart(a, b, n) == b = a + n * SnStep \/ b = a + n * SnStep - SnMod

\* q was sent after p, which shows in their numbers if they are of one stream.
After(q, p) == p.no < q.no /\ (p.stream = q.stream => Apart(p.sn, q.sn, q.no - p.no))

InOrder(s) == \A i, j \in DOMAIN s : i < j => After(s[j], s[i])
Follows(t, s) == \A i \in DOMAIN s, j \in DOMAIN t : After(t[j], s[i])

\* The device has sent count packages and begun this stream; the last package
\* has this number, and those of the stream are numbered on to it.
NumbersOn(s, stream, number, count) ==
    \A i \in DOMAIN s :
        /\ s[i].no <= count /\ s[i].stream <= stream
        /\ s[i].stream = stream => Apart(s[i].sn, number, count - s[i].no)

Got == IF sink = 0 THEN <<>> ELSE files[sink].got

\* What is written, what is held and what is on the channel were sent in this order.
OrderInv ==
    /\ \A f \in 1..MaxFiles : InOrder(files[f].got)
    /\ InOrder(held) /\ InOrder(wire)
    /\ Follows(held, Got) /\ Follows(wire, Got) /\ Follows(wire, held)
    /\ \A s \in {Got, held, wire} : NumbersOn(s, streams, sn, sent)

\* The packages of one stream and the losses make up all from the first to the
\* last, where sn numbers frames.
Counted(g, lost) ==
    /\ g = <<>> => lost = 0
    /\ g # <<>> /\ (\A i \in DOMAIN g : g[i].stream = g[1].stream)
        => Len(g) + lost = g[Len(g)].no - g[1].no + 1

CountInv ==
    /\ SnStep = Sections => \A f \in 1..MaxFiles : Counted(files[f].got, files[f].lost)
    /\ sink # 0 => lastSn = IF Got = <<>> THEN -1 ELSE Got[Len(Got)].sn

\* Recordings are numbered in their order, and the one that is open is the sink.
FilesInv ==
    /\ \E k \in 0..MaxFiles : \A f \in 1..MaxFiles : files[f].end # "unused" <=> f <= k
    /\ \A f \in 1..MaxFiles : files[f].end = "unused" => files[f] = Unused
    /\ \A f \in 1..MaxFiles : files[f].end = "open" => f = sink
    /\ sink # 0 => files[sink].end \in {"open", "cut"}

\* The reader holds packages only while it handles them, ends by itself only
\* when its file is cut, and is told to stop only at the end.
ReaderInv ==
    /\ reader = "handle" <=> held # <<>>
    /\ reader \in {"none", "read", "handle", "dead"}
    /\ ~threaded => reader = "none"
    /\ sink # 0 /\ at # "finish" => ~stop
    /\ reader = "dead" /\ at # "finish" => files[sink].end # "open"

\* Once the stop is confirmed the device sends no more.
StopInv ==
    /\ at = "stop" /\ answer = "none" => cmds # <<>> /\ cmds[Len(cmds)] = "AUDIO_STOP"
    /\ at \in {"stop", "settle", "join", "finish"} /\ answer = "OK" => cmds = <<>> /\ streaming = 0
    /\ at = "settle" => answer = "OK"

\* What reached the channel is written, held or still there; not the last once
\* record_stop has waited.
TailInv ==
    sink # 0 /\ files[sink].end = "open" =>
        /\ due \subseteq ToSet(Got) \cup ToSet(held) \cup ToSet(wire)
        /\ at \in {"join", "finish"} /\ answer = "OK" => wire = <<>>

AudioInv == AudioTypes /\ RecordingInv /\ OrderInv /\ CountInv /\ FilesInv /\ ReaderInv /\ StopInv /\ TailInv

-----------------------------------------------------------------------------
(* Sequences of packages.                                                  *)

LEMMA TailParts ==
    ASSUME NEW S, NEW s \in Seq(S), s # <<>>
    PROVE  /\ Tail(s) \in Seq(S) /\ Head(s) \in S /\ Head(s) = s[1] /\ 1 \in DOMAIN s
           /\ Len(s) \in Nat \ {0} /\ Len(Tail(s)) = Len(s) - 1
           /\ \A i \in DOMAIN Tail(s) : i + 1 \in DOMAIN s /\ Tail(s)[i] = s[i + 1]
<1>1. Len(s) \in Nat \ {0} /\ Head(s) = s[1] /\ 1 \in DOMAIN s /\ s[1] \in S
  OBVIOUS
<1>2. /\ Tail(s) \in Seq(S) /\ Len(Tail(s)) = Len(s) - 1
      /\ \A i \in 1..Len(s) - 1 : Tail(s)[i] = s[i + 1]
  BY <1>1
<1>3. \A i \in DOMAIN Tail(s) : i + 1 \in DOMAIN s /\ Tail(s)[i] = s[i + 1]
  BY <1>1, <1>2
<1> QED BY <1>1, <1>2, <1>3

LEMMA AppendParts ==
    ASSUME NEW S, NEW s \in Seq(S), NEW x \in S
    PROVE  /\ Append(s, x) \in Seq(S) /\ Len(Append(s, x)) = Len(s) + 1 /\ Len(s) \in Nat
           /\ DOMAIN Append(s, x) = 1..Len(s) + 1 /\ DOMAIN s = 1..Len(s)
           /\ \A i \in DOMAIN s : Append(s, x)[i] = s[i]
           /\ Append(s, x)[Len(s) + 1] = x
           /\ Append(s, x) # <<>>
OBVIOUS

LEMMA RestLength ==
    ASSUME NEW S, NEW s \in Seq(S), NEW n \in 1..Len(s)
    PROVE  Len(SubSeq(s, n + 1, Len(s))) = Len(s) - n
OBVIOUS

LEMMA CutParts ==
    ASSUME NEW S, NEW s \in Seq(S), NEW n \in 1..Len(s)
    PROVE  /\ SubSeq(s, 1, n) \in Seq(S) /\ SubSeq(s, n + 1, Len(s)) \in Seq(S)
           /\ \A i \in DOMAIN SubSeq(s, 1, n) : i \in 1..n /\ i \in DOMAIN s /\ SubSeq(s, 1, n)[i] = s[i]
           /\ \A i \in DOMAIN SubSeq(s, n + 1, Len(s)) :
                  /\ i + n \in DOMAIN s /\ i > 0 /\ i \in Nat
                  /\ SubSeq(s, n + 1, Len(s))[i] = s[i + n]
           /\ SubSeq(s, 1, n) # <<>>
<1>1. /\ n \in Nat \ {0} /\ Len(s) \in Nat /\ n <= Len(s) /\ DOMAIN s = 1..Len(s)
      /\ \A i \in 1..Len(s) : s[i] \in S
  OBVIOUS
<1>2. /\ Len(SubSeq(s, 1, n)) = n /\ DOMAIN SubSeq(s, 1, n) = 1..n
      /\ SubSeq(s, 1, n) \in Seq(S)
      /\ \A i \in 1..n : SubSeq(s, 1, n)[i] = s[i]
  BY <1>1
<1> DEFINE b == SubSeq(s, n + 1, Len(s))
<1>3. b \in Seq(S) /\ Len(b) = Len(s) - n /\ \A i \in 1..Len(s) - n : b[i] = s[n + i]
  <2>1. b \in Seq(S)
    BY <1>1
  <2>2. Len(b) = Len(s) - n
    BY RestLength
  <2>3. \A i \in 1..Len(s) - n : b[i] = s[n + i]
    BY <1>1
  <2> QED BY <2>1, <2>2, <2>3
<1>4. SubSeq(s, 1, n) # <<>>
  BY <1>1, <1>2
<1> HIDE DEF b
<1>5. DOMAIN b = 1..Len(s) - n
  BY <1>3
<1>6. \A i \in DOMAIN b : i + n \in DOMAIN s /\ i > 0 /\ i \in Nat /\ b[i] = s[i + n]
  BY <1>1, <1>3, <1>5
<1>7. /\ SubSeq(s, 1, n) \in Seq(S)
      /\ \A i \in DOMAIN SubSeq(s, 1, n) : i \in 1..n /\ i \in DOMAIN s /\ SubSeq(s, 1, n)[i] = s[i]
  BY <1>1, <1>2
<1> QED BY <1>3, <1>4, <1>6, <1>7 DEF b

\* The head of one part becomes the last of the part before it.
LEMMA HeadMoves ==
    ASSUME NEW s \in Seq(Package), NEW t \in Seq(Package), t # <<>>,
           InOrder(s), InOrder(t), Follows(t, s)
    PROVE  /\ InOrder(Append(s, Head(t))) /\ InOrder(Tail(t))
           /\ Follows(Tail(t), Append(s, Head(t))) /\ Follows(Tail(t), s)
<1> DEFINE u == Append(s, Head(t))
           r == Tail(t)
<1>1. /\ r \in Seq(Package) /\ Head(t) \in Package /\ Head(t) = t[1] /\ 1 \in DOMAIN t
      /\ \A i \in DOMAIN r : i + 1 \in DOMAIN t /\ r[i] = t[i + 1]
  BY TailParts
<1>2. /\ Len(s) \in Nat /\ DOMAIN u = 1..Len(s) + 1 /\ DOMAIN s = 1..Len(s)
      /\ \A i \in DOMAIN s : u[i] = s[i]
      /\ u[Len(s) + 1] = t[1]
  BY <1>1, AppendParts
<1>3. \A i \in DOMAIN r : i \in Nat /\ 1 < i + 1
  <2>1. DOMAIN r = 1..Len(r)
    BY <1>1
  <2> HIDE DEF r
  <2> QED BY <2>1
<1> HIDE DEF u, r
<1>4. InOrder(u)
  <2> SUFFICES ASSUME NEW i \in DOMAIN u, NEW j \in DOMAIN u, i < j
               PROVE  After(u[j], u[i])
    BY DEF InOrder
  <2>1. i \in DOMAIN s
    BY <1>2
  <2>2. CASE j = Len(s) + 1
    BY <1>1, <1>2, <2>1, <2>2 DEF Follows
  <2>3. CASE j \in DOMAIN s
    BY <1>2, <2>1, <2>3 DEF InOrder
  <2> QED BY <1>2, <2>2, <2>3
<1>5. InOrder(r)
  <2>1. \A i, j \in DOMAIN r : i < j => i + 1 < j + 1
    BY <1>3
  <2> QED BY <1>1, <2>1 DEF InOrder
<1>6. Follows(r, s)
  BY <1>1 DEF Follows
<1>7. Follows(r, u)
  <2> SUFFICES ASSUME NEW i \in DOMAIN u, NEW j \in DOMAIN r
               PROVE  After(r[j], u[i])
    BY DEF Follows
  <2>1. CASE i \in DOMAIN s
    BY <1>2, <1>6, <2>1 DEF Follows
  <2>2. CASE i = Len(s) + 1
    BY <1>1, <1>2, <1>3, <2>2 DEF InOrder
  <2> QED BY <1>2, <2>1, <2>2
<1> QED BY <1>4, <1>5, <1>6, <1>7 DEF u, r

\* A part that follows another is cut in two.
LEMMA PartIsCut ==
    ASSUME NEW s \in Seq(Package), NEW t \in Seq(Package), NEW n \in 1..Len(t),
           NEW c, NEW d, NEW e,
           InOrder(t), Follows(t, s), NumbersOn(t, c, d, e)
    PROVE  LET a == SubSeq(t, 1, n)
               b == SubSeq(t, n + 1, Len(t))
           IN  /\ InOrder(a) /\ InOrder(b) /\ Follows(a, s) /\ Follows(b, s) /\ Follows(b, a)
               /\ NumbersOn(a, c, d, e) /\ NumbersOn(b, c, d, e)
<1> DEFINE a == SubSeq(t, 1, n)
           b == SubSeq(t, n + 1, Len(t))
<1>1. /\ a \in Seq(Package) /\ b \in Seq(Package)
      /\ \A i \in DOMAIN a : i \in 1..n /\ i \in DOMAIN t /\ a[i] = t[i]
      /\ \A i \in DOMAIN b : i + n \in DOMAIN t /\ i > 0 /\ i \in Nat /\ b[i] = t[i + n]
  BY CutParts
<1>2. n \in Nat
  OBVIOUS
<1> HIDE DEF a, b
<1>3. InOrder(a) /\ Follows(a, s) /\ NumbersOn(a, c, d, e)
  BY <1>1 DEF InOrder, Follows, NumbersOn
<1>4. InOrder(b)
  BY <1>1, <1>2 DEF InOrder
<1>5. Follows(b, s) /\ NumbersOn(b, c, d, e)
  BY <1>1 DEF Follows, NumbersOn
<1>6. Follows(b, a)
  BY <1>1, <1>2 DEF Follows, InOrder
<1> QED BY <1>3, <1>4, <1>5, <1>6 DEF a, b

-----------------------------------------------------------------------------
(* Numbers of packages.                                                    *)

\* The remainder of what is less than a cycle away.
LEMMA ModSmall ==
    ASSUME NEW m \in Nat \ {0}, NEW x \in Int, NEW r \in 0..m - 1, x = r \/ x = r - m \/ x = r + m
    PROVE  x % m = r
OBVIOUS

LEMMA ModRange ==
    ASSUME NEW m \in Nat \ {0}, NEW x \in Int
    PROVE  x % m \in 0..m - 1
OBVIOUS

LEMMA DivMultiple ==
    ASSUME NEW m \in Nat \ {0}, NEW k \in Nat
    PROVE  (k * m) \div m = k
OBVIOUS

LEMMA TimesOneMore ==
    ASSUME NEW m \in Nat \ {0}, NEW k \in Nat
    PROVE  (k + 1) * m = k * m + m /\ k * m \in Nat
OBVIOUS

LEMMA TimesGrows ==
    ASSUME NEW m \in Nat \ {0}, NEW k \in Nat, NEW n \in Nat, k <= n
    PROVE  k * m <= n * m
OBVIOUS

LEMMA TimesAtLeast ==
    ASSUME NEW m \in Nat \ {0}, NEW k \in Nat \ {0}
    PROVE  m <= k * m
OBVIOUS

\* The numbers are fewer than the packages can use up.
LEMMA LessThanCycle ==
    ASSUME NEW n \in Nat, n <= MaxPackages
    PROVE  n * SnStep \in 0..SnMod - 1
BY AudioAssumption, TimesGrows, TimesOneMore

\* Where sn numbers frames, a package n after the last one says that n - 1 are
\* missing.
LEMMA GapCounted ==
    ASSUME SnStep = Sections,
           NEW a \in 0..SnMod - 1, NEW pk \in Package, NEW n \in Nat \ {0}, n <= MaxPackages,
           Apart(a, pk.sn, n)
    PROVE  LostBefore(a, pk) = n - 1
<1> DEFINE k == n - 1
           d == k * Sections
           e == Expected(a)
           gap == (pk.sn - e) % SnMod
<1>1. k \in Nat /\ k <= MaxPackages /\ n = k + 1
  BY AudioAssumption
<1> HIDE DEF k
<1>2. d \in 0..SnMod - 1 /\ n * Sections = d + Sections /\ n * Sections \in 0..SnMod - 1
  BY <1>1, LessThanCycle, TimesOneMore, AudioAssumption
<1> HIDE DEF d
<1>3. Sections \in 1..SnMod - 1 /\ SnMod \in Nat \ {0}
  BY <1>2, AudioAssumption
<1>4. e = a + Sections \/ e = a + Sections - SnMod
  <2>1. CASE a + Sections < SnMod
    BY <1>3, <2>1, ModSmall DEF Expected
  <2>2. CASE a + Sections >= SnMod
    BY <1>3, <2>2, ModSmall DEF Expected
  <2> QED BY <1>3, <2>1, <2>2
<1>5. e \in 0..SnMod - 1
  BY <1>3, ModRange DEF Expected
<1> HIDE DEF e
<1>6. pk.sn \in 0..SnMod - 1
  BY DEF Package
<1>7. pk.sn - e = d \/ pk.sn - e = d - SnMod \/ pk.sn - e = d + SnMod
  <2>1. pk.sn = a + (d + Sections) \/ pk.sn = a + (d + Sections) - SnMod
    BY <1>2 DEF Apart
  <2> QED BY <1>2, <1>3, <1>4, <1>5, <1>6, <2>1
<1>8. gap = d
  <2>1. pk.sn - e \in Int /\ SnMod \in Nat \ {0}
    BY <1>3, <1>5, <1>6
  <2> QED BY <1>2, <1>7, <2>1, ModSmall
<1>9. LostBefore(a, pk) = IF gap = 0 THEN 0 ELSE IF gap < Sections THEN 1 ELSE gap \div Sections
  BY DEF LostBefore, e
<1>10. CASE k = 0
  BY <1>1, <1>3, <1>8, <1>9, <1>10 DEF d
<1>11. CASE k # 0
  <2>1. d >= Sections /\ d \div Sections = k /\ d # 0
    BY <1>1, <1>3, <1>11, TimesAtLeast, DivMultiple DEF d
  <2>2. ~(d < Sections)
    BY <1>2, <1>3, <2>1
  <2>3. LostBefore(a, pk) = k
    BY <1>8, <1>9, <2>1, <2>2, Zenon
  <2> QED BY <2>3 DEF k
<1> QED BY <1>10, <1>11

LEMMA LostIsNumber ==
    ASSUME NEW a \in -1..SnMod - 1, NEW pk \in Package
    PROVE  LostBefore(a, pk) \in Int
<1>1. SnMod \in Nat \ {0} /\ Sections \in Nat \ {0}
  BY AudioAssumption, LessThanCycle DEF Package
<1>2. (pk.sn - Expected(a)) \in Int
  BY <1>1, ModRange DEF Expected, Package
<1>3. (pk.sn - Expected(a)) % SnMod \in Int
  BY <1>1, <1>2, ModRange
<1>4. ((pk.sn - Expected(a)) % SnMod) \div Sections \in Int
  BY <1>1, <1>3
<1> QED BY <1>4 DEF LostBefore

\* The device numbers the next package.
LEMMA NextNumber ==
    ASSUME NEW a \in 0..SnMod - 1, NEW b \in 0..SnMod - 1, NEW n \in Nat, n < MaxPackages,
           Apart(a, b, n)
    PROVE  Apart(a, (b + SnStep) % SnMod, n + 1) /\ (b + SnStep) % SnMod \in 0..SnMod - 1
<1>1. /\ n * SnStep \in 0..SnMod - 1 /\ (n + 1) * SnStep \in 0..SnMod - 1
      /\ (n + 1) * SnStep = n * SnStep + SnStep
  BY LessThanCycle, TimesOneMore, AudioAssumption
<1>2. SnStep \in 1..SnMod - 1 /\ SnMod \in Nat \ {0}
  BY <1>1, AudioAssumption
<1>3. CASE b + SnStep < SnMod
  <2>1. (b + SnStep) % SnMod = b + SnStep
    <3>1. b + SnStep \in Int /\ b + SnStep \in 0..SnMod - 1
      BY <1>2, <1>3
    <3> QED BY <1>2, <3>1, ModSmall
  <2> QED BY <1>1, <1>2, <1>3, <2>1 DEF Apart
<1>4. CASE b + SnStep >= SnMod
  <2>1. (b + SnStep) % SnMod = b + SnStep - SnMod
    <3>1. b + SnStep \in Int /\ b + SnStep - SnMod \in 0..SnMod - 1
      BY <1>2, <1>4
    <3>2. b + SnStep = (b + SnStep - SnMod) + SnMod
      BY <1>2
    <3> QED BY <1>2, <3>1, <3>2, ModSmall
  <2> QED BY <1>1, <1>2, <1>4, <2>1 DEF Apart
<1> QED BY <1>2, <1>3, <1>4

-----------------------------------------------------------------------------
(* Types and files.                                                        *)

\* A package is written to the file of the recording, if there is one.
LEMMA Written ==
    ASSUME AudioTypes, NEW pk \in Package, Handle(pk), sink # 0
    PROVE  /\ lastSn' = pk.sn /\ lastSn' \in -1..SnMod - 1
           /\ files' \in [1..MaxFiles -> File]
           /\ files'[sink].got = Append(files[sink].got, pk)
           /\ files'[sink].lost = files[sink].lost + LostBefore(lastSn, pk)
           /\ files'[sink].end = files[sink].end
           /\ \A f \in 1..MaxFiles : f # sink => files'[f] = files[f]
<1>1. sink \in 1..MaxFiles /\ files \in [1..MaxFiles -> File] /\ lastSn \in -1..SnMod - 1
  BY DEF AudioTypes
<1>2. /\ Append(files[sink].got, pk) \in Seq(Package)
      /\ files[sink].lost + LostBefore(lastSn, pk) \in Int
  BY <1>1, AppendParts, LostIsNumber DEF File
<1>3. files' = [files EXCEPT ![sink].got = Append(@, pk), ![sink].lost = @ + LostBefore(lastSn, pk)]
  BY DEF Handle
<1>4. lastSn' = pk.sn /\ pk.sn \in -1..SnMod - 1
  BY AudioAssumption DEF Handle, Package
<1> QED BY <1>1, <1>2, <1>3, <1>4 DEF File

\* The way a file ends is all that changes.
LEMMA FileEnds ==
    ASSUME AudioTypes, NEW f \in 1..MaxFiles, NEW e \in {"unused", "open", "cut", "failed", "stopped"},
           files' = [files EXCEPT ![f].end = e]
    PROVE  /\ files' \in [1..MaxFiles -> File] /\ files'[f].end = e
           /\ \A g \in 1..MaxFiles : /\ files'[g].got = files[g].got /\ files'[g].lost = files[g].lost
                                     /\ g # f => files'[g] = files[g]
BY DEF AudioTypes, File

\* A new recording has the first number that is free.
LEMMA NewFileFresh ==
    ASSUME AudioTypes, FilesInv, NewFile <= MaxFiles
    PROVE  /\ NewFile \in 1..MaxFiles /\ files[NewFile] = Unused
           /\ \A f \in 1..MaxFiles : files[f].end # "unused" <=> f < NewFile
<1>1. PICK k \in 0..MaxFiles : \A f \in 1..MaxFiles : files[f].end # "unused" <=> f <= k
  BY DEF FilesInv
<1>2. k \in Nat /\ MaxFiles \in Nat
  BY AudioAssumption
<1>3. {f \in 1..MaxFiles : files[f].end # "unused"} = 1..k
  BY <1>1, <1>2
<1>4. Cardinality(1..k) = k
  BY <1>2, FS_Interval
<1>5. NewFile = k + 1
  BY <1>3, <1>4 DEF NewFile
<1> QED BY <1>1, <1>2, <1>5 DEF FilesInv

\* Every variable keeps its type.
LEMMA TypesStep ==
    ASSUME AudioTypes, RecordingInv, FilesInv, ReaderInv, Next
    PROVE  AudioTypes'
<1> USE DEF AudioTypes
<1>1. CASE Poll
  <2>1. wire # <<>> /\ Handle(Head(wire)) /\ wire' = Tail(wire)
        /\ UNCHANGED <<sink, held, cmds, streams, streaming, sn, sent>>
    BY <1>1 DEF Poll, sessionVars, deviceVars
  <2>2. Head(wire) \in Package /\ wire' \in Seq(Package)
    BY <2>1, TailParts
  <2>3. lastSn' \in -1..SnMod - 1 /\ files' \in [1..MaxFiles -> File]
    <3>1. CASE sink = 0
      BY <2>1, <3>1 DEF Handle
    <3>2. CASE sink # 0
      BY <2>1, <2>2, <3>2, Written
    <3> QED BY <3>1, <3>2
  <2> QED BY <2>1, <2>2, <2>3
<1>2. CASE ReaderReads
  <2>1. PICK n \in 1..Len(wire) :
          /\ held' = SubSeq(wire, 1, n) /\ wire' = SubSeq(wire, n + 1, Len(wire))
    BY <1>2 DEF ReaderReads
  <2>2. held' \in Seq(Package) /\ wire' \in Seq(Package)
    BY <2>1, CutParts
  <2> QED BY <1>2, <2>2 DEF ReaderReads, sessionVars, deviceVars
<1>3. CASE ReaderHandles
  <2>1. Handle(Head(held)) /\ held' = Tail(held)
        /\ UNCHANGED <<sink, wire, cmds, streams, streaming, sn, sent>>
    BY <1>3 DEF ReaderHandles, sessionVars, deviceVars
  <2>2. held # <<>> /\ sink # 0
    BY <1>3 DEF ReaderHandles, ReaderInv, RecordingInv
  <2>3. Head(held) \in Package /\ held' \in Seq(Package)
    BY <2>1, <2>2, TailParts
  <2>4. lastSn' \in -1..SnMod - 1 /\ files' \in [1..MaxFiles -> File]
    BY <2>1, <2>2, <2>3, Written
  <2> QED BY <2>1, <2>3, <2>4
<1>4. CASE ReadBreaks
  <2>1. sink \in 1..MaxFiles
    BY <1>4 DEF ReadBreaks, RecordingInv
  <2>2. files' \in [1..MaxFiles -> File]
    BY <1>4, <2>1, FileEnds DEF ReadBreaks
  <2> QED BY <1>4, <2>2 DEF ReadBreaks, sessionVars, deviceVars
<1>5. CASE RecordStart
  <2>1. NewFile \in 1..MaxFiles /\ files' = [files EXCEPT ![NewFile].end = "open"]
    BY <1>5, NewFileFresh DEF RecordStart
  <2>2. files' \in [1..MaxFiles -> File] /\ sink' \in 0..MaxFiles
    <3>1. files' \in [1..MaxFiles -> File]
      BY <2>1, FileEnds
    <3>2. sink' = NewFile
      BY <1>5 DEF RecordStart
    <3> HIDE DEF NewFile
    <3> QED BY <2>1, <3>1, <3>2
  <2>3. cmds' \in Seq({"AUDIO_START", "AUDIO_STOP"})
    BY <1>5 DEF RecordStart, Call
  <2>4. wire' \in Seq(Package) /\ held' \in Seq(Package)
    <3>1. <<>> \in Seq(Package)
      OBVIOUS
    <3> QED BY <1>5, <3>1 DEF RecordStart
  <2>5. lastSn' \in -1..SnMod - 1
    <3>1. lastSn' = -1
      BY <1>5 DEF RecordStart
    <3> QED BY <3>1, AudioAssumption
  <2> QED BY <1>5, <2>2, <2>3, <2>4, <2>5 DEF RecordStart, deviceVars
<1>6. CASE StartFails
  <2>1. NewFile \in 1..MaxFiles /\ files' = [files EXCEPT ![NewFile].end = "failed"]
    BY <1>6, NewFileFresh DEF StartFails
  <2>2. files' \in [1..MaxFiles -> File]
    BY <2>1, FileEnds
  <2>3. wire' \in Seq(Package)
    <3>1. <<>> \in Seq(Package)
      OBVIOUS
    <3> QED BY <1>6, <3>1 DEF StartFails
  <2>4. lastSn' \in -1..SnMod - 1
    BY <1>6, AudioAssumption DEF StartFails
  <2> QED BY <1>6, <2>2, <2>3, <2>4 DEF StartFails, sessionVars, deviceVars
<1>7. CASE StartTimesOut \/ RecordStop
  <2>1. cmds' \in Seq({"AUDIO_START", "AUDIO_STOP"})
    <3>1. cmds' = Append(cmds, "AUDIO_STOP")
      BY <1>7 DEF StartTimesOut, RecordStop, Call
    <3> QED BY <3>1, AppendParts
  <2> QED BY <1>7, <2>1 DEF StartTimesOut, RecordStop, clientVars, deviceVars
<1>8. CASE Finish
  <2>1. sink \in 1..MaxFiles
    BY <1>8 DEF Finish, RecordingInv
  <2>2. \E e \in {"stopped", "failed"} : files' = [files EXCEPT ![sink].end = e]
    BY <1>8 DEF Finish
  <2>3. files' \in [1..MaxFiles -> File]
    BY <2>1, <2>2, FileEnds
  <2>4. wire' \in Seq(Package) /\ held' \in Seq(Package)
    <3>1. <<>> \in Seq(Package)
      OBVIOUS
    <3> QED BY <1>8, <3>1 DEF Finish
  <2>5. sink' \in 0..MaxFiles
    BY <1>8, AudioAssumption DEF Finish
  <2> QED BY <1>8, <2>3, <2>4, <2>5 DEF Finish, deviceVars
<1>9. CASE Execute
  <2>1. cmds' \in Seq({"AUDIO_START", "AUDIO_STOP"})
    BY <1>9, TailParts DEF Execute
  <2>2. streams' \in Nat /\ streaming' \in {0, streams'} /\ sn' \in 0..SnMod - 1
    <3>1. streaming' \in {0, streams + 1, streaming}
      BY <1>9 DEF Execute
    <3>2. CASE streaming' > streams
      <4>1. streams' = streaming' /\ sn' \in {sn, 0}
        BY <1>9, <3>2 DEF Execute
      <4>2. streaming' \in Nat
        BY <3>1
      <4>3. 0 \in 0..SnMod - 1
        BY AudioAssumption
      <4> QED BY <4>1, <4>2, <4>3
    <3>3. CASE ~(streaming' > streams)
      <4>1. streams' = streams /\ sn' = sn
        BY <1>9, <3>3 DEF Execute
      <4> QED BY <3>1, <3>3, <4>1
    <3> QED BY <3>2, <3>3
  <2> QED BY <1>9, <2>1, <2>2 DEF Execute, clientVars
<1>10. CASE Send
  <2> DEFINE pk == [stream |-> streaming, no |-> sent + 1, sn |-> (sn + SnStep) % SnMod]
  <2>1. SnMod \in Nat \ {0} /\ sent + 1 \in 0..MaxPackages /\ sent + 1 \in Nat
    BY <1>10, AudioAssumption DEF Send
  <2>2. (sn + SnStep) % SnMod \in 0..SnMod - 1
    BY <2>1, ModRange, AudioAssumption
  <2>3. pk \in Package
    BY <2>1, <2>2 DEF Package
  <2>4. wire' \in Seq(Package)
    <3>1. wire' = Append(wire, pk) \/ wire' = wire
      BY <1>10 DEF Send
    <3> HIDE DEF pk
    <3>2. Append(wire, pk) \in Seq(Package)
      BY <2>3, AppendParts
    <3> QED BY <3>1, <3>2
  <2> QED BY <1>10, <2>1, <2>2, <2>4 DEF Send, sessionVars, clientVars
<1>11. CASE \/ ReaderStops \/ Started \/ StartBreaks \/ CleanedUp \/ StopAnswered \/ StopTimesOut
            \/ PumpBreaks \/ Settled \/ SetStop
  BY <1>11 DEF ReaderStops, Started, StartBreaks, CleanedUp, StopAnswered, StopTimesOut, PumpBreaks,
               Settled, SetStop, sessionVars, clientVars, deviceVars
<1> QED BY <1>1, <1>2, <1>3, <1>4, <1>5, <1>6, <1>7, <1>8, <1>9, <1>10, <1>11 DEF Next

-----------------------------------------------------------------------------
(* The order of what was sent.                                             *)

LEMMA NumbersMove ==
    ASSUME NEW s \in Seq(Package), NEW t \in Seq(Package), t # <<>>, NEW c, NEW d, NEW e,
           NumbersOn(s, c, d, e), NumbersOn(t, c, d, e)
    PROVE  NumbersOn(Append(s, Head(t)), c, d, e) /\ NumbersOn(Tail(t), c, d, e)
<1>1. /\ Tail(t) \in Seq(Package) /\ Head(t) \in Package /\ Head(t) = t[1] /\ 1 \in DOMAIN t
      /\ \A i \in DOMAIN Tail(t) : i + 1 \in DOMAIN t /\ Tail(t)[i] = t[i + 1]
  BY TailParts
<1>2. /\ \A i \in DOMAIN Append(s, Head(t)) : i \in DOMAIN s \/ i = Len(s) + 1
      /\ \A i \in DOMAIN s : Append(s, Head(t))[i] = s[i]
      /\ Append(s, Head(t))[Len(s) + 1] = t[1]
  BY <1>1, AppendParts
<1> QED BY <1>1, <1>2 DEF NumbersOn

LEMMA PackageOf ==
    ASSUME NEW s \in Seq(Package), NEW i \in DOMAIN s
    PROVE  /\ s[i] \in Package /\ s[i].stream \in Nat /\ s[i].no \in Nat /\ s[i].sn \in 0..SnMod - 1
           /\ i \in 1..Len(s)
<1>1. s[i] \in Package /\ i \in 1..Len(s)
  OBVIOUS
<1> QED BY <1>1 DEF Package

LEMMA EmptyPart ==
    ASSUME NEW c, NEW d, NEW e
    PROVE  InOrder(<<>>) /\ NumbersOn(<<>>, c, d, e)
BY DEF InOrder, NumbersOn

LEMMA EmptyFollows ==
    ASSUME NEW s
    PROVE  Follows(<<>>, s) /\ Follows(s, <<>>)
BY DEF Follows

\* The file of the recording is one of the files, typed.
LEMMA GotType == AudioTypes => Got \in Seq(Package) /\ (sink # 0 => Got = files[sink].got)
<1>1. <<>> \in Seq(Package)
  OBVIOUS
<1> QED BY <1>1 DEF AudioTypes, Got, File

LEMMA PollOrder ==
    ASSUME AudioTypes, OrderInv, ReaderInv, Poll
    PROVE  OrderInv'
<1> USE DEF OrderInv
<1>1. /\ wire # <<>> /\ Handle(Head(wire)) /\ wire' = Tail(wire)
      /\ UNCHANGED <<sink, held, streams, sn, sent>>
  BY DEF Poll, sessionVars, deviceVars
<1>2. wire \in Seq(Package) /\ held = <<>> /\ Head(wire) \in Package
  <2>1. held = <<>>
    BY DEF Poll, ReaderInv
  <2> QED BY <1>1, <2>1, TailParts DEF AudioTypes
<1>3. CASE sink = 0
  <2>1. files' = files /\ Got' = Got /\ Got = <<>>
    BY <1>1, <1>3 DEF Handle, Got
  <2>2. <<>> \in Seq(Package)
    OBVIOUS
  <2>3. InOrder(Tail(wire)) /\ NumbersOn(Tail(wire), streams, sn, sent)
    BY <1>1, <1>2, <2>1, <2>2, HeadMoves, NumbersMove
  <2> QED BY <1>1, <1>2, <2>1, <2>3, EmptyFollows
<1>4. CASE sink # 0
  <2>1. Got \in Seq(Package) /\ Got = files[sink].got /\ sink \in 1..MaxFiles
    BY <1>4, GotType DEF AudioTypes
  <2>2. /\ Got' = Append(Got, Head(wire)) /\ files'[sink].got = Append(Got, Head(wire))
        /\ \A f \in 1..MaxFiles : f # sink => files'[f] = files[f]
    BY <1>1, <1>2, <1>4, <2>1, Written DEF Got
  <2>3. /\ InOrder(Got') /\ InOrder(wire') /\ Follows(wire', Got')
        /\ NumbersOn(Got', streams, sn, sent) /\ NumbersOn(wire', streams, sn, sent)
    BY <1>1, <1>2, <2>1, <2>2, HeadMoves, NumbersMove
  <2>4. \A f \in 1..MaxFiles : InOrder(files'[f].got)
    BY <2>2, <2>3
  <2> QED BY <1>1, <1>2, <2>3, <2>4, EmptyFollows
<1> QED BY <1>3, <1>4

LEMMA ReaderOrder ==
    ASSUME AudioTypes, RecordingInv, OrderInv, ReaderInv, ReaderReads \/ ReaderHandles
    PROVE  OrderInv'
<1> USE DEF OrderInv
<1>1. UNCHANGED <<sink, streams, sn, sent>> /\ sink # 0 /\ sink \in 1..MaxFiles
  BY DEF ReaderReads, ReaderHandles, sessionVars, deviceVars, RecordingInv, AudioTypes
<1>2. /\ Got \in Seq(Package) /\ Got = files[sink].got
      /\ wire \in Seq(Package) /\ held \in Seq(Package)
  BY <1>1, GotType DEF AudioTypes
<1>3. CASE ReaderReads
  <2>1. PICK n \in 1..Len(wire) :
          /\ held' = SubSeq(wire, 1, n) /\ wire' = SubSeq(wire, n + 1, Len(wire))
    BY <1>3 DEF ReaderReads
  <2>2. files' = files /\ Got' = Got
    BY <1>3 DEF ReaderReads, Got, sessionVars
  <2>3. /\ InOrder(held') /\ InOrder(wire') /\ Follows(held', Got) /\ Follows(wire', Got)
        /\ Follows(wire', held')
        /\ NumbersOn(held', streams, sn, sent) /\ NumbersOn(wire', streams, sn, sent)
    BY <1>2, <2>1, PartIsCut
  <2> QED BY <1>1, <2>2, <2>3
<1>4. CASE ReaderHandles
  <2>1. held # <<>> /\ Handle(Head(held)) /\ held' = Tail(held) /\ wire' = wire
    BY <1>4 DEF ReaderHandles, ReaderInv
  <2>2. Head(held) \in Package
    BY <1>2, <2>1, TailParts
  <2>3. /\ Got' = Append(Got, Head(held)) /\ files'[sink].got = Append(Got, Head(held))
        /\ \A f \in 1..MaxFiles : f # sink => files'[f] = files[f]
    BY <1>1, <1>2, <2>1, <2>2, Written DEF Got
  <2>4. /\ InOrder(Got') /\ InOrder(held') /\ Follows(held', Got')
        /\ NumbersOn(Got', streams, sn, sent) /\ NumbersOn(held', streams, sn, sent)
    <3>1. InOrder(Got) /\ InOrder(held) /\ Follows(held, Got)
      BY <1>1, <1>2
    <3>2. NumbersOn(Got, streams, sn, sent) /\ NumbersOn(held, streams, sn, sent)
      OBVIOUS
    <3> HIDE DEF OrderInv
    <3>3. /\ InOrder(Append(Got, Head(held))) /\ InOrder(Tail(held))
          /\ Follows(Tail(held), Append(Got, Head(held)))
      BY <1>2, <2>1, <3>1, HeadMoves
    <3>4. /\ NumbersOn(Append(Got, Head(held)), streams, sn, sent)
          /\ NumbersOn(Tail(held), streams, sn, sent)
      BY <1>2, <2>1, <3>2, NumbersMove
    <3> QED BY <2>1, <2>3, <3>3, <3>4
  <2>5. Follows(wire, Append(Got, Head(held))) /\ Follows(wire, Tail(held))
    <3>1. /\ Head(held) = held[1] /\ 1 \in DOMAIN held
          /\ \A i \in DOMAIN Tail(held) : i + 1 \in DOMAIN held /\ Tail(held)[i] = held[i + 1]
      BY <1>2, <2>1, TailParts
    <3>2. /\ \A i \in DOMAIN Append(Got, Head(held)) : i \in DOMAIN Got \/ i = Len(Got) + 1
          /\ \A i \in DOMAIN Got : Append(Got, Head(held))[i] = Got[i]
          /\ Append(Got, Head(held))[Len(Got) + 1] = held[1]
      BY <1>2, <2>2, <3>1, AppendParts
    <3>3. Follows(wire, Got) /\ Follows(wire, held)
      OBVIOUS
    <3> HIDE DEF OrderInv
    <3> QED BY <3>1, <3>2, <3>3 DEF Follows
  <2>6. \A f \in 1..MaxFiles : InOrder(files'[f].got)
    BY <2>3, <2>4
  <2> QED BY <1>1, <2>1, <2>3, <2>4, <2>5, <2>6
<1> QED BY <1>3, <1>4

\* The device begins a stream, or sends on the one it has.
LEMMA DeviceOrder ==
    ASSUME AudioTypes, OrderInv, Execute \/ Send
    PROVE  OrderInv'
<1> USE DEF OrderInv
<1>1. UNCHANGED <<sink, files, held, Got>> /\ Got \in Seq(Package)
  BY GotType DEF Execute, Send, clientVars, Got
<1>2. CASE Execute
  <2>1. wire' = wire /\ sent' = sent
    BY <1>2 DEF Execute
  <2>2. streaming' \in {0, streams + 1, streaming}
    BY <1>2 DEF Execute
  <2>3. CASE streaming' > streams
    <3>1. streams' = streams + 1
      BY <1>2, <2>2, <2>3 DEF Execute, AudioTypes
    <3>2. ASSUME NEW s \in Seq(Package), NumbersOn(s, streams, sn, sent)
          PROVE  NumbersOn(s, streams', sn', sent')
      <4>1. /\ streams \in Nat
            /\ \A i \in DOMAIN s : s[i].stream \in Nat
        BY PackageOf DEF AudioTypes
      <4> QED BY <2>1, <3>1, <3>2, <4>1 DEF NumbersOn
    <3> QED BY <1>1, <2>1, <3>2 DEF AudioTypes
  <2>4. CASE ~(streaming' > streams)
    <3>1. UNCHANGED <<streams, sn>>
      BY <1>2, <2>4 DEF Execute
    <3> QED BY <1>1, <2>1, <3>1
  <2> QED BY <2>3, <2>4
<1>3. CASE Send
  <2> DEFINE pk == [stream |-> streaming, no |-> sent + 1, sn |-> (sn + SnStep) % SnMod]
  <2>1. /\ sent < MaxPackages /\ sent' = sent + 1 /\ sn' = (sn + SnStep) % SnMod
        /\ streams' = streams /\ streaming = streams /\ streams \in Nat /\ sent \in Nat
        /\ sn \in 0..SnMod - 1
    BY <1>3 DEF Send, AudioTypes
  <2>2. pk \in Package /\ pk.no = sent + 1 /\ pk.stream = streams /\ pk.sn = sn'
    <3>1. Apart(sn, sn, 0) /\ 0 < MaxPackages
      BY <2>1, AudioAssumption DEF Apart
    <3>2. (sn + SnStep) % SnMod \in 0..SnMod - 1
      BY <2>1, <3>1, NextNumber
    <3> QED BY <2>1, <3>2 DEF Package
  <2>3. ASSUME NEW s \in Seq(Package), NumbersOn(s, streams, sn, sent), NEW i \in DOMAIN s
        PROVE  /\ After(pk, s[i]) /\ s[i].no <= sent' /\ s[i].stream <= streams'
               /\ s[i].stream = streams' => Apart(s[i].sn, sn', sent' - s[i].no)
    <3>1. /\ s[i] \in Package /\ s[i].no <= sent /\ s[i].stream <= streams
          /\ s[i].stream = streams => Apart(s[i].sn, sn, sent - s[i].no)
      BY <2>3 DEF NumbersOn
    <3>2. /\ s[i].no \in Nat /\ s[i].sn \in 0..SnMod - 1 /\ sent - s[i].no \in Nat
          /\ sent - s[i].no < MaxPackages /\ sent' - s[i].no = (sent - s[i].no) + 1
      <4>1. s[i].no \in Nat /\ s[i].sn \in 0..SnMod - 1
        BY PackageOf
      <4>2. MaxPackages \in Nat
        BY AudioAssumption
      <4>3. \A m \in Nat : m <= sent => sent - m \in Nat /\ sent - m < MaxPackages
                                        /\ sent' - m = (sent - m) + 1
        BY <2>1, <4>2
      <4> QED BY <3>1, <4>1, <4>3
    <3>3. s[i].stream = streams => Apart(s[i].sn, sn', (sent - s[i].no) + 1)
      BY <2>1, <3>1, <3>2, NextNumber
    <3>4. s[i].stream = streams' => Apart(s[i].sn, sn', sent' - s[i].no)
      BY <2>1, <3>2, <3>3
    <3>5. pk.no = sent' /\ s[i].no < pk.no /\ s[i].no <= sent' /\ s[i].stream <= streams'
      BY <2>1, <2>2, <3>1, <3>2
    <3>6. After(pk, s[i])
      BY <2>1, <2>2, <3>4, <3>5 DEF After
    <3> QED BY <3>4, <3>5, <3>6
  <2>4. Apart(pk.sn, sn', sent' - pk.no)
    BY <2>1, <2>2, AudioAssumption DEF Apart, Package
  <2> HIDE DEF pk
  <2>5. \A s \in {Got, held, wire} : NumbersOn(s, streams', sn', sent')
    BY <1>1, <2>3 DEF AudioTypes, NumbersOn
  <2>6. CASE wire' = wire
    BY <1>1, <2>5, <2>6
  <2>7. CASE wire' = Append(wire, pk)
    <3>1. /\ \A i \in DOMAIN wire' : i \in DOMAIN wire \/ i = Len(wire) + 1
          /\ \A i \in DOMAIN wire : wire'[i] = wire[i] /\ i <= Len(wire) /\ i \in Nat
          /\ wire'[Len(wire) + 1] = pk /\ Len(wire) \in Nat /\ wire \in Seq(Package)
      BY <2>2, <2>7, AppendParts DEF AudioTypes
    <3>2. InOrder(wire')
      <4> SUFFICES ASSUME NEW i \in DOMAIN wire', NEW j \in DOMAIN wire', i < j
                   PROVE  After(wire'[j], wire'[i])
        BY DEF InOrder
      <4>1. i \in DOMAIN wire
        BY <3>1
      <4>2. CASE j \in DOMAIN wire
        BY <3>1, <4>1, <4>2 DEF InOrder
      <4>3. CASE j = Len(wire) + 1
        BY <2>3, <3>1, <4>1, <4>3
      <4> QED BY <3>1, <4>2, <4>3
    <3>3. Follows(wire', Got) /\ Follows(wire', held)
      BY <1>1, <2>3, <3>1 DEF Follows, AudioTypes
    <3>4. NumbersOn(wire', streams', sn', sent')
      <4>1. pk.no <= sent' /\ pk.stream <= streams'
        BY <2>1, <2>2
      <4> QED BY <2>4, <2>5, <3>1, <4>1 DEF NumbersOn
    <3> QED BY <1>1, <2>5, <3>2, <3>3, <3>4
  <2> QED BY <1>3, <2>6, <2>7 DEF Send, pk
<1> QED BY <1>2, <1>3

\* A recording begins or ends: what is left out breaks no order.
LEMMA CallOrder ==
    ASSUME AudioTypes, RecordingInv, FilesInv, OrderInv,
           ReadBreaks \/ RecordStart \/ StartFails \/ Finish
    PROVE  OrderInv'
<1> USE DEF OrderInv
<1>1. UNCHANGED <<streams, sn, sent>>
  BY DEF ReadBreaks, RecordStart, StartFails, Finish, deviceVars
<1>2. \A f \in 1..MaxFiles : files'[f].got = files[f].got
  <2>1. CASE ReadBreaks \/ Finish
    <3>1. sink \in 1..MaxFiles
      BY <2>1 DEF ReadBreaks, Finish, RecordingInv, AudioTypes
    <3>2. \E e \in {"cut", "stopped", "failed"} : files' = [files EXCEPT ![sink].end = e]
      BY <2>1 DEF ReadBreaks, Finish
    <3> QED BY <3>1, <3>2, FileEnds
  <2>2. CASE RecordStart \/ StartFails
    <3>1. NewFile \in 1..MaxFiles
      BY <2>2, NewFileFresh DEF RecordStart, StartFails
    <3>2. \E e \in {"open", "failed"} : files' = [files EXCEPT ![NewFile].end = e]
      BY <2>2 DEF RecordStart, StartFails
    <3> HIDE DEF NewFile
    <3> QED BY <3>1, <3>2, FileEnds
  <2> QED BY <2>1, <2>2
<1>3. wire' \in {wire, <<>>} /\ held' \in {held, <<>>} /\ Got' \in {Got, <<>>}
  <2>1. CASE ReadBreaks \/ StartFails
    <3>1. sink' = sink /\ sink \in 0..MaxFiles
      BY <2>1 DEF ReadBreaks, StartFails, AudioTypes
    <3>2. Got' = Got
      BY <1>2, <3>1 DEF Got
    <3> QED BY <2>1, <3>2 DEF ReadBreaks, StartFails
  <2>2. CASE RecordStart
    <3>1. sink' = NewFile /\ NewFile \in 1..MaxFiles /\ files[NewFile] = Unused
      BY <2>2, NewFileFresh DEF RecordStart
    <3> HIDE DEF NewFile
    <3>2. Got' = <<>>
      BY <1>2, <3>1 DEF Got, Unused
    <3> QED BY <2>2, <3>2 DEF RecordStart
  <2>3. CASE Finish
    BY <2>3 DEF Finish, Got
  <2> QED BY <2>1, <2>2, <2>3
<1>4. \A f \in 1..MaxFiles : InOrder(files'[f].got)
  BY <1>2
<1> QED BY <1>1, <1>3, <1>4, EmptyPart, EmptyFollows

\* No other step touches a package.
Elsewhere ==
    \/ ReaderStops \/ Started \/ StartBreaks \/ StartTimesOut \/ CleanedUp
    \/ RecordStop \/ StopAnswered \/ StopTimesOut \/ PumpBreaks \/ Settled \/ SetStop

LEMMA ElsewhereKept ==
    ASSUME Elsewhere
    PROVE  UNCHANGED <<threaded, wire, sink, held, files, lastSn, streams, sn, sent, due, streaming>>
BY DEF Elsewhere, ReaderStops, Started, StartBreaks, StartTimesOut, CleanedUp, RecordStop,
       StopAnswered, StopTimesOut, PumpBreaks, Settled, SetStop, sessionVars, clientVars, deviceVars

LEMMA OrderStep ==
    ASSUME AudioTypes, RecordingInv, FilesInv, ReaderInv, OrderInv, Next
    PROVE  OrderInv'
<1>1. CASE Elsewhere
  BY <1>1, ElsewhereKept DEF OrderInv, Got
<1> QED BY <1>1, PollOrder, ReaderOrder, DeviceOrder, CallOrder DEF Next, Elsewhere

-----------------------------------------------------------------------------
(* The losses.                                                             *)

LEMMA LastOf ==
    ASSUME NEW g \in Seq(Package), g # <<>>
    PROVE  /\ Len(g) \in Nat \ {0} /\ g[Len(g)] \in Package /\ g[1] \in Package
           /\ 1 \in DOMAIN g /\ Len(g) \in DOMAIN g
OBVIOUS

LEMMA SumsMove ==
    ASSUME NEW m \in Int, NEW x \in Int, NEW y \in Int, NEW a \in Int, NEW b \in Int, NEW c \in Int,
           m + x = b - a + 1, y = c - b - 1
    PROVE  (m + 1) + (x + y) = c - a + 1
OBVIOUS

\* One more package written is counted with those missing before it.
LEMMA OneMoreCounted ==
    ASSUME SnStep = Sections,
           NEW g \in Seq(Package), NEW lost \in Int, NEW last, NEW pk \in Package,
           Counted(g, lost), InOrder(Append(g, pk)), pk.no <= MaxPackages,
           last = IF g = <<>> THEN -1 ELSE g[Len(g)].sn
    PROVE  Counted(Append(g, pk), lost + LostBefore(last, pk))
<1> DEFINE u == Append(g, pk)
           l == LostBefore(last, pk)
<1>1. /\ Len(u) = Len(g) + 1 /\ Len(g) \in Nat /\ u # <<>>
      /\ DOMAIN u = 1..Len(g) + 1 /\ DOMAIN g = 1..Len(g)
      /\ \A i \in DOMAIN g : u[i] = g[i]
      /\ u[Len(g) + 1] = pk
  BY AppendParts
<1>2. pk.no \in Nat /\ MaxPackages \in Nat
  BY AudioAssumption DEF Package
<1>3. CASE g = <<>>
  <2>1. l = 0 /\ lost = 0 /\ Len(g) = 0
    BY <1>3 DEF LostBefore, Counted
  <2> HIDE DEF u, l
  <2>2. Len(u) = 1 /\ u[1] = pk /\ lost + l = 0
    BY <1>1, <2>1
  <2>3. Counted(u, lost + l)
    <3>1. Len(u) + (lost + l) = u[Len(u)].no - u[1].no + 1
      BY <1>2, <2>2
    <3> QED BY <1>1, <2>2, <3>1 DEF Counted
  <2> QED BY <2>3 DEF u, l
<1>4. CASE g # <<>>
  <2> DEFINE p == g[Len(g)]
             n == pk.no - p.no
  <2>1. /\ Len(g) \in Nat \ {0} /\ p \in Package /\ g[1] \in Package /\ 1 \in DOMAIN g
        /\ Len(g) \in DOMAIN g
    BY <1>4, LastOf
  <2>2. p.no \in Nat /\ g[1].no \in Nat /\ p.sn \in 0..SnMod - 1
    BY <2>1 DEF Package
  <2>3. last = p.sn
    BY <1>4
  <2> HIDE DEF u
  <2>4. After(pk, p)
    <3>1. Len(g) \in DOMAIN u /\ Len(g) + 1 \in DOMAIN u /\ Len(g) < Len(g) + 1
      BY <1>1, <2>1
    <3>2. After(u[Len(g) + 1], u[Len(g)])
      BY <3>1 DEF InOrder, u
    <3> QED BY <1>1, <2>1, <3>2
  <2> SUFFICES ASSUME \A i \in DOMAIN u : u[i].stream = u[1].stream
               PROVE  Len(u) + (lost + l) = u[Len(u)].no - u[1].no + 1
    BY <1>1 DEF Counted, u
  <2> HIDE DEF p, l
  <2>5. u[1] = g[1] /\ p.stream = g[1].stream /\ pk.stream = g[1].stream
    BY <1>1, <2>1 DEF p
  <2>6. \A i \in DOMAIN g : g[i].stream = g[1].stream
    BY <1>1, <2>5
  <2>7. Len(g) + lost = p.no - g[1].no + 1
    BY <1>4, <2>6 DEF Counted, p
  <2>8. n \in Nat \ {0} /\ n <= MaxPackages /\ Apart(p.sn, pk.sn, n)
    BY <1>2, <2>2, <2>4, <2>5 DEF After
  <2>9. l = n - 1
    BY <2>2, <2>3, <2>8, GapCounted DEF l
  <2>10. u[Len(u)] = pk
    BY <1>1
  <2>11. u[Len(u)].no = pk.no /\ u[1].no = g[1].no
    BY <2>5, <2>10
  <2>12. l = pk.no - p.no - 1 /\ l \in Int
    BY <1>2, <2>2, <2>9
  <2>13. Len(u) = Len(g) + 1 /\ Len(g) \in Int
    BY <1>1
  <2>14. (Len(g) + 1) + (lost + l) = pk.no - g[1].no + 1
    <3> DEFINE x == g[1].no
               y == p.no
               z == pk.no
    <3>1. x \in Int /\ y \in Int /\ z \in Int /\ Len(g) \in Int /\ lost \in Int /\ l \in Int
      BY <1>2, <2>2, <2>12, <2>13
    <3>2. Len(g) + lost = y - x + 1 /\ l = z - y - 1
      BY <2>7, <2>12
    <3> HIDE DEF x, y, z
    <3>3. (Len(g) + 1) + (lost + l) = z - x + 1
      BY <3>1, <3>2, SumsMove
    <3> QED BY <3>3 DEF x, z
  <2> QED BY <2>11, <2>13, <2>14
<1> QED BY <1>3, <1>4

\* A package of the channel, or of the reader, is one of those sent.
LEMMA HeadSent ==
    ASSUME AudioTypes, NEW s \in Seq(Package), s # <<>>, NumbersOn(s, streams, sn, sent)
    PROVE  Head(s) \in Package /\ Head(s).no <= MaxPackages
<1>1. Head(s) = s[1] /\ 1 \in DOMAIN s /\ Head(s) \in Package
  BY TailParts
<1>2. Head(s).no <= sent /\ Head(s).no \in Nat /\ sent \in 0..MaxPackages /\ MaxPackages \in Nat
  BY <1>1, AudioAssumption DEF NumbersOn, AudioTypes, Package
<1> QED BY <1>1, <1>2

LEMMA HandledCount ==
    ASSUME AudioTypes, CountInv, sink # 0, NEW pk \in Package, pk.no <= MaxPackages, Handle(pk),
           InOrder(files'[sink].got), sink' = sink
    PROVE  CountInv'
<1>1. /\ sink \in 1..MaxFiles /\ files[sink].got \in Seq(Package) /\ files[sink].lost \in Int
      /\ Got = files[sink].got
  BY DEF AudioTypes, File, Got
<1>2. /\ lastSn' = pk.sn
      /\ files'[sink].got = Append(files[sink].got, pk)
      /\ files'[sink].lost = files[sink].lost + LostBefore(lastSn, pk)
      /\ \A f \in 1..MaxFiles : f # sink => files'[f] = files[f]
  BY Written
<1>3. SnStep = Sections => Counted(files'[sink].got, files'[sink].lost)
  BY <1>1, <1>2, OneMoreCounted DEF CountInv
<1>4. Got' = Append(files[sink].got, pk)
  BY <1>2 DEF Got
<1>5. Got' # <<>> /\ Got'[Len(Got')] = pk
  BY <1>1, <1>4, AppendParts
<1>6. SnStep = Sections => \A f \in 1..MaxFiles : Counted(files'[f].got, files'[f].lost)
  BY <1>2, <1>3 DEF CountInv
<1> QED BY <1>2, <1>5, <1>6 DEF CountInv

LEMMA CountStep ==
    ASSUME AudioTypes, RecordingInv, FilesInv, ReaderInv, OrderInv, OrderInv', CountInv, Next
    PROVE  CountInv'
<1>1. CASE Poll
  <2>1. wire # <<>> /\ Handle(Head(wire)) /\ sink' = sink /\ wire \in Seq(Package)
    BY <1>1 DEF Poll, AudioTypes
  <2>2. Head(wire) \in Package /\ Head(wire).no <= MaxPackages
    BY <2>1, HeadSent DEF OrderInv
  <2>3. CASE sink = 0
    BY <2>1, <2>3 DEF Handle, CountInv, Got
  <2>4. CASE sink # 0
    <3>1. InOrder(files'[sink].got)
      BY <2>4 DEF OrderInv, AudioTypes
    <3> QED BY <2>1, <2>2, <2>4, <3>1, HandledCount
  <2> QED BY <2>3, <2>4
<1>2. CASE ReaderHandles
  <2>1. held # <<>> /\ Handle(Head(held)) /\ sink' = sink /\ held \in Seq(Package) /\ sink # 0
    BY <1>2 DEF ReaderHandles, AudioTypes, ReaderInv, RecordingInv
  <2>2. Head(held) \in Package /\ Head(held).no <= MaxPackages
    BY <2>1, HeadSent DEF OrderInv
  <2>3. InOrder(files'[sink].got)
    BY <2>1 DEF OrderInv, AudioTypes
  <2> QED BY <2>1, <2>2, <2>3, HandledCount
<1>3. CASE ReadBreaks \/ Finish
  <2>1. sink \in 1..MaxFiles /\ lastSn' = lastSn /\ sink' \in {sink, 0}
    BY <1>3 DEF ReadBreaks, Finish, RecordingInv, AudioTypes
  <2>2. \E e \in {"cut", "stopped", "failed"} : files' = [files EXCEPT ![sink].end = e]
    BY <1>3 DEF ReadBreaks, Finish
  <2>3. \A f \in 1..MaxFiles : files'[f].got = files[f].got /\ files'[f].lost = files[f].lost
    BY <2>1, <2>2, FileEnds
  <2> QED BY <2>1, <2>3 DEF CountInv, Got
<1>4. CASE RecordStart \/ StartFails
  <2>1. NewFile \in 1..MaxFiles /\ files[NewFile] = Unused /\ lastSn' = -1
    BY <1>4, NewFileFresh DEF RecordStart, StartFails
  <2>2. \E e \in {"open", "failed"} : files' = [files EXCEPT ![NewFile].end = e]
    BY <1>4 DEF RecordStart, StartFails
  <2>3. sink' \in {NewFile, 0}
    BY <1>4 DEF RecordStart, StartFails, RecordingInv
  <2> HIDE DEF NewFile
  <2>4. \A f \in 1..MaxFiles : files'[f].got = files[f].got /\ files'[f].lost = files[f].lost
    BY <2>1, <2>2, FileEnds
  <2>5. Got' = <<>>
    BY <2>1, <2>3, <2>4 DEF Got, Unused
  <2> QED BY <2>1, <2>4, <2>5 DEF CountInv
<1>5. CASE ReaderReads \/ Execute \/ Send \/ Elsewhere
  <2>1. UNCHANGED <<files, sink, lastSn>>
    BY <1>5, ElsewhereKept DEF ReaderReads, Execute, Send, clientVars
  <2> QED BY <2>1 DEF CountInv, Got
<1> QED BY <1>1, <1>2, <1>3, <1>4, <1>5 DEF Next, Elsewhere

-----------------------------------------------------------------------------
(* The files, the reader and the stop.                                     *)

LEMMA FilesStep ==
    ASSUME AudioTypes, RecordingInv, FilesInv, ReaderInv, Next
    PROVE  FilesInv'
<1> USE DEF FilesInv
<1>1. CASE Poll \/ ReaderHandles
  <2>1. /\ sink' = sink
        /\ \E s \in {wire, held} : s \in Seq(Package) /\ s # <<>> /\ Handle(Head(s))
    BY <1>1 DEF Poll, ReaderHandles, AudioTypes, ReaderInv
  <2>2. PICK pk \in Package : Handle(pk)
    BY <2>1, TailParts
  <2>3. CASE sink = 0
    BY <2>1, <2>2, <2>3 DEF Handle
  <2>4. CASE sink # 0
    <3>1. /\ files'[sink].end = files[sink].end
          /\ \A f \in 1..MaxFiles : f # sink => files'[f] = files[f]
      BY <2>2, <2>4, Written
    <3>2. \A f \in 1..MaxFiles : files'[f].end = files[f].end
      BY <3>1
    <3>3. \A f \in 1..MaxFiles : files'[f].end = "unused" => files'[f] = Unused
      BY <2>4, <3>1
    <3> QED BY <2>1, <3>1, <3>2, <3>3
  <2> QED BY <2>3, <2>4
<1>2. CASE ReadBreaks \/ Finish
  <2>1. sink \in 1..MaxFiles /\ sink # 0
    BY <1>2 DEF ReadBreaks, Finish, RecordingInv, AudioTypes
  <2>2. PICK e \in {"cut", "stopped", "failed"} : files' = [files EXCEPT ![sink].end = e]
    BY <1>2 DEF ReadBreaks, Finish
  <2>3. /\ files'[sink].end = e
        /\ \A f \in 1..MaxFiles : f # sink => files'[f] = files[f]
    BY <2>1, <2>2, FileEnds
  <2>4. \A f \in 1..MaxFiles : files'[f].end = "unused" <=> files[f].end = "unused"
    BY <2>1, <2>3
  <2>5. \A f \in 1..MaxFiles : files'[f].end # "open" /\ (files'[f].end = "unused" => files'[f] = Unused)
    BY <2>1, <2>3
  <2>6. sink' = 0 \/ (sink' = sink /\ files'[sink].end = "cut")
    BY <1>2, <2>1, <2>2, FileEnds DEF ReadBreaks, Finish
  <2> QED BY <2>4, <2>5, <2>6
<1>3. CASE RecordStart \/ StartFails
  <2>1. /\ NewFile \in 1..MaxFiles /\ files[NewFile] = Unused /\ NewFile <= MaxFiles
        /\ \A f \in 1..MaxFiles : files[f].end # "unused" <=> f < NewFile
    BY <1>3, NewFileFresh DEF RecordStart, StartFails
  <2>2. PICK e \in {"open", "failed"} :
          /\ files' = [files EXCEPT ![NewFile].end = e]
          /\ sink' = IF e = "open" THEN NewFile ELSE 0
    BY <1>3 DEF RecordStart, StartFails, RecordingInv
  <2>3. sink = 0
    BY <1>3 DEF RecordStart, StartFails, RecordingInv
  <2> HIDE DEF NewFile
  <2>4. /\ files'[NewFile].end = e
        /\ \A f \in 1..MaxFiles : f # NewFile => files'[f] = files[f]
    BY <2>1, <2>2, FileEnds
  <2>5. \A f \in 1..MaxFiles : files'[f].end # "unused" <=> f <= NewFile
    BY <2>1, <2>4
  <2>6. \A f \in 1..MaxFiles : /\ files'[f].end = "unused" => files'[f] = Unused
                               /\ files'[f].end = "open" => f = sink'
    BY <2>1, <2>2, <2>3, <2>4
  <2>7. sink' # 0 => files'[sink'].end = "open"
    BY <2>2, <2>4
  <2>8. NewFile \in 0..MaxFiles
    BY <2>1
  <2> QED BY <2>5, <2>6, <2>7, <2>8
<1>4. CASE ReaderReads \/ Execute \/ Send \/ Elsewhere
  <2>1. UNCHANGED <<files, sink>>
    BY <1>4, ElsewhereKept DEF ReaderReads, Execute, Send, clientVars
  <2> QED BY <2>1
<1> QED BY <1>1, <1>2, <1>3, <1>4 DEF Next, Elsewhere

LEMMA ReaderStep ==
    ASSUME AudioTypes, RecordingInv, FilesInv, ReaderInv, Next
    PROVE  ReaderInv'
<1> USE DEF ReaderInv
<1>1. CASE Poll
  BY <1>1 DEF Poll, sessionVars
<1>2. CASE ReaderReads
  <2>1. held' # <<>>
    <3>1. PICK n \in 1..Len(wire) : held' = SubSeq(wire, 1, n)
      BY <1>2 DEF ReaderReads
    <3>2. wire \in Seq(Package)
      BY DEF AudioTypes
    <3>3. SubSeq(wire, 1, n) # <<>>
      BY <3>2, CutParts
    <3> QED BY <3>1, <3>3
  <2> QED BY <1>2, <2>1 DEF ReaderReads, sessionVars
<1>3. CASE ReaderHandles
  BY <1>3 DEF ReaderHandles, sessionVars
<1>4. CASE ReaderStops
  BY <1>4 DEF ReaderStops, sessionVars, RecordingInv
<1>5. CASE ReadBreaks
  <2>1. files'[sink].end = "cut"
    <3>1. sink \in 1..MaxFiles /\ files' = [files EXCEPT ![sink].end = "cut"]
      BY <1>5 DEF ReadBreaks, RecordingInv, AudioTypes
    <3> QED BY <3>1, FileEnds
  <2> QED BY <1>5, <2>1 DEF ReadBreaks, sessionVars
<1>6. CASE RecordStart
  BY <1>6 DEF RecordStart, Call
<1>7. CASE StartFails
  BY <1>7 DEF StartFails, sessionVars, RecordingInv
<1>8. CASE Finish
  BY <1>8 DEF Finish
<1>9. CASE Execute
  BY <1>9 DEF Execute, clientVars
<1>10. CASE Send
  BY <1>10 DEF Send, clientVars, sessionVars
<1>11. CASE SetStop
  BY <1>11 DEF SetStop
<1>12. CASE \/ Started \/ StartBreaks \/ StartTimesOut \/ CleanedUp \/ RecordStop \/ StopAnswered
            \/ StopTimesOut \/ PumpBreaks \/ Settled
  <2>1. UNCHANGED <<threaded, sink, held, files, reader, stop>> /\ at # "finish"
    BY <1>12 DEF Started, StartBreaks, StartTimesOut, CleanedUp, RecordStop, StopAnswered,
                 StopTimesOut, PumpBreaks, Settled, clientVars, Call, Idle
  <2> QED BY <2>1
<1> QED BY <1>1, <1>2, <1>3, <1>4, <1>5, <1>6, <1>7, <1>8, <1>9, <1>10, <1>11, <1>12 DEF Next

\* What is left of the commands ends with the same one.
LEMMA LastCommand ==
    ASSUME NEW S, NEW s \in Seq(S), s # <<>>
    PROVE  /\ Len(s) = 1 => Tail(s) = <<>> /\ Head(s) = s[Len(s)]
           /\ Len(s) # 1 => Tail(s) # <<>> /\ Tail(s)[Len(Tail(s))] = s[Len(s)]
<1>1. /\ Tail(s) \in Seq(S) /\ Head(s) = s[1] /\ Len(s) \in Nat \ {0} /\ Len(Tail(s)) = Len(s) - 1
      /\ \A i \in DOMAIN Tail(s) : Tail(s)[i] = s[i + 1]
  BY TailParts
<1>2. CASE Len(s) = 1
  <2>1. \A t \in Seq(S) : Len(t) = 0 => t = <<>>
    OBVIOUS
  <2>2. Len(Tail(s)) = 0
    BY <1>1, <1>2
  <2>3. Tail(s) = <<>>
    BY <1>1, <2>1, <2>2
  <2>4. Head(s) = s[Len(s)]
    BY <1>1, <1>2
  <2> QED BY <1>2, <2>3, <2>4
<1>3. CASE Len(s) # 1
  <2>1. Len(Tail(s)) \in 1..Len(Tail(s)) /\ DOMAIN Tail(s) = 1..Len(Tail(s))
    BY <1>1, <1>3
  <2>2. Tail(s)[Len(Tail(s))] = s[(Len(s) - 1) + 1]
    BY <1>1, <2>1
  <2>3. Tail(s) # <<>>
    BY <1>1, <1>3
  <2> QED BY <1>1, <1>3, <2>2, <2>3
<1> QED BY <1>2, <1>3

LEMMA StopStep ==
    ASSUME AudioTypes, RecordingInv, StopInv, Next
    PROVE  StopInv'
<1> USE DEF StopInv
<1>1. CASE Execute
  <2>1. at' = at /\ cmds # <<>> /\ cmds' = Tail(cmds)
    BY <1>1 DEF Execute
  <2>2. PICK ok \in BOOLEAN :
          /\ streaming' = IF ~ok THEN streaming
                          ELSE IF Head(cmds) = "AUDIO_STOP" THEN 0
                          ELSE IF streaming = 0 THEN streams + 1 ELSE streaming
          /\ answer' = IF Waiting /\ Len(cmds) = 1 THEN IF ok THEN "OK" ELSE "BAD" ELSE answer
    BY <1>1 DEF Execute
  <2>3. /\ Len(cmds) = 1 => Tail(cmds) = <<>> /\ Head(cmds) = cmds[Len(cmds)]
        /\ Len(cmds) # 1 => Tail(cmds) # <<>> /\ Tail(cmds)[Len(Tail(cmds))] = cmds[Len(cmds)]
    BY <2>1, LastCommand DEF AudioTypes
  <2>4. CASE at = "stop"
    BY <2>1, <2>2, <2>3, <2>4 DEF Waiting
  <2>5. CASE at # "stop"
    <3>1. answer' = answer \/ at \in {"start", "cleanup"}
      BY <2>2, <2>5 DEF Waiting
    <3> QED BY <2>1, <2>5, <3>1
  <2> QED BY <2>4, <2>5
<1>2. CASE RecordStop
  <2>1. at' = "stop" /\ answer' = "none" /\ cmds' = Append(cmds, "AUDIO_STOP")
    BY <1>2 DEF RecordStop, Call
  <2>2. cmds' # <<>> /\ cmds'[Len(cmds')] = "AUDIO_STOP"
    BY <2>1, AppendParts DEF AudioTypes
  <2> QED BY <2>1, <2>2
<1>3. CASE Send
  BY <1>3 DEF Send, sessionVars
<1>4. CASE Poll \/ ReaderReads \/ ReaderHandles \/ ReaderStops \/ ReadBreaks \/ StartFails
  BY <1>4 DEF Poll, ReaderReads, ReaderHandles, ReaderStops, ReadBreaks, StartFails, sessionVars,
              deviceVars
<1>5. CASE RecordStart \/ StartTimesOut
  BY <1>5 DEF RecordStart, StartTimesOut, Call
<1>6. CASE Started \/ StartBreaks \/ CleanedUp
  BY <1>6 DEF Started, StartBreaks, CleanedUp
<1>7. CASE StopAnswered \/ StopTimesOut \/ PumpBreaks \/ Settled \/ SetStop \/ Finish
  BY <1>7 DEF StopAnswered, AfterStop, StopTimesOut, PumpBreaks, Settled, SetStop, Finish,
     deviceVars
<1> QED BY <1>1, <1>2, <1>3, <1>4, <1>5, <1>6, <1>7 DEF Next

-----------------------------------------------------------------------------
(* The tail.                                                               *)

LEMMA MembersMove ==
    ASSUME NEW s \in Seq(Package), NEW t \in Seq(Package), t # <<>>
    PROVE  ToSet(s) \cup ToSet(t) \subseteq ToSet(Append(s, Head(t))) \cup ToSet(Tail(t))
<1> DEFINE u == Append(s, Head(t))
           r == Tail(t)
<1>1. Head(t) \in Package /\ Head(t) = t[1]
  BY TailParts
<1>2. /\ DOMAIN u = 1..Len(s) + 1 /\ DOMAIN s = 1..Len(s) /\ Len(s) \in Nat
      /\ \A i \in DOMAIN s : u[i] = s[i]
      /\ u[Len(s) + 1] = t[1]
  BY <1>1, AppendParts
<1>3. \A i \in DOMAIN t : i = 1 \/ (i - 1 \in DOMAIN r /\ r[i - 1] = t[i])
  OBVIOUS
<1> HIDE DEF u, r
<1>4. ToSet(s) \subseteq ToSet(u)
  BY <1>2 DEF ToSet
<1>5. t[1] \in ToSet(u)
  BY <1>2 DEF ToSet
<1>6. ToSet(t) \subseteq ToSet(u) \cup ToSet(r)
  BY <1>3, <1>5 DEF ToSet
<1> QED BY <1>4, <1>6 DEF u, r

LEMMA MembersCut ==
    ASSUME NEW t \in Seq(Package), NEW n \in 1..Len(t)
    PROVE  ToSet(t) \subseteq ToSet(SubSeq(t, 1, n)) \cup ToSet(SubSeq(t, n + 1, Len(t)))
<1> DEFINE a == SubSeq(t, 1, n)
           b == SubSeq(t, n + 1, Len(t))
<1>1. n \in Nat /\ Len(t) \in Nat /\ n <= Len(t) /\ DOMAIN t = 1..Len(t)
  OBVIOUS
<1>2. \A i \in 1..n : i \in DOMAIN a /\ a[i] = t[i]
  BY <1>1
<1>3. \A i \in 1..Len(t) - n : i \in DOMAIN b /\ b[i] = t[n + i]
  <2>1. Len(b) = Len(t) - n /\ b \in Seq(Package)
    BY RestLength, CutParts
  <2>2. \A i \in 1..Len(t) - n : b[i] = t[n + i]
    BY <1>1
  <2> HIDE DEF b
  <2>3. DOMAIN b = 1..Len(b)
    BY <2>1
  <2> QED BY <2>1, <2>2, <2>3
<1> HIDE DEF a, b
<1>4. ASSUME NEW i \in DOMAIN t
      PROVE  t[i] \in ToSet(a) \cup ToSet(b)
  <2>1. CASE i <= n
    <3>1. i \in 1..n
      BY <1>1, <2>1
    <3> QED BY <1>2, <3>1 DEF ToSet
  <2>2. CASE i > n
    <3>1. i - n \in 1..Len(t) - n /\ n + (i - n) = i
      BY <1>1, <2>2
    <3>2. i - n \in DOMAIN b /\ b[i - n] = t[i]
      BY <1>3, <3>1
    <3> QED BY <3>2 DEF ToSet
  <2> QED BY <1>1, <2>1, <2>2
<1> QED BY <1>4 DEF ToSet, a, b

LEMMA MembersMore ==
    ASSUME NEW s \in Seq(Package), NEW x \in Package
    PROVE  ToSet(s) \cup {x} \subseteq ToSet(Append(s, x))
<1>1. /\ Len(s) \in Nat /\ DOMAIN Append(s, x) = 1..Len(s) + 1 /\ DOMAIN s = 1..Len(s)
      /\ \A i \in DOMAIN s : Append(s, x)[i] = s[i]
      /\ Append(s, x)[Len(s) + 1] = x
  BY AppendParts
<1> QED BY <1>1 DEF ToSet

\* Nothing that is due leaves the three places.
LEMMA TailMoves ==
    ASSUME AudioTypes, RecordingInv, ReaderInv, TailInv, Poll \/ ReaderReads \/ ReaderHandles
    PROVE  TailInv'
<1> SUFFICES ASSUME sink' # 0, files'[sink'].end = "open"
             PROVE  /\ due' \subseteq ToSet(Got') \cup ToSet(held') \cup ToSet(wire')
                    /\ at' \in {"join", "finish"} /\ answer' = "OK" => wire' = <<>>
  BY DEF TailInv
<1>1. UNCHANGED <<sink, due, at, answer>> /\ sink # 0 /\ sink \in 1..MaxFiles
  BY DEF Poll, ReaderReads, ReaderHandles, sessionVars, AudioTypes
<1>2. Got \in Seq(Package) /\ Got = files[sink].got /\ wire \in Seq(Package) /\ held \in Seq(Package)
  BY <1>1, GotType DEF AudioTypes
<1>3. CASE ReaderReads
  <2>1. PICK n \in 1..Len(wire) : held' = SubSeq(wire, 1, n) /\ wire' = SubSeq(wire, n + 1, Len(wire))
    BY <1>3 DEF ReaderReads
  <2>2. files' = files /\ Got' = Got /\ held = <<>>
    BY <1>3 DEF ReaderReads, ReaderInv, Got, sessionVars
  <2>3. ToSet(wire) \subseteq ToSet(held') \cup ToSet(wire')
    BY <1>2, <2>1, MembersCut
  <2>4. ToSet(held) = {}
    BY <2>2 DEF ToSet
  <2>5. due \subseteq ToSet(Got) \cup ToSet(wire)
    BY <1>1, <2>2, <2>4 DEF TailInv
  <2>6. wire # <<>>
    BY <2>1
  <2>7. ~(at \in {"join", "finish"} /\ answer = "OK")
    BY <1>1, <2>2, <2>6 DEF TailInv
  <2> QED BY <1>1, <2>2, <2>3, <2>5, <2>7
<1>4. CASE ReaderHandles
  <2>1. held # <<>> /\ Handle(Head(held)) /\ held' = Tail(held) /\ wire' = wire
    BY <1>4 DEF ReaderHandles, ReaderInv
  <2>2. Head(held) \in Package
    BY <1>2, <2>1, TailParts
  <2>3. files'[sink].got = Append(Got, Head(held)) /\ files'[sink].end = files[sink].end
    BY <1>1, <1>2, <2>1, <2>2, Written
  <2>4. Got' = Append(Got, Head(held))
    BY <1>1, <2>3 DEF Got
  <2>5. ToSet(Got) \cup ToSet(held) \subseteq ToSet(Got') \cup ToSet(held')
    BY <1>2, <2>1, <2>4, MembersMove
  <2>6. files[sink].end = "open"
    BY <1>1, <2>3
  <2> QED BY <1>1, <2>1, <2>5, <2>6 DEF TailInv
<1>5. CASE Poll
  <2>1. wire # <<>> /\ Handle(Head(wire)) /\ wire' = Tail(wire) /\ held' = held
    BY <1>5 DEF Poll
  <2>2. Head(wire) \in Package
    BY <1>2, <2>1, TailParts
  <2>3. files'[sink].got = Append(Got, Head(wire)) /\ files'[sink].end = files[sink].end
    BY <1>1, <1>2, <2>1, <2>2, Written
  <2>4. Got' = Append(Got, Head(wire))
    BY <1>1, <2>3 DEF Got
  <2>5. ToSet(Got) \cup ToSet(wire) \subseteq ToSet(Got') \cup ToSet(wire')
    BY <1>2, <2>1, <2>4, MembersMove
  <2>6. files[sink].end = "open"
    BY <1>1, <2>3
  <2> QED BY <1>1, <1>5, <2>1, <2>5, <2>6 DEF TailInv, Poll
<1> QED BY <1>3, <1>4, <1>5

LEMMA TailStep ==
    ASSUME AudioTypes, RecordingInv, FilesInv, ReaderInv, StopInv, TailInv, Next
    PROVE  TailInv'
<1>1. CASE Poll \/ ReaderReads \/ ReaderHandles
  BY <1>1, TailMoves
<1>2. CASE Send
  <2> DEFINE pk == [stream |-> streaming, no |-> sent + 1, sn |-> (sn + SnStep) % SnMod]
  <2>1. UNCHANGED <<at, answer, sink, files, held, Got>> /\ streaming # 0
    BY <1>2 DEF Send, sessionVars, clientVars, Got
  <2>2. ~(at \in {"join", "finish"} /\ answer = "OK")
    BY <2>1 DEF StopInv
  <2>3. \/ wire' = wire /\ due' = due
        \/ wire' = Append(wire, pk) /\ (due' = due \cup {pk} \/ due' = due)
    BY <1>2 DEF Send
  <2>4. pk \in Package
    <3>1. streaming \in Nat /\ sent + 1 \in Nat /\ sn + SnStep \in Int /\ SnMod \in Nat \ {0}
      BY AudioAssumption DEF AudioTypes
    <3> QED BY <3>1, ModRange DEF Package
  <2> HIDE DEF pk
  <2>5. ToSet(wire) \cup {pk} \subseteq ToSet(Append(wire, pk))
    BY <2>4, MembersMore DEF AudioTypes
  <2> QED BY <2>1, <2>2, <2>3, <2>5 DEF TailInv
<1>3. CASE Execute
  <2>1. UNCHANGED <<at, sink, files, held, Got, wire, due>> /\ (answer' = answer \/ at \in {"start", "cleanup", "stop"})
    BY <1>3 DEF Execute, clientVars, Got, Waiting
  <2> QED BY <2>1 DEF TailInv
<1>4. CASE ReadBreaks
  <2>1. sink \in 1..MaxFiles /\ files' = [files EXCEPT ![sink].end = "cut"] /\ sink' = sink
    BY <1>4 DEF ReadBreaks, RecordingInv, AudioTypes
  <2>2. files'[sink].end = "cut"
    BY <2>1, FileEnds
  <2> QED BY <2>1, <2>2 DEF TailInv
<1>5. CASE RecordStart
  BY <1>5 DEF RecordStart, TailInv, Call
<1>6. CASE StartFails
  BY <1>6 DEF StartFails, TailInv, RecordingInv
<1>7. CASE Finish
  BY <1>7 DEF Finish, TailInv
<1>8. CASE Settled
  <2>1. UNCHANGED <<sink, files, held, Got, wire, due>> /\ at = "settle" /\ (wire = <<>> \/ reader = "dead")
    BY <1>8 DEF Settled, clientVars, Got
  <2>2. sink # 0 /\ files[sink].end = "open" => wire = <<>>
    BY <2>1 DEF ReaderInv
  <2> QED BY <2>1, <2>2 DEF TailInv
<1>9. CASE ReaderStops \/ RecordStop \/ StartTimesOut
  <2>1. UNCHANGED <<sink, files, held, Got, wire, due>>
    BY <1>9 DEF ReaderStops, RecordStop, StartTimesOut, clientVars, Got
  <2>2. (UNCHANGED <<at, answer>>) \/ at' \in {"stop", "cleanup"}
    BY <1>9 DEF ReaderStops, RecordStop, StartTimesOut, sessionVars, Call
  <2> QED BY <2>1, <2>2 DEF TailInv
<1>10. CASE Started \/ StartBreaks \/ CleanedUp \/ StopAnswered \/ StopTimesOut \/ PumpBreaks
  <2>1. UNCHANGED <<sink, files, held, Got, wire, due>>
    BY <1>10 DEF Started, StartBreaks, CleanedUp, StopAnswered, StopTimesOut, PumpBreaks,
       clientVars,
                 Got
  <2>2. ~(at' \in {"join", "finish"} /\ answer' = "OK")
    BY <1>10 DEF Started, StartBreaks, CleanedUp, StopAnswered, AfterStop, StopTimesOut, PumpBreaks
  <2> QED BY <2>1, <2>2 DEF TailInv
<1>11. CASE SetStop
  BY <1>11 DEF SetStop, TailInv, Got
<1> QED BY <1>1, <1>2, <1>3, <1>4, <1>5, <1>6, <1>7, <1>8, <1>9, <1>10, <1>11 DEF Next

-----------------------------------------------------------------------------
(* The theorems.                                                           *)

LEMMA AudioBegins == Init => AudioInv
<1> SUFFICES ASSUME Init PROVE AudioInv
  OBVIOUS
<1>1. /\ wire = <<>> /\ held = <<>> /\ cmds = <<>> /\ sink = 0 /\ Got = <<>>
      /\ files = [f \in 1..MaxFiles |-> Unused]
  BY DEF Init, Got
<1>2. /\ <<>> \in Seq(Package) /\ <<>> \in Seq({"AUDIO_START", "AUDIO_STOP"})
  OBVIOUS
<1>3. Unused \in File
  BY <1>2 DEF File, Unused
<1>4. MaxFiles \in Nat /\ MaxPackages \in Nat /\ SnMod \in Nat \ {0}
  BY AudioAssumption
<1>5. AudioTypes
  BY <1>1, <1>2, <1>3, <1>4 DEF Init, AudioTypes
<1>6. RecordingInv
  BY DEF Init, RecordingInv, Recording, Idle
<1>7. OrderInv
  BY <1>1, EmptyPart, EmptyFollows DEF OrderInv, Unused
<1>8. CountInv
  BY <1>1 DEF CountInv, Counted, Unused
<1>9. FilesInv
  <2>1. 0 \in 0..MaxFiles /\ \A f \in 1..MaxFiles : files[f].end # "unused" <=> f <= 0
    BY <1>1, <1>4 DEF Unused
  <2> QED BY <1>1, <2>1 DEF FilesInv, Unused
<1>10. ReaderInv /\ StopInv /\ TailInv
  BY <1>1 DEF Init, ReaderInv, StopInv, TailInv
<1> QED BY <1>5, <1>6, <1>7, <1>8, <1>9, <1>10 DEF AudioInv

LEMMA AudioStays == AudioInv /\ UNCHANGED vars => AudioInv'
<1> SUFFICES ASSUME AudioInv, UNCHANGED vars PROVE AudioInv'
  OBVIOUS
<1> USE DEF AudioInv, vars, sessionVars, clientVars, deviceVars
<1>1. AudioTypes'
  BY DEF AudioTypes
<1>2. RecordingInv' /\ StopInv'
  BY DEF RecordingInv, Recording, Idle, StopInv
<1>3. OrderInv' /\ CountInv'
  BY DEF OrderInv, CountInv, Got
<1>4. FilesInv' /\ ReaderInv' /\ TailInv'
  BY DEF FilesInv, ReaderInv, TailInv, Got
<1> QED BY <1>1, <1>2, <1>3, <1>4

\* The inductive invariant of the packages: written, held and on the channel
\* they are in the order sent and numbered on to the device's; a file's packages
\* and losses make up what was sent; what is due is in one of the three places
\* (AudioStreamClient.poll, _reader_loop and stop).
THEOREM PackagesAreKept == Spec => []AudioInv
<1>1. AudioInv /\ [Next]_vars => AudioInv'
  <2> SUFFICES ASSUME AudioInv, [Next]_vars PROVE AudioInv'
    OBVIOUS
  <2>1. CASE Next
    <3>1. /\ AudioTypes /\ RecordingInv /\ OrderInv /\ CountInv /\ FilesInv /\ ReaderInv
          /\ StopInv /\ TailInv
      BY DEF AudioInv
    <3>2. AudioTypes'
      BY <2>1, <3>1, TypesStep
    <3>3. RecordingInv'
      BY <2>1, <3>1, PackagesLeaveRecording, BeginningsKeepRecording, EndsKeepRecording DEF Next
    <3>4. OrderInv'
      BY <2>1, <3>1, OrderStep
    <3>5. CountInv'
      BY <2>1, <3>1, <3>4, CountStep
    <3>6. FilesInv' /\ ReaderInv' /\ StopInv' /\ TailInv'
      BY <2>1, <3>1, FilesStep, ReaderStep, StopStep, TailStep
    <3> QED BY <3>2, <3>3, <3>4, <3>5, <3>6 DEF AudioInv
  <2>2. CASE UNCHANGED vars
    BY <2>2, AudioStays
  <2> QED BY <2>1, <2>2
<1> QED BY <1>1, AudioBegins, PTL DEF Spec

\* One stream is what all the packages of the file belong to.
LEMMA OneStream ==
    ASSUME AudioTypes, NEW f \in 1..MaxFiles, Cardinality(Streams(f)) = 1
    PROVE  \A i \in DOMAIN files[f].got : files[f].got[i].stream = files[f].got[1].stream
<1> DEFINE g == files[f].got
<1>1. g \in Seq(Package) /\ Len(g) \in Nat /\ DOMAIN g = 1..Len(g)
  BY DEF AudioTypes, File
<1>2. Streams(f) = {g[i].stream : i \in 1..Len(g)}
  BY <1>1 DEF Streams, ToSet
<1> HIDE DEF g
<1>3. IsFiniteSet(Streams(f))
  <2> DEFINE q == [i \in 1..Len(g) |-> g[i].stream]
  <2>1. q \in Seq(Streams(f)) /\ Len(q) = Len(g)
    BY <1>1, <1>2
  <2>2. \A x \in Streams(f) : \E i \in 1..Len(q) : q[i] = x
    BY <1>2, <2>1
  <2> HIDE DEF q
  <2> QED BY <2>1, <2>2 DEF IsFiniteSet
<1>4. PICK x : Streams(f) = {x}
  BY <1>3, FS_Singleton
<1>5. \A i \in 1..Len(g) : g[i].stream = x
  BY <1>2, <1>4
<1>6. \A i \in DOMAIN g : 1 \in 1..Len(g)
  BY <1>1
<1> QED BY <1>1, <1>5, <1>6 DEF g

\* When sn numbers frames, packages plus lost packages are all that the device
\* sent from the first written to the last, in the order sent, across the wrap
\* of sn (_check_sn).
THEOREM LossIsCounted ==
    ASSUME SnStep = Sections
    PROVE  Spec => []LossCounted
<1>1. AudioInv => LossCounted
  <2> SUFFICES ASSUME AudioInv, NEW f \in 1..MaxFiles, Numbers(f) # <<>>, Cardinality(Streams(f)) = 1
               PROVE  LET n == Numbers(f)
                      IN  /\ \A i \in 1..Len(n) - 1 : n[i] < n[i + 1]
                          /\ Len(n) + files[f].lost = n[Len(n)] - n[1] + 1
    BY DEF LossCounted
  <2> DEFINE g == files[f].got
             n == Numbers(f)
  <2>1. g \in Seq(Package) /\ InOrder(g) /\ Counted(g, files[f].lost)
    BY DEF AudioInv, AudioTypes, OrderInv, CountInv, File
  <2>2. \A i \in DOMAIN g : g[i].stream = g[1].stream
    BY OneStream DEF AudioInv
  <2>3. n = [i \in DOMAIN g |-> g[i].no]
    BY DEF Numbers
  <2> HIDE DEF g, n
  <2>4. /\ Len(g) \in Nat /\ DOMAIN g = 1..Len(g) /\ Len(n) = Len(g)
        /\ \A i \in 1..Len(g) : n[i] = g[i].no
    BY <2>1, <2>3
  <2>5. Len(g) # 0
    <3>1. ASSUME Len(g) = 0 PROVE n = <<>>
      BY <2>3, <2>4, <3>1
    <3> QED BY <3>1 DEF n
  <2>6. 1 \in DOMAIN g /\ Len(g) \in DOMAIN g /\ g # <<>>
    BY <2>1, <2>4, <2>5
  <2>7. Len(g) + files[f].lost = g[Len(g)].no - g[1].no + 1
    BY <2>1, <2>2, <2>6 DEF Counted
  <2>8. \A i \in 1..Len(g) - 1 : g[i].no < g[i + 1].no
    <3> SUFFICES ASSUME NEW i \in 1..Len(g) - 1
                 PROVE  g[i].no < g[i + 1].no
      OBVIOUS
    <3>1. i \in DOMAIN g /\ i + 1 \in DOMAIN g /\ i < i + 1
      BY <2>4
    <3> QED BY <2>1, <3>1 DEF InOrder, After
  <2>9. \A i \in 1..Len(g) - 1 : i \in 1..Len(g) /\ i + 1 \in 1..Len(g)
    BY <2>4
  <2>10. n[Len(g)] = g[Len(g)].no /\ n[1] = g[1].no
    BY <2>4, <2>6
  <2>11. \A i \in 1..Len(n) - 1 : n[i] < n[i + 1]
    BY <2>4, <2>8, <2>9
  <2>12. Len(n) + files[f].lost = n[Len(n)] - n[1] + 1
    BY <2>4, <2>7, <2>10
  <2> QED BY <2>11, <2>12 DEF n
<1> QED BY <1>1, PackagesAreKept, PTL

\* A recording whose stop was confirmed and whose reads did not fail holds all
\* that reached its channel (record_stop).
THEOREM TailIsKept == Spec => TailKept
<1>1. AudioInv /\ [Next]_vars
        => [\A f \in 1..MaxFiles : files[f].end = "open" /\ files'[f].end = "stopped"
                => due \subseteq ToSet(files'[f].got)]_vars
  <2> SUFFICES ASSUME AudioInv, Next, NEW f \in 1..MaxFiles,
                      files[f].end = "open", files'[f].end = "stopped"
               PROVE  due \subseteq ToSet(files'[f].got)
    OBVIOUS
  <2>1. f = sink /\ sink # 0 /\ Got = files[f].got
    BY DEF AudioInv, FilesInv, Got
  <2>2. CASE Finish
    <3>1. answer = "OK" /\ reader \in {"none", "dead"} /\ at = "finish"
      <4>1. files'[sink].end = IF answer = "OK" /\ files[sink].end = "open" THEN "stopped" ELSE "failed"
        BY <2>1, <2>2 DEF Finish, AudioInv, AudioTypes
      <4> QED BY <2>1, <2>2, <4>1 DEF Finish
    <3>2. held = <<>> /\ wire = <<>>
      BY <2>1, <3>1 DEF AudioInv, ReaderInv, TailInv
    <3>3. due \subseteq ToSet(Got)
      <4>1. ToSet(<<>>) = {}
        BY DEF ToSet
      <4> QED BY <2>1, <3>2, <4>1 DEF AudioInv, TailInv
    <3>4. files'[f].got = files[f].got
      <4>1. \E e \in {"stopped", "failed"} : files' = [files EXCEPT ![sink].end = e]
        BY <2>2 DEF Finish
      <4> QED BY <2>1, <4>1, FileEnds DEF AudioInv
    <3> QED BY <2>1, <3>3, <3>4
  <2>3. CASE Poll \/ ReaderHandles
    <3>1. PICK pk \in Package : Handle(pk)
      <4>1. \E s \in {wire, held} : s \in Seq(Package) /\ s # <<>> /\ Handle(Head(s))
        BY <2>3 DEF Poll, ReaderHandles, AudioInv, AudioTypes, ReaderInv
      <4> QED BY <4>1, TailParts
    <3>2. files'[sink].end = files[sink].end
      BY <2>1, <3>1, Written DEF AudioInv
    <3> QED BY <2>1, <3>2
  <2>4. CASE ReadBreaks
    <3>1. files'[sink].end = "cut"
      BY <2>1, <2>4, FileEnds DEF ReadBreaks, AudioInv
    <3> QED BY <2>1, <3>1
  <2>5. CASE RecordStart \/ StartFails
    BY <2>1, <2>5 DEF RecordStart, StartFails, AudioInv, RecordingInv
  <2>6. CASE ReaderReads \/ Execute \/ Send \/ Elsewhere
    <3>1. files' = files
      BY <2>6, ElsewhereKept DEF ReaderReads, Execute, Send, clientVars
    <3> QED BY <3>1
  <2> QED BY <2>2, <2>3, <2>4, <2>5, <2>6 DEF Next, Elsewhere
<1> QED BY <1>1, PackagesAreKept, PTL DEF Spec, TailKept
=============================================================================
