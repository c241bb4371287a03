--------------------------- MODULE OtaClient_proofs ---------------------------
(***************************************************************************)
(* Proofs about OtaClient, for any size of image, block and packet and any *)
(* number of attempts whose packets have different serial numbers.         *)
(***************************************************************************)
EXTENDS OtaClient, FiniteSetTheorems, TLAPS

-----------------------------------------------------------------------------
(* The types, with what makes them inductive.                              *)

\* A block the device may ask for that lies within the image.
InImage(b) == b.off \in Units /\ b.len \in 1..BlockLen /\ b.off + b.len <= Size

Askable(b) == InImage(b) \/ b \in {NoBlock, PastTheEnd}

TypeInv ==
    /\ TypeOK
    /\ Askable(ask)
    /\ phase = "data" => InImage(block) /\ pos <= block.len /\ (waiting <=> pos = block.len)
    /\ phase \in {"verify", "result"} /\ ~waiting => polls < MaxPolls
    /\ \A i \in DOMAIN toDev : toDev[i].op = "data" => InImage(toDev[i].block)
    /\ \A i \in DOMAIN toHost : Askable(toHost[i].block)

-----------------------------------------------------------------------------
(* Numbers and blocks.                                                     *)

\* A set of natural numbers that is not empty has a least element: among the
\* finite intervals that end in it, one is minimal for inclusion.
LEMMA LeastNatural ==
    ASSUME NEW S, S \subseteq Nat, S # {}
    PROVE  \E x \in S : \A y \in S : x <= y
<1> DEFINE T == {0..n : n \in S}
<1>1. IsWellFoundedOn(StrictSubsetOrdering(Nat), FiniteSubsetsOf(Nat))
  BY FS_StrictSubsetOrderingWellFounded
<1>2. T \subseteq FiniteSubsetsOf(Nat)
  <2>1. SUFFICES ASSUME NEW n \in S PROVE 0..n \in FiniteSubsetsOf(Nat)
    OBVIOUS
  <2>2. IsFiniteSet(0..n)
    BY FS_Interval
  <2> QED BY <2>2 DEF FiniteSubsetsOf
<1>3. PICK x \in T : \A y \in T : <<y, x>> \notin StrictSubsetOrdering(Nat)
  <2>1. T # {}
    OBVIOUS
  <2> HIDE DEF T
  <2> QED BY <1>1, <1>2, <2>1, WFMin
<1>4. PICK n \in S : x = 0..n
  OBVIOUS
<1>5. ASSUME NEW m \in S, m < n PROVE FALSE
  <2>1. 0..m \subseteq 0..n /\ n \notin 0..m /\ n \in 0..n
    BY <1>5
  <2>2. 0..m \in SUBSET Nat /\ 0..n \in SUBSET Nat
    OBVIOUS
  <2>3. <<0..m, 0..n>> \in StrictSubsetOrdering(Nat)
    BY <2>1, <2>2 DEF StrictSubsetOrdering
  <2> QED BY <2>3, <1>3, <1>4
<1> QED BY <1>4, <1>5

\* The device asks for a block of units it does not have, within the image, or,
\* when it has them all, for none.
LEMMA AskForWanted ==
    ASSUME NEW units
    PROVE  /\ Units \subseteq units => AskFor(units) = NoBlock
           /\ ~(Units \subseteq units) =>
                /\ InImage(AskFor(units))
                /\ UnitsOf(AskFor(units)) \subseteq Units \ units
<1>1. CASE Units \subseteq units
  BY <1>1 DEF AskFor
<1>2. CASE ~(Units \subseteq units)
  <2> DEFINE missing == Units \ units
             off == CHOOSE u \in missing : \A v \in missing : u <= v
             Run(l) == /\ \A i \in 0..(l - 1) : off + i \in missing
                       /\ l = BlockLen \/ off + l \notin missing
             len == CHOOSE l \in 1..BlockLen : Run(l)
             ends == {l \in 1..BlockLen : l = BlockLen \/ off + l \notin missing}
  <2>1. missing \subseteq Nat /\ missing # {}
    BY <1>2, OtaAssumption DEF Units
  <2>2. off \in missing
    <3>1. \E u \in missing : \A v \in missing : u <= v
      <4> HIDE DEF missing
      <4> QED BY <2>1, LeastNatural
    <3> QED BY <3>1
  <2>3. \E l \in 1..BlockLen : Run(l)
    <3>1. ends \subseteq Nat /\ BlockLen \in ends
      BY OtaAssumption
    <3>2. PICK l \in ends : \A k \in ends : l <= k
      <4> HIDE DEF ends
      <4> QED BY <3>1, LeastNatural
    <3>3. ASSUME NEW i \in 0..(l - 1) PROVE off + i \in missing
      <4>1. CASE i = 0
        BY <4>1, <2>1, <2>2
      <4>2. CASE i # 0
        <5>1. i \in 1..BlockLen /\ i # BlockLen /\ ~(l <= i)
          BY <4>2, <3>2, OtaAssumption
        <5>2. i \notin ends
          BY <5>1, <3>2
        <5> QED BY <5>1, <5>2
      <4> QED BY <4>1, <4>2
    <3> QED BY <3>2, <3>3
  <2>4. len \in 1..BlockLen /\ Run(len)
    BY <2>3
  <2>5. AskFor(units) = [off |-> off, len |-> len]
    BY <1>2 DEF AskFor
  <2> HIDE DEF len, off
  <2>6. \A i \in 0..(len - 1) : off + i \in missing
    BY <2>4
  <2>7. off \in Nat /\ len \in Nat /\ off + (len - 1) \in missing
    BY <2>1, <2>2, <2>4, <2>6, OtaAssumption
  <2>8. InImage(AskFor(units))
    BY <2>2, <2>4, <2>5, <2>7, OtaAssumption DEF InImage, Units
  <2>9. UnitsOf(AskFor(units)) \subseteq missing
    <3>1. SUFFICES ASSUME NEW u \in off..(off + len - 1) PROVE u \in missing
      BY <2>5 DEF UnitsOf
    <3>2. u - off \in 0..(len - 1) /\ off + (u - off) = u
      BY <2>7
    <3> QED BY <3>2, <2>6
  <2> QED BY <1>2, <2>8, <2>9
<1> QED BY <1>1, <1>2

\* What the device may ask for is a block, and one within the image has units.
LEMMA AskableBlocks ==
    /\ \A b : InImage(b) => UnitsOf(b) \subseteq Units /\ UnitsOf(b) # {}
    /\ \A b \in Blocks : InImage(b) => Sendable(b) /\ b # NoBlock
    /\ \A b \in Blocks : Askable(b) /\ Sendable(b) => InImage(b)
    /\ NoBlock \in Blocks /\ PastTheEnd \in Blocks
    /\ Askable(NoBlock) /\ Askable(PastTheEnd)
    /\ UnitsOf(NoBlock) = {}
BY OtaAssumption DEF InImage, Askable, Units, UnitsOf, Sendable, NoBlock, PastTheEnd, Blocks

LEMMA AskForAskable ==
    ASSUME NEW units
    PROVE  AskFor(units) \in Blocks /\ Askable(AskFor(units))
<1>1. CASE Units \subseteq units
  BY <1>1, AskForWanted, AskableBlocks
<1>2. CASE ~(Units \subseteq units)
  <2>1. PICK off, len : AskFor(units) = [off |-> off, len |-> len]
    BY <1>2 DEF AskFor
  <2>2. InImage(AskFor(units))
    BY <1>2, AskForWanted
  <2> QED BY <2>1, <2>2, OtaAssumption DEF InImage, Askable, Units, Blocks
<1> QED BY <1>1, <1>2

\* Serial numbers stay within their sixteen bits, and leave out zero.
LEMMA NextSnRange ==
    \A n \in 0..SnMax : NextSn(n) \in 1..SnMax
BY OtaAssumption DEF NextSn

-----------------------------------------------------------------------------
(* Sequences.                                                              *)

LEMMA AppendElements ==
    ASSUME NEW S, NEW s \in Seq(S), NEW e
    PROVE  /\ Len(Append(s, e)) = Len(s) + 1
           /\ DOMAIN Append(s, e) = DOMAIN s \cup {Len(s) + 1}
           /\ \A i \in DOMAIN s : Append(s, e)[i] = s[i]
           /\ Append(s, e)[Len(s) + 1] = e
OBVIOUS

LEMMA TailElements ==
    ASSUME NEW S, NEW s \in Seq(S), s # <<>>
    PROVE  /\ Tail(s) \in Seq(S)
           /\ Len(Tail(s)) = Len(s) - 1
           /\ \A i \in DOMAIN Tail(s) : i + 1 \in DOMAIN s /\ Tail(s)[i] = s[i + 1]
           /\ 1 \in DOMAIN s /\ Head(s) = s[1]
OBVIOUS

LEMMA RestElements ==
    ASSUME NEW S, NEW s \in Seq(S), NEW n \in Nat, n <= Len(s)
    PROVE  LET rest == SubSeq(s, n + 1, Len(s)) IN
           /\ rest \in Seq(S)
           /\ Len(rest) = Len(s) - n
           /\ \A i \in DOMAIN rest : n + i \in DOMAIN s /\ rest[i] = s[n + i]
<1>1. SubSeq(s, n + 1, Len(s)) \in Seq(S)
  OBVIOUS
<1> QED BY <1>1

-----------------------------------------------------------------------------
(* The types are an invariant.                                             *)

\* What upgrade() may do with an answer.
LEMMA HandleOutcomes ==
    ASSUME NEW a, Handle(a)
    PROVE  \/ Stop
           \/ phase = "info" /\ Become("can")
           \/ phase = "can" /\ Become("enter")
           \/ phase \in {"enter", "data"} /\ a.result = "ok" /\ GoTo(a.block)
           \/ phase = "data" /\ Retry
           \/ phase = "verify" /\ a.result = "ok" /\ Become("result")
           \/ phase = "result" /\ a.result = "ok" /\ a.block = NoBlock /\ Become("done")
           \/ phase = "result" /\ a.result = "ok" /\ a.block # NoBlock /\ GoTo(a.block)
           \/ phase \in {"verify", "result"} /\ a.result = "progress" /\ PollAgain
BY DEF Handle

\* What a step of upgrade() leaves when it is no longer waiting.
HostTypes ==
    /\ phase \in Phases
    /\ block \in Blocks
    /\ attempt \in 0..(Retries - 1)
    /\ pos \in 0..Size
    /\ polls \in 0..MaxPolls
    /\ phase = "data" => InImage(block) /\ pos <= block.len /\ pos # block.len
    /\ phase \in {"verify", "result"} => polls < MaxPolls

LEMMA StopTypes ==
    ASSUME TypeInv, Stop
    PROVE  HostTypes'
BY OtaAssumption DEF TypeInv, TypeOK, HostTypes, Stop, Phases, Requests

LEMMA RetryTypes ==
    ASSUME TypeInv, phase = "data", Retry
    PROVE  HostTypes'
<1>1. CASE attempt + 1 < Retries
  <2>1. /\ attempt' = attempt + 1 /\ pos' = 0
        /\ phase' = "data" /\ block' = block /\ polls' = polls
    BY <1>1 DEF Retry
  <2>2. block \in Blocks /\ polls \in 0..MaxPolls /\ attempt \in 0..(Retries - 1) /\ InImage(block)
    BY DEF TypeInv, TypeOK
  <2>3. block.len > 0
    BY <2>2, OtaAssumption DEF InImage
  <2> QED BY <1>1, <2>1, <2>2, <2>3, OtaAssumption DEF HostTypes, Phases, InImage
<1>2. CASE Stop
  BY <1>2, StopTypes
<1> QED BY <1>1, <1>2 DEF Retry

LEMMA GoToTypes ==
    ASSUME TypeInv, NEW b \in Blocks, Askable(b), GoTo(b)
    PROVE  HostTypes'
<1>1. block' = b /\ attempt' = 0 /\ pos' = 0 /\ polls' = 0
  BY DEF GoTo
<1>2. \/ phase' = "verify" \/ phase' = "failed"
      \/ phase' = "data" /\ InImage(b)
  BY AskableBlocks DEF GoTo
<1>3. InImage(b) => b.len > 0
  BY OtaAssumption DEF InImage
<1> QED BY <1>1, <1>2, <1>3, OtaAssumption DEF HostTypes, Phases, Requests, InImage

LEMMA HandleTypes ==
    ASSUME TypeInv, NEW a \in Answers, Askable(a.block), Handle(a)
    PROVE  HostTypes'
<1>1. CASE Stop
  BY <1>1, StopTypes
<1>2. CASE GoTo(a.block)
  BY <1>2, GoToTypes DEF Answers
<1>3. CASE phase = "data" /\ Retry
  BY <1>3, RetryTypes
<1>4. CASE \E p \in {"can", "enter", "result", "done"} : Become(p)
  BY <1>4, OtaAssumption DEF TypeInv, TypeOK, HostTypes, Become, Phases, Requests
<1>5. CASE phase \in {"verify", "result"} /\ PollAgain
  <2>1. CASE Stop
    BY <2>1, StopTypes
  <2>2. CASE polls < MaxPolls /\ UNCHANGED <<phase, block, attempt, pos, polls>>
    BY <1>5, <2>2 DEF TypeInv, TypeOK, HostTypes
  <2> QED BY <1>5, <2>1, <2>2 DEF PollAgain
<1> QED BY <1>1, <1>2, <1>3, <1>4, <1>5, HandleOutcomes

LEMMA InitTypes == Init => TypeInv
<1> SUFFICES ASSUME Init PROVE TypeInv
  OBVIOUS
<1>1. toDev = <<>> /\ toHost = <<>> /\ DOMAIN toDev = {} /\ DOMAIN toHost = {}
  BY DEF Init
<1>2. toDev \in Seq(Packets) /\ toHost \in Seq(Answers)
  BY <1>1
<1>3. TypeOK
  <2>1. phase \in Phases /\ waiting \in BOOLEAN /\ verified \in BOOLEAN /\ stored \subseteq Units
    BY DEF Init, Phases, Requests
  <2>2. block \in Blocks /\ ask \in Blocks
    BY AskableBlocks DEF Init
  <2>3. /\ sn \in 0..SnMax /\ attempt \in 0..(Retries - 1) /\ pos \in 0..Size
        /\ first \in 0..SnMax /\ last \in 0..SnMax /\ polls \in 0..MaxPolls /\ asks \in 0..MaxAsks
    BY OtaAssumption DEF Init
  <2> QED BY <1>2, <2>1, <2>2, <2>3 DEF TypeOK
<1>4. Askable(ask) /\ phase = "info"
  BY AskableBlocks DEF Init
<1> QED BY <1>1, <1>3, <1>4 DEF TypeInv

\* A packet sent is a packet, with a block of the image when it has a part of one.
LEMMA SentTypes ==
    ASSUME TypeInv, NEW p \in Packets, p.op = "data" => InImage(p.block),
           toDev' = Append(toDev, p)
    PROVE  /\ toDev' \in Seq(Packets)
           /\ \A i \in DOMAIN toDev' : toDev'[i].op = "data" => InImage(toDev'[i].block)
<1>1. toDev \in Seq(Packets)
  BY DEF TypeInv, TypeOK
<1> QED BY <1>1, AppendElements DEF TypeInv

LEMMA RequestTypes ==
    ASSUME TypeInv, Request
    PROVE  TypeInv'
<1> DEFINE p == [op |-> phase, sn |-> NextSn(sn), block |-> NoBlock]
<1>1. sn' \in 1..SnMax /\ sn' = NextSn(sn)
  BY NextSnRange DEF TypeInv, TypeOK, Request
<1>2. p \in Packets /\ p.op # "data"
  BY <1>1, AskableBlocks DEF Request, Requests, Packets
<1>3. /\ toDev' \in Seq(Packets)
      /\ \A i \in DOMAIN toDev' : toDev'[i].op = "data" => InImage(toDev'[i].block)
  <2> HIDE DEF p
  <2>1. toDev' = Append(toDev, p)
    BY DEF p, Request
  <2> QED BY <1>2, <2>1, SentTypes
<1>4. polls' \in 0..MaxPolls
  BY OtaAssumption DEF TypeInv, TypeOK, Request
<1>5. /\ waiting' = TRUE /\ phase # "data"
      /\ UNCHANGED <<phase, block, attempt, pos, first, last, toHost, ask, stored, verified, asks>>
  BY DEF Request, deviceVars, Requests
<1> QED BY <1>1, <1>3, <1>4, <1>5, OtaAssumption DEF TypeInv, TypeOK

\* The next chunk of a block has units, and is within it.
LEMMA ChunkFits ==
    ASSUME TypeInv, phase = "data", ~waiting
    PROVE  /\ ChunkLen(block, pos) \in 1..(block.len - pos)
           /\ [off |-> block.off + pos, len |-> ChunkLen(block, pos)] \in Blocks
           /\ InImage([off |-> block.off + pos, len |-> ChunkLen(block, pos)])
           /\ UnitsOf([off |-> block.off + pos, len |-> ChunkLen(block, pos)]) \subseteq UnitsOf(block)
<1>1. InImage(block) /\ pos \in 0..Size /\ pos < block.len /\ block \in Blocks
  BY OtaAssumption DEF TypeInv, TypeOK, InImage
<1>2. block.off \in Nat /\ block.len \in 1..BlockLen /\ block.off >= 1 /\ block.off + block.len <= Size
  BY <1>1, OtaAssumption DEF InImage, Units
<1>3. ChunkLen(block, pos) \in 1..(block.len - pos)
  BY <1>1, <1>2, OtaAssumption DEF ChunkLen
<1> HIDE DEF ChunkLen
<1> QED BY <1>1, <1>2, <1>3, OtaAssumption DEF InImage, Units, Blocks, UnitsOf

LEMMA SendChunkTypes ==
    ASSUME TypeInv, SendChunk
    PROVE  TypeInv'
<1> DEFINE len == ChunkLen(block, pos)
           b == [off |-> block.off + pos, len |-> len]
           p == [op |-> "data", sn |-> sn', block |-> b]
<1>1. sn' \in 1..SnMax
  BY NextSnRange DEF TypeInv, TypeOK, SendChunk
<1>2. len \in 1..(block.len - pos) /\ b \in Blocks /\ InImage(b)
  BY ChunkFits DEF SendChunk
<1>3. p \in Packets /\ InImage(p.block)
  BY <1>1, <1>2 DEF Packets
<1>4. /\ toDev' \in Seq(Packets)
      /\ \A i \in DOMAIN toDev' : toDev'[i].op = "data" => InImage(toDev'[i].block)
  <2>1. toDev' = Append(toDev, p)
    BY DEF SendChunk
  <2> HIDE DEF p
  <2> QED BY <1>3, <2>1, SentTypes
<1>5. /\ pos' = pos + len /\ waiting' = (pos' = block.len)
      /\ first' \in {sn', first} /\ last' = sn'
      /\ phase = "data"
      /\ UNCHANGED <<phase, block, attempt, polls, toHost, ask, stored, verified, asks>>
  BY DEF SendChunk, deviceVars
<1>6. /\ pos' \in 0..Size /\ pos' <= block.len /\ first' \in 0..SnMax
      /\ waiting' \in BOOLEAN /\ (waiting' <=> pos' = block.len)
  <2> HIDE DEF len
  <2>1. pos \in 0..Size /\ block.len \in 0..Size
    BY DEF TypeInv, TypeOK, Blocks
  <2>2. first \in 0..SnMax
    BY DEF TypeInv, TypeOK
  <2>3. waiting' \in BOOLEAN /\ (waiting' <=> pos' = block.len)
    BY <1>5, Zenon
  <2>4. pos' \in 0..Size /\ pos' <= block.len
    BY <1>2, <1>5, <2>1, OtaAssumption
  <2>5. first' \in 0..SnMax
    BY <1>1, <1>5, <2>2
  <2> QED BY <2>3, <2>4, <2>5
<1> HIDE DEF len, b, p
<1>7. TypeOK'
  BY <1>1, <1>4, <1>5, <1>6 DEF TypeInv, TypeOK
<1> QED BY <1>4, <1>5, <1>6, <1>7 DEF TypeInv

\* A step of upgrade() alone.
LEMMA HostStepTypes ==
    ASSUME TypeInv, HostTypes', waiting' = FALSE,
           toHost' \in Seq(Answers),
           \A i \in DOMAIN toHost' : Askable(toHost'[i].block),
           UNCHANGED <<sn, first, last, toDev, deviceVars>>
    PROVE  TypeInv'
BY DEF TypeInv, TypeOK, HostTypes, deviceVars

LEMMA ReadTypes ==
    ASSUME TypeInv, NEW n \in 1..Len(toHost), Read(n)
    PROVE  TypeInv'
<1> DEFINE good == {i \in 1..n : Expected(toHost[i])}
<1>1. toHost \in Seq(Answers) /\ n \in Nat /\ n <= Len(toHost)
  BY DEF TypeInv, TypeOK
<1>2. toHost' \in Seq(Answers) /\ \A i \in DOMAIN toHost' : Askable(toHost'[i].block)
  <2>1. toHost' = SubSeq(toHost, n + 1, Len(toHost))
    BY DEF Read
  <2>2. \A i \in DOMAIN toHost : Askable(toHost[i].block)
    BY DEF TypeInv
  <2> QED BY <1>1, <2>1, <2>2, RestElements
<1>3. UNCHANGED <<sn, first, last, toDev, deviceVars>>
  BY DEF Read
<1>4. CASE good = {}
  <2>1. UNCHANGED <<phase, waiting, block, attempt, pos, polls>>
    BY <1>4 DEF Read
  <2> QED BY <1>2, <1>3, <2>1 DEF TypeInv, TypeOK, deviceVars
<1>5. CASE good # {}
  <2>1. PICK i \in good : Handle(toHost[i])
    BY <1>5 DEF Read
  <2>2. waiting' = FALSE
    BY <1>5 DEF Read
  <2>3. toHost[i] \in Answers /\ Askable(toHost[i].block)
    <3>1. i \in DOMAIN toHost
      BY <1>1
    <3> QED BY <1>1, <3>1 DEF TypeInv
  <2>4. HostTypes'
    BY <2>1, <2>3, HandleTypes
  <2> QED BY <1>2, <1>3, <2>2, <2>4, HostStepTypes
<1> QED BY <1>4, <1>5

LEMMA StopStepTypes ==
    ASSUME TypeInv, Timeout \/ ChannelFails
    PROVE  TypeInv'
<1>1. /\ waiting' = FALSE /\ toHost' = toHost
      /\ UNCHANGED <<sn, first, last, toDev, deviceVars>>
  BY DEF Timeout, ChannelFails
<1>2. HostTypes'
  <2>1. CASE Stop
    BY <2>1, StopTypes
  <2>2. CASE phase = "data" /\ Retry
    BY <2>2, RetryTypes
  <2> QED BY <2>1, <2>2 DEF Timeout, ChannelFails
<1>3. toHost' \in Seq(Answers) /\ \A i \in DOMAIN toHost' : Askable(toHost'[i].block)
  BY <1>1 DEF TypeInv, TypeOK
<1> QED BY <1>1, <1>2, <1>3, HostStepTypes

\* What a step of the device leaves.
DeviceTypes ==
    /\ ask \in Blocks /\ Askable(ask)
    /\ stored \subseteq Units
    /\ verified \in BOOLEAN
    /\ asks \in 0..MaxAsks
    /\ toHost \in Seq(Answers)
    /\ \A i \in DOMAIN toHost : Askable(toHost[i].block)

LEMMA AnswerTypes ==
    ASSUME TypeInv, NEW p \in Packets, NEW r \in Results, NEW b \in Blocks, Askable(b),
           Send(p, r, b)
    PROVE  toHost' \in Seq(Answers) /\ \A i \in DOMAIN toHost' : Askable(toHost'[i].block)
<1> DEFINE a == [op |-> p.op, sn |-> p.sn, result |-> r, block |-> b]
<1>1. a \in Answers /\ a.block = b
  BY DEF Answers, Packets
<1>2. toHost \in Seq(Answers) /\ \A i \in DOMAIN toHost : Askable(toHost[i].block)
  BY DEF TypeInv, TypeOK
<1>3. toHost' = Append(toHost, a)
  BY DEF Send
<1> HIDE DEF a
<1> QED BY <1>1, <1>2, <1>3, AppendElements

LEMMA DeviceStepTypes ==
    ASSUME TypeInv, NEW p \in Packets, p.op = "data" => InImage(p.block),
           \/ DeviceInfo(p) \/ DeviceEnter(p)
           \/ DeviceData(p) \/ DeviceRejects(p) \/ DeviceRepeat(p)
           \/ DeviceVerify(p) \/ DeviceResult(p)
    PROVE  DeviceTypes'
<1>0. /\ ask \in Blocks /\ Askable(ask) /\ stored \subseteq Units /\ verified \in BOOLEAN
      /\ asks \in 0..MaxAsks /\ toHost \in Seq(Answers)
      /\ \A i \in DOMAIN toHost : Askable(toHost[i].block)
      /\ {"ok", "fail", "progress"} = Results
  BY DEF TypeInv, TypeOK, Results
<1>1. CASE DeviceInfo(p)
  <2>1. toHost' \in Seq(Answers) /\ \A i \in DOMAIN toHost' : Askable(toHost'[i].block)
    BY <1>0, <1>1, AnswerTypes, AskableBlocks DEF DeviceInfo
  <2> QED BY <1>0, <1>1, <2>1 DEF DeviceInfo, deviceVars, DeviceTypes
<1>2. CASE DeviceEnter(p)
  <2>1. ask' \in Blocks /\ Askable(ask') /\ Send(p, "ok", ask')
    BY <1>2, AskForAskable, AskableBlocks DEF DeviceEnter
  <2>2. toHost' \in Seq(Answers) /\ \A i \in DOMAIN toHost' : Askable(toHost'[i].block)
    BY <1>0, <2>1, AnswerTypes
  <2>3. stored' \subseteq Units
    BY <1>2, OtaAssumption DEF DeviceEnter, Units
  <2> QED BY <1>0, <1>2, <2>1, <2>2, <2>3 DEF DeviceEnter, DeviceTypes
<1>3. CASE DeviceData(p)
  <2>1. stored' \subseteq Units
    BY <1>0, <1>3, AskableBlocks DEF DeviceData
  <2>2. CASE UNCHANGED <<ask, toHost>>
    BY <1>0, <1>3, <2>1, <2>2 DEF DeviceData, DeviceTypes
  <2>3. CASE ask' = AskFor(stored') /\ Send(p, "ok", ask')
    <3>1. ask' \in Blocks /\ Askable(ask')
      BY <2>3, AskForAskable
    <3>2. toHost' \in Seq(Answers) /\ \A i \in DOMAIN toHost' : Askable(toHost'[i].block)
      BY <1>0, <2>3, <3>1, AnswerTypes
    <3> QED BY <1>0, <1>3, <2>1, <3>1, <3>2 DEF DeviceData, DeviceTypes
  <2> QED BY <1>3, <2>2, <2>3 DEF DeviceData
<1>4. CASE DeviceRejects(p)
  <2>1. toHost' \in Seq(Answers) /\ \A i \in DOMAIN toHost' : Askable(toHost'[i].block)
    BY <1>0, <1>4, AnswerTypes DEF DeviceRejects
  <2> QED BY <1>0, <1>4, <2>1 DEF DeviceRejects, DeviceTypes
<1>5. CASE DeviceRepeat(p)
  <2>1. toHost' \in Seq(Answers) /\ \A i \in DOMAIN toHost' : Askable(toHost'[i].block)
    BY <1>0, <1>5, AnswerTypes DEF DeviceRepeat
  <2> QED BY <1>0, <1>5, <2>1 DEF DeviceRepeat, DeviceTypes, deviceVars
<1>6. CASE DeviceVerify(p)
  <2>1. toHost' \in Seq(Answers) /\ \A i \in DOMAIN toHost' : Askable(toHost'[i].block)
    BY <1>6, AnswerTypes, AskableBlocks DEF DeviceVerify
  <2>2. verified' \in BOOLEAN
    BY <1>6 DEF DeviceVerify
  <2> QED BY <1>0, <1>6, <2>1, <2>2 DEF DeviceVerify, DeviceTypes
<1>7. CASE DeviceResult(p)
  <2>1. CASE (\E r \in Results : Send(p, r, NoBlock)) /\ UNCHANGED deviceVars
    <3>1. toHost' \in Seq(Answers) /\ \A i \in DOMAIN toHost' : Askable(toHost'[i].block)
      BY <2>1, AnswerTypes, AskableBlocks
    <3> QED BY <1>0, <2>1, <3>1 DEF DeviceTypes, deviceVars
  <2>2. ASSUME NEW u \in Units, asks < MaxAsks, asks' = asks + 1, stored' = stored \ {u},
               verified' = FALSE, ask' = [off |-> u, len |-> 1], Send(p, "ok", ask')
        PROVE  DeviceTypes'
    <3>1. ask' \in Blocks /\ Askable(ask')
      BY <2>2, OtaAssumption DEF Blocks, Askable, InImage, Units
    <3>2. toHost' \in Seq(Answers) /\ \A i \in DOMAIN toHost' : Askable(toHost'[i].block)
      BY <1>0, <2>2, <3>1, AnswerTypes
    <3>3. asks' \in 0..MaxAsks
      BY <1>0, <2>2, OtaAssumption
    <3> QED BY <1>0, <2>2, <3>1, <3>2, <3>3 DEF DeviceTypes
  <2> QED BY <1>7, <2>1, <2>2 DEF DeviceResult
<1> QED BY <1>1, <1>2, <1>3, <1>4, <1>5, <1>6, <1>7

\* The device reads a packet, and what is left are packets.
LEMMA ReadByDevice ==
    ASSUME TypeInv, toDev # <<>>, toDev' = Tail(toDev)
    PROVE  /\ Head(toDev) \in Packets
           /\ Head(toDev).op = "data" => InImage(Head(toDev).block)
           /\ toDev' \in Seq(Packets)
           /\ \A i \in DOMAIN toDev' : toDev'[i].op = "data" => InImage(toDev'[i].block)
<1>1. toDev \in Seq(Packets) /\ \A i \in DOMAIN toDev : toDev[i].op = "data" => InImage(toDev[i].block)
  BY DEF TypeInv, TypeOK
<1>2. 1 \in DOMAIN toDev /\ Head(toDev) = toDev[1] /\ toDev[1] \in Packets
  BY <1>1
<1> QED BY <1>1, <1>2, TailElements

LEMMA DeviceReadsTypes ==
    ASSUME TypeInv, DeviceReads
    PROVE  TypeInv'
<1>1. DeviceTypes'
  <2>1. toDev # <<>> /\ toDev' = Tail(toDev)
    BY DEF DeviceReads
  <2>2. Head(toDev) \in Packets /\ (Head(toDev).op = "data" => InImage(Head(toDev).block))
    BY <2>1, ReadByDevice
  <2> QED BY <2>2, DeviceStepTypes DEF DeviceReads
<1>2. /\ toDev' \in Seq(Packets)
      /\ \A i \in DOMAIN toDev' : toDev'[i].op = "data" => InImage(toDev'[i].block)
  BY ReadByDevice DEF DeviceReads
<1>3. UNCHANGED <<phase, waiting, sn, block, attempt, pos, first, last, polls>>
  BY DEF DeviceReads, hostVars
<1>4. TypeOK'
  BY <1>1, <1>2, <1>3 DEF TypeInv, TypeOK, DeviceTypes
<1> QED BY <1>1, <1>2, <1>3, <1>4 DEF TypeInv, DeviceTypes

\* The packets, the answers, the blocks and the counters of an upgrade stay
\* within their ranges, and the device is sent, and asks for, blocks within the
\* image only (or one that upgrade() refuses).
THEOREM UpgradeTypes == Spec => []TypeInv
<1>1. TypeInv /\ [Next]_vars => TypeInv'
  <2> SUFFICES ASSUME TypeInv, [Next]_vars PROVE TypeInv'
    OBVIOUS
  <2>1. CASE UNCHANGED vars
    BY <2>1 DEF vars, hostVars, deviceVars, TypeInv, TypeOK
  <2> QED
    BY <2>1, RequestTypes, SendChunkTypes, ReadTypes, StopStepTypes, DeviceReadsTypes DEF Next
<1> QED BY <1>1, InitTypes, PTL DEF Spec

-----------------------------------------------------------------------------
(* What is in flight.                                                      *)

\* Beside packets of a block, at most one request or its answer is in flight,
\* behind all of them, and the host is waiting for it.
Flight ==
    /\ \A i \in DOMAIN toDev :
          \/ toDev[i].op = "data"
          \/ waiting /\ i = Len(toDev) /\ toDev[i].op = phase /\ toDev[i].sn = sn
    /\ \A i \in DOMAIN toHost :
          \/ toHost[i].op = "data"
          \/ /\ waiting /\ i = Len(toHost) /\ toDev = <<>>
             /\ toHost[i].op = phase /\ toHost[i].sn = sn

\* Before the first block and after the last no packet of a block is.
NoData ==
    /\ \A i \in DOMAIN toDev : toDev[i].op # "data"
    /\ \A i \in DOMAIN toHost : toHost[i].op # "data"

\* How many numbers ago n was taken, when the last one taken is s.
AgeAt(s, n) == IF n <= s THEN s - n ELSE s - n + SnMax
Age(n) == AgeAt(sn, n)

\* Taken since the host came to send the block before this one.
Young(n) == Age(n) < (Retries + attempt) * BlockLen + pos

\* What is in flight is younger than the packets of two blocks, and it is in
\* the order in which its numbers were taken; so are those of this attempt.
Window ==
    /\ pos > 0 => last = sn /\ first \in 1..SnMax /\ Age(first) < pos
    /\ \A i \in DOMAIN toDev : Young(toDev[i].sn)
    /\ \A i \in DOMAIN toHost : Young(toHost[i].sn)
    /\ \A i, j \in DOMAIN toDev : i <= j => Age(toDev[j].sn) <= Age(toDev[i].sn)
    /\ \A i, j \in DOMAIN toHost : i <= j => Age(toHost[j].sn) <= Age(toHost[i].sn)
    /\ \A i \in DOMAIN toHost, j \in DOMAIN toDev : Age(toDev[j].sn) <= Age(toHost[i].sn)

-----------------------------------------------------------------------------
(* What the device has.                                                    *)

\* The units the device has and does not ask for again.
Kept == stored \ UnitsOf(ask)

\* A number of an earlier attempt.
Old(n) == pos > 0 => Age(n) > Age(first)

\* The device waits for the block the host sends: what it says ok to, now or
\* when it reads what is in flight, was sent before this attempt.
Sending ==
    /\ block = ask
    /\ \A i \in DOMAIN toHost : toHost[i].result = "ok" => Old(toHost[i].sn)
    /\ \A i \in DOMAIN toDev :
          \/ UnitsOf(toDev[i].block) \subseteq UnitsOf(ask)
          \/ UnitsOf(toDev[i].block) \subseteq Kept /\ Old(toDev[i].sn)

\* The device has the block the host sends: it says ok to packets of this
\* attempt only with the block it asks for now.
Sent ==
    /\ UnitsOf(block) \subseteq Kept
    /\ \A i \in DOMAIN toHost :
          toHost[i].result = "ok" => Old(toHost[i].sn) \/ toHost[i].block = ask
    /\ \A i \in DOMAIN toDev : UnitsOf(toDev[i].block) \subseteq Kept

\* The device asks for nothing only when it has everything.
AsksForMore == ask = NoBlock => Units \subseteq stored

Complete == ask = NoBlock /\ Units \subseteq stored

PhaseInv ==
    /\ phase \in {"info", "can"} => NoData
    /\ phase = "enter" =>
          /\ NoData
          /\ \A i \in DOMAIN toHost :
                toHost[i].result = "ok" /\ toHost[i].block = ask /\ AsksForMore
    /\ phase = "data" => Window /\ AsksForMore /\ (Sending \/ Sent)
    /\ phase = "verify" =>
          /\ Complete
          /\ \A i \in DOMAIN toHost :
                toHost[i].op = "verify" /\ toHost[i].result = "ok" => verified
    /\ phase = "result" =>
          /\ NoData
          /\ toHost = <<>> => Complete /\ verified
          /\ \A i \in DOMAIN toHost :
                \/ toHost[i].block = NoBlock /\ Complete /\ verified
                \/ toHost[i].result = "ok" /\ toHost[i].block = ask /\ ask # NoBlock
    /\ phase = "done" => NoData /\ Complete /\ verified

\* The inductive invariant: of an upgrade that has failed nothing is said.
OtaInv == phase # "failed" => Flight /\ PhaseInv

-----------------------------------------------------------------------------
(* Ages.                                                                   *)

LEMMA AgeRange ==
    \A s \in 0..SnMax, n \in 1..SnMax : AgeAt(s, n) \in 0..(SnMax - 1)
BY OtaAssumption DEF AgeAt

\* With each number taken the others grow older by one, until they come again.
LEMMA AgeNext ==
    \A s \in 0..SnMax, n \in 1..SnMax :
        /\ AgeAt(s, n) < SnMax - 1 => AgeAt(NextSn(s), n) = AgeAt(s, n) + 1
        /\ AgeAt(NextSn(s), NextSn(s)) = 0
BY OtaAssumption DEF AgeAt, NextSn

\* Three attempts' numbers are not enough to come round.
LEMMA Budget ==
    ASSUME NEW k \in 0..(Retries - 1)
    PROVE  /\ (Retries + k) * BlockLen \in Nat
           /\ (Retries + k) * BlockLen + BlockLen <= SnMax
           /\ (Retries + (k + 1)) * BlockLen = (Retries + k) * BlockLen + BlockLen
           /\ BlockLen <= (Retries + 0) * BlockLen
<1>1. \A x, y \in Nat : x <= y => x * BlockLen <= y * BlockLen
  BY OtaAssumption
<1>2. (Retries + (k + 1)) * BlockLen = (Retries + k) * BlockLen + BlockLen
  BY OtaAssumption
<1>3. (Retries + (k + 1)) * BlockLen <= (2 * Retries) * BlockLen
  BY <1>1, OtaAssumption
<1>4. 1 * BlockLen <= (Retries + 0) * BlockLen
  BY <1>1, OtaAssumption
<1> QED BY <1>2, <1>3, <1>4, OtaAssumption, SerialsSuffice

\* The numbers in flight while a block is sent.
LEMMA NumbersInFlight ==
    ASSUME TypeInv
    PROVE  /\ sn \in 0..SnMax /\ first \in 0..SnMax /\ attempt \in 0..(Retries - 1) /\ pos \in Nat
           /\ \A i \in DOMAIN toDev : toDev[i].sn \in 1..SnMax
           /\ \A i \in DOMAIN toHost : toHost[i].sn \in 1..SnMax
<1>1. toDev \in Seq(Packets) /\ toHost \in Seq(Answers)
  BY DEF TypeInv, TypeOK
<1>2. \A i \in DOMAIN toDev : toDev[i] \in Packets
  BY <1>1
<1>3. \A i \in DOMAIN toHost : toHost[i] \in Answers
  BY <1>1
<1> QED BY <1>2, <1>3 DEF TypeInv, TypeOK, Packets, Answers

\* What was taken since the block before does not come again with one more.
LEMMA OneMore ==
    ASSUME TypeInv, phase = "data", ~waiting, NEW n \in 1..SnMax, Young(n)
    PROVE  AgeAt(NextSn(sn), n) = Age(n) + 1
<1>1. sn \in 0..SnMax /\ attempt \in 0..(Retries - 1)
  BY NumbersInFlight
<1>2. pos \in Nat /\ pos < block.len /\ block.len \in Nat /\ block.len <= BlockLen
  BY NumbersInFlight, OtaAssumption DEF TypeInv, InImage
<1>3. (Retries + attempt) * BlockLen \in Nat /\ (Retries + attempt) * BlockLen + BlockLen <= SnMax
  BY <1>1, Budget
<1>4. AgeAt(sn, n) \in 0..(SnMax - 1)
  BY <1>1, AgeRange
<1> DEFINE B == (Retries + attempt) * BlockLen
<1>5. Age(n) < B + pos /\ Age(n) = AgeAt(sn, n) /\ B \in Nat /\ B + BlockLen <= SnMax
  BY <1>3 DEF Young, Age
<1>6. Age(n) < SnMax - 1
  <2> HIDE DEF B
  <2> QED BY <1>2, <1>4, <1>5, OtaAssumption
<1> QED BY <1>1, <1>5, <1>6, AgeNext

\* The window of the numbers of this attempt moves on with each packet sent.
LEMMA SendChunkWindow ==
    ASSUME TypeInv, Window, SendChunk
    PROVE  Window'
<1> DEFINE p == [op |-> "data", sn |-> sn',
                 block |-> [off |-> block.off + pos, len |-> ChunkLen(block, pos)]]
           B == (Retries + attempt) * BlockLen
<1>1. /\ phase = "data" /\ ~waiting /\ sn' = NextSn(sn) /\ last' = sn'
      /\ first' = IF pos = 0 THEN sn' ELSE first
      /\ attempt' = attempt /\ toHost' = toHost /\ toDev' = Append(toDev, p)
      /\ pos' = pos + ChunkLen(block, pos)
  BY DEF SendChunk
<1>2. /\ sn \in 0..SnMax /\ sn' \in 1..SnMax /\ pos \in Nat /\ B \in Nat
      /\ toDev \in Seq(Packets) /\ toHost \in Seq(Answers)
      /\ \A i \in DOMAIN toDev : toDev[i].sn \in 1..SnMax
      /\ \A i \in DOMAIN toHost : toHost[i].sn \in 1..SnMax
  BY <1>1, NumbersInFlight, NextSnRange, Budget DEF TypeInv, TypeOK
<1>3. pos' \in Nat /\ pos' >= pos + 1
  <2>1. ChunkLen(block, pos) \in 1..(block.len - pos) /\ pos \in 0..Size /\ block.len \in 0..Size
    BY <1>1, ChunkFits DEF TypeInv, TypeOK, Blocks
  <2> QED BY <1>1, <2>1, OtaAssumption
<1> HIDE DEF B
<1>4. \A n \in 1..SnMax : Young(n) =>
        AgeAt(sn', n) = Age(n) + 1 /\ Age(n) \in Nat /\ Age(n) < B + pos
  BY <1>1, <1>2, OneMore, AgeRange, OtaAssumption DEF Age, Young, B
<1>5. AgeAt(sn', sn') = 0
  BY <1>1, <1>2, AgeNext
<1>6. Len(toDev) \in Nat /\ DOMAIN toDev = 1..Len(toDev) /\ DOMAIN toDev' = 1..(Len(toDev) + 1)
      /\ (\A i \in DOMAIN toDev : toDev'[i].sn = toDev[i].sn) /\ toDev'[Len(toDev) + 1].sn = sn'
  <2>1. p.sn = sn'
    OBVIOUS
  <2> HIDE DEF p
  <2> QED BY <1>1, <1>2, <2>1, AppendElements
<1>7. last' = sn' /\ first' \in 1..SnMax /\ AgeAt(sn', first') < pos'
  <2>1. CASE pos = 0
    BY <1>1, <1>2, <1>3, <1>5, <2>1
  <2>2. CASE pos # 0
    <3>1. first \in 1..SnMax /\ Age(first) < pos
      BY <1>2, <2>2 DEF Window
    <3>2. Young(first)
      <4>1. Age(first) \in Nat
        BY <1>2, <3>1, AgeRange, OtaAssumption DEF Age
      <4> QED BY <1>2, <3>1, <4>1 DEF Young, B
    <3> QED BY <1>1, <1>2, <1>3, <1>4, <2>2, <3>1, <3>2
  <2> QED BY <2>1, <2>2
<1>w. /\ \A i \in DOMAIN toDev : Young(toDev[i].sn)
      /\ \A i \in DOMAIN toHost : Young(toHost[i].sn)
      /\ \A i, j \in DOMAIN toDev : i <= j => Age(toDev[j].sn) <= Age(toDev[i].sn)
      /\ \A i, j \in DOMAIN toHost : i <= j => Age(toHost[j].sn) <= Age(toHost[i].sn)
      /\ \A i \in DOMAIN toHost, j \in DOMAIN toDev : Age(toDev[j].sn) <= Age(toHost[i].sn)
  BY DEF Window
<1>d. \A i \in DOMAIN toDev :
        /\ AgeAt(sn', toDev'[i].sn) = Age(toDev[i].sn) + 1
        /\ Age(toDev[i].sn) \in Nat /\ Age(toDev[i].sn) < B + pos
  BY <1>2, <1>4, <1>6, <1>w
<1>h. \A i \in DOMAIN toHost :
        /\ AgeAt(sn', toHost[i].sn) = Age(toHost[i].sn) + 1
        /\ Age(toHost[i].sn) \in Nat /\ Age(toHost[i].sn) < B + pos
  BY <1>2, <1>4, <1>w
<1>n. AgeAt(sn', toDev'[Len(toDev) + 1].sn) = 0
  BY <1>5, <1>6
<1>8. (\A i \in DOMAIN toDev : Young(toDev[i].sn))'
  <2> SUFFICES ASSUME NEW i \in DOMAIN toDev' PROVE AgeAt(sn', toDev'[i].sn) < B + pos'
    BY <1>1 DEF Young, Age, B
  <2>1. B \in Nat /\ pos \in Nat /\ pos' \in Nat /\ pos' >= pos + 1
    BY <1>2, <1>3
  <2>2. CASE i \in DOMAIN toDev
    BY <1>d, <2>1, <2>2
  <2>3. CASE i = Len(toDev) + 1
    BY <1>n, <2>1, <2>3
  <2> QED BY <1>6, <2>2, <2>3
<1>9. (\A i \in DOMAIN toHost : Young(toHost[i].sn))'
  <2> SUFFICES ASSUME NEW i \in DOMAIN toHost PROVE AgeAt(sn', toHost[i].sn) < B + pos'
    BY <1>1 DEF Young, Age, B
  <2>1. B \in Nat /\ pos \in Nat /\ pos' \in Nat /\ pos' >= pos + 1
    BY <1>2, <1>3
  <2> QED BY <1>h, <2>1
<1>10. \A i, j \in DOMAIN toDev' : i <= j => AgeAt(sn', toDev'[j].sn) <= AgeAt(sn', toDev'[i].sn)
  <2> SUFFICES ASSUME NEW i \in DOMAIN toDev', NEW j \in DOMAIN toDev', i <= j
               PROVE AgeAt(sn', toDev'[j].sn) <= AgeAt(sn', toDev'[i].sn)
    OBVIOUS
  <2>1. CASE i \in DOMAIN toDev /\ j \in DOMAIN toDev
    BY <1>d, <1>w, <2>1
  <2>2. CASE i \in DOMAIN toDev /\ j = Len(toDev) + 1
    BY <1>d, <1>n, <2>2
  <2>3. CASE i = Len(toDev) + 1 /\ j = Len(toDev) + 1
    BY <1>n, <2>3
  <2> QED BY <1>6, <2>1, <2>2, <2>3
<1>11. \A i, j \in DOMAIN toHost : i <= j => AgeAt(sn', toHost[j].sn) <= AgeAt(sn', toHost[i].sn)
  BY <1>h, <1>w
<1>12. \A i \in DOMAIN toHost, j \in DOMAIN toDev' : AgeAt(sn', toDev'[j].sn) <= AgeAt(sn', toHost[i].sn)
  <2> SUFFICES ASSUME NEW i \in DOMAIN toHost, NEW j \in DOMAIN toDev'
               PROVE AgeAt(sn', toDev'[j].sn) <= AgeAt(sn', toHost[i].sn)
    OBVIOUS
  <2>1. CASE j \in DOMAIN toDev
    BY <1>d, <1>h, <1>w, <2>1
  <2>2. CASE j = Len(toDev) + 1
    BY <1>h, <1>n, <2>2
  <2> QED BY <1>6, <2>1, <2>2
<1> QED BY <1>1, <1>7, <1>8, <1>9, <1>10, <1>11, <1>12 DEF Window, Age

\* What was sent in an earlier attempt stays older than this one.
LEMMA StaysOld ==
    ASSUME TypeInv, Window, SendChunk, NEW n \in 1..SnMax, Young(n), Old(n)
    PROVE  AgeAt(sn', n) > AgeAt(sn', first')
<1>1. /\ phase = "data" /\ ~waiting /\ sn' = NextSn(sn)
      /\ first' = IF pos = 0 THEN sn' ELSE first
  BY DEF SendChunk
<1>2. sn \in 0..SnMax /\ sn' \in 1..SnMax /\ pos \in Nat /\ attempt \in 0..(Retries - 1)
  BY <1>1, NumbersInFlight, NextSnRange
<1>3. AgeAt(sn', n) = Age(n) + 1 /\ Age(n) \in Nat
  BY <1>1, <1>2, OneMore, AgeRange, OtaAssumption DEF Age
<1>4. CASE pos = 0
  BY <1>1, <1>2, <1>3, <1>4, AgeNext
<1>5. CASE pos # 0
  <2>1. first \in 1..SnMax /\ Age(first) < pos /\ Age(n) > Age(first)
    BY <1>2, <1>5 DEF Window, Old
  <2>2. Age(first) \in Nat
    BY <1>2, <2>1, AgeRange, OtaAssumption DEF Age
  <2>3. Young(first)
    BY <1>2, <2>1, <2>2, Budget DEF Young
  <2> QED BY <1>1, <1>3, <1>5, <2>1, <2>2, <2>3, OneMore
<1> QED BY <1>4, <1>5

LEMMA SendChunkBlocks ==
    ASSUME TypeInv, Window, Sending \/ Sent, SendChunk
    PROVE  Sending' \/ Sent'
<1> DEFINE b == [off |-> block.off + pos, len |-> ChunkLen(block, pos)]
           p == [op |-> "data", sn |-> sn', block |-> b]
<1>1. /\ phase = "data" /\ ~waiting /\ toHost' = toHost /\ toDev' = Append(toDev, p)
      /\ UNCHANGED <<block, ask, stored>>
  BY DEF SendChunk, deviceVars
<1>2. /\ toDev \in Seq(Packets)
      /\ \A i \in DOMAIN toDev : toDev[i].sn \in 1..SnMax
      /\ \A i \in DOMAIN toHost : toHost[i].sn \in 1..SnMax
  BY NumbersInFlight DEF TypeInv, TypeOK
<1>3. UnitsOf(b) \subseteq UnitsOf(block)
  BY <1>1, ChunkFits
<1>4. /\ DOMAIN toDev' = DOMAIN toDev \cup {Len(toDev) + 1}
      /\ \A i \in DOMAIN toDev : toDev'[i] = toDev[i]
      /\ toDev'[Len(toDev) + 1].block = b
  <2>1. p.block = b
    OBVIOUS
  <2> HIDE DEF p
  <2> QED BY <1>1, <1>2, <2>1, AppendElements
<1>5. \A n \in 1..SnMax : Young(n) /\ Old(n) => AgeAt(sn', n) > AgeAt(sn', first')
  BY StaysOld
<1>6. /\ \A i \in DOMAIN toHost : Young(toHost[i].sn)
      /\ \A i \in DOMAIN toDev : Young(toDev[i].sn)
  BY DEF Window
<1> HIDE DEF b
<1>7. CASE Sending
  <2>1. block' = ask' /\ UnitsOf(b) \subseteq UnitsOf(ask)
    BY <1>1, <1>3, <1>7 DEF Sending
  <2>2. \A i \in DOMAIN toHost : toHost[i].result = "ok" => AgeAt(sn', toHost[i].sn) > AgeAt(sn', first')
    BY <1>2, <1>5, <1>6, <1>7 DEF Sending
  <2>3. \A i \in DOMAIN toDev' :
          \/ UnitsOf(toDev'[i].block) \subseteq UnitsOf(ask)
          \/ UnitsOf(toDev'[i].block) \subseteq Kept /\ AgeAt(sn', toDev'[i].sn) > AgeAt(sn', first')
    BY <1>2, <1>4, <1>5, <1>6, <1>7, <2>1 DEF Sending
  <2> QED BY <1>1, <2>1, <2>2, <2>3 DEF Sending, Old, Kept, Age
<1>8. CASE Sent
  <2>1. \A i \in DOMAIN toHost : toHost[i].result = "ok" =>
          AgeAt(sn', toHost[i].sn) > AgeAt(sn', first') \/ toHost[i].block = ask
    BY <1>2, <1>5, <1>6, <1>8 DEF Sent
  <2>2. UnitsOf(block) \subseteq Kept /\ UnitsOf(b) \subseteq Kept
    BY <1>3, <1>8 DEF Sent
  <2>3. \A i \in DOMAIN toDev' : UnitsOf(toDev'[i].block) \subseteq Kept
    BY <1>4, <1>8, <2>2 DEF Sent
  <2> QED BY <1>1, <2>1, <2>2, <2>3 DEF Sent, Old, Kept, Age
<1> QED BY <1>7, <1>8

-----------------------------------------------------------------------------
(* What the host reads while it sends a block.                             *)

\* Packets taken from the front leave the rest in order.
LEMMA ReadRest ==
    ASSUME TypeInv, NEW n \in 1..Len(toHost), Read(n)
    PROVE  /\ Len(toHost') = Len(toHost) - n
           /\ \A i \in DOMAIN toHost' : n + i \in DOMAIN toHost /\ toHost'[i] = toHost[n + i]
           /\ DOMAIN toHost' \subseteq Nat /\ DOMAIN toHost \subseteq Nat
           /\ UNCHANGED <<sn, first, last, toDev, ask, stored, verified, asks>>
<1>1. toHost \in Seq(Answers) /\ n \in Nat /\ n <= Len(toHost)
      /\ toHost' = SubSeq(toHost, n + 1, Len(toHost))
  BY DEF TypeInv, TypeOK, Read
<1>2. toHost' \in Seq(Answers) /\ Len(toHost') = Len(toHost) - n
      /\ \A i \in DOMAIN toHost' : n + i \in DOMAIN toHost /\ toHost'[i] = toHost[n + i]
  BY <1>1, RestElements
<1> QED BY <1>1, <1>2 DEF Read, deviceVars

\* An answer the host accepts for its block is one to this attempt.
LEMMA AcceptedIsNew ==
    ASSUME TypeInv, phase = "data", waiting, Window, NEW i \in DOMAIN toHost, Expected(toHost[i])
    PROVE  /\ pos > 0 /\ pos = block.len
           /\ Age(toHost[i].sn) <= Age(first) /\ Age(first) < pos
           /\ ~Old(toHost[i].sn)
<1>1. pos > 0 /\ pos = block.len
  BY OtaAssumption DEF TypeInv, InImage
<1>2. /\ last = sn /\ first \in 1..SnMax /\ Age(first) < pos
      /\ first <= toHost[i].sn /\ toHost[i].sn <= last
  BY <1>1 DEF Window, Expected
<1>3. sn \in 0..SnMax /\ toHost[i].sn \in 1..SnMax
  BY NumbersInFlight
<1>4. Age(toHost[i].sn) <= Age(first) /\ Age(first) \in Int /\ Age(toHost[i].sn) \in Int
  BY <1>2, <1>3, OtaAssumption DEF Age, AgeAt
<1> QED BY <1>1, <1>2, <1>4 DEF Old

\* So when it is an ok, the device has the block, and the answer names the one
\* it wants now.
LEMMA AcceptedOk ==
    ASSUME TypeInv, phase = "data", waiting, Window, Sending \/ Sent,
           NEW i \in DOMAIN toHost, Expected(toHost[i]), toHost[i].result = "ok"
    PROVE  Sent /\ toHost[i].block = ask
BY AcceptedIsNew DEF Sending, Sent

\* Another attempt: what is in flight is of the attempts before it.
LEMMA RetryKeeps ==
    ASSUME TypeInv, phase = "data", Window, AsksForMore, Sending \/ Sent,
           attempt + 1 < Retries, attempt' = attempt + 1, pos' = 0,
           NEW n \in Nat,
           \A i \in DOMAIN toHost' : n + i \in DOMAIN toHost /\ toHost'[i] = toHost[n + i],
           DOMAIN toHost' \subseteq Nat,
           UNCHANGED <<phase, block, sn, toDev, ask, stored>>
    PROVE  (Window /\ AsksForMore /\ (Sending \/ Sent))'
<1> DEFINE B == (Retries + attempt) * BlockLen
           B2 == (Retries + attempt') * BlockLen
<1>1. /\ sn \in 0..SnMax /\ pos \in Nat /\ attempt \in 0..(Retries - 1)
      /\ \A i \in DOMAIN toDev : toDev[i].sn \in 1..SnMax
      /\ \A i \in DOMAIN toHost : toHost[i].sn \in 1..SnMax
  BY NumbersInFlight
<1>2. B \in Nat /\ B2 = B + BlockLen
  BY <1>1, Budget
<1>3. pos <= BlockLen
  BY <1>1, OtaAssumption DEF TypeInv, InImage
<1> HIDE DEF B, B2
<1>4. \A k \in 1..SnMax : Young(k) => AgeAt(sn, k) < B2 + 0
  <2> SUFFICES ASSUME NEW k \in 1..SnMax, Young(k) PROVE AgeAt(sn, k) < B2 + 0
    OBVIOUS
  <2>1. AgeAt(sn, k) \in Int
    BY <1>1, AgeRange
  <2>2. AgeAt(sn, k) < B + pos
    BY DEF Young, Age, B
  <2> QED BY <1>1, <1>2, <1>3, <2>1, <2>2, OtaAssumption
<1>5. Window'
  <2>1. (\A i \in DOMAIN toDev : Young(toDev[i].sn))'
    BY <1>1, <1>4 DEF Window, Young, Age, B2
  <2>2. (\A i \in DOMAIN toHost : Young(toHost[i].sn))'
    BY <1>1, <1>4 DEF Window, Young, Age, B2
  <2>3. \A i, j \in DOMAIN toHost' : i <= j => AgeAt(sn, toHost'[j].sn) <= AgeAt(sn, toHost'[i].sn)
    BY DEF Window, Age
  <2>4. \A i \in DOMAIN toHost', j \in DOMAIN toDev : AgeAt(sn, toDev[j].sn) <= AgeAt(sn, toHost'[i].sn)
    BY DEF Window, Age
  <2> QED BY <2>1, <2>2, <2>3, <2>4 DEF Window, Age
<1>6. ASSUME Sending PROVE Sending'
  BY <1>6 DEF Sending, Old, Kept
<1>7. ASSUME Sent PROVE Sent'
  BY <1>7 DEF Sent, Old, Kept
<1>8. AsksForMore'
  BY DEF AsksForMore
<1> QED BY <1>5, <1>6, <1>7, <1>8

\* The next block: what is still in flight is of the last attempt at this one.
LEMMA NextBlockKeeps ==
    ASSUME TypeInv, phase = "data", waiting, Window, AsksForMore, Sending \/ Sent,
           NEW i \in DOMAIN toHost, Expected(toHost[i]), toHost[i].result = "ok",
           attempt' = 0, pos' = 0, block' = toHost[i].block,
           NEW n \in Nat, i <= n,
           \A j \in DOMAIN toHost' : n + j \in DOMAIN toHost /\ toHost'[j] = toHost[n + j],
           DOMAIN toHost' \subseteq Nat,
           UNCHANGED <<sn, toDev, ask, stored>>
    PROVE  (Window /\ AsksForMore /\ Sending)'
<1> DEFINE B2 == (Retries + attempt') * BlockLen
<1>1. /\ sn \in 0..SnMax /\ pos \in Nat
      /\ first \in 0..SnMax
      /\ \A j \in DOMAIN toDev : toDev[j].sn \in 1..SnMax
      /\ \A j \in DOMAIN toHost : toHost[j].sn \in 1..SnMax
      /\ DOMAIN toHost \subseteq Nat
  BY NumbersInFlight DEF TypeInv, TypeOK
<1>2. Age(toHost[i].sn) < BlockLen
  <2>1. pos <= BlockLen
    BY <1>1, OtaAssumption DEF TypeInv, InImage
  <2>2. pos > 0 /\ Age(toHost[i].sn) <= Age(first) /\ Age(first) < pos
    BY AcceptedIsNew
  <2>3. first \in 1..SnMax
    BY <2>2 DEF Window
  <2>4. Age(first) \in Int /\ Age(toHost[i].sn) \in Int
    BY <1>1, <2>3, AgeRange DEF Age
  <2> QED BY <1>1, <2>1, <2>2, <2>4, OtaAssumption
<1>3. BlockLen <= B2 /\ B2 \in Nat
  BY Budget, OtaAssumption
<1> HIDE DEF B2
<1>4. \A k \in 1..SnMax : AgeAt(sn, k) <= Age(toHost[i].sn) => AgeAt(sn, k) < B2 + 0
  <2> SUFFICES ASSUME NEW k \in 1..SnMax, AgeAt(sn, k) <= Age(toHost[i].sn)
               PROVE  AgeAt(sn, k) < B2 + 0
    OBVIOUS
  <2>1. AgeAt(sn, k) \in Int /\ AgeAt(sn, toHost[i].sn) \in Int
    BY <1>1, AgeRange
  <2>2. Age(toHost[i].sn) = AgeAt(sn, toHost[i].sn)
    BY DEF Age
  <2> QED BY <1>2, <1>3, <2>1, <2>2, OtaAssumption
<1>5. Window'
  <2>1. \A j \in DOMAIN toDev : AgeAt(sn, toDev[j].sn) <= Age(toHost[i].sn)
    BY DEF Window, Age
  <2>2. (\A j \in DOMAIN toDev : Young(toDev[j].sn))'
    BY <1>1, <1>4, <2>1 DEF Young, Age, B2
  <2>3. \A j \in DOMAIN toHost' : AgeAt(sn, toHost'[j].sn) <= Age(toHost[i].sn)
    <3> SUFFICES ASSUME NEW j \in DOMAIN toHost' PROVE AgeAt(sn, toHost[n + j].sn) <= Age(toHost[i].sn)
      OBVIOUS
    <3>1. n + j \in DOMAIN toHost /\ i <= n + j
      BY <1>1
    <3> QED BY <3>1 DEF Window, Age
  <2>4. (\A j \in DOMAIN toHost : Young(toHost[j].sn))'
    BY <1>1, <1>4, <2>3 DEF Young, Age, B2
  <2>5. \A j, k \in DOMAIN toHost' : j <= k => AgeAt(sn, toHost'[k].sn) <= AgeAt(sn, toHost'[j].sn)
    BY <1>1 DEF Window, Age
  <2>6. \A j \in DOMAIN toHost', k \in DOMAIN toDev : AgeAt(sn, toDev[k].sn) <= AgeAt(sn, toHost'[j].sn)
    BY DEF Window, Age
  <2> QED BY <2>2, <2>4, <2>5, <2>6 DEF Window, Age
<1>6. Sent /\ toHost[i].block = ask
  BY AcceptedOk
<1> QED BY <1>5, <1>6 DEF Sending, Sent, Old, Kept, AsksForMore

-----------------------------------------------------------------------------
(* A read by the host.                                                     *)

\* A read without the packet waited for only shortens what is in flight.
LEMMA ReadNothing ==
    ASSUME TypeInv, Flight, PhaseInv, NEW n \in 1..Len(toHost), Read(n),
           {i \in 1..n : Expected(toHost[i])} = {}
    PROVE  (Flight /\ PhaseInv)'
<1>1. /\ Len(toHost') = Len(toHost) - n /\ Len(toHost) \in Nat
      /\ \A i \in DOMAIN toHost' : n + i \in DOMAIN toHost /\ toHost'[i] = toHost[n + i]
      /\ DOMAIN toHost' \subseteq Nat /\ DOMAIN toHost = 1..Len(toHost)
      /\ UNCHANGED <<sn, first, last, toDev, ask, stored, verified, asks>>
  BY ReadRest DEF TypeInv, TypeOK
<1>2. UNCHANGED <<phase, waiting, block, attempt, pos, polls>>
  BY DEF Read
<1>3. Flight'
  BY <1>1, <1>2 DEF Flight
<1>4. NoData => NoData'
  BY <1>1, <1>2 DEF NoData
<1>5. phase = "data" => (Window /\ AsksForMore /\ (Sending \/ Sent))'
  <2> SUFFICES ASSUME phase = "data" PROVE (Window /\ AsksForMore /\ (Sending \/ Sent))'
    OBVIOUS
  <2>1. Window'
    BY <1>1, <1>2 DEF PhaseInv, Window, Young, Age
  <2>2. AsksForMore'
    BY <1>1, <1>2 DEF PhaseInv, AsksForMore
  <2>3. ASSUME Sending PROVE Sending'
    BY <1>1, <1>2, <2>3 DEF Sending, Old, Kept, Age
  <2>4. ASSUME Sent PROVE Sent'
    BY <1>1, <1>2, <2>4 DEF Sent, Old, Kept, Age
  <2> QED BY <2>1, <2>2, <2>3, <2>4 DEF PhaseInv
<1>6. phase # "result"
  <2> SUFFICES ASSUME phase = "result" PROVE FALSE
    OBVIOUS
  <2>1. 1 \in DOMAIN toHost /\ 1 \in 1..n
    BY <1>1
  <2>2. toHost[1].op = phase /\ toHost[1].sn = sn
    BY <2>1 DEF Flight, PhaseInv, NoData
  <2> QED BY <2>1, <2>2 DEF Expected
<1> QED BY <1>1, <1>2, <1>3, <1>4, <1>5, <1>6 DEF PhaseInv, AsksForMore, Complete

\* The answer to a request is the last thing in flight.
LEMMA AnswerIsLast ==
    ASSUME TypeInv, Flight, phase # "data", NEW n \in 1..Len(toHost), Read(n),
           NEW i \in 1..n, Expected(toHost[i])
    PROVE  toHost' = <<>> /\ toDev' = <<>> /\ i \in DOMAIN toHost /\ toHost[i].op = phase
<1>1. Len(toHost) \in Nat /\ DOMAIN toHost = 1..Len(toHost) /\ toHost' \in Seq(Answers)
  <2>1. toHost \in Seq(Answers)
    BY DEF TypeInv, TypeOK
  <2> QED BY <2>1, RestElements DEF Read
<1>2. toHost[i].op = phase /\ i \in DOMAIN toHost
  BY <1>1 DEF Expected
<1>3. i = Len(toHost) /\ toDev = <<>>
  BY <1>2 DEF Flight
<1>4. Len(toHost') = Len(toHost) - n /\ UNCHANGED <<sn, first, last, toDev, ask, stored, verified, asks>>
  BY ReadRest
<1>5. Len(toHost') = 0
  <2>1. i = Len(toHost)
    BY <1>3
  <2>2. n = Len(toHost)
    <3>1. Len(toHost) \in Nat
      BY <1>1
    <3> QED BY <3>1, <2>1
  <2> QED BY <1>1, <1>4, <2>2
<1> QED BY <1>1, <1>2, <1>3, <1>4, <1>5

\* With nothing in flight a block may be sent as soon as it is wanted.
LEMMA QuietBlock ==
    ASSUME toHost' = <<>>, toDev' = <<>>, pos' = 0, block' = ask', AsksForMore'
    PROVE  (Window /\ AsksForMore /\ Sending)'
<1>1. DOMAIN toHost' = {} /\ DOMAIN toDev' = {}
  OBVIOUS
<1> QED BY <1>1 DEF Window, Sending

\* An answer to a request.
LEMMA ReadAnswer ==
    ASSUME TypeInv, Flight, PhaseInv, phase \notin {"data", "failed"},
           NEW n \in 1..Len(toHost), Read(n),
           NEW i \in 1..n, Expected(toHost[i]), Handle(toHost[i])
    PROVE  OtaInv'
<1>1. /\ toHost' = <<>> /\ toDev' = <<>> /\ DOMAIN toHost' = {} /\ DOMAIN toDev' = {}
      /\ i \in DOMAIN toHost /\ toHost[i].op = phase
  BY AnswerIsLast
<1>2. Flight' /\ NoData'
  BY <1>1 DEF Flight, NoData
<1>3. UNCHANGED <<ask, stored, verified>>
  BY DEF Read, deviceVars
<1>4. CASE Stop
  BY <1>4 DEF Stop, OtaInv
<1>5. CASE (phase = "info" /\ Become("can")) \/ (phase = "can" /\ Become("enter"))
  BY <1>1, <1>2, <1>5 DEF Become, PhaseInv, OtaInv
<1>6. ASSUME GoTo(toHost[i].block), toHost[i].block = ask, AsksForMore PROVE OtaInv'
  <2>1. pos' = 0 /\ block' = ask' /\ AsksForMore' /\ phase' \in {"verify", "data", "failed"}
        /\ (phase' = "verify" => ask = NoBlock)
    BY <1>3, <1>6 DEF GoTo, AsksForMore
  <2>2. (Window /\ AsksForMore /\ Sending)'
    BY <1>1, <2>1, QuietBlock
  <2>3. phase' = "verify" => Complete'
    BY <1>3, <1>6, <2>1 DEF Complete, AsksForMore
  <2> QED BY <1>1, <1>2, <2>1, <2>2, <2>3 DEF PhaseInv, OtaInv
<1>7. CASE phase = "enter" /\ GoTo(toHost[i].block)
  BY <1>1, <1>6, <1>7 DEF PhaseInv
<1>8. CASE phase = "verify" /\ toHost[i].result = "ok" /\ Become("result")
  BY <1>1, <1>2, <1>3, <1>8 DEF Become, PhaseInv, OtaInv, Complete
<1>9. CASE phase = "result" /\ toHost[i].result = "ok" /\ toHost[i].block = NoBlock /\ Become("done")
  BY <1>1, <1>2, <1>3, <1>9 DEF Become, PhaseInv, OtaInv, Complete
<1>10. CASE phase = "result" /\ toHost[i].block # NoBlock /\ GoTo(toHost[i].block)
  <2>1. toHost[i].block = ask /\ ask # NoBlock
    BY <1>1, <1>10 DEF PhaseInv
  <2> QED BY <1>6, <1>10, <2>1 DEF AsksForMore
<1>11. CASE phase = "verify" /\ PollAgain
  <2>1. UNCHANGED phase \/ Stop
    BY <1>11 DEF PollAgain
  <2>2. UNCHANGED phase => OtaInv'
    BY <1>1, <1>2, <1>3, <1>11 DEF PhaseInv, OtaInv, Complete
  <2> QED BY <1>4, <2>1, <2>2
<1>12. CASE phase = "result" /\ toHost[i].result = "progress" /\ PollAgain
  <2>1. UNCHANGED phase \/ Stop
    BY <1>12 DEF PollAgain
  <2>2. Complete /\ verified
    BY <1>1, <1>12 DEF PhaseInv
  <2>3. UNCHANGED phase => OtaInv'
    BY <1>1, <1>2, <1>3, <1>12, <2>2 DEF PhaseInv, OtaInv, Complete
  <2> QED BY <1>4, <2>1, <2>3
<1> QED
  <2>1. \/ Stop
        \/ phase = "info" /\ Become("can")
        \/ phase = "can" /\ Become("enter")
        \/ phase = "enter" /\ GoTo(toHost[i].block)
        \/ phase = "verify" /\ toHost[i].result = "ok" /\ Become("result")
        \/ phase = "result" /\ toHost[i].result = "ok" /\ toHost[i].block = NoBlock /\ Become("done")
        \/ phase = "result" /\ toHost[i].block # NoBlock /\ GoTo(toHost[i].block)
        \/ phase = "verify" /\ PollAgain
        \/ phase = "result" /\ toHost[i].result = "progress" /\ PollAgain
    BY HandleOutcomes
  <2> QED
    BY <2>1, <1>4, <1>5, <1>7, <1>8, <1>9, <1>10, <1>11, <1>12, Zenon

\* An answer to a block.
LEMMA ReadBlockAnswer ==
    ASSUME TypeInv, Flight, PhaseInv, phase = "data",
           NEW n \in 1..Len(toHost), Read(n),
           NEW i \in 1..n, Expected(toHost[i]), Handle(toHost[i])
    PROVE  OtaInv'
<1>1. /\ n \in Nat /\ i <= n /\ i \in DOMAIN toHost
      /\ \A j \in DOMAIN toHost' : n + j \in DOMAIN toHost /\ toHost'[j] = toHost[n + j]
      /\ DOMAIN toHost' \subseteq Nat
      /\ UNCHANGED <<sn, toDev, ask, stored, verified>>
  <2>1. Len(toHost) \in Nat /\ DOMAIN toHost = 1..Len(toHost)
    BY DEF TypeInv, TypeOK
  <2>2. /\ \A j \in DOMAIN toHost' : n + j \in DOMAIN toHost /\ toHost'[j] = toHost[n + j]
        /\ DOMAIN toHost' \subseteq Nat
        /\ UNCHANGED <<sn, first, last, toDev, ask, stored, verified, asks>>
    BY ReadRest
  <2> QED BY <2>1, <2>2
<1>2. waiting /\ Window /\ AsksForMore /\ (Sending \/ Sent)
  BY DEF Read, PhaseInv
<1>3. /\ \A j \in DOMAIN toDev' : toDev'[j].op = "data"
      /\ \A j \in DOMAIN toHost' : toHost'[j].op = "data"
  BY <1>1 DEF Flight
<1>4. CASE Stop
  BY <1>4 DEF Stop, OtaInv
<1>5. CASE Retry /\ ~Stop
  <2>1. attempt + 1 < Retries /\ attempt' = attempt + 1 /\ pos' = 0 /\ UNCHANGED <<phase, block>>
    BY <1>5 DEF Retry
  <2>2. (Window /\ AsksForMore /\ (Sending \/ Sent))'
    BY <1>1, <1>2, <2>1, RetryKeeps
  <2> QED BY <1>3, <2>1, <2>2 DEF OtaInv, Flight, PhaseInv
<1>6. CASE toHost[i].result = "ok" /\ GoTo(toHost[i].block)
  <2>1. attempt' = 0 /\ pos' = 0 /\ block' = toHost[i].block
        /\ phase' \in {"verify", "data", "failed"} /\ (phase' = "verify" => block' = NoBlock)
    BY <1>6 DEF GoTo
  <2>2. (Window /\ AsksForMore /\ Sending)'
    BY <1>1, <1>2, <1>6, <2>1, NextBlockKeeps
  <2>3. phase' = "verify" => Complete'
    BY <2>1, <2>2 DEF Complete, AsksForMore, Sending
  <2> QED BY <1>3, <2>1, <2>2, <2>3 DEF OtaInv, Flight, PhaseInv
<1> QED BY <1>4, <1>5, <1>6, HandleOutcomes

LEMMA ReadKeeps ==
    ASSUME TypeInv, OtaInv, phase # "failed", NEW n \in 1..Len(toHost), Read(n)
    PROVE  OtaInv'
<1> DEFINE good == {i \in 1..n : Expected(toHost[i])}
<1>1. Flight /\ PhaseInv
  BY DEF OtaInv
<1>2. CASE good = {}
  BY <1>1, <1>2, ReadNothing DEF OtaInv
<1>3. CASE good # {}
  <2>1. PICK i \in good : Handle(toHost[i])
    BY <1>3 DEF Read
  <2> QED BY <1>1, <2>1, ReadAnswer, ReadBlockAnswer
<1> QED BY <1>2, <1>3

-----------------------------------------------------------------------------
(* A step of the device.                                                   *)

\* The device reads the packet in front; before it has answered a request there
\* is nothing but answers to packets of a block.
LEMMA InFlightAfter ==
    ASSUME TypeInv, Flight, DeviceReads
    PROVE  /\ toDev \in Seq(Packets) /\ toHost \in Seq(Answers)
           /\ Len(toDev) \in Nat /\ DOMAIN toDev = 1..Len(toDev)
           /\ 1 \in DOMAIN toDev /\ Head(toDev) = toDev[1]
           /\ Len(toDev') = Len(toDev) - 1
           /\ \A i \in DOMAIN toDev' : i + 1 \in DOMAIN toDev /\ toDev'[i] = toDev[i + 1]
           /\ DOMAIN toDev' = 1..(Len(toDev) - 1)
           /\ \A i \in DOMAIN toHost : toHost[i].op = "data"
           /\ Head(toDev).op \in {"info", "can", "enter", "data", "verify", "result"}
           /\ \/ Head(toDev).op = "data"
              \/ /\ waiting /\ Head(toDev).op = phase /\ Head(toDev).sn = sn
                 /\ toDev' = <<>>
           /\ UNCHANGED <<phase, waiting, sn, block, attempt, pos, first, last, polls>>
<1>1. toDev \in Seq(Packets) /\ toHost \in Seq(Answers) /\ toDev # <<>> /\ toDev' = Tail(toDev)
  BY DEF DeviceReads, TypeInv, TypeOK
<1>2. Len(toDev) \in Nat /\ DOMAIN toDev = 1..Len(toDev) /\ 1 \in DOMAIN toDev /\ Head(toDev) = toDev[1]
  BY <1>1
<1>3. /\ toDev' \in Seq(Packets) /\ Len(toDev') = Len(toDev) - 1
      /\ \A i \in DOMAIN toDev' : i + 1 \in DOMAIN toDev /\ toDev'[i] = toDev[i + 1]
  BY <1>1, TailElements
<1>4. DOMAIN toDev' = 1..(Len(toDev) - 1)
  BY <1>3
<1>5. \A i \in DOMAIN toHost : toHost[i].op = "data"
  BY <1>1 DEF Flight
<1>6. Head(toDev) \in Packets
  BY <1>1, <1>2
<1>7. \/ Head(toDev).op = "data"
      \/ waiting /\ 1 = Len(toDev) /\ Head(toDev).op = phase /\ Head(toDev).sn = sn
  BY <1>2 DEF Flight
<1>8. 1 = Len(toDev) => toDev' = <<>>
  BY <1>1, <1>3
<1>9. UNCHANGED <<phase, waiting, sn, block, attempt, pos, first, last, polls>>
  BY DEF DeviceReads, hostVars
<1> QED BY <1>1, <1>2, <1>3, <1>4, <1>5, <1>6, <1>7, <1>8, <1>9 DEF Packets

\* What the device adds to the answers.
Answered ==
    \/ toHost' = toHost
    \/ \E r, b : Send(Head(toDev), r, b)

LEMMA DeviceAnswers ==
    ASSUME DeviceReads
    PROVE  Answered
BY DEF DeviceReads, Answered, DeviceInfo, DeviceEnter, DeviceData, DeviceRejects,
       DeviceRepeat, DeviceVerify, DeviceResult, deviceVars

LEMMA SendElements ==
    ASSUME TypeInv, NEW p, NEW r, NEW b, Send(p, r, b)
    PROVE  /\ DOMAIN toHost' = DOMAIN toHost \cup {Len(toHost) + 1}
           /\ Len(toHost') = Len(toHost) + 1 /\ Len(toHost) \in Nat
           /\ DOMAIN toHost = 1..Len(toHost)
           /\ \A i \in DOMAIN toHost : toHost'[i] = toHost[i]
           /\ toHost'[Len(toHost) + 1].op = p.op
           /\ toHost'[Len(toHost) + 1].sn = p.sn
           /\ toHost'[Len(toHost) + 1].result = r
           /\ toHost'[Len(toHost) + 1].block = b
<1>1. toHost \in Seq(Answers)
  BY DEF TypeInv, TypeOK
<1> DEFINE a == [op |-> p.op, sn |-> p.sn, result |-> r, block |-> b]
<1>2. toHost' = Append(toHost, a)
  BY DEF Send
<1>3. a.op = p.op /\ a.sn = p.sn /\ a.result = r /\ a.block = b
  OBVIOUS
<1> HIDE DEF a
<1> QED BY <1>1, <1>2, <1>3, AppendElements

LEMMA DeviceFlight ==
    ASSUME TypeInv, Flight, DeviceReads
    PROVE  Flight' /\ (NoData => NoData')
<1>1. /\ \A i \in DOMAIN toDev' : i + 1 \in DOMAIN toDev /\ toDev'[i] = toDev[i + 1]
      /\ DOMAIN toDev' = 1..(Len(toDev) - 1) /\ Len(toDev) \in Nat /\ Len(toDev') = Len(toDev) - 1
      /\ 1 \in DOMAIN toDev /\ Head(toDev) = toDev[1]
      /\ UNCHANGED <<phase, waiting, sn>>
  BY InFlightAfter
<1>2. \A i \in DOMAIN toHost : toHost[i].op = "data"
  BY InFlightAfter
<1>3. \/ Head(toDev).op = "data"
      \/ waiting /\ Head(toDev).op = phase /\ Head(toDev).sn = sn /\ toDev' = <<>>
  BY InFlightAfter
<1>4. \A i \in DOMAIN toDev' :
          \/ toDev'[i].op = "data"
          \/ waiting' /\ i = Len(toDev') /\ toDev'[i].op = phase' /\ toDev'[i].sn = sn'
  BY <1>1 DEF Flight
<1>5. NoData => \A i \in DOMAIN toDev' : toDev'[i].op # "data"
  BY <1>1 DEF NoData
<1>6. CASE toHost' = toHost
  BY <1>1, <1>2, <1>4, <1>5, <1>6 DEF Flight, NoData
<1>7. ASSUME NEW r, NEW b, Send(Head(toDev), r, b) PROVE Flight' /\ (NoData => NoData')
  <2>1. /\ DOMAIN toHost' = DOMAIN toHost \cup {Len(toHost) + 1}
        /\ Len(toHost') = Len(toHost) + 1
        /\ \A i \in DOMAIN toHost : toHost'[i] = toHost[i]
        /\ toHost'[Len(toHost) + 1].op = Head(toDev).op
        /\ toHost'[Len(toHost) + 1].sn = Head(toDev).sn
    BY <1>7, SendElements
  <2>2. Flight'
    BY <1>1, <1>2, <1>3, <1>4, <2>1 DEF Flight
  <2>3. NoData => NoData'
    BY <1>1, <1>5, <2>1 DEF NoData
  <2> QED BY <2>2, <2>3
<1> QED BY <1>6, <1>7, DeviceAnswers DEF Answered

LEMMA DeviceWindow ==
    ASSUME TypeInv, Flight, Window, DeviceReads
    PROVE  Window'
<1>1. /\ \A i \in DOMAIN toDev' : i + 1 \in DOMAIN toDev /\ toDev'[i] = toDev[i + 1]
      /\ DOMAIN toDev' = 1..(Len(toDev) - 1) /\ Len(toDev) \in Nat
      /\ DOMAIN toDev = 1..Len(toDev) /\ 1 \in DOMAIN toDev /\ Head(toDev) = toDev[1]
  BY InFlightAfter
<1>2. UNCHANGED <<sn, attempt, pos, first, last>>
  BY InFlightAfter
<1>3. /\ \A i \in DOMAIN toDev' : AgeAt(sn, toDev'[i].sn) <= AgeAt(sn, toDev[1].sn)
      /\ \A i, j \in DOMAIN toDev' : i <= j => AgeAt(sn, toDev'[j].sn) <= AgeAt(sn, toDev'[i].sn)
      /\ \A i \in DOMAIN toHost, j \in DOMAIN toDev' : AgeAt(sn, toDev'[j].sn) <= AgeAt(sn, toHost[i].sn)
      /\ (\A i \in DOMAIN toDev : Young(toDev[i].sn))'
  BY <1>1, <1>2 DEF Window, Age, Young
<1>4. CASE toHost' = toHost
  BY <1>2, <1>3, <1>4 DEF Window, Age, Young
<1>5. ASSUME NEW r, NEW b, Send(Head(toDev), r, b) PROVE Window'
  <2>1. /\ DOMAIN toHost' = DOMAIN toHost \cup {Len(toHost) + 1}
        /\ DOMAIN toHost = 1..Len(toHost) /\ Len(toHost) \in Nat
        /\ \A i \in DOMAIN toHost : toHost'[i] = toHost[i]
        /\ toHost'[Len(toHost) + 1].sn = toDev[1].sn
    <3>1. PICK p : p = Head(toDev)
      OBVIOUS
    <3>2. Send(p, r, b)
      BY <1>5, <3>1
    <3>3. p.sn = toDev[1].sn
      BY <1>1, <3>1
    <3> QED BY <3>2, <3>3, SendElements
  <2>2. (\A i \in DOMAIN toHost : Young(toHost[i].sn))'
    BY <1>1, <1>2, <2>1 DEF Window, Young, Age
  <2>3. \A i, j \in DOMAIN toHost' : i <= j => AgeAt(sn, toHost'[j].sn) <= AgeAt(sn, toHost'[i].sn)
    <3> SUFFICES ASSUME NEW i \in DOMAIN toHost', NEW j \in DOMAIN toHost', i <= j
                 PROVE  AgeAt(sn, toHost'[j].sn) <= AgeAt(sn, toHost'[i].sn)
      OBVIOUS
    <3>1. CASE i \in DOMAIN toHost /\ j \in DOMAIN toHost
      BY <2>1, <3>1 DEF Window, Age
    <3>2. CASE i \in DOMAIN toHost /\ j = Len(toHost) + 1
      BY <1>1, <2>1, <3>2 DEF Window, Age
    <3>3. CASE i = Len(toHost) + 1 /\ j = Len(toHost) + 1
      <4>1. AgeAt(sn, toDev[1].sn) \in Int
        BY <1>1, NumbersInFlight, AgeRange
      <4> QED BY <2>1, <3>3, <4>1
    <3> QED BY <2>1, <3>1, <3>2, <3>3
  <2>4. \A i \in DOMAIN toHost', j \in DOMAIN toDev' : AgeAt(sn, toDev'[j].sn) <= AgeAt(sn, toHost'[i].sn)
    BY <1>3, <2>1
  <2> QED BY <1>2, <1>3, <2>2, <2>3, <2>4 DEF Window, Age
<1> QED BY <1>4, <1>5, DeviceAnswers DEF Answered

\* What the device asks for, when it has some units, it does not have; and it
\* asks for nothing only when it has all.
LEMMA AskForNew ==
    ASSUME NEW units
    PROVE  /\ UnitsOf(AskFor(units)) \cap units = {}
           /\ AskFor(units) = NoBlock => Units \subseteq units
<1>1. CASE Units \subseteq units
  BY <1>1, AskForWanted, AskableBlocks
<1>2. CASE ~(Units \subseteq units)
  BY <1>2, AskForWanted, AskForAskable, AskableBlocks
<1> QED BY <1>1, <1>2

\* A packet of a block changes nothing the host relies on.
LEMMA DeviceBlocks ==
    ASSUME TypeInv, Flight, phase = "data", AsksForMore, Sending \/ Sent, DeviceReads
    PROVE  (AsksForMore /\ (Sending \/ Sent))'
<1> DEFINE p == Head(toDev)
<1>1. /\ \A i \in DOMAIN toDev' : i + 1 \in DOMAIN toDev /\ toDev'[i] = toDev[i + 1]
      /\ 1 \in DOMAIN toDev /\ p = toDev[1] /\ p.op = "data"
      /\ UNCHANGED <<sn, block, pos, first>>
  BY InFlightAfter
<1>2. UnitsOf(p.block) # {}
  BY <1>1, ReadByDevice, AskableBlocks DEF DeviceReads
<1>3. DeviceData(p) \/ DeviceRejects(p) \/ DeviceRepeat(p)
  BY <1>1 DEF DeviceReads, DeviceInfo, DeviceEnter, DeviceVerify, DeviceResult
<1> HIDE DEF p
<1>4. Sending \/ UnitsOf(p.block) \subseteq Kept
  BY <1>1 DEF Sent
<1>5. UnitsOf(p.block) \subseteq UnitsOf(ask) => Sending
  BY <1>2, <1>4 DEF Kept
<1>6. CASE DeviceData(p) /\ UNCHANGED <<ask, toHost>>
  <2>1. Sending /\ stored \subseteq stored'
    BY <1>5, <1>6 DEF DeviceData
  <2>2. AsksForMore'
    BY <1>6, <2>1 DEF AsksForMore
  <2>3. \A i \in DOMAIN toDev' :
          \/ UnitsOf(toDev'[i].block) \subseteq UnitsOf(ask)
          \/ UnitsOf(toDev'[i].block) \subseteq Kept /\ Old(toDev'[i].sn)
    BY <1>1, <2>1 DEF Sending
  <2>4. Sending'
    BY <1>1, <1>6, <2>1, <2>3 DEF Sending, Kept, Old, Age
  <2> QED BY <2>2, <2>4
<1>7. CASE /\ DeviceData(p) /\ UnitsOf(ask) \subseteq stored'
           /\ ask' = AskFor(stored') /\ Send(p, "ok", ask')
  <2>1. Sending /\ stored \subseteq stored'
    BY <1>5, <1>7 DEF DeviceData
  <2>2. UnitsOf(ask') \cap stored' = {} /\ AsksForMore'
    BY <1>7, AskForNew DEF AsksForMore
  <2>3. UnitsOf(block) \subseteq Kept'
    BY <1>7, <2>1, <2>2 DEF Sending, Kept
  <2>4. \A i \in DOMAIN toDev' : UnitsOf(toDev'[i].block) \subseteq stored'
    BY <1>1, <1>7, <2>1 DEF Sending, Kept
  <2>5. /\ DOMAIN toHost' = DOMAIN toHost \cup {Len(toHost) + 1}
        /\ \A i \in DOMAIN toHost : toHost'[i] = toHost[i]
        /\ toHost'[Len(toHost) + 1].block = ask'
    BY <1>7, SendElements
  <2>6. \A i \in DOMAIN toHost' :
          toHost'[i].result = "ok" => Old(toHost'[i].sn) \/ toHost'[i].block = ask'
    BY <2>1, <2>5 DEF Sending
  <2>7. Sent'
    BY <1>1, <2>2, <2>3, <2>4, <2>6 DEF Sent, Kept, Old, Age
  <2> QED BY <2>2, <2>7
<1>8. CASE DeviceRejects(p)
  <2>1. Sending /\ UNCHANGED ask /\ UnitsOf(ask) # {} /\ Kept' = Kept
    BY <1>2, <1>5, <1>8 DEF DeviceRejects, Kept
  <2>2. AsksForMore'
    BY <2>1, AskableBlocks DEF AsksForMore
  <2>3. /\ DOMAIN toHost' = DOMAIN toHost \cup {Len(toHost) + 1}
        /\ \A i \in DOMAIN toHost : toHost'[i] = toHost[i]
        /\ toHost'[Len(toHost) + 1].result = "fail"
    BY <1>8, SendElements DEF DeviceRejects
  <2>4. \A i \in DOMAIN toHost' : toHost'[i].result = "ok" => Old(toHost'[i].sn)
    BY <2>1, <2>3 DEF Sending
  <2>5. \A i \in DOMAIN toDev' :
          \/ UnitsOf(toDev'[i].block) \subseteq UnitsOf(ask)
          \/ UnitsOf(toDev'[i].block) \subseteq Kept /\ Old(toDev'[i].sn)
    BY <1>1, <2>1 DEF Sending
  <2>6. Sending'
    BY <1>1, <2>1, <2>4, <2>5 DEF Sending, Old, Age
  <2> QED BY <2>2, <2>6
<1>9. CASE DeviceRepeat(p)
  <2>1. UNCHANGED <<ask, stored>> /\ ~(UnitsOf(p.block) \subseteq UnitsOf(ask))
    BY <1>9 DEF DeviceRepeat, deviceVars
  <2>2. AsksForMore' /\ Kept' = Kept
    BY <2>1 DEF AsksForMore, Kept
  <2>3. \/ toHost' = toHost
        \/ /\ DOMAIN toHost' = DOMAIN toHost \cup {Len(toHost) + 1}
           /\ \A i \in DOMAIN toHost : toHost'[i] = toHost[i]
           /\ toHost'[Len(toHost) + 1].sn = p.sn
           /\ toHost'[Len(toHost) + 1].block = ask
    <3>1. CASE toHost' = toHost
      BY <3>1
    <3>2. CASE Send(p, "ok", ask)
      BY <3>2, SendElements
    <3> QED BY <1>9, <3>1, <3>2 DEF DeviceRepeat
  <2>4. ASSUME Sending PROVE Sending'
    <3>1. Old(p.sn)
      BY <1>1, <2>1, <2>4 DEF Sending
    <3>2. \A i \in DOMAIN toHost' : toHost'[i].result = "ok" => Old(toHost'[i].sn)
      BY <2>3, <2>4, <3>1 DEF Sending
    <3>3. \A i \in DOMAIN toDev' :
            \/ UnitsOf(toDev'[i].block) \subseteq UnitsOf(ask)
            \/ UnitsOf(toDev'[i].block) \subseteq Kept /\ Old(toDev'[i].sn)
      BY <1>1, <2>4 DEF Sending
    <3> QED BY <1>1, <2>1, <2>2, <2>4, <3>2, <3>3 DEF Sending, Old, Age
  <2>5. ASSUME Sent PROVE Sent'
    <3>1. \A i \in DOMAIN toHost' :
            toHost'[i].result = "ok" => Old(toHost'[i].sn) \/ toHost'[i].block = ask
      BY <2>3, <2>5 DEF Sent
    <3>2. \A i \in DOMAIN toDev' : UnitsOf(toDev'[i].block) \subseteq Kept
      BY <1>1, <2>5 DEF Sent
    <3> QED BY <1>1, <2>1, <2>2, <2>5, <3>1, <3>2 DEF Sent, Old, Age
  <2> QED BY <2>2, <2>4, <2>5
<1> QED
  <2>1. DeviceData(p) => \/ UNCHANGED <<ask, toHost>>
                         \/ /\ UnitsOf(ask) \subseteq stored'
                            /\ ask' = AskFor(stored') /\ Send(p, "ok", ask')
    BY DEF DeviceData
  <2> QED BY <1>3, <1>6, <1>7, <1>8, <1>9, <2>1

\* The device and the requests.
LEMMA DevicePhases ==
    ASSUME TypeInv, Flight, PhaseInv, phase \notin {"data", "failed"}, DeviceReads
    PROVE  PhaseInv'
<1> DEFINE p == Head(toDev)
<1>1. /\ \A i \in DOMAIN toHost : toHost[i].op = "data"
      /\ p.op \in {"info", "can", "enter", "data", "verify", "result"}
      /\ p.op = "data" \/ (waiting /\ p.op = phase /\ p.sn = sn /\ toDev' = <<>>)
      /\ 1 \in DOMAIN toDev /\ p = toDev[1]
      /\ UNCHANGED <<phase, waiting, sn, block, attempt, pos, first, last, polls>>
  BY InFlightAfter
<1>2. NoData => NoData' /\ p.op = phase /\ toHost = <<>>
  <2>1. NoData => NoData'
    BY DeviceFlight
  <2>2. NoData => p.op = phase
    BY <1>1 DEF NoData
  <2>3. toHost \in Seq(Answers) /\ (NoData => \A i \in DOMAIN toHost : FALSE)
    BY <1>1 DEF NoData, TypeInv, TypeOK
  <2> QED BY <2>1, <2>2, <2>3
<1> HIDE DEF p
<1>3. CASE phase \in {"info", "can"}
  BY <1>1, <1>2, <1>3 DEF PhaseInv
<1>4. CASE phase = "enter"
  <2>1. NoData' /\ p.op = "enter" /\ toHost = <<>>
    BY <1>2, <1>4 DEF PhaseInv
  <2>2. DeviceEnter(p)
    BY <2>1 DEF p, DeviceReads, DeviceInfo, DeviceData, DeviceRejects, DeviceRepeat, DeviceVerify, DeviceResult
  <2>3. ask' \in {AskFor(stored'), PastTheEnd} /\ Send(p, "ok", ask')
    BY <2>2 DEF DeviceEnter
  <2>4. AsksForMore'
    BY <2>3, AskForNew, OtaAssumption DEF AsksForMore, PastTheEnd, NoBlock
  <2>5. \A i \in DOMAIN toHost' : toHost'[i].result = "ok" /\ toHost'[i].block = ask'
    BY <2>1, <2>3, SendElements
  <2> QED BY <1>1, <1>4, <2>1, <2>4, <2>5 DEF PhaseInv
<1>5. CASE phase = "verify"
  <2>1. Complete /\ UnitsOf(ask) = {}
    BY <1>5, AskableBlocks DEF PhaseInv, Complete
  <2>2. CASE p.op = "data"
    <3>1. UnitsOf(p.block) # {}
      BY <1>1, <2>2, ReadByDevice, AskableBlocks DEF DeviceReads, p
    <3>2. DeviceRepeat(p)
      BY <2>1, <2>2, <3>1 DEF p, DeviceReads, DeviceInfo, DeviceEnter, DeviceData, DeviceRejects, DeviceVerify, DeviceResult
    <3>3. Complete' /\ verified' = verified
      BY <2>1, <3>2 DEF DeviceRepeat, Complete, deviceVars
    <3>4. \A i \in DOMAIN toHost' : toHost'[i].op = "data"
      <4>1. CASE toHost' = toHost
        BY <1>1, <4>1
      <4>2. CASE Send(p, "ok", ask)
        BY <1>1, <2>2, <4>2, SendElements
      <4> QED BY <3>2, <4>1, <4>2 DEF DeviceRepeat
    <3> QED BY <1>1, <1>5, <3>3, <3>4 DEF PhaseInv
  <2>3. CASE p.op = "verify"
    <3>1. DeviceVerify(p)
      BY <2>3 DEF p, DeviceReads, DeviceInfo, DeviceEnter, DeviceData, DeviceRejects, DeviceRepeat, DeviceResult
    <3>2. PICK r \in Results : verified' = (r = "ok") /\ Send(p, r, NoBlock)
      BY <3>1 DEF DeviceVerify
    <3>3. Complete'
      BY <2>1, <3>1 DEF DeviceVerify, Complete
    <3>4. \A i \in DOMAIN toHost' : toHost'[i].op = "verify" /\ toHost'[i].result = "ok" => r = "ok"
      BY <1>1, <3>2, SendElements
    <3>5. (r = "ok") => verified'
      BY <3>2, Zenon
    <3> QED BY <1>1, <1>5, <3>3, <3>4, <3>5 DEF PhaseInv
  <2> QED BY <1>1, <1>5, <2>2, <2>3
<1>6. CASE phase = "result"
  <2>1. NoData' /\ p.op = "result" /\ toHost = <<>> /\ Complete /\ verified
    BY <1>2, <1>6 DEF PhaseInv
  <2>2. DeviceResult(p)
    BY <2>1 DEF p, DeviceReads, DeviceInfo, DeviceEnter, DeviceData, DeviceRejects, DeviceRepeat, DeviceVerify
  <2>3. ASSUME NEW r, Send(p, r, NoBlock), UNCHANGED deviceVars PROVE PhaseInv'
    <3>1. Complete' /\ verified'
      BY <2>1, <2>3 DEF Complete, deviceVars
    <3>2. \A i \in DOMAIN toHost' : toHost'[i].block = NoBlock
      BY <2>1, <2>3, SendElements
    <3> QED BY <1>1, <1>6, <2>1, <3>1, <3>2 DEF PhaseInv
  <2>4. ASSUME NEW u, ask' = [off |-> u, len |-> 1], Send(p, "ok", ask') PROVE PhaseInv'
    <3>1. ask' # NoBlock
      BY <2>4 DEF NoBlock
    <3>2. toHost' # <<>> /\ \A i \in DOMAIN toHost' : toHost'[i].result = "ok" /\ toHost'[i].block = ask'
      BY <2>1, <2>4, SendElements
    <3> QED BY <1>1, <1>6, <2>1, <3>1, <3>2 DEF PhaseInv
  <2> QED BY <2>2, <2>3, <2>4 DEF DeviceResult
<1>7. CASE phase = "done"
  BY <1>1, <1>2, <1>7 DEF PhaseInv
<1> QED BY <1>1, <1>3, <1>4, <1>5, <1>6, <1>7 DEF TypeInv, TypeOK, Phases, Requests

LEMMA DeviceKeeps ==
    ASSUME TypeInv, OtaInv, phase # "failed", DeviceReads
    PROVE  OtaInv'
<1>1. Flight /\ PhaseInv /\ phase' = phase /\ Flight'
  BY InFlightAfter, DeviceFlight DEF OtaInv
<1>2. CASE phase = "data"
  <2>1. Window' /\ (AsksForMore /\ (Sending \/ Sent))'
    BY <1>1, <1>2, DeviceWindow, DeviceBlocks DEF PhaseInv
  <2> QED BY <1>1, <1>2, <2>1 DEF OtaInv, PhaseInv
<1>3. CASE phase # "data"
  BY <1>1, <1>3, DevicePhases DEF OtaInv
<1> QED BY <1>2, <1>3

-----------------------------------------------------------------------------
(* The other steps of the host.                                            *)

LEMMA RequestKeeps ==
    ASSUME TypeInv, OtaInv, phase # "failed", Request
    PROVE  OtaInv'
<1> DEFINE p == [op |-> phase, sn |-> NextSn(sn), block |-> NoBlock]
<1>1. /\ phase \in Requests /\ ~waiting /\ waiting' = TRUE /\ sn' = NextSn(sn)
      /\ toDev' = Append(toDev, p)
      /\ UNCHANGED <<phase, toHost, ask, stored, verified>>
  BY DEF Request, deviceVars
<1>2. /\ \A i \in DOMAIN toDev : toDev[i].op = "data"
      /\ \A i \in DOMAIN toHost : toHost[i].op = "data"
      /\ PhaseInv
  BY <1>1 DEF OtaInv, Flight
<1>3. /\ Len(toDev') = Len(toDev) + 1
      /\ DOMAIN toDev' = DOMAIN toDev \cup {Len(toDev) + 1}
      /\ \A i \in DOMAIN toDev : toDev'[i] = toDev[i]
      /\ toDev'[Len(toDev) + 1].op = phase /\ toDev'[Len(toDev) + 1].sn = sn'
  <2>1. toDev \in Seq(Packets) /\ p.op = phase /\ p.sn = sn'
    BY <1>1 DEF TypeInv, TypeOK
  <2> HIDE DEF p
  <2> QED BY <1>1, <2>1, AppendElements
<1>4. Flight'
  BY <1>1, <1>2, <1>3 DEF Flight
<1>5. phase # "data" /\ phase # "done"
  BY <1>1 DEF Requests
<1>6. NoData => NoData'
  BY <1>1, <1>3, <1>5 DEF NoData
<1> QED BY <1>1, <1>2, <1>4, <1>5, <1>6 DEF OtaInv, PhaseInv, Complete, AsksForMore

LEMMA SendChunkKeeps ==
    ASSUME TypeInv, OtaInv, phase # "failed", SendChunk
    PROVE  OtaInv'
<1> DEFINE p == [op |-> "data", sn |-> sn',
                 block |-> [off |-> block.off + pos, len |-> ChunkLen(block, pos)]]
<1>1. /\ phase = "data" /\ toDev' = Append(toDev, p)
      /\ UNCHANGED <<phase, toHost, ask, stored>>
  BY DEF SendChunk, deviceVars
<1>2. Flight /\ Window /\ AsksForMore /\ (Sending \/ Sent)
  BY <1>1 DEF OtaInv, PhaseInv
<1>3. Flight'
  <2>1. toDev \in Seq(Packets) /\ p.op = "data"
    BY DEF TypeInv, TypeOK
  <2> HIDE DEF p
  <2>2. /\ DOMAIN toDev' = DOMAIN toDev \cup {Len(toDev) + 1}
        /\ \A i \in DOMAIN toDev : toDev'[i] = toDev[i]
        /\ toDev'[Len(toDev) + 1].op = "data"
    BY <1>1, <2>1, AppendElements
  <2> QED BY <1>1, <1>2, <2>2 DEF Flight
<1>4. Window' /\ (Sending' \/ Sent')
  BY <1>2, SendChunkWindow, SendChunkBlocks
<1>5. AsksForMore'
  BY <1>1, <1>2 DEF AsksForMore
<1> QED BY <1>1, <1>3, <1>4, <1>5 DEF OtaInv, PhaseInv

LEMMA TimeoutKeeps ==
    ASSUME TypeInv, OtaInv, phase # "failed", Timeout
    PROVE  OtaInv'
<1>1. CASE Stop
  BY <1>1 DEF Stop, OtaInv
<1>2. CASE phase = "data" /\ Retry /\ ~Stop
  <2>1. /\ attempt + 1 < Retries /\ attempt' = attempt + 1 /\ pos' = 0
        /\ UNCHANGED <<phase, block, sn, toDev, toHost, ask, stored>>
    BY <1>2 DEF Retry, Timeout, deviceVars
  <2>2. Flight /\ Window /\ AsksForMore /\ (Sending \/ Sent)
    BY <1>2 DEF OtaInv, PhaseInv
  <2>3. \A i \in DOMAIN toHost' : 0 + i \in DOMAIN toHost /\ toHost'[i] = toHost[0 + i]
    BY <2>1 DEF TypeInv, TypeOK
  <2>4. DOMAIN toHost' \subseteq Nat
    BY <2>1 DEF TypeInv, TypeOK
  <2>5. (Window /\ AsksForMore /\ (Sending \/ Sent))'
    BY <1>2, <2>1, <2>2, <2>3, <2>4, RetryKeeps
  <2>6. Flight'
    BY <1>2, <2>1, <2>2 DEF Flight
  <2> QED BY <1>2, <2>1, <2>5, <2>6 DEF OtaInv, PhaseInv
<1> QED BY <1>1, <1>2 DEF Timeout

\* An upgrade that has failed has failed.
LEMMA FailedStays ==
    ASSUME phase = "failed", [Next]_vars
    PROVE  phase' = "failed"
<1>1. CASE \E n \in 1..Len(toHost) : Read(n)
  <2>1. PICK n \in 1..Len(toHost) : Read(n)
    BY <1>1
  <2>2. UNCHANGED phase \/ \E i \in 1..n : Handle(toHost[i])
    BY <2>1 DEF Read
  <2> QED BY <2>2, HandleOutcomes DEF Stop
<1>2. CASE Request \/ SendChunk
  BY <1>2 DEF Request, SendChunk, Requests
<1>3. CASE Timeout \/ ChannelFails
  BY <1>3 DEF Timeout, ChannelFails, Stop
<1>4. CASE DeviceReads \/ UNCHANGED vars
  BY <1>4 DEF DeviceReads, vars, hostVars
<1> QED BY <1>1, <1>2, <1>3, <1>4 DEF Next

-----------------------------------------------------------------------------
(* The invariant, and what it promises.                                    *)

LEMMA InitInv == Init => OtaInv
<1> SUFFICES ASSUME Init PROVE OtaInv
  OBVIOUS
<1>1. DOMAIN toDev = {} /\ DOMAIN toHost = {} /\ phase = "info"
  BY DEF Init
<1> QED BY <1>1 DEF OtaInv, Flight, PhaseInv, NoData

LEMMA StepKeepsInv == TypeInv /\ OtaInv /\ [Next]_vars => OtaInv'
<1> SUFFICES ASSUME TypeInv, OtaInv, [Next]_vars PROVE OtaInv'
  OBVIOUS
<1>1. CASE phase = "failed"
  BY <1>1, FailedStays DEF OtaInv
<1>2. CASE phase # "failed" /\ UNCHANGED vars
  <2>1. UNCHANGED <<phase, waiting, sn, block, attempt, pos, first, last, toDev, toHost, ask,
                    stored, verified>>
    BY <1>2 DEF vars, hostVars, deviceVars
  <2> QED BY <2>1 DEF OtaInv, Flight, PhaseInv, NoData, Window, Young, Age, Sending, Sent,
             Old, Kept, AsksForMore, Complete
<1>3. CASE phase # "failed" /\ Next
  <2>1. CASE ChannelFails
    BY <2>1 DEF ChannelFails, Stop, OtaInv
  <2> QED BY <1>3, <2>1, RequestKeeps, SendChunkKeeps, TimeoutKeeps, ReadKeeps, DeviceKeeps DEF Next
<1> QED BY <1>1, <1>2, <1>3

\* At every moment of an upgrade at most one request is unanswered, no packet in
\* flight is so old that its number comes again, and either the device still
\* waits for the block the host sends, or it has it and will be heard to say so
\* only with the block it wants next.
THEOREM UpgradeInvariant == Spec => []OtaInv
BY InitInv, StepKeepsInv, UpgradeTypes, PTL DEF Spec

\* upgrade() returns a result only when the device has every unit of the image
\* and has verified it since the last one was written.
THEOREM UpgradeIsComplete == Spec => []DoneIsComplete
<1>1. OtaInv => DoneIsComplete
  BY DEF OtaInv, PhaseInv, Complete, DoneIsComplete
<1> QED BY <1>1, UpgradeInvariant, PTL

\* send_data_block goes past a block only when the device has it: no late answer
\* to an earlier attempt, or to a packet sent twice, is taken for it.
THEOREM BlocksPassedAreStored == Spec => PassedIsStored
<1> DEFINE Passes == phase = "data" /\ waiting /\ phase' \in {"data", "verify"} /\ pos' = 0
                       /\ attempt' = 0
<1>1. TypeInv /\ OtaInv /\ [Next]_vars => [Passes => UnitsOf(block) \subseteq stored]_vars
  <2> SUFFICES ASSUME TypeInv, OtaInv, Next, Passes PROVE UnitsOf(block) \subseteq stored
    OBVIOUS
  <2>1. Window /\ (Sending \/ Sent) /\ attempt \in Nat
    BY OtaAssumption DEF OtaInv, PhaseInv, TypeInv, TypeOK
  <2>2. pos # 0
    BY OtaAssumption DEF TypeInv, InImage
  <2>3. ~Retry /\ ~Stop
    BY <2>1, OtaAssumption DEF Retry, Stop
  <2>4. CASE \E n \in 1..Len(toHost) : Read(n)
    <3>1. PICK n \in 1..Len(toHost) : Read(n)
      BY <2>4
    <3>2. PICK i \in 1..n : Expected(toHost[i]) /\ Handle(toHost[i])
      BY <2>2, <3>1 DEF Read
    <3>3. toHost[i].result = "ok"
      BY <2>3, <3>2, HandleOutcomes
    <3>4. i \in DOMAIN toHost
      BY DEF TypeInv, TypeOK
    <3> QED BY <2>1, <3>2, <3>3, <3>4, AcceptedOk DEF Sent, Kept
  <2>5. CASE Request \/ SendChunk
    BY <2>5 DEF Request, SendChunk
  <2>6. CASE Timeout \/ ChannelFails
    BY <2>3, <2>6 DEF Timeout, ChannelFails
  <2>7. CASE DeviceReads
    BY <2>2, <2>7 DEF DeviceReads, hostVars
  <2> QED BY <2>4, <2>5, <2>6, <2>7 DEF Next
<1>2. [][Passes => UnitsOf(block) \subseteq stored]_vars => PassedIsStored
  BY DEF PassedIsStored
<1> QED BY <1>1, <1>2, UpgradeTypes, UpgradeInvariant, PTL DEF Spec
=============================================================================
