-------------------------- MODULE ImageClient_proofs --------------------------
(***************************************************************************)
(* Proofs about ImageClient, for any photos, any number of group ids, and  *)
(* any number of sub-frames under way, names and calls of start().         *)
(***************************************************************************)
EXTENDS ImageClient, TLAPS

-----------------------------------------------------------------------------
(* The types that the proofs use.                                          *)

SomeHalves == [img : Images, seq : Nat, part : {1, 2}]
SomePhotos == [head : Int, chunks : Seq(SomeHalves), tail : Int]
Files      == [photo : SomePhotos, path : Int]

TypeInv ==
    /\ image \in 0..Len(Bodies)
    /\ sending => image \in Images
    /\ next \in Nat
    /\ buf \in Seq(SomeHalves)
    /\ air \in Seq(SomeHalves)
    /\ opened \in 0..Len(Bodies)
    /\ chunks \in Seq(SomeHalves)
    /\ saving \in SomePhotos
    /\ saved \in Seq(Files)
    /\ names \in Nat
    /\ nextPath \in Int
    /\ path \in Int

\* A piece of a sequence.
LEMMA Pieces ==
    ASSUME NEW S, NEW s \in Seq(S), NEW n \in Nat, n <= Len(s)
    PROVE  /\ SubSeq(s, 1, n) \in Seq(S) /\ Len(SubSeq(s, 1, n)) = n
           /\ \A i \in 1..n : SubSeq(s, 1, n)[i] = s[i]
           /\ SubSeq(s, n + 1, Len(s)) \in Seq(S) /\ Len(SubSeq(s, n + 1, Len(s))) = Len(s) - n
           /\ \A i \in 1..(Len(s) - n) : SubSeq(s, n + 1, Len(s))[i] = s[n + i]
<1>1. SubSeq(s, 1, n) \in Seq(S) /\ SubSeq(s, n + 1, Len(s)) \in Seq(S)
  OBVIOUS
<1> QED BY <1>1

\* A sequence and another behind it.
LEMMA Joined ==
    ASSUME NEW S, NEW s \in Seq(S), NEW t \in Seq(S)
    PROVE  /\ s \o t \in Seq(S) /\ Len(s \o t) = Len(s) + Len(t)
           /\ \A i \in 1..Len(s) : (s \o t)[i] = s[i]
           /\ \A i \in 1..Len(t) : (s \o t)[Len(s) + i] = t[i]
OBVIOUS

LEMMA JoinedThrice ==
    ASSUME NEW S
    PROVE  \A s, t, u \in Seq(S) : (s \o t) \o u = s \o (t \o u)
OBVIOUS

LEMMA InitTypes == Init => TypeInv
<1> SUFFICES ASSUME Init PROVE TypeInv
  OBVIOUS
<1>1. /\ buf \in Seq(SomeHalves) /\ air \in Seq(SomeHalves) /\ chunks \in Seq(SomeHalves)
      /\ saved \in Seq(Files)
  BY DEF Init
<1>2. saving \in SomePhotos
  BY DEF Init, NoPhoto, SomePhotos
<1>3. Len(Bodies) \in Nat
  BY ImageAssumption
<1> QED BY <1>1, <1>2, <1>3 DEF Init, TypeInv, NoName

LEMMA DeviceTypes ==
    ASSUME TypeInv, BeginImage \/ (\E lost \in BOOLEAN : SendSubFrame(lost)) \/ LinkDrop
    PROVE  TypeInv'
<1>0. Len(Bodies) \in Nat
  BY ImageAssumption
<1>1. CASE BeginImage
  BY <1>0, <1>1 DEF BeginImage, TypeInv, Images, assembly, saveVars, nameVars
<1>2. ASSUME NEW lost \in BOOLEAN, SendSubFrame(lost) PROVE TypeInv'
  <2> DEFINE first == [img |-> image, seq |-> next, part |-> 1]
             second == [img |-> image, seq |-> next, part |-> 2]
  <2>1. first \in SomeHalves /\ second \in SomeHalves
    BY <1>2 DEF SendSubFrame, TypeInv, SomeHalves
  <2>2. air' = air \/ air' = air \o <<first, second>>
    BY <1>2 DEF SendSubFrame
  <2> HIDE DEF first, second
  <2>3. air' \in Seq(SomeHalves)
    <3>1. <<first, second>> \in Seq(SomeHalves) /\ air \in Seq(SomeHalves)
      BY <2>1 DEF TypeInv
    <3> QED BY <2>2, <3>1, Joined
  <2> QED BY <1>2, <2>3 DEF SendSubFrame, TypeInv, assembly, saveVars, nameVars
<1>3. CASE LinkDrop
  <2>1. PICK n \in 0..Len(air) : air' = SubSeq(air, 1, n)
    BY <1>3 DEF LinkDrop
  <2>2. air' \in Seq(SomeHalves)
    BY <2>1, Pieces DEF TypeInv
  <2> QED BY <1>3, <2>2 DEF LinkDrop, TypeInv, assembly, saveVars, nameVars
<1> QED BY <1>1, <1>2, <1>3

\* What becomes of a sub-frame that completes no photo.
LEMMA FeedOutcomes ==
    ASSUME Feed
    PROVE  \/ IsHead(Head(buf)) /\ OnHead(Head(buf))
           \/ /\ collecting /\ ~broken /\ chunks' = Append(chunks, buf[2])
              /\ Group(Head(buf).img) = Group(opened) /\ Head(buf).seq = ExpectedSeq
              /\ UNCHANGED <<collecting, broken, opened>>
           \/ MarkBroken
           \/ UNCHANGED <<collecting, broken, opened, chunks>>
BY DEF Feed, OnBody, assembly

LEMMA ParserTypes ==
    ASSUME TypeInv, (\E n \in 1..Len(air) : Read(n)) \/ Resync \/ Feed \/ FeedLast
    PROVE  TypeInv'
<1>1. ASSUME NEW n \in 1..Len(air), Read(n) PROVE TypeInv'
  <2>1. /\ SubSeq(air, 1, n) \in Seq(SomeHalves)
        /\ SubSeq(air, n + 1, Len(air)) \in Seq(SomeHalves)
    BY Pieces DEF TypeInv
  <2>2. buf' \in Seq(SomeHalves) /\ air' \in Seq(SomeHalves)
    BY <1>1, <2>1 DEF Read, TypeInv
  <2> QED BY <1>1, <2>2 DEF Read, TypeInv, deviceVars, assembly, saveVars, nameVars
<1>2. CASE Resync
  BY <1>2 DEF Resync, Skippable, TypeInv, deviceVars, assembly, saveVars, nameVars
<1>3. CASE Feed \/ FeedLast
  <2>1. Len(buf) \in Nat /\ Len(buf) >= 2 /\ buf' = SubSeq(buf, 2 + 1, Len(buf))
        /\ buf[2] \in SomeHalves /\ Head(buf) \in SomeHalves
    BY <1>3 DEF Feed, FeedLast, Complete, TypeInv
  <2>2. buf' \in Seq(SomeHalves)
    BY <2>1, Pieces DEF TypeInv
  <2>3. Head(buf).img \in 0..Len(Bodies) /\ <<>> \in Seq(SomeHalves)
    BY <2>1 DEF SomeHalves, Images
  <2>4. opened' \in 0..Len(Bodies) /\ chunks' \in Seq(SomeHalves)
    <3>1. CASE Feed
      <4>1. opened' \in {Head(buf).img, opened}
        BY <3>1, FeedOutcomes DEF OnHead, MarkBroken
      <4>2. chunks' = <<>> \/ chunks' = chunks \/ chunks' = Append(chunks, buf[2])
        BY <3>1, FeedOutcomes DEF OnHead, MarkBroken
      <4>3. Append(chunks, buf[2]) \in Seq(SomeHalves)
        BY <2>1 DEF TypeInv
      <4> QED BY <2>3, <4>1, <4>2, <4>3 DEF TypeInv
    <3>2. CASE FeedLast
      BY <2>3, <3>2 DEF FeedLast, TypeInv
    <3> QED BY <1>3, <3>1, <3>2
  <2>5. saving' \in SomePhotos
    <3>1. CASE FeedLast
      <4>1. opened \in Int /\ chunks \in Seq(SomeHalves)
        BY DEF TypeInv
      <4>2. Head(buf).img \in Int
        BY <2>3
      <4> QED BY <3>1, <4>1, <4>2 DEF FeedLast, SomePhotos
    <3>2. CASE Feed
      BY <3>2 DEF Feed, TypeInv, saveVars
    <3> QED BY <1>3, <3>1, <3>2
  <2>6. UNCHANGED <<image, sending, next, air, saved, names, nextPath, path>>
    BY <1>3 DEF Feed, FeedLast, deviceVars, saveVars, nameVars
  <2> QED BY <2>2, <2>4, <2>5, <2>6 DEF TypeInv
<1> QED BY <1>1, <1>2, <1>3

LEMMA SaveTypes ==
    ASSUME TypeInv, SaveLook \/ SaveTake \/ SaveClear \/ SaveWrite \/ SaveFails
    PROVE  TypeInv'
<1>1. CASE SaveLook \/ SaveTake \/ SaveClear
  <2>1. UNCHANGED <<image, sending, next, buf, air, opened, chunks, saving, saved, names>>
    BY <1>1 DEF SaveLook, SaveTake, SaveClear, saveVars, nameVars, deviceVars, assembly
  <2>2. path' \in Int /\ nextPath' \in Int
    <3>1. path \in Int /\ nextPath \in Int
      BY DEF TypeInv
    <3>2. path' \in {path, nextPath, DEFAULT} /\ nextPath' \in {nextPath, NoName}
      BY <1>1 DEF SaveLook, SaveTake, SaveClear, saveVars, nameVars
    <3> QED BY <3>1, <3>2 DEF NoName, DEFAULT
  <2> QED BY <2>1, <2>2 DEF TypeInv
<1>2. NoPhoto \in SomePhotos
  BY DEF NoPhoto, SomePhotos
<1>3. CASE SaveWrite
  <2>1. [photo |-> saving, path |-> path] \in Files
    BY DEF TypeInv, Files
  <2>2. saved' \in Seq(Files)
    BY <1>3, <2>1 DEF SaveWrite, TypeInv
  <2> QED BY <1>2, <1>3, <2>2 DEF SaveWrite, TypeInv, NoName, deviceVars, assembly, nameVars
<1>4. CASE SaveFails
  <2>1. Len(buf) \in Nat /\ Len(buf) - (Len(buf) % 2) \in Nat /\ Len(buf) - (Len(buf) % 2) <= Len(buf)
    BY DEF TypeInv
  <2>2. buf' = SubSeq(buf, (Len(buf) - (Len(buf) % 2)) + 1, Len(buf))
    BY <1>4, <2>1 DEF SaveFails
  <2>3. buf' \in Seq(SomeHalves)
    BY <2>1, <2>2, Pieces DEF TypeInv
  <2> QED BY <1>2, <1>4, <2>3 DEF SaveFails, TypeInv, NoName, deviceVars, assembly, nameVars
<1> QED BY <1>1, <1>3, <1>4

LEMMA CallerTypes ==
    ASSUME TypeInv,
           \/ SetName \/ UnsetName \/ Start \/ CloseBegin \/ CloseEnd
           \/ ReaderFails \/ ReaderExits \/ UNCHANGED vars
    PROVE  TypeInv'
<1>1. CASE SetName \/ UnsetName
  <2>1. UNCHANGED <<image, sending, next, buf, air, opened, chunks, saving, saved, path>>
    BY <1>1 DEF SetName, UnsetName, saveVars, deviceVars, assembly
  <2>2. names' \in Nat /\ nextPath' \in Int
    BY <1>1 DEF SetName, UnsetName, TypeInv, NoName
  <2> QED BY <2>1, <2>2 DEF TypeInv
<1>2. CASE Start \/ CloseBegin \/ ReaderFails \/ ReaderExits \/ UNCHANGED vars
  <2>1. UNCHANGED <<image, sending, next, buf, air, opened, chunks, saving, saved, path, nextPath, names>>
    BY <1>2 DEF Start, CloseBegin, ReaderFails, ReaderExits, vars, saveVars, nameVars, deviceVars, assembly
  <2> QED BY <2>1 DEF TypeInv
<1>3. CASE CloseEnd
  BY <1>3 DEF CloseEnd, TypeInv, saveVars, nameVars
<1> QED BY <1>1, <1>2, <1>3

LEMMA ImageTypes == Spec => []TypeInv
<1>1. TypeInv /\ [Next]_vars => TypeInv'
  BY DeviceTypes, ParserTypes, SaveTypes, CallerTypes DEF Next, ReaderStep
<1> QED BY <1>1, InitTypes, PTL DEF Spec

-----------------------------------------------------------------------------
(* Names.                                                                  *)

Used == {saved[i].path : i \in 1..Len(saved)}

\* Names are taken in order, and one that was used for a file is neither set
\* nor in the hands of the reader; once the reader has cleared the name it
\* took, the name set is another.
NameInv ==
    /\ nextPath \in 0..names
    /\ path \in -1..names
    /\ Used \subseteq -1..names /\ NoName \notin Used
    /\ nextPath \notin Used
    /\ path # DEFAULT => path \notin Used
    /\ reader = "write" /\ path # NoName => path # nextPath
    /\ NoOverwrite

LEMMA NamesUntouched ==
    ASSUME NameInv, UNCHANGED <<saved, path, nextPath, names>>,
           reader' = "write" => reader = "write"
    PROVE  NameInv'
BY DEF NameInv, Used, NoOverwrite

LEMMA NameStep ==
    ASSUME TypeInv, NameInv, [Next]_vars
    PROVE  NameInv'
<1>0. names \in Nat /\ NoName = 0 /\ DEFAULT = -1
  BY DEF TypeInv, NoName, DEFAULT
<1>1. CASE BeginImage \/ (\E lost \in BOOLEAN : SendSubFrame(lost)) \/ LinkDrop
  BY <1>1, NamesUntouched DEF BeginImage, SendSubFrame, LinkDrop, saveVars, nameVars
<1>2. CASE (\E n \in 1..Len(air) : Read(n)) \/ Resync \/ Feed \/ FeedLast
  BY <1>2, NamesUntouched DEF Read, Resync, Feed, FeedLast, saveVars, nameVars
<1>3. CASE Start \/ CloseBegin \/ CloseEnd \/ ReaderFails \/ ReaderExits \/ UNCHANGED vars
  BY <1>3, NamesUntouched
     DEF Start, CloseBegin, CloseEnd, ReaderFails, ReaderExits, vars, saveVars, nameVars
<1>4. CASE SaveLook
  <2>1. UNCHANGED <<saved, nextPath, names>> /\ Used' = Used
    BY <1>4 DEF SaveLook, nameVars, Used
  <2>2. (reader' = "take" /\ path' = path) \/ path' = DEFAULT
    BY <1>4 DEF SaveLook
  <2> QED BY <1>0, <2>1, <2>2 DEF NameInv, NoOverwrite
<1>5. CASE SaveTake
  <2>1. UNCHANGED <<saved, nextPath, names>> /\ Used' = Used /\ path' = nextPath /\ reader' = "clear"
    BY <1>5 DEF SaveTake, nameVars, Used
  <2> QED BY <1>0, <2>1 DEF NameInv, NoOverwrite
<1>6. CASE SaveClear
  <2>1. UNCHANGED <<saved, path, names>> /\ Used' = Used /\ nextPath' = 0
    BY <1>0, <1>6 DEF SaveClear, saveVars, Used
  <2> QED BY <1>0, <2>1 DEF NameInv, NoOverwrite
<1>7. CASE SaveWrite
  <2> DEFINE file == [photo |-> saving, path |-> path]
  <2>1. UNCHANGED <<nextPath, names>> /\ path' = 0 /\ reader' = "read" /\ reader = "write" /\ path # 0
        /\ saved' = Append(saved, file)
    BY <1>0, <1>7 DEF SaveWrite, nameVars
  <2>2. saved \in Seq(Files) /\ file.path = path
    BY DEF TypeInv
  <2> HIDE DEF file
  <2>3. /\ Len(saved') = Len(saved) + 1 /\ Len(saved) \in Nat
        /\ \A i \in 1..Len(saved) : saved'[i] = saved[i]
        /\ saved'[Len(saved) + 1].path = path
    BY <2>1, <2>2
  <2>4. Used' = Used \cup {path}
    BY <2>3 DEF Used
  <2>5. \A i \in 1..Len(saved) : saved[i].path \in Used
    BY DEF Used
  <2>6. NoOverwrite'
    BY <2>3, <2>5 DEF NameInv, NoOverwrite
  <2> QED BY <1>0, <2>1, <2>4, <2>6 DEF NameInv
<1>8. CASE SaveFails
  <2>1. UNCHANGED <<saved, nextPath, names>> /\ Used' = Used /\ path' = 0 /\ reader' = "none"
    BY <1>0, <1>8 DEF SaveFails, nameVars, Used
  <2> QED BY <1>0, <2>1 DEF NameInv, NoOverwrite
<1>9. CASE SetName \/ UnsetName
  <2>1. UNCHANGED <<saved, path>> /\ Used' = Used /\ names' \in {names, names + 1}
        /\ nextPath' \in {0, names'} /\ (nextPath' # 0 => names' = names + 1)
    BY <1>0, <1>9 DEF SetName, UnsetName, saveVars, Used
  <2> QED BY <1>0, <2>1 DEF NameInv, NoOverwrite
<1> QED BY <1>1, <1>2, <1>3, <1>4, <1>5, <1>6, <1>7, <1>8, <1>9 DEF Next, ReaderStep

\* A name set for one photo never names the file of another: set_next_photo_path
\* may come at any point of _save_image, which no lock protects.
THEOREM NamesAreNotReused == Spec => []NoOverwrite
<1>1. Init => NameInv
  <2> SUFFICES ASSUME Init PROVE NameInv
    OBVIOUS
  <2>1. saved = <<>> /\ Used = {}
    BY DEF Init, Used
  <2> QED BY <2>1 DEF Init, NameInv, NoName, DEFAULT, NoOverwrite
<1>2. TypeInv /\ NameInv /\ [Next]_vars => NameInv'
  BY NameStep
<1>3. NameInv => NoOverwrite
  BY DEF NameInv
<1> QED BY <1>1, <1>2, <1>3, ImageTypes, PTL DEF Spec

-----------------------------------------------------------------------------
(* The stream of halves: what is in the buffer, then what is on its way.   *)

Stream == buf \o air

SecondOf(h) == [img |-> h.img, seq |-> h.seq, part |-> 2]

\* After d halves the stream is made of whole sub-frames; the last may be cut.
Framed(s, d) ==
    \A i \in 1..Len(s) : i > d =>
        IF (i - d) % 2 = 1 THEN s[i].part = 1 ELSE s[i] = SecondOf(s[i - 1])

\* Nothing is out of step; or the first half of a sub-frame whose link was lost
\* is still in front, while no photo is in progress; or the half that was taken
\* for its data leaves its own data in front, to be skipped.
InStep == Framed(Stream, 0) /\ (link = "up" => Len(Stream) % 2 = 0)
OutOfStep ==
    /\ Len(Stream) > 0
    /\ Framed(Stream, 1)
    /\ link = "up" => Len(Stream) % 2 = 1
    /\ Stream[1].part = 2 \/ (buf # <<>> /\ ~collecting)
    /\ reader \in {"read", "none"}

StreamInv ==
    /\ reader = "none" => Len(buf) <= 1
    /\ link = "closed" => air = <<>> /\ reader = "none" /\ ~collecting
    /\ InStep \/ OutOfStep

LEMMA StreamElements ==
    ASSUME TypeInv
    PROVE  /\ Stream \in Seq(SomeHalves)
           /\ Len(buf) \in Nat /\ Len(air) \in Nat /\ Len(Stream) = Len(buf) + Len(air)
           /\ \A i \in 1..Len(buf) : Stream[i] = buf[i]
           /\ \A i \in 1..Len(air) : Stream[Len(buf) + i] = air[i]
BY Joined DEF TypeInv, Stream

\* The same of the stream after a step.
LEMMA StreamAfter ==
    ASSUME TypeInv'
    PROVE  /\ Stream' = buf' \o air' /\ Stream' \in Seq(SomeHalves)
           /\ Len(buf') \in Nat /\ Len(air') \in Nat /\ Len(Stream') = Len(buf') + Len(air')
           /\ \A i \in 1..Len(buf') : Stream'[i] = buf'[i]
           /\ \A i \in 1..Len(air') : Stream'[Len(buf') + i] = air'[i]
<1>1. buf' \in Seq(SomeHalves) /\ air' \in Seq(SomeHalves) /\ Stream' = buf' \o air'
  BY DEF TypeInv, Stream
<1> QED BY <1>1, Joined

\* What is cut from the end leaves the framing of the rest.
LEMMA FramedFront ==
    ASSUME NEW s \in Seq(SomeHalves), NEW t \in Seq(SomeHalves), NEW d \in {0, 1},
           Len(t) <= Len(s), \A i \in 1..Len(t) : t[i] = s[i], Framed(s, d)
    PROVE  Framed(t, d)
<1>1. \A i \in 1..Len(t) : i \in 1..Len(s) /\ t[i] = s[i]
  OBVIOUS
<1>2. ASSUME NEW i \in 1..Len(t), i > d
      PROVE  IF (i - d) % 2 = 1 THEN t[i].part = 1 ELSE t[i] = SecondOf(t[i - 1])
  <2>1. i - 1 \in 1..Len(t) \/ i = 1
    BY <1>2
  <2>2. i = 1 => (i - d) % 2 = 1
    BY <1>2
  <2> QED BY <1>1, <1>2, <2>1, <2>2 DEF Framed
<1> QED BY <1>2 DEF Framed

LEMMA EvenApart ==
    \A a, b \in Int : b % 2 = 0 => (a + b) % 2 = a % 2
OBVIOUS

\* A whole number of sub-frames may go from the front, or one half that is out
\* of step.
LEMMA FramedRest ==
    ASSUME NEW s \in Seq(SomeHalves), NEW t \in Seq(SomeHalves), NEW d \in {0, 1}, NEW e \in {0, 1},
           NEW m \in Nat, Len(t) = Len(s) - m, \A i \in 1..Len(t) : t[i] = s[m + i], Framed(s, d),
           (m + e - d) % 2 = 0, m + e >= d
    PROVE  Framed(t, e)
<1> SUFFICES ASSUME NEW i \in 1..Len(t), i > e
             PROVE  IF (i - e) % 2 = 1 THEN t[i].part = 1 ELSE t[i] = SecondOf(t[i - 1])
  BY DEF Framed
<1>1. m + i \in 1..Len(s) /\ m + i > d /\ t[i] = s[m + i]
  OBVIOUS
<1>2. ((m + i) - d) % 2 = (i - e) % 2
  <2>1. (m + i) - d = (i - e) + (m + e - d)
    OBVIOUS
  <2>2. i - e \in Int /\ m + e - d \in Int
    OBVIOUS
  <2> QED BY <2>1, <2>2, EvenApart
<1>3. CASE (i - e) % 2 = 1
  BY <1>1, <1>2, <1>3 DEF Framed
<1>4. CASE (i - e) % 2 # 1
  <2>1. s[m + i] = SecondOf(s[(m + i) - 1])
    BY <1>1, <1>2, <1>4 DEF Framed
  <2>2. i - 1 \in 1..Len(t) /\ (m + i) - 1 = m + (i - 1)
    <3>1. CASE e = 0
      <4>1. (1 - 0) % 2 = 1
        OBVIOUS
      <4>2. i # 1
        BY <1>4, <3>1, <4>1
      <4> QED BY <4>2
    <3>2. CASE e = 1
      BY <3>2
    <3> QED BY <3>1, <3>2
  <2> QED BY <1>1, <1>4, <2>1, <2>2
<1> QED BY <1>3, <1>4

\* A sub-frame more.
LEMMA FramedMore ==
    ASSUME NEW s \in Seq(SomeHalves), NEW t \in Seq(SomeHalves), NEW d \in {0, 1},
           Len(t) = Len(s) + 2, \A i \in 1..Len(s) : t[i] = s[i], Framed(s, d),
           Len(s) >= d, Len(s) % 2 = d,
           t[Len(s) + 1].part = 1, t[Len(s) + 2] = SecondOf(t[Len(s) + 1])
    PROVE  Framed(t, d)
<1> SUFFICES ASSUME NEW i \in 1..Len(t), i > d
             PROVE  IF (i - d) % 2 = 1 THEN t[i].part = 1 ELSE t[i] = SecondOf(t[i - 1])
  BY DEF Framed
<1>1. CASE i \in 1..Len(s)
  <2>1. (i - d) % 2 # 1 => i - 1 \in 1..Len(s)
    BY <1>1
  <2> QED BY <1>1, <2>1 DEF Framed
<1>2. CASE i = Len(s) + 1
  <2>1. (i - d) % 2 = 1
    BY <1>2
  <2> QED BY <1>2, <2>1
<1>3. CASE i = Len(s) + 2
  <2>1. (i - d) % 2 = 0 /\ i - 1 = Len(s) + 1
    BY <1>3
  <2> QED BY <1>3, <2>1
<1>4. i \in 1..Len(s) \/ i = Len(s) + 1 \/ i = Len(s) + 2
  OBVIOUS
<1> QED BY <1>1, <1>2, <1>3, <1>4

\* Halves that leave the front of the buffer leave the front of the stream.
LEMMA FrontGone ==
    ASSUME TypeInv, TypeInv', NEW m \in Nat, m <= Len(buf), air' = air,
           buf' = SubSeq(buf, m + 1, Len(buf))
    PROVE  /\ Len(Stream') = Len(Stream) - m /\ Len(buf') = Len(buf) - m
           /\ \A i \in 1..Len(Stream') : Stream'[i] = Stream[m + i]
           /\ Stream' \in Seq(SomeHalves)
<1>1. /\ Len(Stream) = Len(buf) + Len(air) /\ Len(buf) \in Nat /\ Len(air) \in Nat
      /\ \A i \in 1..Len(buf) : Stream[i] = buf[i]
      /\ \A i \in 1..Len(air) : Stream[Len(buf) + i] = air[i]
  BY StreamElements
<1>2. /\ Stream' = buf' \o air' /\ Stream' \in Seq(SomeHalves) /\ Len(Stream') = Len(buf') + Len(air')
      /\ \A i \in 1..Len(buf') : Stream'[i] = buf'[i]
      /\ \A i \in 1..Len(air') : Stream'[Len(buf') + i] = air'[i]
  BY StreamAfter
<1>3. Len(buf') = Len(buf) - m /\ \A i \in 1..(Len(buf) - m) : buf'[i] = buf[m + i]
  <2>1. buf \in Seq(SomeHalves)
    BY DEF TypeInv
  <2> QED BY <2>1, Pieces
<1>4. ASSUME NEW i \in 1..Len(Stream') PROVE Stream'[i] = Stream[m + i]
  <2>1. CASE i <= Len(buf')
    BY <1>1, <1>2, <1>3, <2>1
  <2>2. CASE i > Len(buf')
    <3>1. Len(Stream') = Len(buf') + Len(air) /\ Len(buf') \in Nat /\ Len(air) \in Nat
      BY <1>1, <1>2, <1>3
    <3>2. PICK j \in 1..Len(air) : i = Len(buf') + j
      <4>1. i - Len(buf') \in 1..Len(air) /\ i = Len(buf') + (i - Len(buf'))
        BY <2>2, <3>1
      <4> QED BY <4>1
    <3>3. Stream'[Len(buf') + j] = air[j] /\ Stream[Len(buf) + j] = air[j]
      BY <1>1, <1>2
    <3>4. Len(buf) + j = m + i
      BY <1>1, <1>3, <3>1, <3>2
    <3> QED BY <3>2, <3>3, <3>4
  <2> QED BY <1>1, <1>2, <1>3, <2>1, <2>2
<1>5. Len(Stream') = Len(Stream) - m
  <2>1. Len(Stream') = Len(buf') + Len(air) /\ Len(buf') = Len(buf) - m
    BY <1>2, <1>3
  <2>2. Len(Stream) = Len(buf) + Len(air) /\ Len(buf) \in Int /\ Len(air) \in Int /\ m \in Int
    BY <1>1
  <2>3. \A a, b \in Int : (a - m) + b = (a + b) - m
    OBVIOUS
  <2> QED BY <2>1, <2>2, <2>3
<1> QED BY <1>2, <1>3, <1>4, <1>5

-----------------------------------------------------------------------------
(* The framing is kept.                                                    *)

\* Steps that move no half.
LEMMA StreamUntouched ==
    ASSUME StreamInv, UNCHANGED <<buf, air, link, collecting>>,
           reader \in {"none", "read"} => reader' = reader,
           reader' = "none" => reader = "none"
    PROVE  StreamInv'
BY DEF StreamInv, InStep, OutOfStep, Stream

LEMMA SendKeepsStream ==
    ASSUME TypeInv, TypeInv', StreamInv, NEW lost \in BOOLEAN, SendSubFrame(lost)
    PROVE  StreamInv'
<1> DEFINE first == [img |-> image, seq |-> next, part |-> 1]
           second == [img |-> image, seq |-> next, part |-> 2]
<1>1. /\ link = "up" /\ UNCHANGED <<buf, link, collecting, reader>>
      /\ air' = air \/ air' = air \o <<first, second>>
  BY DEF SendSubFrame, assembly, lifeVars
<1>2. CASE air' = air
  BY <1>1, <1>2, StreamUntouched
<1>3. CASE air' = air \o <<first, second>>
  <2>1. first \in SomeHalves /\ second \in SomeHalves /\ first.part = 1 /\ second = SecondOf(first)
    BY DEF SendSubFrame, TypeInv, SomeHalves, SecondOf
  <2> HIDE DEF first, second
  <2>2. /\ Stream' \in Seq(SomeHalves) /\ Stream \in Seq(SomeHalves)
        /\ Len(Stream') = Len(Stream) + 2
        /\ \A i \in 1..Len(Stream) : Stream'[i] = Stream[i]
        /\ Stream'[Len(Stream) + 1] = first /\ Stream'[Len(Stream) + 2] = second
    <3>1. <<first, second>> \in Seq(SomeHalves) /\ Stream \in Seq(SomeHalves)
      BY <2>1, StreamElements
    <3>2. Stream' = Stream \o <<first, second>>
      <4>1. buf \in Seq(SomeHalves) /\ air \in Seq(SomeHalves)
        BY DEF TypeInv
      <4>2. (buf \o air) \o <<first, second>> = buf \o (air \o <<first, second>>)
        <5>1. PICK pair \in Seq(SomeHalves) : pair = <<first, second>>
          BY <3>1
        <5>2. (buf \o air) \o pair = buf \o (air \o pair)
          BY <4>1
        <5> QED BY <5>1, <5>2
      <4> QED BY <1>1, <1>3, <4>2 DEF Stream
    <3> QED BY <3>1, <3>2
  <2>3. Len(Stream) \in Nat /\ (Len(Stream) + 2) % 2 = Len(Stream) % 2
    BY <2>2
  <2>4. CASE InStep
    <3>1. Framed(Stream', 0)
      <4>1. Framed(Stream, 0) /\ Len(Stream) % 2 = 0 /\ Len(Stream) >= 0
        BY <1>1, <2>3, <2>4 DEF InStep
      <4>2. Stream'[Len(Stream) + 1].part = 1 /\ Stream'[Len(Stream) + 2] = SecondOf(Stream'[Len(Stream) + 1])
        BY <2>1, <2>2
      <4> QED BY <2>2, <4>1, <4>2, FramedMore
    <3>2. InStep'
      BY <1>1, <2>2, <2>3, <2>4, <3>1 DEF InStep
    <3> QED BY <1>1, <3>2 DEF StreamInv
  <2>5. CASE OutOfStep
    <3>0. Framed(Stream, 1) /\ Len(Stream) >= 1 /\ Len(Stream) % 2 = 1
      BY <1>1, <2>3, <2>5 DEF OutOfStep
    <3>1. Framed(Stream', 1) /\ Stream'[1] = Stream[1]
      <4>1. Stream'[Len(Stream) + 1].part = 1 /\ Stream'[Len(Stream) + 2] = SecondOf(Stream'[Len(Stream) + 1])
        BY <2>1, <2>2
      <4>2. Framed(Stream', 1)
        BY <2>2, <3>0, <4>1, FramedMore
      <4> QED BY <2>2, <2>3, <3>0, <4>2
    <3>2. OutOfStep'
      BY <1>1, <2>2, <2>3, <2>5, <3>1 DEF OutOfStep
    <3> QED BY <1>1, <3>2 DEF StreamInv
  <2> QED BY <2>4, <2>5 DEF StreamInv
<1> QED BY <1>1, <1>2, <1>3

\* A link that drops cuts the stream somewhere behind the buffer.
LEMMA DropKeepsStream ==
    ASSUME TypeInv, TypeInv', StreamInv, LinkDrop
    PROVE  StreamInv'
<1>1. /\ link = "up" /\ link' = "down" /\ UNCHANGED <<buf, collecting, reader>>
      /\ \E n \in 0..Len(air) : air' = SubSeq(air, 1, n)
  BY DEF LinkDrop, assembly
<1>2. PICK n \in 0..Len(air) : air' = SubSeq(air, 1, n)
  BY <1>1
<1>3. /\ Stream \in Seq(SomeHalves) /\ Stream' \in Seq(SomeHalves)
      /\ Len(Stream') <= Len(Stream) /\ \A i \in 1..Len(Stream') : Stream'[i] = Stream[i]
      /\ Len(Stream') \in Nat
  <2>1. air \in Seq(SomeHalves) /\ n \in Nat /\ n <= Len(air)
    BY DEF TypeInv
  <2>2. Len(air') = n /\ \A i \in 1..n : air'[i] = air[i]
    BY <1>2, <2>1, Pieces
  <2>3. /\ Stream \in Seq(SomeHalves) /\ Len(buf) \in Nat /\ Len(Stream) = Len(buf) + Len(air)
        /\ \A i \in 1..Len(buf) : Stream[i] = buf[i]
        /\ \A i \in 1..Len(air) : Stream[Len(buf) + i] = air[i]
    BY StreamElements
  <2>4. /\ Stream' \in Seq(SomeHalves) /\ Len(Stream') = Len(buf) + n
        /\ \A i \in 1..Len(buf) : Stream'[i] = buf[i]
        /\ \A i \in 1..n : Stream'[Len(buf) + i] = air[i]
    BY <1>1, <2>2, StreamAfter
  <2>5. ASSUME NEW i \in 1..Len(Stream') PROVE Stream'[i] = Stream[i]
    <3>1. CASE i \in 1..Len(buf)
      BY <2>3, <2>4, <3>1
    <3>2. CASE \E j \in 1..n : i = Len(buf) + j
      BY <2>1, <2>3, <2>4, <3>2
    <3>3. i \in 1..Len(buf) \/ i - Len(buf) \in 1..n
      BY <2>1, <2>3, <2>4
    <3>4. i = Len(buf) + (i - Len(buf))
      BY <2>3, <2>4
    <3> QED BY <3>1, <3>2, <3>3, <3>4
  <2> QED BY <2>1, <2>3, <2>4, <2>5
<1>4. CASE InStep
  BY <1>1, <1>3, <1>4, FramedFront DEF InStep, StreamInv
<1>5. CASE OutOfStep /\ Len(Stream') > 0
  <2>1. Framed(Stream', 1) /\ Stream'[1] = Stream[1]
    BY <1>3, <1>5, FramedFront DEF OutOfStep
  <2>2. OutOfStep'
    BY <1>1, <1>5, <2>1 DEF OutOfStep
  <2> QED BY <1>1, <2>2 DEF StreamInv
<1>6. CASE Len(Stream') = 0
  <2>1. InStep'
    BY <1>1, <1>6 DEF InStep, Framed
  <2> QED BY <1>1, <2>1 DEF StreamInv
<1> QED BY <1>3, <1>4, <1>5, <1>6 DEF StreamInv

\* A read moves halves within the stream.
LEMMA ReadKeepsStream ==
    ASSUME TypeInv, StreamInv, NEW n \in 1..Len(air), Read(n)
    PROVE  StreamInv'
<1>1. air \in Seq(SomeHalves) /\ buf \in Seq(SomeHalves) /\ n \in Nat /\ n <= Len(air)
  BY DEF TypeInv
<1>2. /\ buf' = buf \o SubSeq(air, 1, n) /\ air' = SubSeq(air, n + 1, Len(air))
      /\ UNCHANGED <<link, collecting>> /\ reader = "read" /\ reader' = "read"
  BY DEF Read, assembly, lifeVars
<1>3. Stream' = Stream
  <2>1. SubSeq(air, 1, n) \o SubSeq(air, n + 1, Len(air)) = air
    BY <1>1
  <2>2. (buf \o SubSeq(air, 1, n)) \o SubSeq(air, n + 1, Len(air))
          = buf \o (SubSeq(air, 1, n) \o SubSeq(air, n + 1, Len(air)))
    <3>1. SubSeq(air, 1, n) \in Seq(SomeHalves) /\ SubSeq(air, n + 1, Len(air)) \in Seq(SomeHalves)
      BY <1>1, Pieces
    <3>2. PICK t, u \in Seq(SomeHalves) : t = SubSeq(air, 1, n) /\ u = SubSeq(air, n + 1, Len(air))
      BY <3>1
    <3>3. (buf \o t) \o u = buf \o (t \o u)
      BY <1>1
    <3> QED BY <3>2, <3>3
  <2> QED BY <1>2, <2>1, <2>2 DEF Stream
<1>4. buf # <<>> => buf' # <<>>
  BY <1>1, <1>2, Pieces
<1> QED BY <1>2, <1>3, <1>4 DEF StreamInv, InStep, OutOfStep

\* Whole sub-frames that leave the front leave the stream in step.
LEMMA SubFramesGone ==
    ASSUME TypeInv, TypeInv', InStep, NEW m \in Nat, m <= Len(buf), m % 2 = 0,
           air' = air, buf' = SubSeq(buf, m + 1, Len(buf)), link' = link
    PROVE  InStep' /\ Len(buf') = Len(buf) - m
<1>1. /\ Len(Stream') = Len(Stream) - m /\ Len(buf') = Len(buf) - m
      /\ \A i \in 1..Len(Stream') : Stream'[i] = Stream[m + i]
      /\ Stream' \in Seq(SomeHalves) /\ Stream \in Seq(SomeHalves)
  BY FrontGone, StreamElements
<1>2. Framed(Stream', 0)
  <2>1. (m + 0 - 0) % 2 = 0 /\ m + 0 >= 0
    OBVIOUS
  <2> QED BY <1>1, <2>1, FramedRest DEF InStep
<1>3. (Len(Stream) - m) % 2 = Len(Stream) % 2
  <2>0. Len(Stream) - m \in Int
    BY <1>1
  <2>1. PICK k \in Int : k = Len(Stream) - m
    BY <2>0
  <2>2. k + m = Len(Stream) /\ m \in Int
    BY <1>1, <2>1
  <2>3. (k + m) % 2 = k % 2
    BY <2>2, EvenApart
  <2> QED BY <2>1, <2>2, <2>3
<1> QED BY <1>1, <1>2, <1>3 DEF InStep

LEMMA ResyncKeepsStream ==
    ASSUME TypeInv, TypeInv', StreamInv, Resync
    PROVE  StreamInv'
<1>1. /\ buf # <<>> /\ Head(buf).part = 2 /\ buf' = Tail(buf) /\ air' = air
      /\ UNCHANGED <<link, collecting>> /\ reader = "read" /\ reader' = "read"
  BY DEF Resync, Skippable, assembly, lifeVars
<1>2. buf \in Seq(SomeHalves)
  BY DEF TypeInv
<1>3. Len(buf) \in Nat /\ 1 <= Len(buf) /\ Head(buf) = buf[1] /\ buf' = SubSeq(buf, 1 + 1, Len(buf))
  BY <1>1, <1>2
<1>4. /\ Len(Stream') = Len(Stream) - 1
      /\ \A i \in 1..Len(Stream') : Stream'[i] = Stream[1 + i]
      /\ Stream' \in Seq(SomeHalves) /\ Stream \in Seq(SomeHalves)
  BY <1>1, <1>3, FrontGone, StreamElements
<1>5. Stream[1] = buf[1] /\ Len(Stream) >= 1
  BY <1>3, StreamElements
<1>6. CASE InStep
  <2>1. (1 - 0) % 2 = 1 /\ 1 \in 1..Len(Stream)
    BY <1>4, <1>5
  <2>2. Stream[1].part = 1
    BY <1>6, <2>1 DEF InStep, Framed
  <2> QED BY <1>1, <1>3, <1>5, <2>2
<1>7. CASE OutOfStep
  <2>1. (1 + 0 - 1) % 2 = 0 /\ 1 + 0 >= 1
    OBVIOUS
  <2>2. Framed(Stream', 0)
    BY <1>4, <1>7, <2>1, FramedRest DEF OutOfStep
  <2>3. Len(Stream) % 2 = 1 => (Len(Stream) - 1) % 2 = 0
    BY <1>4
  <2>4. InStep'
    BY <1>1, <1>4, <1>7, <2>2, <2>3 DEF InStep, OutOfStep
  <2> QED BY <1>1, <2>4 DEF StreamInv
<1> QED BY <1>6, <1>7 DEF StreamInv

\* The sub-frame in front, as the reassembler sees it.
LEMMA FrontSubFrame ==
    ASSUME TypeInv, Complete
    PROVE  /\ Len(buf) \in Nat /\ 2 <= Len(buf) /\ Head(buf) = Stream[1] /\ buf[2] = Stream[2]
           /\ InStep => buf[2] = SecondOf(Head(buf))
           /\ OutOfStep => ~collecting /\ Stream[2].part = 1
<1>1. /\ Len(buf) \in Nat /\ 2 <= Len(buf) /\ Head(buf) = buf[1] /\ Head(buf).part = 1
      /\ Stream[1] = buf[1] /\ buf[2] = Stream[2] /\ 2 \in 1..Len(Stream)
  <2>1. Len(buf) >= 2 /\ Head(buf).part = 1 /\ buf \in Seq(SomeHalves)
    BY DEF Complete, TypeInv
  <2> QED BY <2>1, StreamElements
<1>2. InStep => buf[2] = SecondOf(Head(buf))
  <2>1. (2 - 0) % 2 = 0 /\ 2 - 1 = 1 /\ 2 > 0
    OBVIOUS
  <2> QED BY <1>1, <2>1 DEF InStep, Framed
<1>3. OutOfStep => ~collecting /\ Stream[2].part = 1
  <2>1. (2 - 1) % 2 = 1 /\ 2 > 1
    OBVIOUS
  <2> QED BY <1>1, <2>1 DEF OutOfStep, Framed
<1> QED BY <1>1, <1>2, <1>3

LEMMA FeedKeepsStream ==
    ASSUME TypeInv, TypeInv', StreamInv, Feed \/ FeedLast
    PROVE  StreamInv'
<1>1. /\ Complete /\ reader = "read" /\ reader' \in {"read", "look"} /\ UNCHANGED <<air, link>>
      /\ buf' = SubSeq(buf, 3, Len(buf))
      /\ reader' = "look" => collecting
  BY DEF Feed, FeedLast, TailFits, lifeVars
<1>2. /\ Len(buf) \in Nat /\ 2 <= Len(buf) /\ buf' = SubSeq(buf, 2 + 1, Len(buf))
      /\ OutOfStep => ~collecting /\ Stream[2].part = 1
  BY <1>1, FrontSubFrame
<1>3. link' # "closed" /\ reader' # "none"
  BY <1>1 DEF StreamInv
<1>4. CASE InStep
  <2>1. 2 % 2 = 0
    OBVIOUS
  <2>2. InStep'
    BY <1>1, <1>2, <1>4, <2>1, SubFramesGone
  <2> QED BY <1>3, <2>2 DEF StreamInv
<1>5. CASE OutOfStep
  <2>1. /\ Len(Stream') = Len(Stream) - 2
        /\ \A i \in 1..Len(Stream') : Stream'[i] = Stream[2 + i]
        /\ Stream' \in Seq(SomeHalves) /\ Stream \in Seq(SomeHalves)
    BY <1>1, <1>2, FrontGone, StreamElements
  <2>2. Framed(Stream', 1)
    <3>1. (2 + 1 - 1) % 2 = 0 /\ 2 + 1 >= 1
      OBVIOUS
    <3> QED BY <1>5, <2>1, <3>1, FramedRest DEF OutOfStep
  <2>3. (Len(Stream) - 2) % 2 = Len(Stream) % 2
    BY <2>1
  <2>4. CASE Len(Stream') = 0
    <3>1. link # "up"
      <4>1. Len(Stream) = 2 /\ 2 % 2 # 1
        BY <2>1, <2>4
      <4> QED BY <1>5, <4>1 DEF OutOfStep
    <3>2. InStep'
      BY <1>1, <2>4, <3>1 DEF InStep, Framed
    <3> QED BY <1>3, <3>2 DEF StreamInv
  <2>5. CASE Len(Stream') > 0
    <3>1. Stream'[1].part = 2
      <4>1. Stream'[1] = Stream[3] /\ 3 \in 1..Len(Stream)
        BY <2>1, <2>5
      <4>2. (3 - 1) % 2 = 0 /\ 3 > 1 /\ 3 - 1 = 2
        OBVIOUS
      <4>3. Stream[3] = SecondOf(Stream[2])
        BY <1>5, <4>1, <4>2 DEF OutOfStep, Framed
      <4> QED BY <4>1, <4>3 DEF SecondOf
    <3>2. reader' = "read"
      BY <1>1, <1>2, <1>5
    <3>3. OutOfStep'
      BY <1>1, <1>5, <2>1, <2>2, <2>3, <2>5, <3>1, <3>2 DEF OutOfStep
    <3> QED BY <1>3, <3>3 DEF StreamInv
  <2> QED BY <2>1, <2>4, <2>5
<1> QED BY <1>4, <1>5 DEF StreamInv

\* What is left of the buffer when the disk refuses is half a sub-frame at most.
LEMMA FailureKeepsStream ==
    ASSUME TypeInv, TypeInv', StreamInv, SaveFails
    PROVE  StreamInv'
<1> DEFINE m == Len(buf) - (Len(buf) % 2)
<1>1. /\ reader = "write" /\ reader' = "none" /\ UNCHANGED <<air, link, collecting>>
      /\ buf' = SubSeq(buf, Len(buf) + 1 - (Len(buf) % 2), Len(buf))
  BY DEF SaveFails, assembly, lifeVars
<1>2. InStep /\ link # "closed"
  BY <1>1 DEF StreamInv, OutOfStep
<1>3. Len(buf) \in Nat
  BY DEF TypeInv
<1>4. m \in Nat /\ m <= Len(buf) /\ m % 2 = 0 /\ Len(buf) - m <= 1
      /\ Len(buf) + 1 - (Len(buf) % 2) = m + 1
  BY <1>3
<1> HIDE DEF m
<1>5. InStep' /\ Len(buf') = Len(buf) - m
  BY <1>1, <1>2, <1>4, SubFramesGone
<1> QED BY <1>1, <1>2, <1>4, <1>5 DEF StreamInv

\* The parser has left half a sub-frame at most.
LEMMA HalfLeft == TypeInv /\ Parsed => Len(buf) <= 1
<1> SUFFICES ASSUME TypeInv, Parsed, Len(buf) > 1 PROVE FALSE
  BY DEF TypeInv
<1>1. buf \in Seq(SomeHalves) /\ Len(buf) >= 2
  BY DEF TypeInv
<1>2. buf # <<>> /\ Head(buf) \in SomeHalves
  BY <1>1
<1>3. Head(buf).part \in {1, 2}
  BY <1>2 DEF SomeHalves
<1> QED BY <1>1, <1>2, <1>3 DEF Parsed, Skippable, Complete

LEMMA LifeKeepsStream ==
    ASSUME TypeInv, TypeInv', StreamInv, Start \/ CloseEnd \/ ReaderFails \/ ReaderExits
    PROVE  StreamInv'
<1>1. CASE ReaderFails \/ ReaderExits
  <2>1. UNCHANGED <<buf, air, link, collecting>> /\ Parsed /\ reader = "read" /\ reader' = "none"
    BY <1>1 DEF ReaderFails, ReaderExits, assembly, lifeVars
  <2>2. Len(buf) <= 1
    BY <2>1, HalfLeft
  <2>3. InStep \/ OutOfStep => InStep' \/ OutOfStep'
    BY <2>1 DEF InStep, OutOfStep, Stream
  <2> QED BY <2>1, <2>2, <2>3 DEF StreamInv
<1>2. CASE Start
  <2>1. /\ link = "closed" /\ link' = "up" /\ reader' = "read"
        /\ UNCHANGED <<buf, air, collecting>>
    BY <1>2 DEF Start, assembly
  <2>2. air' = <<>> /\ Len(buf') <= 1 /\ ~collecting'
    BY <2>1 DEF StreamInv
  <2>3. Len(Stream') = Len(buf') /\ Len(Stream') \in 0..1
    BY <2>2, StreamAfter
  <2>4. CASE Len(Stream') = 0
    <3>1. 0 % 2 = 0
      OBVIOUS
    <3>2. InStep'
      BY <2>4, <3>1 DEF InStep, Framed
    <3> QED BY <2>1, <3>2 DEF StreamInv
  <2>5. CASE Len(Stream') = 1
    <3>1. 1 % 2 = 1 /\ buf' # <<>>
      <4>1. Len(buf') = 1 /\ Len(<<>>) = 0 /\ 1 % 2 = 1
        BY <2>3, <2>5
      <4> QED BY <4>1
    <3>2. Framed(Stream', 1)
      BY <2>5 DEF Framed
    <3>3. OutOfStep'
      BY <2>1, <2>2, <2>5, <3>1, <3>2 DEF OutOfStep
    <3> QED BY <2>1, <3>3 DEF StreamInv
  <2> QED BY <2>3, <2>4, <2>5
<1>3. CASE CloseEnd
  <2>1. /\ link' = "closed" /\ reader = "none" /\ reader' = "none" /\ ~collecting'
        /\ air' = <<>> /\ buf' = buf
    BY <1>3 DEF CloseEnd
  <2>2. Len(buf') <= 1
    BY <2>1 DEF StreamInv
  <2>3. Len(Stream') = Len(buf') /\ Len(Stream') \in 0..1
    BY <2>1, <2>2, StreamAfter
  <2>4. CASE Len(Stream') = 0
    <3>1. InStep'
      BY <2>1, <2>4 DEF InStep, Framed
    <3> QED BY <2>1, <2>2, <3>1 DEF StreamInv
  <2>5. CASE Len(Stream') = 1
    <3>1. Framed(Stream', 1) /\ buf' # <<>>
      <4>1. Len(buf') = 1 /\ Len(<<>>) = 0
        BY <2>3, <2>5
      <4> QED BY <2>5, <4>1 DEF Framed
    <3>2. OutOfStep'
      BY <2>1, <2>5, <3>1 DEF OutOfStep
    <3> QED BY <2>1, <2>2, <3>2 DEF StreamInv
  <2> QED BY <2>3, <2>4, <2>5
<1> QED BY <1>1, <1>2, <1>3

LEMMA StreamStep ==
    ASSUME TypeInv, TypeInv', StreamInv, [Next]_vars
    PROVE  StreamInv'
<1>1. CASE BeginImage \/ CloseBegin \/ SetName \/ UnsetName \/ UNCHANGED vars
  <2>1. UNCHANGED <<buf, air, link, collecting, reader>>
    BY <1>1 DEF BeginImage, CloseBegin, SetName, UnsetName, vars, assembly, lifeVars
  <2> QED BY <2>1, StreamUntouched
<1>2. CASE SaveLook \/ SaveTake \/ SaveClear \/ SaveWrite
  <2>1. UNCHANGED <<buf, air, link, collecting>> /\ reader \notin {"none", "read"} /\ reader' # "none"
    BY <1>2 DEF SaveLook, SaveTake, SaveClear, SaveWrite, assembly, lifeVars
  <2> QED BY <2>1, StreamUntouched
<1>3. CASE \E lost \in BOOLEAN : SendSubFrame(lost)
  BY <1>3, SendKeepsStream
<1>4. CASE \E n \in 1..Len(air) : Read(n)
  BY <1>4, ReadKeepsStream
<1>5. CASE LinkDrop
  BY <1>5, DropKeepsStream
<1>6. CASE Resync
  BY <1>6, ResyncKeepsStream
<1>7. CASE Feed \/ FeedLast
  BY <1>7, FeedKeepsStream
<1>8. CASE SaveFails
  BY <1>8, FailureKeepsStream
<1>9. CASE Start \/ CloseEnd \/ ReaderFails \/ ReaderExits
  BY <1>9, LifeKeepsStream
<1> QED BY <1>1, <1>2, <1>3, <1>4, <1>5, <1>6, <1>7, <1>8, <1>9 DEF Next, ReaderStep

\* The stream stays framed whatever is left out, wherever a read or the link
\* ends, and over any number of starts.
THEOREM StreamIsFramed == Spec => []StreamInv
<1>1. Init => StreamInv
  <2> SUFFICES ASSUME Init PROVE StreamInv
    OBVIOUS
  <2>1. buf = <<>> /\ air = <<>> /\ reader = "none" /\ link = "closed" /\ ~collecting
    BY DEF Init
  <2>2. Stream = <<>>
    BY <2>1 DEF Stream
  <2>3. InStep
    BY <2>1, <2>2 DEF InStep, Framed
  <2> QED BY <2>1, <2>3 DEF StreamInv
<1>2. TypeInv /\ TypeInv' /\ StreamInv /\ [Next]_vars => StreamInv'
  BY StreamStep
<1> QED BY <1>1, <1>2, ImageTypes, PTL DEF Spec

-----------------------------------------------------------------------------
(* What a photo is made of.                                                *)

\* Data halves for a photo: as many as have come, numbered from one, each with
\* the group id of the HEAD.
Assembled(k, cs) ==
    /\ k \in Images
    /\ \A i \in 1..Len(cs) :
          cs[i].part = 2 /\ cs[i].seq = i /\ Group(cs[i].img) = Group(k)

\* The TAIL has the group id too, and its number is the one behind the last.
Delivered(p) ==
    /\ Assembled(p.head, p.chunks)
    /\ p.tail \in Images
    /\ Group(p.tail) = Group(p.head)
    /\ Bodies[p.tail] = Len(p.chunks)

PhotoInv ==
    /\ collecting /\ ~broken => Assembled(opened, chunks)
    /\ reader \in {"look", "take", "clear", "write"} => Delivered(saving)
    /\ \A i \in 1..Len(saved) : Delivered(saved[i].photo)

LEMMA PhotoUntouched ==
    ASSUME PhotoInv, UNCHANGED <<opened, chunks, saving, saved>>,
           collecting' /\ ~broken' => collecting /\ ~broken,
           reader' \in {"look", "take", "clear", "write"} =>
               reader \in {"look", "take", "clear", "write"}
    PROVE  PhotoInv'
BY DEF PhotoInv

\* A BODY that is taken is the next of the photo: the half behind the first
\* one is its own data, for the stream is in step while a photo is collected.
LEMMA FeedKeepsPhoto ==
    ASSUME TypeInv, StreamInv, PhotoInv, Feed
    PROVE  PhotoInv'
<1>1. UNCHANGED <<saving, saved, reader>> /\ Complete
  BY DEF Feed, saveVars
<1>2. /\ InStep => buf[2] = SecondOf(Head(buf))
      /\ OutOfStep => ~collecting
      /\ Len(buf) >= 2
  BY <1>1, FrontSubFrame
<1>3. buf[2] \in SomeHalves /\ Head(buf) \in SomeHalves /\ chunks \in Seq(SomeHalves)
  BY <1>2 DEF TypeInv
<1>4. Head(buf).img \in Images
  BY <1>3 DEF SomeHalves
<1>5. collecting' /\ ~broken' => Assembled(opened', chunks')
  <2>1. CASE IsHead(Head(buf)) /\ OnHead(Head(buf))
    BY <1>4, <2>1 DEF OnHead, Assembled
  <2>2. CASE /\ collecting /\ ~broken /\ chunks' = Append(chunks, buf[2])
             /\ Group(Head(buf).img) = Group(opened) /\ Head(buf).seq = ExpectedSeq
             /\ UNCHANGED <<collecting, broken, opened>>
    <3>1. buf[2] = SecondOf(Head(buf))
      BY <1>2, <2>2 DEF StreamInv
    <3>2. buf[2].part = 2 /\ buf[2].seq = Len(chunks) + 1 /\ Group(buf[2].img) = Group(opened)
      BY <2>2, <3>1 DEF SecondOf, ExpectedSeq
    <3>3. Len(chunks') = Len(chunks) + 1 /\ chunks'[Len(chunks) + 1] = buf[2]
          /\ Len(chunks) \in Nat /\ \A i \in 1..Len(chunks) : chunks'[i] = chunks[i]
      BY <1>3, <2>2
    <3>4. Assembled(opened, chunks)
      BY <2>2 DEF PhotoInv
    <3>5. ASSUME NEW i \in 1..Len(chunks')
          PROVE  chunks'[i].part = 2 /\ chunks'[i].seq = i /\ Group(chunks'[i].img) = Group(opened)
      BY <3>2, <3>3, <3>4 DEF Assembled
    <3> QED BY <2>2, <3>4, <3>5 DEF Assembled
  <2>3. CASE MarkBroken
    BY <2>3 DEF MarkBroken
  <2>4. CASE UNCHANGED <<collecting, broken, opened, chunks>>
    BY <2>4 DEF PhotoInv
  <2> QED BY <2>1, <2>2, <2>3, <2>4, FeedOutcomes
<1> QED BY <1>1, <1>5 DEF PhotoInv

LEMMA FeedLastKeepsPhoto ==
    ASSUME TypeInv, PhotoInv, FeedLast
    PROVE  PhotoInv'
<1> DEFINE h == Head(buf)
<1>1. /\ ~collecting' /\ saved' = saved /\ Len(buf) >= 2
      /\ saving' = [head |-> opened, chunks |-> chunks, tail |-> h.img]
      /\ collecting /\ ~broken /\ Group(h.img) = Group(opened) /\ h.seq = Len(chunks) + 1
      /\ h.seq = Bodies[h.img] + 1
  BY DEF FeedLast, TailFits, ExpectedSeq, IsTail, Complete
<1>2. h \in SomeHalves /\ Len(chunks) \in Nat
  BY <1>1 DEF TypeInv
<1>3. h.img \in Images /\ Bodies[h.img] \in Nat
  BY <1>2, ImageAssumption DEF SomeHalves, Images
<1>4. Assembled(opened, chunks)
  BY <1>1 DEF PhotoInv
<1>5. Bodies[h.img] = Len(chunks)
  BY <1>1, <1>2, <1>3
<1>6. Delivered(saving')
  BY <1>1, <1>3, <1>4, <1>5 DEF Delivered
<1> QED BY <1>1, <1>6 DEF PhotoInv

LEMMA WriteKeepsPhoto ==
    ASSUME TypeInv, PhotoInv, SaveWrite
    PROVE  PhotoInv'
<1> DEFINE file == [photo |-> saving, path |-> path]
<1>1. /\ reader = "write" /\ reader' = "read" /\ saved' = Append(saved, file)
      /\ UNCHANGED <<collecting, broken, opened, chunks>>
  BY DEF SaveWrite, assembly
<1>2. Delivered(file.photo)
  BY <1>1 DEF PhotoInv
<1>3. saved \in Seq(Files)
  BY DEF TypeInv
<1> HIDE DEF file
<1>4. \A i \in 1..Len(saved') : Delivered(saved'[i].photo)
  <2>1. Len(saved') = Len(saved) + 1 /\ Len(saved) \in Nat /\ saved'[Len(saved) + 1] = file
        /\ \A i \in 1..Len(saved) : saved'[i] = saved[i]
    BY <1>1, <1>3
  <2>2. \A i \in 1..Len(saved) : Delivered(saved[i].photo)
    BY DEF PhotoInv
  <2>3. ASSUME NEW i \in 1..Len(saved') PROVE i \in 1..Len(saved) \/ i = Len(saved) + 1
    BY <2>1
  <2> QED BY <1>2, <2>1, <2>2, <2>3
<1> QED BY <1>1, <1>4 DEF PhotoInv

LEMMA PhotoStep ==
    ASSUME TypeInv, StreamInv, PhotoInv, [Next]_vars
    PROVE  PhotoInv'
<1>1. CASE BeginImage \/ (\E lost \in BOOLEAN : SendSubFrame(lost)) \/ LinkDrop
  <2>1. UNCHANGED <<opened, chunks, saving, saved, collecting, broken, reader>>
    BY <1>1 DEF BeginImage, SendSubFrame, LinkDrop, assembly, saveVars
  <2> QED BY <2>1, PhotoUntouched
<1>2. CASE (\E n \in 1..Len(air) : Read(n)) \/ Resync \/ SetName \/ UnsetName \/ CloseBegin
           \/ UNCHANGED vars
  <2>1. UNCHANGED <<opened, chunks, saving, saved, collecting, broken, reader>>
    BY <1>2 DEF Read, Resync, SetName, UnsetName, CloseBegin, vars, assembly, saveVars
  <2> QED BY <2>1, PhotoUntouched
<1>3. CASE SaveLook \/ SaveTake \/ SaveClear
  <2>1. UNCHANGED <<opened, chunks, saving, saved, collecting, broken>>
        /\ reader \in {"look", "take", "clear", "write"}
    BY <1>3 DEF SaveLook, SaveTake, SaveClear, assembly, saveVars
  <2> QED BY <2>1, PhotoUntouched
<1>4. CASE Feed
  BY <1>4, FeedKeepsPhoto
<1>5. CASE FeedLast
  BY <1>5, FeedLastKeepsPhoto
<1>6. CASE SaveWrite
  BY <1>6, WriteKeepsPhoto
<1>7. CASE SaveFails
  BY <1>7 DEF SaveFails, assembly, PhotoInv
<1>8. CASE Start \/ ReaderFails \/ ReaderExits
  <2>1. UNCHANGED <<opened, chunks, saving, saved, collecting, broken>>
        /\ reader' \in {"read", "none"}
    BY <1>8 DEF Start, ReaderFails, ReaderExits, assembly, saveVars
  <2> QED BY <2>1, PhotoUntouched
<1>9. CASE CloseEnd
  BY <1>9 DEF CloseEnd, PhotoInv, saveVars
<1> QED BY <1>1, <1>2, <1>3, <1>4, <1>5, <1>6, <1>7, <1>8, <1>9 DEF Next, ReaderStep

\* What is delivered is whole, unless it has the parts of several photos.
LEMMA DeliveredIsWhole ==
    ASSUME NEW p \in SomePhotos, Delivered(p)
    PROVE  IF Origins(p) = {p.head} THEN IsWhole(p)
           ELSE \A j, k \in Origins(p) : Group(j) = Group(k)
<1>1. /\ p.chunks \in Seq(SomeHalves) /\ Group(p.tail) = Group(p.head)
      /\ Bodies[p.tail] = Len(p.chunks)
      /\ \A i \in 1..Len(p.chunks) :
            p.chunks[i].part = 2 /\ p.chunks[i].seq = i /\ Group(p.chunks[i].img) = Group(p.head)
  BY DEF SomePhotos, Delivered, Assembled
<1>2. \A j \in Origins(p) : Group(j) = Group(p.head)
  BY <1>1 DEF Origins
<1>3. ASSUME Origins(p) = {p.head} PROVE IsWhole(p)
  <2>1. p.tail = p.head /\ \A i \in 1..Len(p.chunks) : p.chunks[i].img = p.head
    BY <1>3 DEF Origins
  <2>2. ASSUME NEW i \in 1..Len(p.chunks)
        PROVE  p.chunks[i] = [img |-> p.head, seq |-> i, part |-> 2]
    <3>1. p.chunks[i] \in SomeHalves
      BY <1>1
    <3> QED BY <1>1, <2>1, <3>1 DEF SomeHalves
  <2>3. p.chunks = [i \in 1..Len(p.chunks) |-> p.chunks[i]]
    BY <1>1
  <2>4. Len(p.chunks) = Bodies[p.head]
    BY <1>1, <2>1
  <2> QED BY <2>2, <2>3, <2>4 DEF IsWhole
<1> QED BY <1>2, <1>3

\* What is saved is one photo, whole, or is made of parts that no group id
\* tells apart: nothing that the device leaves out, no read that ends within
\* a sub-frame and no link lost in the middle of one makes it something else.
THEOREM PhotosAreWhole == Spec => []SplicedOnlyAfterWrap
<1>1. Init => PhotoInv
  BY DEF Init, PhotoInv
<1>2. TypeInv /\ StreamInv /\ PhotoInv /\ [Next]_vars => PhotoInv'
  BY PhotoStep
<1>3. TypeInv /\ PhotoInv => SplicedOnlyAfterWrap
  <2> SUFFICES ASSUME TypeInv, PhotoInv, NEW i \in 1..Len(saved)
               PROVE  LET p == saved[i].photo IN
                      IF Origins(p) = {p.head} THEN IsWhole(p)
                      ELSE \A j, k \in Origins(p) : Group(j) = Group(k)
    BY DEF SplicedOnlyAfterWrap
  <2>1. saved[i].photo \in SomePhotos /\ Delivered(saved[i].photo)
    <3>1. saved \in Seq(Files) /\ i \in 1..Len(saved)
      BY DEF TypeInv
    <3>2. saved[i] \in Files
      BY <3>1
    <3> QED BY <3>2 DEF PhotoInv, Files
  <2> QED BY <2>1, DeliveredIsWhole
<1> QED BY <1>1, <1>2, <1>3, ImageTypes, StreamIsFramed, PTL DEF Spec
=============================================================================
