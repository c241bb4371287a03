----------------------------- MODULE ImageClient -----------------------------
(***************************************************************************)
(* ImageClient (looktech_glasses_sdk/image_client.py) with the parser and  *)
(* the reassembler it uses (AirImgStreamParser and ImageReassembler of     *)
(* protocol.py): photos received over the EDU-IMG channel.                 *)
(*                                                                         *)
(* A photo is a HEAD, its BODYs and a TAIL, numbered without a gap; the    *)
(* three carry the group id of the photo, one byte.  The channel keeps the *)
(* order of what it carries, but the sender may leave a sub-frame out, and *)
(* a read may end in the middle of one: each sub-frame is two halves here, *)
(* of which the first says what it is and how long.  The reader thread     *)
(* cuts, reassembles and saves; other threads set the name of the next     *)
(* photo while it does.  The counters of the reassembler are left out.     *)
(***************************************************************************)
EXTENDS Integers, Sequences

CONSTANTS
    Groups,     \* values of the group id: 256 in the code
    Bodies,     \* the number of BODYs of each photo, in the order taken
    MaxAir,     \* bound: halves on their way to the host
    MaxStarts,  \* bound: calls of start()
    MaxNames    \* bound: names given to set_next_photo_path

ASSUME ImageAssumption ==
    /\ Groups \in Nat \ {0}
    /\ Bodies \in Seq(Nat)
    /\ MaxAir \in Nat
    /\ MaxStarts \in Nat
    /\ MaxNames \in Nat

VARIABLES
    image,      \* device: photos begun so far
    sending,    \* device: it is in the middle of a photo
    next,       \* device: the sub-frame of it to send next
    intact,     \* device: no sub-frame of it was left out
    whole,      \* photos sent whole
    link,       \* the transport: closed, up, down (dropped by the peer)
    air,        \* halves on their way to the host
    buf,        \* AirImgStreamParser._buf, as halves
    collecting, \* ImageReassembler._collecting
    broken,     \* ImageReassembler._broken
    opened,     \* the photo whose HEAD was the last: _group_id is its group
    chunks,     \* ImageReassembler._chunks: the data halves collected
    reader,     \* the reader thread: none, read, or a step of _save_image
    saving,     \* the photo it is saving
    path,       \* _save_image: its variable path
    nextPath,   \* ImageClient._next_photo_path, 0 for None
    names,      \* names set so far: the n-th name is n
    saved,      \* photos written to disk, in order
    stop,       \* ImageClient._stop
    starts      \* calls of start() so far

deviceVars == <<image, sending, next, intact, whole>>
assembly   == <<collecting, broken, opened, chunks>>
saveVars   == <<saving, path, saved>>
nameVars   == <<nextPath, names>>
lifeVars   == <<link, stop, starts>>
vars == <<deviceVars, air, buf, assembly, reader, saveVars, nameVars, lifeVars>>

-----------------------------------------------------------------------------
Images == 1..Len(Bodies)
Numbers == 0..1 + CHOOSE m \in {Bodies[k] : k \in Images} :
                     \A k \in Images : Bodies[k] <= m
Names  == 1..MaxNames
NoName  == 0      \* None
DEFAULT == -1     \* the name made of the time and the group id

\* One half of a sub-frame: part 1 has its type, group and number.
Halves == [img : Images, seq : Numbers, part : {1, 2}]
Photos == [head : Images, chunks : Seq(Halves), tail : Images]
NoPhoto == [head |-> 0, chunks |-> <<>>, tail |-> 0]

Group(k) == k % Groups
IsHead(h) == h.seq = 0
IsTail(h) == h.seq = Bodies[h.img] + 1

\* _expected_seq: the HEAD has number 0.
ExpectedSeq == Len(chunks) + 1

Init ==
    /\ image = 0
    /\ sending = FALSE
    /\ next = 0
    /\ intact = TRUE
    /\ whole = {}
    /\ link = "closed"
    /\ air = <<>>
    /\ buf = <<>>
    /\ collecting = FALSE
    /\ broken = FALSE
    /\ opened = 0
    /\ chunks = <<>>
    /\ reader = "none"
    /\ saving = NoPhoto
    /\ path = NoName
    /\ nextPath = NoName
    /\ names = 0
    /\ saved = <<>>
    /\ stop = FALSE
    /\ starts = 0

-----------------------------------------------------------------------------
(* The device and the link.                                                *)

BeginImage ==
    /\ link = "up"
    /\ ~sending
    /\ image < Len(Bodies)
    /\ image' = image + 1
    /\ sending' = TRUE
    /\ next' = 0
    /\ intact' = TRUE
    /\ UNCHANGED <<whole, air, buf, assembly, reader, saveVars, nameVars, lifeVars>>

\* The sub-frame is sent, or left out.
SendSubFrame(lost) ==
    /\ link = "up"
    /\ sending
    /\ Len(air) + 2 <= MaxAir
    /\ air' = IF lost THEN air
              ELSE air \o <<[img |-> image, seq |-> next, part |-> 1],
                            [img |-> image, seq |-> next, part |-> 2]>>
    /\ next' = next + 1
    /\ intact' = (intact /\ ~lost)
    /\ sending' = (next <= Bodies[image])
    /\ whole' = IF intact' /\ ~sending' THEN whole \cup {image} ELSE whole
    /\ UNCHANGED <<image, buf, assembly, reader, saveVars, nameVars, lifeVars>>

\* What has arrived stays readable; it may end in the middle of a sub-frame.
LinkDrop ==
    /\ link = "up"
    /\ link' = "down"
    /\ \E n \in 0..Len(air) : air' = SubSeq(air, 1, n)
    /\ sending' = FALSE
    /\ UNCHANGED <<image, next, intact, whole, buf, assembly, reader,
                   saveVars, nameVars, stop, starts>>

-----------------------------------------------------------------------------
(* The parser: a sub-frame is cut when both of its halves are there; what  *)
(* is not the start of one is skipped.                                     *)

Skippable == buf # <<>> /\ Head(buf).part = 2
Complete  == Len(buf) >= 2 /\ Head(buf).part = 1
Parsed    == ~Skippable /\ ~Complete

\* transport.read(4096): the parser is fed what there is, or a part of it.
Read(n) ==
    /\ reader = "read"
    /\ ~stop
    /\ Parsed
    /\ n <= Len(air)
    /\ buf' = buf \o SubSeq(air, 1, n)
    /\ air' = SubSeq(air, n + 1, Len(air))
    /\ UNCHANGED <<deviceVars, assembly, reader, saveVars, nameVars, lifeVars>>

Resync ==
    /\ reader = "read"
    /\ Skippable
    /\ buf' = Tail(buf)
    /\ UNCHANGED <<deviceVars, air, assembly, reader, saveVars, nameVars, lifeVars>>

-----------------------------------------------------------------------------
(* The reassembler.                                                        *)

MarkBroken ==
    /\ broken' = TRUE
    /\ chunks' = <<>>
    /\ UNCHANGED <<collecting, opened>>

\* Mutant: a HEAD is taken only when no photo is in progress.
OnHeadWhenIdle(h) ==
    IF collecting THEN UNCHANGED assembly
    ELSE /\ collecting' = TRUE
         /\ broken' = FALSE
         /\ opened' = h.img
         /\ chunks' = <<>>

\* _on_head.
OnHead(h) ==
    /\ collecting' = TRUE
    /\ broken' = FALSE
    /\ opened' = h.img
    /\ chunks' = <<>>

\* Mutant: the group of a BODY is not compared.
OnBodyAnyGroup(h, data) ==
    IF ~collecting \/ broken THEN UNCHANGED assembly
    ELSE IF h.seq = ExpectedSeq
         THEN /\ chunks' = Append(chunks, data)
              /\ UNCHANGED <<collecting, broken, opened>>
         ELSE MarkBroken

\* _on_body.
OnBody(h, data) ==
    IF ~collecting \/ broken THEN UNCHANGED assembly
    ELSE IF Group(h.img) = Group(opened) /\ h.seq = ExpectedSeq
         THEN /\ chunks' = Append(chunks, data)
              /\ UNCHANGED <<collecting, broken, opened>>
         ELSE MarkBroken

TailFits(h) ==
    collecting /\ ~broken /\ Group(h.img) = Group(opened) /\ h.seq = ExpectedSeq

\* feed_subframe on a HEAD or a BODY, and on a TAIL that completes nothing.
Feed ==
    LET h == Head(buf) IN
    /\ reader = "read"
    /\ Complete
    /\ buf' = SubSeq(buf, 3, Len(buf))
    /\ \/ IsHead(h) /\ OnHead(h)
       \/ ~IsHead(h) /\ ~IsTail(h) /\ OnBody(h, buf[2])
       \/ IsTail(h) /\ collecting /\ ~broken /\ ~TailFits(h) /\ MarkBroken
       \/ IsTail(h) /\ ~(collecting /\ ~broken) /\ UNCHANGED assembly
    /\ UNCHANGED <<deviceVars, air, reader, saveVars, nameVars, lifeVars>>

\* A TAIL that completes the photo: _deliver calls _save_image.
FeedLast ==
    LET h == Head(buf) IN
    /\ reader = "read"
    /\ Complete
    /\ IsTail(h)
    /\ TailFits(h)
    /\ buf' = SubSeq(buf, 3, Len(buf))
    /\ collecting' = FALSE
    /\ chunks' = <<>>
    /\ saving' = [head |-> opened, chunks |-> chunks, tail |-> h.img]
    /\ reader' = "look"
    /\ UNCHANGED <<deviceVars, air, broken, opened, path, saved,
                   nextPath, names, lifeVars>>

-----------------------------------------------------------------------------
(* _save_image, step by step: no lock protects _next_photo_path.           *)

\* if self._next_photo_path is not None
SaveLook ==
    /\ reader = "look"
    /\ IF nextPath # NoName
       THEN reader' = "take" /\ UNCHANGED path
       ELSE reader' = "write" /\ path' = DEFAULT
    /\ UNCHANGED <<deviceVars, air, buf, assembly, saving, saved, nameVars, lifeVars>>

\* path = self._next_photo_path
SaveTake ==
    /\ reader = "take"
    /\ path' = nextPath
    /\ reader' = "clear"
    /\ UNCHANGED <<deviceVars, air, buf, assembly, saving, saved, nameVars, lifeVars>>

\* Mutant: the name is left for the photo after this one too.
SaveKeepsName ==
    /\ reader = "clear"
    /\ reader' = "write"
    /\ UNCHANGED <<deviceVars, air, buf, assembly, saveVars, nameVars, lifeVars>>

\* self._next_photo_path = None
SaveClear ==
    /\ reader = "clear"
    /\ nextPath' = NoName
    /\ reader' = "write"
    /\ UNCHANGED <<deviceVars, air, buf, assembly, saveVars, names, lifeVars>>

SaveWrite ==
    /\ reader = "write"
    /\ path # NoName
    /\ saved' = Append(saved, [photo |-> saving, path |-> path])
    /\ saving' = NoPhoto
    /\ path' = NoName
    /\ reader' = "read"
    /\ UNCHANGED <<deviceVars, air, buf, assembly, nameVars, lifeVars>>

\* The path is None, or the disk refuses: the exception ends the reader, and
\* the sub-frames already cut are gone with it.
SaveFails ==
    /\ reader = "write"
    /\ saving' = NoPhoto
    /\ path' = NoName
    /\ reader' = "none"
    /\ buf' = SubSeq(buf, Len(buf) + 1 - (Len(buf) % 2), Len(buf))
    /\ UNCHANGED <<deviceVars, air, assembly, saved, nameVars, lifeVars>>

-----------------------------------------------------------------------------
(* The callers: names, start() and close().                                *)

\* set_next_photo_path(path), with a path no photo had before.
SetName ==
    /\ names < MaxNames
    /\ names' = names + 1
    /\ nextPath' = names + 1
    /\ UNCHANGED <<deviceVars, air, buf, assembly, reader, saveVars, lifeVars>>

\* set_next_photo_path(None): trigger_photo failed.
UnsetName ==
    /\ nextPath # NoName
    /\ nextPath' = NoName
    /\ UNCHANGED <<deviceVars, air, buf, assembly, reader, saveVars, names, lifeVars>>

Start ==
    /\ link = "closed"
    /\ starts < MaxStarts
    /\ starts' = starts + 1
    /\ link' = "up"
    /\ stop' = FALSE
    /\ reader' = "read"
    /\ UNCHANGED <<deviceVars, air, buf, assembly, saveVars, nameVars>>

\* transport.read raises: the reader ends and leaves _stop as it is.
ReaderFails ==
    /\ reader = "read"
    /\ link = "down"
    /\ Parsed
    /\ reader' = "none"
    /\ UNCHANGED <<deviceVars, air, buf, assembly, saveVars, nameVars, lifeVars>>

ReaderExits ==
    /\ reader = "read"
    /\ stop
    /\ Parsed
    /\ reader' = "none"
    /\ UNCHANGED <<deviceVars, air, buf, assembly, saveVars, nameVars, lifeVars>>

CloseBegin ==
    /\ link # "closed"
    /\ ~stop
    /\ stop' = TRUE
    /\ UNCHANGED <<deviceVars, air, buf, assembly, reader, saveVars, nameVars,
                   link, starts>>

\* The reader is joined, the transport closed, the reassembler reset.
CloseEnd ==
    /\ link # "closed"
    /\ stop
    /\ reader = "none"
    /\ link' = "closed"
    /\ air' = <<>>
    /\ sending' = FALSE
    /\ collecting' = FALSE
    /\ broken' = FALSE
    /\ chunks' = <<>>
    /\ UNCHANGED <<image, next, intact, whole, buf, opened, reader,
                   saveVars, nameVars, stop, starts>>

-----------------------------------------------------------------------------
ReaderStep ==
    \/ \E n \in 1..Len(air) : Read(n)
    \/ Resync \/ Feed \/ FeedLast
    \/ SaveLook \/ SaveTake \/ SaveClear \/ SaveWrite \/ SaveFails
    \/ ReaderFails \/ ReaderExits

Next ==
    \/ BeginImage
    \/ \E lost \in BOOLEAN : SendSubFrame(lost)
    \/ LinkDrop
    \/ ReaderStep
    \/ SetName \/ UnsetName
    \/ Start \/ CloseBegin \/ CloseEnd

Spec == Init /\ [][Next]_vars

\* The reader thread is run; nothing is assumed of the device or the callers.
FairSpec == Spec /\ WF_vars(ReaderStep)

-----------------------------------------------------------------------------
TypeOK ==
    /\ image \in 0..Len(Bodies)
    /\ sending \in BOOLEAN /\ intact \in BOOLEAN
    /\ next \in Numbers \cup {n + 1 : n \in Numbers}
    /\ whole \subseteq Images
    /\ link \in {"closed", "up", "down"}
    /\ air \in Seq(Halves) /\ Len(air) <= MaxAir
    /\ buf \in Seq(Halves)
    /\ collecting \in BOOLEAN /\ broken \in BOOLEAN
    /\ opened \in 0..Len(Bodies)
    /\ chunks \in Seq(Halves) /\ Len(chunks) \in Numbers
    /\ reader \in {"none", "read", "look", "take", "clear", "write"}
    /\ saving \in Photos \cup {NoPhoto}
    /\ path \in Names \cup {NoName, DEFAULT}
    /\ nextPath \in Names \cup {NoName}
    /\ names \in 0..MaxNames
    /\ \A i \in 1..Len(saved) :
          saved[i].photo \in Photos /\ saved[i].path \in Names \cup {DEFAULT}
    /\ stop \in BOOLEAN
    /\ starts \in 0..MaxStarts

\* The photos a saved file was made of.
Origins(p) == {p.head, p.tail} \cup {p.chunks[i].img : i \in 1..Len(p.chunks)}

IsWhole(p) ==
    p.chunks = [i \in 1..Bodies[p.head] |-> [img |-> p.head, seq |-> i, part |-> 2]]

\* What is saved is one photo, whole, whatever sub-frames are left out: a file
\* is made of parts of several only when their group ids are the same, that is
\* when they are Groups apart and all that would tell them apart was left out.
SplicedOnlyAfterWrap ==
    \A i \in 1..Len(saved) :
        LET p == saved[i].photo IN
        IF Origins(p) = {p.head} THEN IsWhole(p)
        ELSE \A j, k \in Origins(p) : Group(j) = Group(k)

\* A name given to one photo is not used again for a later one, which would
\* overwrite the file.
NoOverwrite ==
    \A i, j \in 1..Len(saved) :
        i # j /\ saved[i].path = saved[j].path => saved[i].path = DEFAULT

Arrived(k) == \E i \in 1..Len(saved) : Origins(saved[i].photo) = {k}

\* A photo that the device sends whole is saved, whatever was left out of the
\* one before it, unless the reader ends (closed, link lost, disk refused).
WholeArrives ==
    \A k \in Images :
        k \in whole /\ starts = 1 ~> Arrived(k) \/ reader = "none"
=============================================================================
