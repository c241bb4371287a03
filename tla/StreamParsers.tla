----------------------------- MODULE StreamParsers -----------------------------
(***************************************************************************)
(* The three parsers that cut a byte stream into frames and find their way *)
(* back after garbage: FrameParser of the control channel (protocol.py),   *)
(* RecordStreamParser of the audio channel (audio_client.py) and           *)
(* OTAPacketParser of the upgrade channel (ota_client.py).  The three loops *)
(* are one: look for a start, refuse an impossible header, wait for the    *)
(* rest, refuse an inconsistent body, take the frame; they differ in what  *)
(* is refused and in how far a refusal skips.                              *)
(*                                                                         *)
(* Bytes are small numbers, and the fields the loops do not look at (type, *)
(* seq, opcode, cmd, sn) are left out, so a header is two or three bytes.  *)
(* A stream is made of frames with garbage between them, as a host sees it *)
(* that joins a device in the middle of a frame; it comes in reads of any  *)
(* size.                                                                   *)
(***************************************************************************)
EXTENDS Integers, Sequences, FiniteSets, SequencesExt

CONSTANTS
    Kinds,           \* the parsers to run
    Top,             \* the largest byte
    MaxPayload,      \* MAX_PAYLOAD of ctrl
    MaxSections,     \* _MAX_SECTIONS of audio
    MaxSectionBytes, \* _MAX_SECTION_BYTES
    Crc(_),          \* crc16
    Payloads,        \* for each parser, the payloads of frames
    Garbage,         \* for each parser, what may come between frames
    MaxParts         \* bound: parts of a stream

VARIABLES
    kind,  \* which parser
    wire,  \* the whole stream
    whole, \* history: the frames of the stream that were sent whole, [at, size]
    parts, \* parts of the stream so far
    read,  \* bytes the transport has returned
    buf,   \* _buf
    got    \* the frames taken, in order, [at, size]

parserVars == <<kind, wire, whole, parts, read, buf, got>>

-----------------------------------------------------------------------------
(* The formats; offsets are from 0.                                        *)

SYNC0 == 3
SYNC1 == 2
TAG == 5          \* PKG_TAG, and the PACKET_PREFIX of ota
APPENDIX == 4
EXTRA == 1        \* PKG_LEN_EXTRA

Byte(b, p) == b[p + 1]
Bytes(b, p, n) == SubSeq(b, p + 1, p + n)

Overhead(k) == IF k = "ctrl" THEN 4 ELSE 3
MaxSize(k) == Overhead(k) + CASE k = "ctrl" -> MaxPayload [] k = "audio" -> Top - EXTRA [] k = "ota" -> Top

\* _walk_sections: n sections, each behind its length, fill the area exactly.
WalkEnds(area, n) ==
    \E off \in [0..n -> 0..Len(area)] :
        /\ off[0] = 0 /\ off[n] = Len(area)
        /\ \A i \in 0..n - 1 : off[i] < Len(area) /\ off[i + 1] = off[i] + 1 + Byte(area, off[i])

HeaderPlausible(n, area) == n \in 1..MaxSections /\ n <= area /\ area <= n * MaxSectionBytes

SectionsOf(p) == {n \in 1..MaxSections : HeaderPlausible(n, Len(p)) /\ WalkEnds(p, n)}

Encode(k, p) ==
    CASE k = "ctrl" -> <<SYNC0, SYNC1, Len(p)>> \o p \o <<Crc(<<Len(p)>> \o p)>>
      [] k = "ota" -> <<TAG, Len(p)>> \o p \o <<APPENDIX>>
      [] k = "audio" -> <<TAG, Len(p) + EXTRA, CHOOSE n \in SectionsOf(p) : TRUE>> \o p

\* What the loops ask of a header h, and of a whole frame f.
Starts(k, h) == IF k = "ctrl" THEN Byte(h, 0) = SYNC0 /\ Byte(h, 1) = SYNC1 ELSE Byte(h, 0) = TAG

\* payload_len, or section_area: negative when a header lies.
Area(k, h) == CASE k = "ctrl" -> Byte(h, 2) [] k = "audio" -> Byte(h, 1) - EXTRA [] k = "ota" -> Byte(h, 1)
Size(k, h) == Overhead(k) + Area(k, h)

Plausible(k, h) ==
    CASE k = "ctrl" -> Area(k, h) <= MaxPayload
      [] k = "audio" -> HeaderPlausible(Byte(h, 2), Area(k, h))
      [] k = "ota" -> TRUE

Sound(k, f) ==
    LET a == Area(k, f)
    IN CASE k = "ctrl" -> Byte(f, 3 + a) = Crc(Bytes(f, 2, 1 + a))
         [] k = "audio" -> WalkEnds(Bytes(f, 3, a), Byte(f, 2))
         [] k = "ota" -> Byte(f, 2 + a) = APPENDIX

-----------------------------------------------------------------------------
(* The loop of feed()                                                      *)

Header(k, b, p) == Bytes(b, p, Overhead(k))
SizeAt(k, b, p) == Size(k, Header(k, b, p))

Begins(k, b, p) == Starts(k, Header(k, b, p)) /\ Plausible(k, Header(k, b, p))

\* The loop ends: no header is complete, or a plausible frame is not.
Waits(k, b, p) ==
    \/ Len(b) - p < Overhead(k)
    \/ Begins(k, b, p) /\ Len(b) - p < SizeAt(k, b, p)

\* Otherwise it takes a frame, or refuses what is there.
Takes(k, b, p) == Begins(k, b, p) /\ Sound(k, Bytes(b, p, SizeAt(k, b, p)))

\* Mutant: the header of a refused candidate is skipped.
ResumeAfter(k, p) == p + Overhead(k)

\* Where the loop goes on after a candidate it refuses: past the false sync
\* pair of ctrl, one byte on otherwise.
Resume(k, p) == IF k = "ctrl" THEN p + 2 ELSE p + 1

Following(k, b, p) ==
    IF ~Starts(k, Header(k, b, p)) THEN p + 1
    ELSE IF Takes(k, b, p) THEN p + SizeAt(k, b, p)
    ELSE Resume(k, p)

\* From each position on: the frames taken and where the loop ends.
Loop(k, b) ==
    LET from[p \in 0..Len(b)] ==
            IF Waits(k, b, p) THEN [taken |-> <<>>, left |-> p]
            ELSE LET rest == from[Following(k, b, p)]
                 IN IF Takes(k, b, p)
                    THEN [taken |-> <<[at |-> p, size |-> SizeAt(k, b, p)]>> \o rest.taken, left |-> rest.left]
                    ELSE rest
    IN from

Scan(k, b) == Loop(k, b)[0]

\* MAX_BUFFER and what the trim keeps.  The code leaves the first some room
\* above the longest frame; here it is that length exactly.
MaxBuffer(k) == MaxSize(k)
Kept(k) == CASE k = "ctrl" -> MaxSize(k) [] k = "audio" -> MaxSize(k) - 1 [] k = "ota" -> Overhead(k)

\* Mutant: a limit on the buffer that forgets the header.
TrimPayload(k, b) == IF Len(b) > MaxSize(k) - Overhead(k) THEN SubSeq(b, Overhead(k), Len(b)) ELSE b

Trim(k, b) == IF Len(b) > MaxBuffer(k) THEN SubSeq(b, Len(b) - Kept(k) + 1, Len(b)) ELSE b

-----------------------------------------------------------------------------
(* The stream and the host                                                 *)

\* A payload that a frame can carry.
Sendable(k, p) ==
    /\ p \in Seq(0..Top)
    /\ CASE k = "ctrl" -> Len(p) <= MaxPayload
         [] k = "audio" -> Len(p) + EXTRA <= Top /\ SectionsOf(p) # {}
         [] k = "ota" -> Len(p) <= Top

ASSUME ParsersAssumption ==
    /\ Kinds \subseteq {"ctrl", "audio", "ota"} /\ MaxParts \in Nat
    /\ Top \in Nat /\ Top >= 5 /\ MaxPayload \in 0..Top
    /\ MaxSections \in 0..Top /\ MaxSectionBytes \in Nat
    /\ \A k \in Kinds :
        /\ \A p \in Payloads[k] : Sendable(k, p) /\ (k = "ctrl" => Crc(<<Len(p)>> \o p) \in 0..Top)
        /\ Garbage[k] \subseteq Seq(0..Top)

ParserInit ==
    /\ kind \in Kinds
    /\ wire = <<>> /\ whole = {} /\ parts = 0
    /\ read = 0 /\ buf = <<>> /\ got = <<>>

\* The device sends the next part of the stream.
Emit(bytes) ==
    /\ parts < MaxParts /\ parts' = parts + 1
    /\ wire' = wire \o bytes
    /\ UNCHANGED <<kind, read, buf, got>>

SendFrame == \E p \in Payloads[kind] :
    /\ Emit(Encode(kind, p))
    /\ whole' = whole \cup {[at |-> Len(wire), size |-> Len(Encode(kind, p))]}

SendGarbage == \E g \in Garbage[kind] : Emit(g) /\ UNCHANGED whole

Moved(frames, d) == [i \in DOMAIN frames |-> [at |-> frames[i].at + d, size |-> frames[i].size]]

\* feed() with the next bytes of the stream.
Feed ==
    \E n \in 1..Len(wire) - read :
        LET b == buf \o Bytes(wire, read, n)
            r == Scan(kind, b)
        IN /\ got' = got \o Moved(r.taken, read - Len(buf))
           /\ buf' = Trim(kind, SubSeq(b, r.left + 1, Len(b)))
           /\ read' = read + n
           /\ UNCHANGED <<kind, wire, whole, parts>>

ParserNext == SendFrame \/ SendGarbage \/ Feed
ParserSpec == ParserInit /\ [][ParserNext]_parserVars

-----------------------------------------------------------------------------
(* Properties *)

\* The code keeps a rolling buffer and parses what each read brings: the frames
\* it has taken and the bytes it still holds are those of one feed() with
\* everything read so far, however the transport cut the stream; and the buffer
\* is never cut, because what is left after the loop is shorter than a frame.
ReadsDontMatter ==
    LET all == Scan(kind, SubSeq(wire, 1, read))
    IN got = all.taken /\ buf = SubSeq(wire, all.left + 1, read)

Overlap(f, g) == f.at < g.at + g.size /\ g.at < f.at + f.size

\* The resynchronisation of the three feed() loops: a frame that was sent whole
\* and has been read is taken, unless bytes that look like a frame, checksum,
\* sections or appendix included, were taken across it; until it is, the parser
\* holds it behind an earlier header whose bytes have not all come.
MissedOnlyToAnother ==
    \A f \in whole : f.at + f.size <= read =>
        \/ f \in ToSet(got)
        \/ \E g \in ToSet(got) \ whole : Overlap(f, g)
        \/ read - Len(buf) < f.at /\ Len(buf) < Size(kind, buf)

=============================================================================
