---------------------------- MODULE MC_StreamParsers ----------------------------
(***************************************************************************)
(* StreamParsers with bytes 0..5 and frames of at most eight bytes.  The   *)
(* payloads contain the bytes a frame begins with; between frames come     *)
(* beginnings, ends and damaged copies of the longest one.                 *)
(***************************************************************************)
EXTENDS StreamParsers

MCCrc(body) == FoldSeq(LAMBDA x, y : x + y, 0, body) % (Top + 1)

MCPayloads ==
    [ctrl  |-> {<<>>, <<SYNC0>>, <<SYNC0, SYNC1>>},
     audio |-> {<<0>>, <<1, TAG>>, <<0, 1, TAG>>, <<1, TAG, 1, 2>>},
     ota   |-> {<<>>, <<TAG>>, <<TAG, 0>>, <<TAG, 1, APPENDIX>>}]

Longest(k) == CHOOSE p \in MCPayloads[k] : \A q \in MCPayloads[k] : Len(q) <= Len(p)

Damaged(f) == {[f EXCEPT ![i] = (@ + 1) % (Top + 1)] : i \in {3, Len(f)}}
Cuts(f) == {SubSeq(f, 1, n) : n \in 1..Len(f) - 1} \cup {SubSeq(f, n, Len(f)) : n \in 2..Len(f)}

MCGarbage == [k \in Kinds |-> LET f == Encode(k, Longest(k)) IN Damaged(f) \cup Cuts(f)]

=============================================================================
