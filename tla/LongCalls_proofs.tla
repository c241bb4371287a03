--------------------------- MODULE LongCalls_proofs ----------------------------
(***************************************************************************)
(* Proofs about the calls of the SDK that take several requests and change *)
(* nothing of each other: the listings of PagedQuery, for any finite set   *)
(* of entries, any length of a page and any number of changes, and the     *)
(* captures of Capture, for any number of captures, connections, failures  *)
(* and profiles.                                                           *)
(***************************************************************************)
EXTENDS PagedQuery, Capture, FiniteSetTheorems, TLAPS

-----------------------------------------------------------------------------
(* Listings: sequences.                                                    *)

\* A piece of a sequence.
LEMMA Piece ==
    ASSUME NEW S, NEW s \in Seq(S), NEW a \in Nat, NEW b \in Nat, a <= b, b <= Len(s)
    PROVE  /\ SubSeq(s, a + 1, b) \in Seq(S) /\ Len(SubSeq(s, a + 1, b)) = b - a
           /\ \A i \in 1..(b - a) : SubSeq(s, a + 1, b)[i] = s[a + i]
<1>1. SubSeq(s, a + 1, b) \in Seq(S)
  OBVIOUS
<1> QED BY <1>1

LEMMA Joined ==
    ASSUME NEW S, NEW s \in Seq(S), NEW t \in Seq(S)
    PROVE  /\ s \o t \in Seq(S) /\ Len(s \o t) = Len(s) + Len(t)
           /\ \A i \in 1..Len(s) : (s \o t)[i] = s[i]
           /\ \A i \in 1..Len(t) : (s \o t)[Len(s) + i] = t[i]
OBVIOUS

LEMMA RangeOfJoined ==
    ASSUME NEW S, NEW s \in Seq(S), NEW t \in Seq(S)
    PROVE  Range(s \o t) = Range(s) \cup Range(t)
<1>1. /\ s \o t \in Seq(S) /\ Len(s \o t) = Len(s) + Len(t)
      /\ \A i \in 1..Len(s) : (s \o t)[i] = s[i]
      /\ \A i \in 1..Len(t) : (s \o t)[Len(s) + i] = t[i]
  BY Joined
<1>2. ASSUME NEW i \in 1..Len(s \o t) PROVE (s \o t)[i] \in Range(s) \cup Range(t)
  <2>1. CASE i <= Len(s)
    BY <1>1, <2>1 DEF Range
  <2>2. CASE i > Len(s)
    <3>1. PICK j \in 1..Len(t) : i = Len(s) + j
      <4>1. i - Len(s) \in 1..Len(t) /\ i = Len(s) + (i - Len(s))
        BY <1>1, <2>2
      <4> QED BY <4>1
    <3> QED BY <1>1, <3>1 DEF Range
  <2> QED BY <1>1, <2>1, <2>2
<1>3. ASSUME NEW i \in 1..Len(s) PROVE s[i] \in Range(s \o t)
  <2>1. i \in 1..Len(s \o t) /\ (s \o t)[i] = s[i]
    BY <1>1
  <2> QED BY <1>1, <2>1 DEF Range
<1>4. ASSUME NEW i \in 1..Len(t) PROVE t[i] \in Range(s \o t)
  <2>1. Len(s) + i \in 1..Len(s \o t) /\ (s \o t)[Len(s) + i] = t[i]
    BY <1>1
  <2>2. \A j \in 1..Len(s \o t) : (s \o t)[j] \in Range(s \o t)
    <3>1. DOMAIN (s \o t) = 1..Len(s \o t)
      BY <1>1
    <3> QED BY <3>1 DEF Range
  <2> QED BY <2>1, <2>2
<1>5. /\ Range(s) = {s[i] : i \in 1..Len(s)} /\ Range(t) = {t[i] : i \in 1..Len(t)}
      /\ Range(s \o t) = {(s \o t)[i] : i \in 1..Len(s \o t)}
  <2>1. DOMAIN s = 1..Len(s) /\ DOMAIN t = 1..Len(t) /\ DOMAIN (s \o t) = 1..Len(s \o t)
    BY <1>1
  <2> QED BY <2>1, Zenon DEF Range
<1> QED BY <1>2, <1>3, <1>4, <1>5

\* A sequence without the element at k.
LEMMA Removed ==
    ASSUME NEW S, NEW s \in Seq(S), NEW k \in 1..Len(s)
    PROVE  /\ RemoveAt(s, k) \in Seq(S) /\ Len(RemoveAt(s, k)) = Len(s) - 1
           /\ \A i \in 1..(k - 1) : RemoveAt(s, k)[i] = s[i]
           /\ \A i \in (k + 1)..Len(s) : RemoveAt(s, k)[i - 1] = s[i]
<1> DEFINE a == SubSeq(s, 1, k - 1)
           b == SubSeq(s, k + 1, Len(s))
<1>1. k - 1 \in Nat /\ k \in Nat /\ Len(s) \in Nat /\ k - 1 <= Len(s)
  OBVIOUS
<1>2. /\ a \in Seq(S) /\ Len(a) = k - 1
      /\ \A i \in 1..(k - 1) : a[i] = s[i]
  <2>1. /\ SubSeq(s, 0 + 1, k - 1) \in Seq(S) /\ Len(SubSeq(s, 0 + 1, k - 1)) = (k - 1) - 0
        /\ \A i \in 1..((k - 1) - 0) : SubSeq(s, 0 + 1, k - 1)[i] = s[0 + i]
    BY <1>1, Piece
  <2> QED BY <1>1, <2>1
<1>3. /\ b \in Seq(S) /\ Len(b) = Len(s) - k
      /\ \A i \in 1..(Len(s) - k) : b[i] = s[k + i]
  BY <1>1, Piece
<1>4. RemoveAt(s, k) = a \o b
  BY DEF RemoveAt
<1> HIDE DEF a, b
<1>5. /\ RemoveAt(s, k) \in Seq(S) /\ Len(RemoveAt(s, k)) = Len(a) + Len(b)
      /\ \A i \in 1..Len(a) : RemoveAt(s, k)[i] = a[i]
      /\ \A i \in 1..Len(b) : RemoveAt(s, k)[Len(a) + i] = b[i]
  <2>1. /\ a \o b \in Seq(S) /\ Len(a \o b) = Len(a) + Len(b)
        /\ \A i \in 1..Len(a) : (a \o b)[i] = a[i]
        /\ \A i \in 1..Len(b) : (a \o b)[Len(a) + i] = b[i]
    <3>1. a \in Seq(S) /\ b \in Seq(S)
      BY <1>2, <1>3
    <3> QED BY <3>1, Joined
  <2> QED BY <1>4, <2>1
<1>6. ASSUME NEW i \in (k + 1)..Len(s) PROVE RemoveAt(s, k)[i - 1] = s[i]
  <2>1. PICK j \in 1..(Len(s) - k) : i = k + j
    <3>1. i - k \in 1..(Len(s) - k) /\ i = k + (i - k)
      BY <1>1
    <3> QED BY <3>1
  <2>2. Len(a) + j = i - 1
    BY <1>1, <1>2, <2>1
  <2> QED BY <1>3, <1>5, <2>1, <2>2
<1> QED BY <1>1, <1>2, <1>3, <1>5, <1>6

-----------------------------------------------------------------------------
(* The invariants.                                                         *)

\* The entries of the list from the offset c on.
Behind(c) == {list[i] : i \in {j \in 1..Len(list) : j > c}}

\* No media item is listed twice.
NoneListedTwice == kind = "media" => IsInjective(items)

\* Media items were looked at before they were listed.
ListingTypeInv ==
    /\ TypeOK
    /\ NoneListedTwice
    /\ kind = "media" => Range(items) \subseteq seen

\* As long as nothing moved an entry before the cursor, what the device had
\* all the time is listed, or is in the page at hand, or is still to come: from
\* the cursor on, or from the end of the page if the device says there is more.
KeptInv ==
    /\ IsInjective(list)
    /\ stable \subseteq Range(list)
    /\ ~shifted =>
        /\ stage \in {"check", "page"} => stable \subseteq Range(items) \cup Behind(cursor)
        /\ stage = "entry" => stable \subseteq Range(items) \cup Range(page)
                                            \cup (IF more THEN Behind(next) ELSE {})
        /\ stage \in {"recheck", "done"} => stable \subseteq Range(items)

-----------------------------------------------------------------------------
(* Types.                                                                  *)

LEMMA ListAtFirst ==
    ASSUME NEW l \in SetToAllKPermutations(Entries)
    PROVE  l \in Seq(Entries)
<1>1. PICK S \in SUBSET Entries : l \in SetToSeqs(S)
  BY DEF SetToAllKPermutations
<1>2. Cardinality(S) \in Nat
  BY PagedAssumption, FS_Subset, FS_CardinalityType
<1>3. l \in [1..Cardinality(S) -> S]
  BY <1>1 DEF SetToSeqs
<1>4. l \in [1..Cardinality(S) -> Entries]
  BY <1>3
<1> QED BY <1>2, <1>4

LEMMA InitTypes == ListingInit => ListingTypeInv
<1> SUFFICES ASSUME ListingInit PROVE ListingTypeInv
  OBVIOUS
<1>1. list \in Seq(Entries) /\ stable = Range(list)
  BY ListAtFirst DEF ListingInit
<1>2. Range(list) \subseteq Entries
  BY <1>1 DEF Range
<1>3. page = <<>> /\ items = <<>> /\ seen = {}
  BY DEF ListingInit
<1>4. page \in Seq(Entries) /\ items \in Seq(Entries) /\ IsInjective(items) /\ Range(items) = {}
  BY <1>3 DEF IsInjective, Range
<1>5. stage \in {"check", "page"} /\ kind \in {"media", "scan"}
  BY DEF ListingInit
<1>6. {cursor, next, turns, listChanges} \subseteq Nat /\ {more, same, ready, shifted} \subseteq BOOLEAN
  <2>1. ready \in BOOLEAN
    BY Zenon DEF ListingInit
  <2>2. same \in BOOLEAN /\ more = FALSE /\ shifted = FALSE
    BY Zenon DEF ListingInit
  <2>3. {more, same, ready, shifted} \subseteq BOOLEAN
    BY <2>1, <2>2, Zenon
  <2>4. {cursor, next, turns, listChanges} \subseteq Nat
    BY DEF ListingInit
  <2> QED BY <2>3, <2>4
<1> QED BY <1>1, <1>2, <1>3, <1>4, <1>5, <1>6 DEF ListingTypeInv, TypeOK, NoneListedTwice

\* An entry more that was not looked at before is listed once.
LEMMA EntryTypes ==
    ASSUME ListingTypeInv, Entry
    PROVE  ListingTypeInv'
<1> DEFINE e == Head(page)
<1>1. e \in Entries /\ page' \in Seq(Entries)
  BY DEF Entry, ListingTypeInv, TypeOK
<1>2. UNCHANGED <<kind, cursor, next, more, turns, list, same, ready, listChanges, stable, shifted>>
      /\ stage' \in {"entry", "failed"}
  BY DEF Entry, listVars
<1>3. items \in Seq(Entries)
  BY DEF ListingTypeInv, TypeOK
<1> HIDE DEF e
<1>4. /\ items' = items \/ items' = Append(items, e)
      /\ seen' = seen \/ seen' = seen \cup {e}
      /\ items' = items \/ seen' = seen \cup {e}
      /\ kind = "media" /\ items' # items => e \notin seen
  BY DEF Entry, SeenBefore, e
<1>5. items' \in Seq(Entries) /\ seen' \subseteq Entries
  <2>1. Append(items, e) \in Seq(Entries)
    BY <1>1, <1>3
  <2>2. seen \subseteq Entries
    BY DEF ListingTypeInv, TypeOK
  <2> QED BY <1>1, <1>3, <1>4, <2>1, <2>2
<1>6. ASSUME kind = "media" PROVE Range(items') \subseteq seen' /\ IsInjective(items')
  <2>1. IsInjective(items) /\ Range(items) \subseteq seen
    BY <1>6 DEF ListingTypeInv, TypeOK, NoneListedTwice
  <2>2. CASE items' = items
    BY <1>4, <2>1, <2>2
  <2>3. CASE items' # items
    <3>1. items' = Append(items, e) /\ e \notin Range(items) /\ seen' = seen \cup {e}
      BY <1>4, <1>6, <2>1, <2>3
    <3>2. /\ DOMAIN items' = 1..(Len(items) + 1) /\ Len(items) \in Nat /\ DOMAIN items = 1..Len(items)
          /\ items'[Len(items) + 1] = e /\ \A i \in 1..Len(items) : items'[i] = items[i]
      BY <1>3, <3>1
    <3>3. \A i \in 1..Len(items) : items[i] \in Range(items)
      BY <3>2 DEF Range
    <3>4. Range(items') \subseteq Range(items) \cup {e}
      BY <3>2, <3>3 DEF Range
    <3>5. \A i, j \in 1..Len(items) : items[i] = items[j] => i = j
      BY <2>1, <3>2 DEF IsInjective
    <3>6. ASSUME NEW i \in 1..(Len(items) + 1), NEW j \in 1..(Len(items) + 1), items'[i] = items'[j]
          PROVE  i = j
      BY <3>1, <3>2, <3>3, <3>5, <3>6
    <3> QED BY <2>1, <3>1, <3>2, <3>4, <3>6 DEF IsInjective
  <2> QED BY <2>2, <2>3
<1> QED BY <1>1, <1>2, <1>5, <1>6 DEF ListingTypeInv, TypeOK, NoneListedTwice

LEMMA RequestTypes ==
    ASSUME ListingTypeInv, CheckCatalog \/ AskPage \/ AskOther \/ PageEnds \/ NotReady \/ ListingFails
    PROVE  ListingTypeInv'
<1>1. CASE CheckCatalog \/ AskOther \/ NotReady \/ ListingFails
  BY <1>1 DEF CheckCatalog, AskOther, NotReady, ListingFails, listVars, ListingTypeInv, TypeOK,
     NoneListedTwice
<1>2. CASE AskPage
  <2>1. PICK n \in 0..Smaller(PageMax, Len(list) - Smaller(cursor, Len(list))) :
            page' = SubSeq(list, cursor + 1, cursor + n) /\ shifted' = (shifted \/ (more' /\ next' > cursor + n))
    BY <1>2 DEF AskPage
  <2>2. list \in Seq(Entries) /\ cursor \in Nat /\ Len(list) \in Nat /\ PageMax \in Nat
    BY PagedAssumption DEF ListingTypeInv, TypeOK
  <2>3. n \in Nat /\ (cursor + n <= Len(list) \/ n = 0)
    BY <2>2 DEF Smaller
  <2>4. page' \in Seq(Entries)
    <3>1. CASE n = 0
      BY <2>1, <2>2, <3>1
    <3>2. CASE cursor + n <= Len(list)
      BY <2>1, <2>2, <2>3, <3>2, Piece
    <3> QED BY <2>3, <3>1, <3>2
  <2>5. next' \in Nat /\ stage' \in {"entry", "failed"}
    BY <1>2, PagedAssumption DEF AskPage
  <2>6. more' \in BOOLEAN /\ shifted' \in BOOLEAN
    <3>1. PICK m \in 0..Smaller(PageMax, Len(list) - Smaller(cursor, Len(list))) :
              more' \in {TRUE, cursor + m < Len(list)}
      BY <1>2 DEF AskPage
    <3>2. (cursor + m < Len(list)) = TRUE \/ (cursor + m < Len(list)) = FALSE
      OBVIOUS
    <3>3. more' \in BOOLEAN
      BY <3>1, <3>2, Zenon
    <3>4. shifted' \in BOOLEAN
      BY <2>1, Zenon
    <3> QED BY <3>3, <3>4
  <2>7. UNCHANGED <<kind, cursor, items, seen, turns, list, same, ready, listChanges, stable>>
    BY <1>2 DEF AskPage
  <2> QED BY <2>4, <2>5, <2>6, <2>7 DEF ListingTypeInv, TypeOK, NoneListedTwice
<1>3. CASE PageEnds
  <2>1. cursor' \in Nat /\ turns' \in Nat /\ stage' \in {"recheck", "done", "failed", "page"}
    BY <1>3 DEF PageEnds, NextCursor, AfterLast, ListingTypeInv, TypeOK
  <2> QED BY <1>3, <2>1 DEF PageEnds, listVars, ListingTypeInv, TypeOK, NoneListedTwice
<1> QED BY <1>1, <1>2, <1>3

LEMMA DeviceTypes ==
    ASSUME ListingTypeInv, ScanReady \/ EntryRemoved \/ EntryAdded \/ NewCatalog \/ UNCHANGED listingVars
    PROVE  ListingTypeInv'
<1>1. CASE ScanReady \/ NewCatalog \/ UNCHANGED listingVars
  BY <1>1 DEF ScanReady, NewCatalog, listingVars, listVars, ListingTypeInv, TypeOK, NoneListedTwice
<1>2. ASSUME NEW l \in Seq(Entries), Change(l), shifted' \in BOOLEAN PROVE ListingTypeInv'
  BY <1>2 DEF Change, ListingTypeInv, TypeOK, NoneListedTwice
<1>3. CASE EntryRemoved
  <2>1. PICK i \in DOMAIN list :
           /\ Change(RemoveAt(list, i))
           /\ shifted' = (shifted \/ i <= IF stage = "entry" THEN next ELSE cursor)
    BY <1>3 DEF EntryRemoved
  <2>2. list \in Seq(Entries)
    BY DEF ListingTypeInv, TypeOK
  <2>3. RemoveAt(list, i) \in Seq(Entries)
    BY <2>2, Removed
  <2>4. shifted' \in BOOLEAN
    BY <2>1, Zenon DEF ListingTypeInv, TypeOK
  <2> QED BY <1>2, <2>1, <2>3, <2>4
<1>4. CASE EntryAdded
  <2>1. PICK e \in Entries \ Range(list) : Change(Append(list, e)) \/ Change(<<e>> \o list)
    BY <1>4 DEF EntryAdded
  <2>2. list \in Seq(Entries) /\ <<e>> \in Seq(Entries)
    BY DEF ListingTypeInv, TypeOK
  <2>3. Append(list, e) \in Seq(Entries) /\ <<e>> \o list \in Seq(Entries)
    BY <2>2
  <2>4. shifted' \in BOOLEAN
    BY <1>4 DEF EntryAdded, ListingTypeInv, TypeOK
  <2> QED BY <1>2, <2>1, <2>3, <2>4
<1> QED BY <1>1, <1>3, <1>4

\* The types and what was seen are inductive together.
LEMMA ListingTypes == ListingSpec => []ListingTypeInv
<1>1. ListingTypeInv /\ [ListingNext]_listingVars => ListingTypeInv'
  BY EntryTypes, RequestTypes, DeviceTypes DEF ListingNext, Requests
<1> QED BY <1>1, InitTypes, PTL DEF ListingSpec

\* No media item is listed twice, though new entries push others to offsets
\* that are still to be asked for (CatalogClient.list).
THEOREM NotTwice == ListingSpec => []NoneListedTwice
<1>1. ListingTypeInv => NoneListedTwice
  BY DEF ListingTypeInv
<1> QED BY <1>1, ListingTypes, PTL

-----------------------------------------------------------------------------
(* What the listing has seen.                                              *)

\* A removal behind an offset moves nothing before it: the rest stays behind.
LEMMA RemovalBehind ==
    ASSUME list \in Seq(Entries), IsInjective(list), NEW i \in 1..Len(list), list' = RemoveAt(list, i)
    PROVE  /\ IsInjective(list')
           /\ Range(list') \subseteq Range(list)
           /\ \A c \in Nat : i > c => Behind(c) \cap Range(list') \subseteq Behind(c)'
<1>1. /\ list' \in Seq(Entries) /\ Len(list') = Len(list) - 1
      /\ \A j \in 1..(i - 1) : list'[j] = list[j]
      /\ \A j \in (i + 1)..Len(list) : list'[j - 1] = list[j]
  BY Removed
<1>2. Len(list) \in Nat /\ i \in Nat /\ DOMAIN list = 1..Len(list) /\ DOMAIN list' = 1..(Len(list) - 1)
  BY <1>1
<1>3. ASSUME NEW k \in 1..(Len(list) - 1)
      PROVE  list'[k] = list[IF k < i THEN k ELSE k + 1]
  <2>1. CASE k < i
    BY <1>1, <1>2, <2>1
  <2>2. CASE k >= i
    <3>1. k + 1 \in (i + 1)..Len(list) /\ (k + 1) - 1 = k /\ ~(k < i)
      BY <1>2, <2>2
    <3>2. list'[(k + 1) - 1] = list[k + 1]
      BY <1>1, <3>1
    <3> QED BY <3>1, <3>2
  <2> QED BY <1>2, <2>1, <2>2
<1>4. \A k \in 1..(Len(list) - 1) : (IF k < i THEN k ELSE k + 1) \in 1..Len(list) \ {i}
  BY <1>2
<1>5. \A a, b \in 1..Len(list) : list[a] = list[b] => a = b
  BY <1>2 DEF IsInjective
<1>6. IsInjective(list')
  <2>1. ASSUME NEW a \in 1..(Len(list) - 1), NEW b \in 1..(Len(list) - 1), list'[a] = list'[b]
        PROVE  a = b
    <3>1. (IF a < i THEN a ELSE a + 1) = (IF b < i THEN b ELSE b + 1)
      BY <1>3, <1>4, <1>5, <2>1
    <3> QED BY <1>2, <3>1
  <2> QED BY <1>2, <2>1 DEF IsInjective
<1>7. list[i] \notin Range(list') /\ Range(list') \subseteq Range(list)
  <2>1. \A k \in 1..(Len(list) - 1) : \E j \in 1..Len(list) \ {i} : list'[k] = list[j]
    BY <1>3, <1>4
  <2>2. DOMAIN list = 1..Len(list) /\ DOMAIN list' = 1..(Len(list) - 1)
    BY <1>2, <1>5
  <2>3. Range(list') \subseteq Range(list)
    BY <2>1, <2>2 DEF Range
  <2>4. \A k \in DOMAIN list' : list'[k] # list[i]
    BY <1>5, <2>1, <2>2
  <2> QED BY <2>3, <2>4 DEF Range
<1>8. ASSUME NEW c \in Nat, i > c, NEW j \in 1..Len(list), j > c, list[j] \in Range(list')
      PROVE  \E k \in 1..Len(list') : k > c /\ list'[k] = list[j]
  <2>1. CASE j < i
    <3>1. j \in 1..(i - 1) /\ j \in 1..Len(list')
      BY <1>1, <1>2, <2>1
    <3> QED BY <1>1, <1>8, <3>1
  <2>2. CASE j > i
    <3>1. j \in (i + 1)..Len(list) /\ j - 1 \in 1..Len(list') /\ j - 1 > c
      BY <1>1, <1>2, <1>8, <2>2
    <3> QED BY <1>1, <3>1
  <2>3. j # i
    BY <1>7, <1>8
  <2> QED BY <1>2, <2>1, <2>2, <2>3
<1>9. ASSUME NEW c \in Nat, i > c PROVE Behind(c) \cap Range(list') \subseteq Behind(c)'
  BY <1>8, <1>9 DEF Behind
<1> QED BY <1>6, <1>7, <1>9

\* What comes to the list leaves its entries in order.
LEMMA AdditionBehind ==
    ASSUME list \in Seq(Entries), IsInjective(list), NEW e \in Entries, e \notin Range(list),
           list' = Append(list, e) \/ list' = <<e>> \o list
    PROVE  /\ IsInjective(list')
           /\ Range(list) \subseteq Range(list')
           /\ \A c \in Nat : Behind(c) \subseteq Behind(c)'
<1>1. Len(list) \in Nat /\ DOMAIN list = 1..Len(list) /\ DOMAIN list' = 1..(Len(list) + 1)
      /\ Len(list') = Len(list) + 1
  OBVIOUS
<1>2. PICK d \in {0, 1} :
          /\ \A j \in 1..Len(list) : list'[j + d] = list[j]
          /\ list'[IF d = 0 THEN Len(list) + 1 ELSE 1] = e
  <2>1. CASE list' = Append(list, e)
    <3>1. /\ \A j \in 1..Len(list) : list'[j] = list[j] /\ j + 0 = j
          /\ list'[Len(list) + 1] = e
      BY <2>1
    <3>2. \A j \in 1..Len(list) : list'[j + 0] = list[j]
      BY <3>1
    <3> QED BY <3>1, <3>2
  <2>2. CASE list' = <<e>> \o list
    <3>1. /\ \A j \in 1..Len(list) : list'[j + 1] = list[j]
          /\ list'[1] = e
      BY <2>2
    <3> QED BY <3>1
  <2> QED BY <2>1, <2>2
<1>3. ASSUME NEW k \in 1..(Len(list) + 1)
      PROVE  (list'[k] = e /\ k = IF d = 0 THEN Len(list) + 1 ELSE 1)
             \/ \E j \in 1..Len(list) : k = j + d /\ list'[k] = list[j]
  <2>1. CASE k = IF d = 0 THEN Len(list) + 1 ELSE 1
    BY <1>2, <2>1
  <2>2. CASE k # IF d = 0 THEN Len(list) + 1 ELSE 1
    <3>1. k - d \in 1..Len(list) /\ k = (k - d) + d
      BY <1>1, <2>2
    <3> QED BY <1>2, <3>1
  <2> QED BY <2>1, <2>2
<1>4. \A j \in 1..Len(list) : list[j] # e
  BY <1>1 DEF Range
<1>5. \A a, b \in 1..Len(list) : list[a] = list[b] => a = b
  BY <1>1 DEF IsInjective
<1>6. IsInjective(list')
  <2>1. ASSUME NEW a \in 1..(Len(list) + 1), NEW b \in 1..(Len(list) + 1), list'[a] = list'[b]
        PROVE  a = b
    <3>1. CASE list'[a] = e
      BY <1>3, <1>4, <2>1, <3>1
    <3>2. CASE list'[a] # e
      <4>1. PICK j \in 1..Len(list) : a = j + d /\ list'[a] = list[j]
        BY <1>3, <3>2
      <4>2. PICK k \in 1..Len(list) : b = k + d /\ list'[b] = list[k]
        BY <1>3, <2>1, <3>2
      <4>3. j = k
        BY <1>5, <2>1, <4>1, <4>2
      <4> QED BY <4>1, <4>2, <4>3
    <3> QED BY <3>1, <3>2
  <2> QED BY <1>1, <2>1 DEF IsInjective
<1>7. \A j \in 1..Len(list) : j + d \in 1..(Len(list) + 1) /\ j + d >= j /\ list'[j + d] = list[j]
  BY <1>1, <1>2
<1>8. Range(list) \subseteq Range(list')
  BY <1>1, <1>7 DEF Range
<1>9. ASSUME NEW c \in Nat, NEW j \in 1..Len(list), j > c
      PROVE  \E k \in 1..Len(list') : k > c /\ list'[k] = list[j]
  <2>1. j + d \in 1..Len(list') /\ j + d > c /\ list'[j + d] = list[j]
    BY <1>1, <1>7, <1>9
  <2> QED BY <2>1
<1>10. ASSUME NEW c \in Nat PROVE Behind(c) \subseteq Behind(c)'
  <2>1. Behind(c)' = {list'[k] : k \in {j \in 1..Len(list') : j > c}}
    BY DEF Behind
  <2>2. ASSUME NEW x \in Behind(c) PROVE x \in Behind(c)'
    <3>1. PICK j \in 1..Len(list) : j > c /\ x = list[j]
      BY <2>2 DEF Behind
    <3>2. PICK k \in 1..Len(list') : k > c /\ list'[k] = list[j]
      BY <1>9, <1>10, <3>1
    <3> QED BY <2>1, <3>1, <3>2
  <2> QED BY <2>2
<1> QED BY <1>6, <1>8, <1>10

LEMMA EntryKeeps ==
    ASSUME ListingTypeInv, KeptInv, Entry
    PROVE  KeptInv'
<1>1. /\ stage = "entry" /\ stage' \in {"entry", "failed"} /\ page # <<>>
      /\ UNCHANGED <<list, stable, shifted, next, more>>
  BY DEF Entry, listVars
<1>2. page \in Seq(Entries) /\ items \in Seq(Entries)
  BY DEF ListingTypeInv, TypeOK
<1>3. CASE stage' = "failed"
  BY <1>1, <1>3 DEF KeptInv
<1>4. CASE stage' = "entry"
  <2>1. /\ page' = Tail(page)
        /\ items' = IF kind = "scan" \/ Head(page) \in Range(list)
                  THEN Append(items, Head(page)) ELSE items
    BY <1>4 DEF Entry
  <2>2. Range(page) \subseteq {Head(page)} \cup Range(page')
    <3>1. /\ Len(page) \in Nat /\ DOMAIN page = 1..Len(page) /\ DOMAIN page' = 1..(Len(page) - 1)
          /\ Head(page) = page[1] /\ \A i \in 1..(Len(page) - 1) : page'[i] = page[i + 1]
      BY <1>1, <1>2, <2>1
    <3>2. ASSUME NEW i \in 1..Len(page), i # 1 PROVE page[i] \in Range(page')
      <4>1. i - 1 \in 1..(Len(page) - 1) /\ (i - 1) + 1 = i
        BY <3>1, <3>2
      <4>2. page'[i - 1] = page[i]
        BY <3>1, <4>1
      <4> QED BY <3>1, <4>1, <4>2 DEF Range
    <3> QED BY <3>1, <3>2 DEF Range
  <2>3. Range(items) \subseteq Range(items')
        /\ (Head(page) \in Range(list) => Head(page) \in Range(items'))
    <3>1. CASE items' = Append(items, Head(page))
      <4>1. /\ Len(items) \in Nat /\ DOMAIN items = 1..Len(items) /\ DOMAIN items' = 1..(Len(items) + 1)
            /\ items'[Len(items) + 1] = Head(page) /\ \A i \in 1..Len(items) : items'[i] = items[i]
        BY <1>1, <1>2, <3>1
      <4> QED BY <4>1 DEF Range
    <3>2. CASE items' = items /\ Head(page) \notin Range(list)
      BY <3>2
    <3> QED BY <2>1, <3>1, <3>2
  <2>4. ~shifted => stable \subseteq Range(items) \cup Range(page) \cup (IF more THEN Behind(next) ELSE {})
    BY <1>1 DEF KeptInv
  <2>5. Behind(next)' = Behind(next)
    BY <1>1 DEF Behind
  <2>6. ~shifted => stable \subseteq Range(items') \cup Range(page') \cup (IF more THEN Behind(next) ELSE {})
    BY <2>2, <2>3, <2>4 DEF KeptInv
  <2> QED BY <1>1, <1>4, <2>5, <2>6 DEF KeptInv
<1> QED BY <1>1, <1>3, <1>4

LEMMA PageKeeps ==
    ASSUME ListingTypeInv, KeptInv, AskPage
    PROVE  KeptInv'
<1>1. /\ stage = "page" /\ stage' \in {"entry", "failed"}
      /\ UNCHANGED <<list, stable, items, cursor>>
  BY DEF AskPage
<1>2. PICK n \in 0..Smaller(PageMax, Len(list) - Smaller(cursor, Len(list))) :
          /\ page' = SubSeq(list, cursor + 1, cursor + n) /\ next' \in 0..MaxOffset
          /\ more' \in {TRUE, cursor + n < Len(list)}
          /\ shifted' = (shifted \/ (more' /\ next' > cursor + n))
  BY DEF AskPage
<1>3. list \in Seq(Entries) /\ cursor \in Nat /\ Len(list) \in Nat /\ PageMax \in Nat
  BY PagedAssumption DEF ListingTypeInv, TypeOK
<1>4. n \in Nat /\ (cursor + n <= Len(list) \/ n = 0)
  BY <1>3 DEF Smaller
<1>5. next' \in Nat /\ (~shifted' => ~shifted /\ (~more' \/ next' <= cursor + n))
  <2>1. next' \in Nat
    BY <1>2, PagedAssumption
  <2>2. ~shifted' => ~shifted /\ (~more' \/ ~(next' > cursor + n))
    BY <1>2, Zenon
  <2> QED BY <1>3, <1>4, <2>1, <2>2
<1>6. ASSUME ~shifted', NEW j \in 1..Len(list), j > cursor
      PROVE  list[j] \in Range(page') \/ (more' /\ list[j] \in Behind(next)')
  <2>1. CASE j <= cursor + n
    <3>1. cursor + n <= Len(list) /\ cursor <= cursor + n /\ cursor + n \in Nat
      BY <1>3, <1>4, <1>6, <2>1
    <3>2. PICK i \in 1..((cursor + n) - cursor) : j = cursor + i
      <4>1. j - cursor \in 1..((cursor + n) - cursor) /\ j = cursor + (j - cursor)
        BY <1>3, <1>4, <1>6, <2>1
      <4> QED BY <4>1
    <3>3. /\ Len(page') = (cursor + n) - cursor /\ page' \in Seq(Entries)
          /\ \A k \in 1..((cursor + n) - cursor) : page'[k] = list[cursor + k]
      <4>1. PICK b \in Nat : b = cursor + n /\ cursor <= b /\ b <= Len(list)
        BY <3>1
      <4> QED BY <1>2, <1>3, <4>1, Piece
    <3> QED BY <3>2, <3>3 DEF Range
  <2>2. CASE j > cursor + n
    <3>1. cursor + n < Len(list)
      BY <1>3, <1>4, <2>2
    <3>2. more' /\ list' = list
      BY <1>1, <1>2, <3>1
    <3>3. j > next'
      BY <1>3, <1>4, <1>6, <1>5, <2>2, <3>2
    <3> QED BY <3>2, <3>3 DEF Behind
  <2> QED BY <1>3, <1>4, <2>1, <2>2
<1>7. ~shifted' => Behind(cursor) \subseteq Range(page') \cup (IF more' THEN Behind(next)' ELSE {})
  BY <1>6 DEF Behind
<1>8. ~shifted => stable \subseteq Range(items) \cup Behind(cursor)
  BY <1>1 DEF KeptInv
<1>9. ~shifted' => stable \subseteq Range(items) \cup Range(page') \cup (IF more' THEN Behind(next)' ELSE {})
  BY <1>7, <1>8, <1>5
<1> QED BY <1>1, <1>9 DEF KeptInv

LEMMA RequestKeeps ==
    ASSUME ListingTypeInv, KeptInv, CheckCatalog \/ AskOther \/ PageEnds \/ NotReady \/ ListingFails
    PROVE  KeptInv'
<1>1. CASE CheckCatalog \/ AskOther \/ NotReady \/ ListingFails
  <2>1. /\ UNCHANGED <<list, stable, shifted, items, cursor>>
        /\ stage' = "failed" \/ (stage' = stage /\ stage = "page")
           \/ (stage = "check" /\ stage' = "page") \/ (stage = "recheck" /\ stage' = "done")
    BY <1>1 DEF CheckCatalog, AskOther, NotReady, ListingFails, listVars
  <2>2. Behind(cursor)' = Behind(cursor)
    BY <2>1 DEF Behind
  <2> QED BY <2>1, <2>2 DEF KeptInv
<1>2. CASE PageEnds
  <2>1. /\ UNCHANGED <<list, stable, shifted, items>> /\ stage = "entry" /\ page = <<>>
        /\ \/ ~more /\ stage' \in {"recheck", "done"}
           \/ more /\ stage' = "failed"
           \/ more /\ stage' = "page" /\ cursor' = next
    BY <1>2 DEF PageEnds, AfterLast, NextCursor, listVars
  <2>2. Range(page) = {}
    BY <2>1 DEF Range
  <2>3. ~shifted => stable \subseteq Range(items) \cup (IF more THEN Behind(next) ELSE {})
    BY <2>1, <2>2 DEF KeptInv
  <2>4. CASE ~more /\ stage' \in {"recheck", "done"}
    BY <2>1, <2>3, <2>4 DEF KeptInv
  <2>5. CASE stage' = "failed"
    BY <2>1, <2>5 DEF KeptInv
  <2>6. CASE more /\ stage' = "page" /\ cursor' = next
    <3>1. Behind(cursor)' = Behind(next)
      BY <2>1, <2>6 DEF Behind
    <3> QED BY <2>1, <2>3, <2>6, <3>1 DEF KeptInv
  <2> QED BY <2>1, <2>4, <2>5, <2>6
<1> QED BY <1>1, <1>2

\* A removal that counts is one before the cursor, or before the end of the
\* page at hand.
LEMMA DeviceKeeps ==
    ASSUME ListingTypeInv, KeptInv,
           ScanReady \/ EntryRemoved \/ EntryAdded \/ NewCatalog \/ UNCHANGED listingVars
    PROVE  KeptInv'
<1>0. list \in Seq(Entries) /\ IsInjective(list) /\ cursor \in Nat /\ next \in Nat
  BY DEF ListingTypeInv, TypeOK, KeptInv
<1>1. CASE ScanReady \/ NewCatalog \/ UNCHANGED listingVars
  <2>1. UNCHANGED <<list, stable, shifted, items, cursor, next, more, page, stage>>
    BY <1>1 DEF ScanReady, NewCatalog, listingVars, listVars
  <2>2. Behind(cursor)' = Behind(cursor) /\ Behind(next)' = Behind(next)
    BY <2>1 DEF Behind
  <2> QED BY <2>1, <2>2 DEF KeptInv
<1>2. ASSUME NEW l, Change(l), IsInjective(list'),
             ~shifted' => ~shifted,
             ~shifted' /\ stage # "entry" => Behind(cursor) \cap Range(list') \subseteq Behind(cursor)',
             ~shifted' /\ stage = "entry" => Behind(next) \cap Range(list') \subseteq Behind(next)'
      PROVE  KeptInv'
  <2>1. /\ UNCHANGED <<items, cursor, next, more, page, stage>> /\ list' = l
        /\ stable' = stable \cap Range(l)
    BY <1>2 DEF Change
  <2>2. stable' \subseteq Range(list') /\ stable' \subseteq stable
    BY <2>1
  <2>3. ~shifted' /\ stage' \in {"check", "page"} => stable' \subseteq Range(items') \cup Behind(cursor)'
    BY <1>2, <2>1, <2>2 DEF KeptInv
  <2>4. ~shifted' /\ stage' = "entry" => stable' \subseteq Range(items') \cup Range(page')
                                                   \cup (IF more' THEN Behind(next)' ELSE {})
    BY <1>2, <2>1, <2>2 DEF KeptInv
  <2>5. ~shifted' /\ stage' \in {"recheck", "done"} => stable' \subseteq Range(items')
    BY <1>2, <2>1, <2>2 DEF KeptInv
  <2> QED BY <1>2, <2>2, <2>3, <2>4, <2>5 DEF KeptInv
<1>3. CASE EntryRemoved
  <2>1. PICK i \in DOMAIN list :
           /\ Change(RemoveAt(list, i))
           /\ shifted' = (shifted \/ i <= IF stage = "entry" THEN next ELSE cursor)
    BY <1>3 DEF EntryRemoved
  <2>2. i \in 1..Len(list) /\ list' = RemoveAt(list, i)
    BY <1>0, <2>1 DEF Change
  <2>3. /\ IsInjective(list')
        /\ \A c \in Nat : i > c => Behind(c) \cap Range(list') \subseteq Behind(c)'
    BY <1>0, <2>2, RemovalBehind
  <2>4. ~shifted' => ~shifted /\ i > IF stage = "entry" THEN next ELSE cursor
    <3> DEFINE o == IF stage = "entry" THEN next ELSE cursor
    <3>1. ~shifted' => ~shifted /\ ~(i <= o)
      BY <2>1, Zenon
    <3>2. ~(i <= o) => i > o
      BY <1>0, <2>2
    <3> QED BY <3>1, <3>2, Zenon
  <2>5. ASSUME NEW c \in Nat, i > c, cursor' = cursor, next' = next
        PROVE  /\ c = cursor => Behind(cursor) \cap Range(list') \subseteq Behind(cursor)'
               /\ c = next => Behind(next) \cap Range(list') \subseteq Behind(next)'
    BY <2>3, <2>5 DEF Behind
  <2>6. cursor' = cursor /\ next' = next
    BY <2>1 DEF Change
  <2>7. ~shifted' /\ stage # "entry" => Behind(cursor) \cap Range(list') \subseteq Behind(cursor)'
    BY <1>0, <2>4, <2>5, <2>6
  <2>8. ~shifted' /\ stage = "entry" => Behind(next) \cap Range(list') \subseteq Behind(next)'
    BY <1>0, <2>4, <2>5, <2>6
  <2> QED BY <1>2, <2>1, <2>3, <2>4, <2>7, <2>8
<1>4. CASE EntryAdded
  <2>1. PICK e \in Entries \ Range(list) : Change(Append(list, e)) \/ Change(<<e>> \o list)
    BY <1>4 DEF EntryAdded
  <2>2. list' = Append(list, e) \/ list' = <<e>> \o list
    BY <2>1 DEF Change
  <2>3. IsInjective(list') /\ \A c \in Nat : Behind(c) \subseteq Behind(c)'
    BY <1>0, <2>2, AdditionBehind
  <2>4. shifted' = shifted
    BY <1>4 DEF EntryAdded
  <2>5. Behind(cursor) \subseteq Behind(cursor)' /\ Behind(next) \subseteq Behind(next)'
    <3>1. cursor' = cursor /\ next' = next
      BY <2>1 DEF Change
    <3> QED BY <1>0, <2>3, <3>1 DEF Behind
  <2> QED BY <1>2, <2>1, <2>3, <2>4, <2>5
<1> QED BY <1>1, <1>3, <1>4

\* A listing that ends well has every entry the device had all the time unless
\* one before the cursor was removed or the device gave an offset past the end
\* of its page, whatever the lengths of the pages, however the offsets stand or
\* go back and wherever entries come (CatalogClient.list, WifiClient.scan).
THEOREM NothingIsMissed == ListingSpec => []MissedOnlyIfShifted
<1>1. ListingInit => KeptInv
  <2> SUFFICES ASSUME ListingInit PROVE KeptInv
    OBVIOUS
  <2>1. list \in Seq(Entries)
    BY ListAtFirst DEF ListingInit
  <2>2. IsInjective(list)
    <3>1. PICK S \in SUBSET Entries : list \in SetToSeqs(S)
      BY DEF ListingInit, SetToAllKPermutations
    <3> QED BY <3>1 DEF SetToSeqs, IsInjective
  <2>3. stable = Range(list) /\ cursor = 0 /\ stage \in {"check", "page"}
    BY DEF ListingInit
  <2>4. Range(list) \subseteq Behind(cursor)
    BY <2>1, <2>3 DEF Behind, Range
  <2> QED BY <2>2, <2>3, <2>4 DEF KeptInv
<1>2. ListingTypeInv /\ KeptInv /\ [ListingNext]_listingVars => KeptInv'
  BY EntryKeeps, PageKeeps, RequestKeeps, DeviceKeeps DEF ListingNext, Requests
<1>3. KeptInv => MissedOnlyIfShifted
  BY DEF KeptInv, MissedOnlyIfShifted
<1> QED BY <1>1, <1>2, <1>3, ListingTypes, PTL DEF ListingSpec

-----------------------------------------------------------------------------
(* Captures.                                                               *)

\* What the variables hold.
Wanted == Profiles \cup {Duration}
Syncs == {"APPLIED", "PENDING", "UNCONFIRMED"}
Configs == [saved : Profiles, want : Profiles, sync : Syncs]
Operations(n) == [kind : {"photo", "video"}, conn : 1..n, state : Active \cup Over]
CapRequests(n) == [cmd : {"SAVED_PHOTO", "VIDEO_START", "MEDIA_STATUS", "VIDEO_STOP"},
                arg : Nat, conn : {n}]
               \cup [cmd : {"SET_VIDEO_CONFIG", "GET_VIDEO_CONFIG"}, arg : Wanted \cup {0}, conn : {n}]
Answers == {None, Bad} \cup [kind : {"op"}, id : Nat]
           \cup [kind : {"status"}, id : Nat, what : {"photo", "video"}, state : Active \cup Over]
           \cup [kind : {"config"}, config : Configs]
Calls == [name : {"none", "photo", "video_start", "video_stop", "config"},
          owner : Nat, id : Nat, want : Wanted \cup {0}]

\* Where the call in progress is, also while close() runs under it.
Place == IF at \in {"closing", "closed"} THEN back ELSE at

\* Types.
CallTypes ==
    /\ conn \in Nat \ {0} /\ video \in Nat
    /\ call \in Calls /\ ans \in Answers /\ got \in Answers

CmdTypes ==
    /\ up \in BOOLEAN
    /\ cmds \in Seq(CapRequests(conn)) /\ (~up => cmds = <<>>)
    /\ \A i \in DOMAIN cmds : cmds[i].cmd = "SET_VIDEO_CONFIG" => cmds[i].arg \in Wanted

CapDevice == ops \in Seq(Operations(conn)) /\ known \subseteq DOMAIN ops /\ profile \in Configs

CapTypeInv == CallTypes /\ CmdTypes /\ CapDevice /\ faults \in Nat

\* The requests of each call.
StepsOf(name) ==
    CASE name \in {"photo", "video_start"} -> {"begin", "status"}
      [] name = "video_stop" -> {"query", "stop", "status"}
      [] name = "config" -> {"set", "get"}
      [] OTHER -> {}

\* No call but in progress, and in one of its requests.
CallInv ==
    /\ at \in {"idle", "sent", "poll", "check", "pause", "closing", "closed"}
    /\ back \in {"none", "idle", "poll", "pause"}
    /\ (back = "none") = (at \notin {"closing", "closed"})
    /\ Place = "idle" => call = NoCall
    /\ Place # "idle" => step \in StepsOf(call.name)
    /\ Place = "check" => call.name # "config"

\* The request that begins a capture.
Begins == IF call.name = "photo" THEN "SAVED_PHOTO" ELSE "VIDEO_START"
Captures(c) == c.cmd \in {"SAVED_PHOTO", "VIDEO_START"}

\* The request waited for is the last one on its way, until it is answered:
\* requests given up before it are executed before it.
WaitInv ==
    /\ at \in {"sent", "closing"} /\ ans # None => cmds = <<>>
    /\ at \in {"sent", "closing"} /\ ans = None /\ up =>
        /\ cmds # <<>>
        /\ at = "closing" => LET c == cmds[Len(cmds)] IN c.cmd = "VIDEO_STOP" /\ c.arg = video
        /\ at = "sent" /\ step = "begin" => cmds[Len(cmds)].cmd = Begins
        /\ at = "sent" /\ step = "set" => cmds[Len(cmds)].cmd = "SET_VIDEO_CONFIG"
        /\ at = "sent" /\ step = "get" => cmds[Len(cmds)].cmd = "GET_VIDEO_CONFIG"

\* An accepted capture is the last one of the device.
Newest(a) ==
    /\ a.kind = "op" /\ a.id = Len(ops) /\ a.id # 0
    /\ ops[a.id].kind = IF call.name = "photo" THEN "photo" ELSE "video"
    /\ \A i \in DOMAIN cmds : ~Captures(cmds[i])

\* A video of this connection that has not been stopped.
Recording(o) == ops[o].conn = conn /\ ops[o].kind = "video" /\ ops[o].state \in Running

\* At most the last capture is active.  The one a call has begun is that one, and
\* a video of this connection that is known and still running is the one the
\* session keeps for close(), or the one whose acceptance is in the poll of its
\* request; once the stop of close() is answered there is at most that one.
CaptureInv ==
    /\ \A o \in DOMAIN ops : ops[o].state \in Active => o = Len(ops)
    /\ at = "sent" /\ step = "begin" /\ ans \notin {None, Bad} => Newest(ans)
    /\ Place = "poll" /\ step = "begin" => Newest(got)
    /\ \A o \in known : Recording(o) => video = o \/ BeingBegun(o)
    /\ at = "closing" /\ ans # None /\ up => \A o \in known : Recording(o) => BeingBegun(o)

\* What the call asks for is the last profile this host has sent.
Settled ==
    /\ call.want = merged
    /\ \A i \in DOMAIN cmds : cmds[i].cmd # "SET_VIDEO_CONFIG"

\* A configuration call whose request has been answered is settled.
ConfigInv ==
    /\ at = "sent" /\ step \in {"set", "get"} /\ ans \notin {None, Bad} => ans.kind = "config"
    /\ at = "sent" /\ step = "set" /\ ans \notin {None, Bad} => ans.config.want = merged
    /\ Place = "poll" /\ step \in {"set", "get"} => got.kind = "config"
    /\ call.name = "config" /\ call.want # Duration /\ (step = "get" \/ Place # "sent") => Settled

\* The inductive invariant.
Inv == CapTypeInv /\ CallInv /\ WaitInv /\ CaptureInv /\ ConfigInv

-----------------------------------------------------------------------------
\* A sequence with one more element, and without its first one.
LEMMA Appended ==
    ASSUME NEW S, NEW s \in Seq(S), NEW e \in S
    PROVE  /\ Append(s, e) \in Seq(S) /\ Append(s, e) # <<>> /\ Len(Append(s, e)) = Len(s) + 1
           /\ Append(s, e)[Len(Append(s, e))] = e
           /\ \A i \in DOMAIN Append(s, e) : Append(s, e)[i] = e \/ (i \in DOMAIN s /\ Append(s, e)[i] = s[i])
           /\ \A i \in DOMAIN s : Append(s, e)[i] = s[i]
OBVIOUS

LEMMA Empty ==
    ASSUME NEW S, NEW s \in Seq(S)
    PROVE  (s = <<>>) = (Len(s) = 0)
OBVIOUS

LEMMA Rest ==
    ASSUME NEW S, NEW s \in Seq(S), s # <<>>
    PROVE  /\ Head(s) = s[1] /\ s[1] \in S /\ 1 \in DOMAIN s /\ Len(s) \in Nat \ {0}
           /\ Tail(s) \in Seq(S)
           /\ \A i \in DOMAIN Tail(s) : i + 1 \in DOMAIN s /\ Tail(s)[i] = s[i + 1]
           /\ Len(s) = 1 => Tail(s) = <<>>
           /\ Len(s) # 1 => Tail(s) # <<>> /\ Tail(s)[Len(Tail(s))] = s[Len(s)]
<1>1. Len(s) \in Nat \ {0} /\ Head(s) = s[1] /\ s[1] \in S
  OBVIOUS
<1>2. /\ Tail(s) \in Seq(S) /\ Len(Tail(s)) = Len(s) - 1
      /\ \A i \in 1..Len(s) - 1 : Tail(s)[i] = s[i + 1]
  OBVIOUS
<1>3. DOMAIN s = 1..Len(s) /\ DOMAIN Tail(s) = 1..Len(Tail(s))
  BY <1>2
<1>0. (Tail(s) = <<>>) = (Len(Tail(s)) = 0)
  <2>1. Tail(s) \in Seq(S)
    BY <1>2
  <2> QED BY <2>1, Empty, Zenon
<1>4. Len(s) = 1 => Tail(s) = <<>>
  BY <1>0, <1>2
<1>5. Len(s) # 1 => Tail(s) # <<>> /\ Tail(s)[Len(Tail(s))] = s[Len(s)]
  <2> SUFFICES ASSUME Len(s) # 1 PROVE Tail(s) # <<>> /\ Tail(s)[Len(Tail(s))] = s[Len(s)]
    OBVIOUS
  <2>1. Len(Tail(s)) \in 1..Len(s) - 1 /\ Len(Tail(s)) + 1 = Len(s)
    BY <1>1, <1>2
  <2>2. Tail(s)[Len(Tail(s))] = s[Len(Tail(s)) + 1]
    BY <1>2, <2>1
  <2>3. Tail(s) # <<>>
    BY <1>0, <1>2, <2>1
  <2> QED BY <2>1, <2>2, <2>3
<1> QED BY <1>1, <1>2, <1>3, <1>4, <1>5

LEMMA Wider ==
    ASSUME NEW S, NEW T, S \subseteq T, NEW s \in Seq(S)
    PROVE  s \in Seq(T)
OBVIOUS

-----------------------------------------------------------------------------
\* The step of a call is one of its requests, also across a close() under it.
LEMMA CallKept ==
    ASSUME CapTypeInv, CallInv, [Next]_vars
    PROVE  CallInv'
<1> USE DEF CallInv, Place, StepsOf
<1>0. call \in Calls
  BY DEF CapTypeInv, CallTypes
<1>1. CASE Execute
  BY <1>0, <1>1 DEF Execute, callVars
<1>2. CASE Advance
  BY <1>0, <1>2 DEF Advance, callVars
<1>3. CASE Synced
  BY <1>0, <1>3 DEF Synced, callVars
<1>4. CASE Superseded
  BY <1>0, <1>4 DEF Superseded, callVars
<1>5. CASE LinkDrops
  BY <1>0, <1>5 DEF LinkDrops, callVars
<1>6. CASE Answered
  BY <1>0, <1>6 DEF Answered, Raise, End, NoCall, Calls
<1>7. CASE RequestFails
  BY <1>0, <1>7 DEF RequestFails, Raise, End, NoCall
<1>8. CASE Photo
  BY <1>0, <1>8 DEF Photo, Start, Send, NoCall
<1>9. CASE VideoStart
  BY <1>0, <1>9 DEF VideoStart, Start, Send, NoCall
<1>10. CASE Accepted
  BY <1>0, <1>10 DEF Accepted, Began, Calls
<1>11. CASE Check
  BY <1>0, <1>11 DEF Check, Send, Raise, End, NoCall
<1>12. CASE Judge
  BY <1>0, <1>12 DEF Judge, Raise, End, NoCall
<1>13. CASE VideoStop
  BY <1>0, <1>13 DEF VideoStop, NoCall, Send
<1>14. CASE Queried
  BY <1>0, <1>14 DEF Queried, Raise, End, SendOrRaise, Send, NoCall
<1>15. CASE StopAccepted
  BY <1>0, <1>15 DEF StopAccepted, Calls
<1>16. CASE SetConfig
  BY <1>0, <1>16 DEF SetConfig, NoCall, Send
<1>17. CASE CheckConfig
  BY <1>0, <1>17 DEF CheckConfig, End, Raise, NoCall
<1>18. CASE PauseEnds
  BY <1>0, <1>18 DEF PauseEnds, SendOrRaise, Raise, End, NoCall, Send
<1>19. CASE Close
  BY <1>0, <1>19 DEF Close
<1>20. CASE VideoStopped
  BY <1>0, <1>20 DEF VideoStopped
<1>21. CASE StayClosed
  BY <1>0, <1>21 DEF StayClosed, deviceVars
<1>22. CASE Connect
  BY <1>0, <1>22 DEF Connect, deviceVars
<1>23. CASE UNCHANGED vars
  BY <1>23 DEF vars, callVars
<1> QED BY <1>1, <1>2, <1>3, <1>4, <1>5, <1>6, <1>7, <1>8, <1>9, <1>10, <1>11, <1>12, <1>13, <1>14,
           <1>15, <1>16, <1>17, <1>18, <1>19, <1>20, <1>21, <1>22, <1>23 DEF Next

-----------------------------------------------------------------------------
\* What the captures are goes on: none that is over begins again.
Later ==
    /\ ops' \in Seq(Operations(conn)) /\ Len(ops') = Len(ops) /\ DOMAIN ops' = DOMAIN ops
    /\ \A o \in DOMAIN ops :
        /\ ops'[o].kind = ops[o].kind /\ ops'[o].conn = ops[o].conn
        /\ ops'[o].state \in Active => ops[o].state \in Active
        /\ ops'[o].state \in Running => ops[o].state \in Running

\* A capture in another state.
LEMMA OtherState ==
    ASSUME NEW n, NEW x \in Operations(n), NEW s \in Active \cup Over
    PROVE  /\ [x EXCEPT !.state = s] \in Operations(n)
           /\ [x EXCEPT !.state = s].kind = x.kind /\ [x EXCEPT !.state = s].conn = x.conn
           /\ [x EXCEPT !.state = s].state = s
BY DEF Operations

\* A capture goes on or is stopped (Advance, VIDEO_STOP).
LEMMA StateChanged ==
    ASSUME CapTypeInv, NEW o \in DOMAIN ops, NEW s \in Active \cup Over, s # "STARTING",
           ops[o].state \in Active, s = "RECORDING" => ops[o].state \in Running,
           ops' = [ops EXCEPT ![o].state = s]
    PROVE  Later /\ ops'[o].state = s
<1>1. ops \in Seq(Operations(conn))
  BY DEF CapTypeInv, CapDevice
<1>2. [ops[o] EXCEPT !.state = s] \in Operations(conn)
  BY <1>1, OtherState
<1>3. ops' = [ops EXCEPT ![o] = [ops[o] EXCEPT !.state = s]]
  OBVIOUS
<1>4. ops' \in Seq(Operations(conn)) /\ Len(ops') = Len(ops) /\ DOMAIN ops' = DOMAIN ops
  BY <1>1, <1>2, <1>3
<1>5. \A x \in DOMAIN ops : ops'[x] = IF x = o THEN [ops[o] EXCEPT !.state = s] ELSE ops[x]
  BY <1>1, <1>3
<1>6. [ops[o] EXCEPT !.state = s].kind = ops[o].kind /\ [ops[o] EXCEPT !.state = s].conn = ops[o].conn
      /\ [ops[o] EXCEPT !.state = s].state = s
  BY <1>1, OtherState
<1> QED BY <1>4, <1>5, <1>6 DEF Later, Running, Active, Over

\* The connection ends and stops what is running.
LEMMA Disconnected ==
    ASSUME CapTypeInv, Disconnect
    PROVE  Later /\ \A o \in DOMAIN ops : ops'[o].state \notin Running
<1>1. ops \in Seq(Operations(conn))
  BY DEF CapTypeInv, CapDevice
<1>2. ASSUME NEW o \in DOMAIN ops
      PROVE  /\ [ops[o] EXCEPT !.state = "STOPPING"] \in Operations(conn)
             /\ [ops[o] EXCEPT !.state = "STOPPING"].kind = ops[o].kind
             /\ [ops[o] EXCEPT !.state = "STOPPING"].conn = ops[o].conn
             /\ [ops[o] EXCEPT !.state = "STOPPING"].state = "STOPPING"
             /\ ops[o] \in Operations(conn)
  <2>1. ops[o] \in Operations(conn) /\ "STOPPING" \in Active \cup Over
    BY <1>1 DEF Active
  <2> QED BY <2>1, OtherState
<1>3. \A o \in DOMAIN ops : ops'[o] = IF ops[o].state \in Running THEN [ops[o] EXCEPT !.state = "STOPPING"] ELSE ops[o]
  BY DEF Disconnect
<1>4. ops' \in [1..Len(ops) -> Operations(conn)] /\ DOMAIN ops = 1..Len(ops) /\ Len(ops) \in Nat
  <2>1. DOMAIN ops' = DOMAIN ops /\ ops' = [o \in DOMAIN ops |-> ops'[o]]
    BY DEF Disconnect
  <2>2. \A o \in DOMAIN ops : ops'[o] \in Operations(conn)
    BY <1>2, <1>3
  <2> QED BY <1>1, <2>1, <2>2
<1>5. ops' \in Seq(Operations(conn)) /\ Len(ops') = Len(ops) /\ DOMAIN ops' = DOMAIN ops
  BY <1>4
<1>6. ASSUME NEW o \in DOMAIN ops
      PROVE  /\ ops'[o].kind = ops[o].kind /\ ops'[o].conn = ops[o].conn
             /\ ops'[o].state \in Active => ops[o].state \in Active
             /\ ops'[o].state \notin Running
  BY <1>2, <1>3 DEF Active, Running
<1> QED BY <1>5, <1>6 DEF Later

\* A new capture.
LEMMA AcceptedOp ==
    ASSUME CapTypeInv, NEW c, c.conn = conn, NEW k \in {"photo", "video"}, ops' = Accept(c, k)
    PROVE  /\ ops' \in Seq(Operations(conn)) /\ Len(ops') = Len(ops) + 1
           /\ DOMAIN ops' = DOMAIN ops \cup {Len(ops')} /\ DOMAIN ops = 1..Len(ops) /\ Len(ops) \in Nat
           /\ ops'[Len(ops')].kind = k /\ ops'[Len(ops')].conn = conn
           /\ \A o \in DOMAIN ops : ops'[o] = ops[o]
<1> DEFINE r == [kind |-> k, conn |-> c.conn, state |-> "STARTING"]
<1>1. r \in Operations(conn) /\ r.kind = k /\ r.conn = conn
  BY DEF Operations, Active, Running, CapTypeInv, CallTypes
<1>2. ops \in Seq(Operations(conn)) /\ ops' = Append(ops, r)
  BY DEF CapTypeInv, CapDevice, Accept
<1> HIDE DEF r
<1> QED BY <1>1, <1>2

-----------------------------------------------------------------------------
\* What the device answers is the answer waited for if it is to the last request.
Reply(a) == ans' = IF at \in {"sent", "closing"} /\ Len(cmds) = 1 THEN a ELSE ans

\* The five outcomes of a request.
Took ==
    /\ Captures(cmds[1]) /\ \A o \in DOMAIN ops : ops[o].state \notin Active
    /\ ops' = Accept(cmds[1], IF cmds[1].cmd = "SAVED_PHOTO" THEN "photo" ELSE "video")
    /\ UNCHANGED <<profile, merged>>
    /\ Reply([kind |-> "op", id |-> Len(ops) + 1])

Told ==
    /\ cmds[1].cmd = "MEDIA_STATUS"
    /\ UNCHANGED <<ops, profile, merged>>
    /\ \E a \in Answers \ {None, Bad} : Reply(a)

Stopped ==
    /\ cmds[1].cmd = "VIDEO_STOP"
    /\ Later /\ cmds[1].arg \in DOMAIN ops /\ ops'[cmds[1].arg].state = "STOPPING"
    /\ UNCHANGED <<profile, merged>>
    /\ \E a \in Answers \ {None, Bad} : Reply(a)

Configured ==
    /\ cmds[1].cmd \in {"SET_VIDEO_CONFIG", "GET_VIDEO_CONFIG"}
    /\ UNCHANGED ops /\ profile' \in Configs
    /\ merged' = IF cmds[1].cmd = "SET_VIDEO_CONFIG" THEN profile'.want ELSE merged
    /\ Reply([kind |-> "config", config |-> profile'])

Refused ==
    /\ UNCHANGED <<ops, profile>>
    /\ cmds[1].cmd # "SET_VIDEO_CONFIG" => merged' = merged
    /\ cmds[1].cmd = "VIDEO_STOP" => ~(cmds[1].arg = Len(ops) /\ cmds[1].arg \in DOMAIN ops /\ Recording(cmds[1].arg))
    /\ Reply(Bad)

\* What a step of the device does to the request, the captures and the answer.
LEMMA Executed ==
    ASSUME CapTypeInv, Execute
    PROVE  /\ Took \/ Told \/ Stopped \/ Configured \/ Refused
           /\ up /\ cmds # <<>> /\ cmds' = Tail(cmds) /\ cmds[1] \in CapRequests(conn) /\ 1 \in DOMAIN cmds
           /\ UNCHANGED <<conn, up, video, call, at, step, got, back, known, faults>>
<1>1. /\ up /\ cmds # <<>> /\ cmds' = Tail(cmds) /\ Head(cmds) = cmds[1]
      /\ cmds[1] \in CapRequests(conn) /\ 1 \in DOMAIN cmds
      /\ cmds \in Seq(CapRequests(conn))
  <2>1. cmds # <<>> /\ cmds \in Seq(CapRequests(conn)) /\ (~up => cmds = <<>>) /\ cmds' = Tail(cmds)
    BY DEF Execute, CapTypeInv, CmdTypes
  <2> QED BY <2>1, Rest
<1>2. UNCHANGED <<conn, up, video, call, at, step, got, back, known, faults>>
  BY DEF Execute, callVars
<1> DEFINE c == cmds[1]
           k == IF c.cmd = "SAVED_PHOTO" THEN "photo" ELSE "video"
<1>3. merged' = IF c.cmd = "SET_VIDEO_CONFIG" THEN profile'.want ELSE merged
  BY <1>1 DEF Execute
<1>4. \/ /\ c.cmd \in {"SAVED_PHOTO", "VIDEO_START"}
         /\ \A o \in DOMAIN ops : ops[o].state \notin Active
         /\ ops' = Accept(c, k) /\ UNCHANGED profile
         /\ Reply([kind |-> "op", id |-> Len(ops) + 1])
      \/ /\ c.cmd = "MEDIA_STATUS" /\ Owned(c)
         /\ UNCHANGED <<ops, profile>>
         /\ Reply([kind |-> "status", id |-> c.arg, what |-> ops[c.arg].kind, state |-> ops[c.arg].state])
      \/ /\ c.cmd = "VIDEO_STOP" /\ Owned(c) /\ ops[c.arg].kind = "video" /\ ops[c.arg].state \in Active
         /\ ops' = [ops EXCEPT ![c.arg].state = "STOPPING"] /\ UNCHANGED profile
         /\ Reply([kind |-> "op", id |-> c.arg])
      \/ /\ c.cmd = "SET_VIDEO_CONFIG"
         /\ profile' = IF c.arg = Duration THEN profile
                      ELSE [profile EXCEPT !.want = c.arg, !.sync = "PENDING"]
         /\ UNCHANGED ops
         /\ Reply([kind |-> "config", config |-> profile'])
      \/ /\ c.cmd = "GET_VIDEO_CONFIG"
         /\ UNCHANGED <<ops, profile>>
         /\ Reply([kind |-> "config", config |-> profile])
      \/ /\ c.cmd = "VIDEO_STOP" => ~(Owned(c) /\ ops[c.arg].kind = "video" /\ ops[c.arg].state \in Active)
         /\ c.cmd # "GET_VIDEO_CONFIG"
         /\ UNCHANGED <<ops, profile>>
         /\ Reply(Bad)
  <2> HIDE DEF c
  <2>1. Head(cmds) = c
    BY <1>1 DEF c
  <2> QED BY <2>1 DEF Execute, Reply
<1>5. ops \in Seq(Operations(conn)) /\ profile \in Configs /\ conn \in Nat
      /\ (c.cmd = "SET_VIDEO_CONFIG" => c.arg \in Wanted)
  BY <1>1 DEF CapTypeInv, CallTypes, CmdTypes, CapDevice
<1>6. ASSUME Owned(c) PROVE c.arg \in DOMAIN ops /\ c.arg \in Nat /\ ops[c.arg] \in Operations(conn)
  BY <1>5, <1>6 DEF Owned, Latest
<1> HIDE DEF c
<1>7. CASE /\ c.cmd \in {"SAVED_PHOTO", "VIDEO_START"}
           /\ \A o \in DOMAIN ops : ops[o].state \notin Active
           /\ ops' = Accept(c, k) /\ UNCHANGED profile
           /\ Reply([kind |-> "op", id |-> Len(ops) + 1])
  BY <1>1, <1>2, <1>3, <1>7 DEF Took, Captures, c
<1>8. CASE /\ c.cmd = "MEDIA_STATUS" /\ Owned(c)
           /\ UNCHANGED <<ops, profile>>
           /\ Reply([kind |-> "status", id |-> c.arg, what |-> ops[c.arg].kind, state |-> ops[c.arg].state])
  <2> DEFINE a == [kind |-> "status", id |-> c.arg, what |-> ops[c.arg].kind, state |-> ops[c.arg].state]
  <2>1. a \in Answers \ {None, Bad}
    BY <1>6, <1>8 DEF Answers, Operations, None, Bad
  <2> HIDE DEF a
  <2>2. Reply(a)
    BY <1>8 DEF a
  <2> QED BY <1>1, <1>2, <1>3, <1>8, <2>1, <2>2 DEF Told, c
<1>9. CASE /\ c.cmd = "VIDEO_STOP" /\ Owned(c) /\ ops[c.arg].kind = "video" /\ ops[c.arg].state \in Active
           /\ ops' = [ops EXCEPT ![c.arg].state = "STOPPING"] /\ UNCHANGED profile
           /\ Reply([kind |-> "op", id |-> c.arg])
  <2>1. [kind |-> "op", id |-> c.arg] \in Answers \ {None, Bad}
    BY <1>6, <1>9 DEF Answers, None, Bad
  <2>2. Later /\ ops'[c.arg].state = "STOPPING"
    <3>1. c.arg \in DOMAIN ops /\ "STOPPING" \in Active \cup Over
      BY <1>6, <1>9 DEF Active
    <3> QED BY <1>9, <3>1, StateChanged
  <2> QED BY <1>1, <1>2, <1>3, <1>6, <1>9, <2>1, <2>2 DEF Stopped, c
<1>10. CASE /\ c.cmd = "SET_VIDEO_CONFIG"
            /\ profile' = IF c.arg = Duration THEN profile
                      ELSE [profile EXCEPT !.want = c.arg, !.sync = "PENDING"]
            /\ UNCHANGED ops
            /\ Reply([kind |-> "config", config |-> profile'])
  <2>1. profile' \in Configs
    BY <1>5, <1>10 DEF Configs, Wanted, Syncs
  <2> QED BY <1>1, <1>2, <1>3, <1>10, <2>1 DEF Configured, c
<1>11. CASE /\ c.cmd = "GET_VIDEO_CONFIG"
            /\ UNCHANGED <<ops, profile>>
            /\ Reply([kind |-> "config", config |-> profile])
  <2>1. profile' \in Configs /\ Reply([kind |-> "config", config |-> profile'])
    BY <1>5, <1>11
  <2> QED BY <1>1, <1>2, <1>3, <1>11, <2>1 DEF Configured, c
<1>12. CASE /\ c.cmd = "VIDEO_STOP" => ~(Owned(c) /\ ops[c.arg].kind = "video" /\ ops[c.arg].state \in Active)
            /\ c.cmd # "GET_VIDEO_CONFIG"
            /\ UNCHANGED <<ops, profile>>
            /\ Reply(Bad)
  <2>1. ASSUME c.arg = Len(ops), c.arg \in DOMAIN ops, Recording(c.arg), c.cmd = "VIDEO_STOP" PROVE FALSE
    <3>1. c.conn = conn
      BY <1>1 DEF CapRequests, c
    <3>2. Latest(c.arg)
      BY <1>5, <2>1 DEF Latest
    <3> QED BY <1>12, <2>1, <3>1, <3>2 DEF Owned, Recording, Active
  <2> QED BY <1>1, <1>2, <1>3, <1>12, <2>1 DEF Refused, c
<1> QED BY <1>1, <1>2, <1>4, <1>7, <1>8, <1>9, <1>10, <1>11, <1>12

-----------------------------------------------------------------------------
\* Captures are numbered from 1.
LEMMA OpsLength ==
    ASSUME CapTypeInv
    PROVE  /\ Len(ops) \in Nat /\ DOMAIN ops = 1..Len(ops)
           /\ known \cup {video} \subseteq Nat
BY DEF CapTypeInv, CapDevice, CallTypes

LEMMA Nothing ==
    ASSUME NEW S
    PROVE  <<>> \in Seq(S) /\ DOMAIN <<>> = {}
OBVIOUS

\* A request put behind those on their way.
LEMMA Sending ==
    ASSUME CapTypeInv, NEW cmd, NEW arg,
           [cmd |-> cmd, arg |-> arg, conn |-> conn] \in CapRequests(conn),
           cmd = "SET_VIDEO_CONFIG" => arg \in Wanted,
           cmds' = Append(cmds, [cmd |-> cmd, arg |-> arg, conn |-> conn])
    PROVE  /\ cmds' \in Seq(CapRequests(conn)) /\ cmds' # <<>>
           /\ cmds'[Len(cmds')] = [cmd |-> cmd, arg |-> arg, conn |-> conn]
           /\ \A i \in DOMAIN cmds' : \/ cmds'[i] = [cmd |-> cmd, arg |-> arg, conn |-> conn]
                                      \/ i \in DOMAIN cmds /\ cmds'[i] = cmds[i]
           /\ \A i \in DOMAIN cmds' : cmds'[i].cmd = "SET_VIDEO_CONFIG" => cmds'[i].arg \in Wanted
<1> DEFINE r == [cmd |-> cmd, arg |-> arg, conn |-> conn]
<1>1. cmds \in Seq(CapRequests(conn)) /\ r \in CapRequests(conn) /\ cmds' = Append(cmds, r)
      /\ \A i \in DOMAIN cmds : cmds[i].cmd = "SET_VIDEO_CONFIG" => cmds[i].arg \in Wanted
  BY DEF CapTypeInv, CmdTypes
<1>2. r.cmd = cmd /\ r.arg = arg
  OBVIOUS
<1> HIDE DEF r
<1>3. /\ cmds' \in Seq(CapRequests(conn)) /\ cmds' # <<>>
      /\ cmds'[Len(cmds')] = r
      /\ \A i \in DOMAIN cmds' : cmds'[i] = r \/ (i \in DOMAIN cmds /\ cmds'[i] = cmds[i])
  BY <1>1, Appended
<1>4. \A i \in DOMAIN cmds' : cmds'[i].cmd = "SET_VIDEO_CONFIG" => cmds'[i].arg \in Wanted
  BY <1>1, <1>2, <1>3
<1> QED BY <1>3, <1>4 DEF r

\* The requests and calls there are.
LEMMA InRequests ==
    ASSUME NEW n
    PROVE  /\ \A a \in Nat : \A m \in {"SAVED_PHOTO", "VIDEO_START", "MEDIA_STATUS", "VIDEO_STOP"} :
                [cmd |-> m, arg |-> a, conn |-> n] \in CapRequests(n)
           /\ \A a \in Wanted \cup {0} : \A m \in {"SET_VIDEO_CONFIG", "GET_VIDEO_CONFIG"} :
                [cmd |-> m, arg |-> a, conn |-> n] \in CapRequests(n)
BY DEF CapRequests

LEMMA InCalls ==
    /\ None \in Answers /\ Bad \in Answers /\ NoCall \in Calls
    /\ \A c \in Calls : \A n \in Nat : [c EXCEPT !.owner = n] \in Calls /\ [c EXCEPT !.owner = n, !.id = n] \in Calls
    /\ \A c \in Calls : \A n, i \in Nat : [c EXCEPT !.owner = n, !.id = i] \in Calls
    /\ \A c \in Calls : \A w \in Wanted : [c EXCEPT !.want = w] \in Calls
    /\ \A m \in {"photo", "video_start", "video_stop", "config"} :
        /\ [NoCall EXCEPT !.name = m] \in Calls
        /\ \A i \in Nat : [NoCall EXCEPT !.name = m, !.id = i] \in Calls
        /\ \A n \in Nat : \A w \in Wanted : [NoCall EXCEPT !.name = m, !.owner = n, !.want = w] \in Calls
BY DEF Answers, Calls, NoCall, None, Bad


\* The types are kept, those of each part of the state in turn.
LEMMA CallTypesKept ==
    ASSUME CapTypeInv, CaptureInv, ConfigInv, [Next]_vars
    PROVE  CallTypes'
<1> USE DEF CallTypes
<1>0. CallTypes /\ call.id \in Nat
  BY DEF CapTypeInv, Calls
<1>1. CASE Execute
  <2>1. UNCHANGED <<conn, video, call, got>> /\ (Took \/ Told \/ Stopped \/ Configured \/ Refused)
    BY <1>1, Executed
  <2>2. PICK a \in Answers : Reply(a)
    <3>1. CASE Took
      <4>1. Len(ops) + 1 \in Nat
        BY OpsLength
      <4>2. [kind |-> "op", id |-> Len(ops) + 1] \in Answers
        BY <4>1 DEF Answers
      <4> QED BY <3>1, <4>2 DEF Took
    <3>2. CASE Told \/ Stopped
      BY <3>2 DEF Told, Stopped
    <3>3. CASE Configured
      <4>1. [kind |-> "config", config |-> profile'] \in Answers
        BY <3>3 DEF Configured, Answers
      <4> QED BY <3>3, <4>1 DEF Configured
    <3>4. CASE Refused
      BY <3>4, InCalls DEF Refused
    <3> QED BY <2>1, <3>1, <3>2, <3>3, <3>4
  <2> QED BY <1>0, <2>1, <2>2 DEF Reply
<1>2. CASE Advance
  BY <1>0, <1>2, InCalls DEF Advance, callVars
<1>3. CASE Synced
  BY <1>0, <1>3, InCalls DEF Synced, callVars
<1>4. CASE Superseded
  BY <1>0, <1>4, InCalls DEF Superseded, callVars
<1>5. CASE LinkDrops
  BY <1>0, <1>5, InCalls DEF LinkDrops, callVars
<1>6. CASE Answered
  <2>1. ASSUME ans # Bad, step = "set" PROVE ans.config.want \in Wanted
    <3>1. ans.kind = "config"
      BY <1>6, <2>1 DEF Answered, ConfigInv
    <3>2. ans.config \in Configs
      <4>1. ans \in Answers
        BY <1>0
      <4>2. \A a \in Answers : a.kind = "config" => a.config \in Configs
        BY DEF Answers, None, Bad
      <4> QED BY <3>1, <4>1, <4>2
    <3> QED BY <3>2 DEF Configs, Wanted
  <2>2. call' \in Calls
    BY <1>0, <1>6, <2>1, InCalls DEF Answered, Raise, End
  <2> QED BY <1>0, <1>6, <2>2, InCalls DEF Answered, Raise, End
<1>7. CASE RequestFails
  BY <1>0, <1>7, InCalls DEF RequestFails, Raise, End
<1>8. CASE Photo
  BY <1>0, <1>8, InCalls DEF Photo, Start, Send
<1>9. CASE VideoStart
  BY <1>0, <1>9, InCalls DEF VideoStart, Start, Send
<1>10. CASE Accepted
  <2>1. got.id \in Nat
    <3>1. got.id = Len(ops)
      BY <1>10 DEF Accepted, Began, CaptureInv, Place, Newest
    <3> QED BY <3>1, OpsLength
  <2> QED BY <1>0, <1>10, <2>1, InCalls DEF Accepted, KeptVideo
<1>11. CASE Check
  BY <1>0, <1>11, InCalls DEF Check, Send, Raise, End
<1>12. CASE Judge
  BY <1>0, <1>12, InCalls DEF Judge, Raise, End
<1>13. CASE VideoStop
  <2>1. known \cup {video} \subseteq Nat
    BY OpsLength
  <2>2. PICK id \in Nat : call' = [NoCall EXCEPT !.name = "video_stop", !.id = id]
    BY <1>13, <2>1 DEF VideoStop
  <2>3. call' \in Calls
    BY <2>2, InCalls
  <2> QED BY <1>0, <1>13, <2>3, InCalls DEF VideoStop, Send
<1>14. CASE Queried
  BY <1>0, <1>14, InCalls DEF Queried, Raise, End, SendOrRaise, Send
<1>15. CASE StopAccepted
  BY <1>0, <1>15, InCalls DEF StopAccepted
<1>16. CASE SetConfig
  <2>1. PICK w \in Wanted : call' = [NoCall EXCEPT !.name = "config", !.owner = conn, !.want = w]
    BY <1>16 DEF SetConfig, Wanted
  <2>2. call' \in Calls
    BY <1>0, <2>1, InCalls
  <2> QED BY <1>0, <1>16, <2>2, InCalls DEF SetConfig, Send
<1>17. CASE CheckConfig
  BY <1>0, <1>17, InCalls DEF CheckConfig, End, StillAsked, Raise
<1>18. CASE PauseEnds
  BY <1>0, <1>18, InCalls DEF PauseEnds, SendOrRaise, Raise, End, Send
<1>19. CASE Close
  BY <1>0, <1>19, InCalls DEF Close
<1>20. CASE VideoStopped
  BY <1>0, <1>20, InCalls DEF VideoStopped
<1>21. CASE StayClosed
  BY <1>0, <1>21, InCalls DEF StayClosed, deviceVars
<1>22. CASE Connect
  <2>1. conn' \in Nat \ {0} /\ video' = 0 /\ UNCHANGED <<call, ans, got>>
    <3>1. conn' = conn + 1 /\ video' = 0 /\ UNCHANGED <<call, ans, got>>
      BY <1>22 DEF Connect
    <3>2. conn \in Nat
      BY <1>0
    <3>3. conn + 1 \in Nat \ {0}
      BY <3>2
    <3> QED BY <3>1, <3>3
  <2> QED BY <1>0, <2>1
<1>23. CASE UNCHANGED vars
  BY <1>0, <1>23, InCalls DEF vars, callVars
<1> QED BY <1>1, <1>2, <1>3, <1>4, <1>5, <1>6, <1>7, <1>8, <1>9, <1>10, <1>11, <1>12, <1>13, <1>14,
           <1>15, <1>16, <1>17, <1>18, <1>19, <1>20, <1>21, <1>22, <1>23 DEF Next

LEMMA CmdTypesKept ==
    ASSUME CapTypeInv, [Next]_vars
    PROVE  CmdTypes'
<1> USE DEF CmdTypes
<1>0. CmdTypes /\ CallTypes /\ call.id \in Nat
  BY DEF CapTypeInv, CallTypes, Calls
<1>1. CASE \/ Advance \/ Synced \/ Superseded \/ Answered \/ RequestFails \/ Accepted \/ Judge
           \/ StopAccepted \/ CheckConfig \/ StayClosed \/ UNCHANGED vars
  <2>1. UNCHANGED <<cmds, up, conn>>
    BY <1>1 DEF Advance, callVars, Synced, Superseded, Answered, Raise, End, RequestFails, Accepted,
       Judge, StopAccepted, CheckConfig, StayClosed, deviceVars, vars
  <2> QED BY <1>0, <2>1
<1>2. CASE Execute
  BY <1>0, <1>2 DEF Execute, callVars
<1>3. CASE LinkDrops
  <2>1. up' = FALSE /\ cmds' = <<>> /\ conn' = conn
    BY <1>3 DEF LinkDrops, Disconnect
  <2> QED BY <2>1, Nothing
<1>4. CASE Photo
  <2>0. Send("begin", "SAVED_PHOTO", 0)
    BY <1>4 DEF Photo
  <2>1. up /\ cmds' = Append(cmds, [cmd |-> "SAVED_PHOTO", arg |-> 0, conn |-> conn])
    BY <2>0 DEF Send
  <2>2. UNCHANGED <<up, conn>>
    BY <1>4 DEF Photo
  <2>3. [cmd |-> "SAVED_PHOTO", arg |-> 0, conn |-> conn] \in CapRequests(conn)
    BY InRequests
  <2> QED BY <1>0, <2>1, <2>2, <2>3, Sending
<1>5. CASE VideoStart
  <2>0. Send("begin", "VIDEO_START", 0)
    BY <1>5 DEF VideoStart
  <2>1. up /\ cmds' = Append(cmds, [cmd |-> "VIDEO_START", arg |-> 0, conn |-> conn])
    BY <2>0 DEF Send
  <2>2. UNCHANGED <<up, conn>>
    BY <1>5 DEF VideoStart
  <2>3. [cmd |-> "VIDEO_START", arg |-> 0, conn |-> conn] \in CapRequests(conn)
    BY InRequests
  <2> QED BY <1>0, <2>1, <2>2, <2>3, Sending
<1>6. CASE Check
  <2>1. CASE Send("status", "MEDIA_STATUS", call.id)
    <3>1. up /\ cmds' = Append(cmds, [cmd |-> "MEDIA_STATUS", arg |-> call.id, conn |-> conn])
      BY <2>1 DEF Send
    <3>2. [cmd |-> "MEDIA_STATUS", arg |-> call.id, conn |-> conn] \in CapRequests(conn)
      BY <1>0, InRequests
    <3>3. UNCHANGED <<up, conn>>
      BY <1>6 DEF Check
    <3> QED BY <1>0, <3>1, <3>2, <3>3, Sending
  <2>2. CASE Raise
    BY <1>0, <1>6, <2>2 DEF Check, Raise, End
  <2> QED BY <1>6, <2>1, <2>2 DEF Check
<1>7. CASE VideoStop
  <2>0. PICK id \in Nat : Send("query", "MEDIA_STATUS", id)
    <3>1. known \cup {video} \subseteq Nat
      BY OpsLength
    <3> QED BY <1>7, <3>1 DEF VideoStop
  <2>1. up /\ cmds' = Append(cmds, [cmd |-> "MEDIA_STATUS", arg |-> id, conn |-> conn])
    BY <2>0 DEF Send
  <2>2. UNCHANGED <<up, conn>>
    BY <1>7 DEF VideoStop
  <2>3. [cmd |-> "MEDIA_STATUS", arg |-> id, conn |-> conn] \in CapRequests(conn)
    BY InRequests
  <2> QED BY <1>0, <2>1, <2>2, <2>3, Sending
<1>8. CASE Queried
  BY <1>0, <1>8, InRequests, Sending DEF Queried, Raise, End, SendOrRaise, Send
<1>9. CASE SetConfig
  <2>0. PICK p \in Wanted : Send("set", "SET_VIDEO_CONFIG", p)
    BY <1>9 DEF SetConfig, Wanted
  <2>1. up /\ cmds' = Append(cmds, [cmd |-> "SET_VIDEO_CONFIG", arg |-> p, conn |-> conn])
    BY <2>0 DEF Send
  <2>2. UNCHANGED <<up, conn>>
    BY <1>9 DEF SetConfig
  <2>3. [cmd |-> "SET_VIDEO_CONFIG", arg |-> p, conn |-> conn] \in CapRequests(conn)
    BY InRequests
  <2> QED BY <1>0, <2>1, <2>2, <2>3, Sending
<1>10. CASE PauseEnds
  BY <1>0, <1>10, InRequests, Sending DEF PauseEnds, SendOrRaise, Raise, End, Send
<1>11. CASE Close
  <2>1. CASE video # 0 /\ up
    <3>1. cmds' = Append(cmds, [cmd |-> "VIDEO_STOP", arg |-> video, conn |-> conn]) /\ UNCHANGED <<up, conn>>
      BY <1>11, <2>1 DEF Close
    <3>2. [cmd |-> "VIDEO_STOP", arg |-> video, conn |-> conn] \in CapRequests(conn)
      BY <1>0, InRequests DEF CallTypes
    <3> QED BY <1>0, <2>1, <3>1, <3>2, Sending
  <2>2. CASE ~(video # 0 /\ up)
    <3>1. up' = FALSE /\ cmds' = <<>> /\ conn' = conn
      BY <1>11, <2>2 DEF Close, Disconnect
    <3> QED BY <3>1, Nothing
  <2> QED BY <2>1, <2>2
<1>12. CASE VideoStopped
  <2>1. up' = FALSE /\ cmds' = <<>> /\ conn' = conn
    BY <1>12 DEF VideoStopped, Disconnect
  <2> QED BY <2>1, Nothing
<1>13. CASE Connect
  BY <1>0, <1>13 DEF Connect, deviceVars
<1> QED BY <1>1, <1>2, <1>3, <1>4, <1>5, <1>6, <1>7, <1>8, <1>9, <1>10, <1>11, <1>12, <1>13 DEF Next

LEMMA DeviceTypesKept ==
    ASSUME CapTypeInv, CaptureInv, [Next]_vars
    PROVE  CapDevice'
<1> USE DEF CapDevice
<1>0. CapDevice /\ CallTypes
  BY DEF CapTypeInv
<1>1. CASE \/ Photo \/ VideoStart \/ Accepted \/ Check \/ Judge \/ VideoStop
           \/ Queried \/ StopAccepted \/ SetConfig \/ CheckConfig \/ PauseEnds \/ StayClosed
           \/ UNCHANGED vars
  <2>1. UNCHANGED <<ops, conn, known, profile>>
    BY <1>1 DEF Photo, VideoStart, Accepted, Check, Judge, VideoStop, Queried,
       StopAccepted, SetConfig, CheckConfig, PauseEnds, StayClosed, deviceVars, vars
  <2> QED BY <1>0, <2>1
<1>2. CASE Execute
  <2>1. UNCHANGED <<conn, known>> /\ (Took \/ Told \/ Stopped \/ Configured \/ Refused) /\ cmds[1] \in CapRequests(conn)
    BY <1>2, Executed
  <2>2. CASE Took
    <3>1. cmds[1].conn = conn
      BY <2>1 DEF CapRequests
    <3>2. ops' \in Seq(Operations(conn)) /\ DOMAIN ops \subseteq DOMAIN ops'
      BY <2>2, <3>1, AcceptedOp DEF Took
    <3> QED BY <1>0, <2>1, <2>2, <3>2 DEF Took
  <2>3. CASE Told \/ Stopped \/ Configured \/ Refused
    BY <1>0, <2>1, <2>3 DEF Told, Stopped, Configured, Refused, Later
  <2> QED BY <2>1, <2>2, <2>3
<1>3. CASE Advance
  <2>1. Later
    <3>1. PICK o \in DOMAIN ops, s \in {"RECORDING", "STOPPING"} \cup Over :
             /\ ops[o].state \in Active
             /\ s = "RECORDING" => ops[o].state = "STARTING"
             /\ ops' = [ops EXCEPT ![o].state = s]
      BY <1>3 DEF Advance
    <3>2. s \in Active \cup Over /\ s # "STARTING" /\ (s = "RECORDING" => ops[o].state \in Running)
      BY <3>1 DEF Active, Running, Over
    <3> QED BY <3>1, <3>2, StateChanged
  <2>2. UNCHANGED <<conn, known, profile>>
    BY <1>3 DEF Advance
  <2> QED BY <1>0, <2>1, <2>2 DEF Later
<1>4. CASE Synced \/ Superseded
  <2>1. UNCHANGED <<ops, conn, known>>
    BY <1>4 DEF Synced, Superseded
  <2>2. profile' \in Configs
    BY <1>0, <1>4 DEF Synced, Superseded, Configs, Syncs
  <2> QED BY <1>0, <2>1, <2>2
<1>5. CASE LinkDrops \/ VideoStopped
  <2>1. Later
    BY <1>5, Disconnected DEF LinkDrops, VideoStopped
  <2>2. UNCHANGED <<conn, known, profile>>
    BY <1>5 DEF LinkDrops, VideoStopped
  <2> QED BY <1>0, <2>1, <2>2 DEF Later
<1>6. CASE Close
  <2>1. UNCHANGED ops \/ Later
    BY <1>6, Disconnected DEF Close
  <2>2. UNCHANGED <<conn, known, profile>>
    BY <1>6 DEF Close
  <2> QED BY <1>0, <2>1, <2>2 DEF Later
<1>7. CASE Answered \/ RequestFails
  <2>1. UNCHANGED <<ops, conn, profile>>
    BY <1>7 DEF Answered, RequestFails
  <2>2. known' \subseteq known \/ (known' = known \cup {ans.id} /\ Newest(ans))
    BY <1>7 DEF Answered, RequestFails, CaptureInv
  <2>3. Newest(ans) => ans.id \in DOMAIN ops
    BY OpsLength DEF Newest
  <2> QED BY <1>0, <2>1, <2>2, <2>3
<1>8. CASE Connect
  <2>1. conn \in Nat /\ conn' = conn + 1 /\ UNCHANGED <<ops, known, profile>>
    BY <1>0, <1>8 DEF Connect, deviceVars, CallTypes
  <2>2. 1..conn \subseteq 1..(conn + 1)
    BY <2>1
  <2>3. Operations(conn) \subseteq Operations(conn + 1)
    BY <2>2 DEF Operations
  <2>4. ops \in Seq(Operations(conn + 1))
    BY <1>0, <2>3, Wider
  <2> QED BY <1>0, <2>1, <2>4
<1> QED BY <1>1, <1>2, <1>3, <1>4, <1>5, <1>6, <1>7, <1>8 DEF Next

LEMMA TypesKept ==
    ASSUME CapTypeInv, CaptureInv, ConfigInv, [Next]_vars
    PROVE  CapTypeInv'
<1>1. faults' = faults \/ faults' = faults + 1
  BY Executed DEF Next, vars, Advance, Synced, Superseded, LinkDrops, Answered, RequestFails,
     Photo, VideoStart, Accepted, Check, Judge, VideoStop, Queried, StopAccepted, SetConfig,
     CheckConfig, PauseEnds, Close, VideoStopped, StayClosed, Connect
<1>2. faults' \in Nat
  BY <1>1 DEF CapTypeInv
<1> QED BY <1>2, CallTypesKept, CmdTypesKept, DeviceTypesKept DEF CapTypeInv

-----------------------------------------------------------------------------
\* A request just sent is the last on its way and waited for.
LEMMA SendWaits ==
    ASSUME CapTypeInv, NEW name, NEW cmd, NEW arg, Send(name, cmd, arg),
           [cmd |-> cmd, arg |-> arg, conn |-> conn] \in CapRequests(conn),
           cmd = "SET_VIDEO_CONFIG" => arg \in Wanted,
           name = "begin" => cmd = Begins',
           name = "set" => cmd = "SET_VIDEO_CONFIG",
           name = "get" => cmd = "GET_VIDEO_CONFIG"
    PROVE  WaitInv'
<1>1. /\ at' = "sent" /\ step' = name /\ ans' = None
      /\ cmds' = Append(cmds, [cmd |-> cmd, arg |-> arg, conn |-> conn])
  BY DEF Send
<1>2. cmds' # <<>> /\ cmds'[Len(cmds')] = [cmd |-> cmd, arg |-> arg, conn |-> conn]
  BY <1>1, Sending
<1>3. cmds'[Len(cmds')].cmd = cmd
  BY <1>2
<1> QED BY <1>1, <1>2, <1>3 DEF WaitInv

\* Nothing is sent behind a request that is waited for.
LEMMA WaitKept ==
    ASSUME CapTypeInv, CallInv, WaitInv, [Next]_vars
    PROVE  WaitInv'
<1>0. call.id \in Nat /\ video \in Nat
  BY DEF CapTypeInv, CallTypes, Calls
<1>1. CASE Advance \/ Synced \/ Superseded \/ UNCHANGED vars
  <2>1. UNCHANGED <<at, ans, cmds, up, step, call, video>>
    BY <1>1 DEF Advance, Synced, Superseded, vars, callVars, deviceVars
  <2> QED BY <2>1 DEF WaitInv, Begins
<1>2. CASE Execute
  <2>1. UNCHANGED <<at, up, step, call, video>> /\ up /\ cmds' = Tail(cmds) /\ cmds # <<>>
        /\ (Took \/ Told \/ Stopped \/ Configured \/ Refused)
    BY <1>2, Executed
  <2>2. cmds \in Seq(CapRequests(conn))
    BY DEF CapTypeInv, CmdTypes
  <2>3. CASE Len(cmds) # 1
    <3>1. ans' = ans
      BY <2>1, <2>3 DEF Took, Told, Stopped, Configured, Refused, Reply
    <3>2. cmds' # <<>> /\ cmds'[Len(cmds')] = cmds[Len(cmds)]
      BY <2>1, <2>2, <2>3, Rest
    <3> QED BY <2>1, <3>1, <3>2 DEF WaitInv, Begins
  <2>4. CASE Len(cmds) = 1
    <3>1. cmds' = <<>>
      BY <2>1, <2>2, <2>4, Rest
    <3>2. at \in {"sent", "closing"} => ans' # None
      BY <2>1, <2>4 DEF Took, Told, Stopped, Configured, Refused, Reply, None, Bad
    <3> QED BY <2>1, <3>1, <3>2 DEF WaitInv
  <2> QED BY <2>3, <2>4
<1>3. CASE LinkDrops
  <2>1. up' = FALSE /\ cmds' = <<>>
    BY <1>3 DEF LinkDrops, Disconnect
  <2> QED BY <2>1 DEF WaitInv
<1>4. CASE \/ Answered \/ RequestFails \/ Accepted \/ Judge \/ StopAccepted \/ CheckConfig
           \/ VideoStopped
  <2>1. at' \notin {"sent", "closing"}
    BY <1>4 DEF Answered, RequestFails, Accepted, Judge, StopAccepted, CheckConfig, VideoStopped,
       Raise, End
  <2> QED BY <2>1 DEF WaitInv
<1>5. CASE StayClosed \/ Connect
  <2>1. at' \notin {"sent", "closing"}
    BY <1>5 DEF StayClosed, Connect, CallInv
  <2> QED BY <2>1 DEF WaitInv
<1>6. CASE Photo \/ VideoStart
  <2>1. PICK m \in {"SAVED_PHOTO", "VIDEO_START"} : Send("begin", m, 0) /\ m = Begins'
    BY <1>6 DEF Photo, VideoStart, Start, NoCall, Begins
  <2>2. [cmd |-> m, arg |-> 0, conn |-> conn] \in CapRequests(conn)
    BY InRequests
  <2> QED BY <2>1, <2>2, SendWaits
<1>7. CASE Check
  <2>1. CASE Send("status", "MEDIA_STATUS", call.id)
    <3>1. [cmd |-> "MEDIA_STATUS", arg |-> call.id, conn |-> conn] \in CapRequests(conn)
      BY <1>0, InRequests
    <3> QED BY <2>1, <3>1, SendWaits
  <2>2. CASE Raise
    BY <2>2 DEF WaitInv, Raise, End
  <2> QED BY <1>7, <2>1, <2>2 DEF Check
<1>8. CASE VideoStop
  <2>1. PICK id \in Nat : Send("query", "MEDIA_STATUS", id)
    BY <1>8, OpsLength DEF VideoStop
  <2>2. [cmd |-> "MEDIA_STATUS", arg |-> id, conn |-> conn] \in CapRequests(conn)
    BY InRequests
  <2> QED BY <2>1, <2>2, SendWaits
<1>9. CASE Queried
  <2>1. CASE Send("stop", "VIDEO_STOP", call.id)
    <3>1. [cmd |-> "VIDEO_STOP", arg |-> call.id, conn |-> conn] \in CapRequests(conn)
      BY <1>0, InRequests
    <3> QED BY <2>1, <3>1, SendWaits
  <2>2. CASE at' = "idle"
    BY <2>2 DEF WaitInv
  <2> QED BY <1>9, <2>1, <2>2 DEF Queried, SendOrRaise, Raise, End
<1>10. CASE SetConfig
  <2>1. PICK w \in Wanted : Send("set", "SET_VIDEO_CONFIG", w)
    BY <1>10 DEF SetConfig, Wanted
  <2>2. [cmd |-> "SET_VIDEO_CONFIG", arg |-> w, conn |-> conn] \in CapRequests(conn)
    BY InRequests
  <2> QED BY <2>1, <2>2, SendWaits
<1>11. CASE PauseEnds
  <2>1. CASE Send("get", "GET_VIDEO_CONFIG", 0)
    <3>1. [cmd |-> "GET_VIDEO_CONFIG", arg |-> 0, conn |-> conn] \in CapRequests(conn)
      BY InRequests
    <3> QED BY <2>1, <3>1, SendWaits
  <2>2. CASE at' \in {"idle", "check"}
    BY <2>2 DEF WaitInv
  <2> QED BY <1>11, <2>1, <2>2 DEF PauseEnds, SendOrRaise, Raise, End
<1>12. CASE Close
  <2>1. CASE at' = "closed"
    BY <2>1 DEF WaitInv
  <2>2. CASE at' = "closing"
    <3>1. /\ ans' = None /\ UNCHANGED video
          /\ cmds' = Append(cmds, [cmd |-> "VIDEO_STOP", arg |-> video, conn |-> conn])
      BY <1>12, <2>2 DEF Close
    <3>2. [cmd |-> "VIDEO_STOP", arg |-> video, conn |-> conn] \in CapRequests(conn)
      BY <1>0, InRequests
    <3>3. cmds' # <<>> /\ cmds'[Len(cmds')] = [cmd |-> "VIDEO_STOP", arg |-> video, conn |-> conn]
      BY <3>1, <3>2, Sending
    <3> QED BY <2>2, <3>1, <3>3 DEF WaitInv
  <2> QED BY <1>12, <2>1, <2>2 DEF Close
<1> QED BY <1>1, <1>2, <1>3, <1>4, <1>5, <1>6, <1>7, <1>8, <1>9, <1>10, <1>11, <1>12 DEF Next

-----------------------------------------------------------------------------
\* The captures themselves, apart from the call.
Single == \A o \in DOMAIN ops : ops[o].state \in Active => o = Len(ops)
Followed == \A o \in known : Recording(o) => video = o \/ BeingBegun(o)

\* They stay so while captures go on and nobody looks.
LEMMA LaterKeeps ==
    ASSUME CapTypeInv, Single, Followed, Later \/ UNCHANGED ops, UNCHANGED <<conn, known, video>>
    PROVE  /\ Single'
           /\ (\A o \in known : BeingBegun(o) => BeingBegun(o)') => Followed'
           /\ \A o \in known : Recording(o)' => Recording(o)
           /\ Len(ops') = Len(ops) /\ \A o \in DOMAIN ops : ops'[o].kind = ops[o].kind
<1>1. known \subseteq DOMAIN ops
  BY DEF CapTypeInv, CapDevice
<1>2. Len(ops') = Len(ops) /\ DOMAIN ops' = DOMAIN ops
      /\ \A o \in DOMAIN ops : /\ ops'[o].kind = ops[o].kind /\ ops'[o].conn = ops[o].conn
                               /\ ops'[o].state \in Active => ops[o].state \in Active
                               /\ ops'[o].state \in Running => ops[o].state \in Running
  BY DEF Later
<1>3. \A o \in known : Recording(o)' => Recording(o)
  BY <1>1, <1>2 DEF Recording
<1> QED BY <1>1, <1>2, <1>3 DEF Single, Followed

\* What a capture that was just accepted is does not change by what goes on.
LEMMA NewestKept ==
    ASSUME CapTypeInv, Single, Followed, Later \/ UNCHANGED ops, UNCHANGED <<conn, known, video>>,
           call'.name = call.name, NEW a, Newest(a),
           \A i \in DOMAIN cmds' : ~Captures(cmds'[i])
    PROVE  /\ a.kind = "op" /\ a.id = Len(ops') /\ a.id # 0
           /\ ops'[a.id].kind = IF call'.name = "photo" THEN "photo" ELSE "video"
<1>1. a.kind = "op" /\ a.id = Len(ops) /\ a.id # 0 /\ a.id \in DOMAIN ops
      /\ ops[a.id].kind = IF call.name = "photo" THEN "photo" ELSE "video"
  BY OpsLength DEF Newest
<1>2. Len(ops') = Len(ops) /\ \A o \in DOMAIN ops : ops'[o].kind = ops[o].kind
  BY LaterKeeps
<1> QED BY <1>1, <1>2

\* The captures: only a request of this host adds one, and none does between the
\* answer that accepts a capture and the moment the session has noted it.
LEMMA CaptureKept ==
    ASSUME CapTypeInv, CallInv, WaitInv, CaptureInv, [Next]_vars
    PROVE  CaptureInv'
<1>0. Single /\ Followed /\ known \subseteq DOMAIN ops
  BY DEF CaptureInv, Single, Followed, CapTypeInv, CapDevice
<1>1. ASSUME Later \/ UNCHANGED ops, UNCHANGED <<conn, known, video>>,
             \A i \in DOMAIN cmds' : ~Captures(cmds'[i]) \/ (\E j \in DOMAIN cmds : cmds'[i] = cmds[j]),
             at' = "sent" /\ step' = "begin" /\ ans' \notin {None, Bad} =>
                Newest(ans) /\ ans' = ans /\ call'.name = call.name,
             Place' = "poll" /\ step' = "begin" =>
                /\ Newest(got) \/ Newest(ans)
                /\ Newest(got) => got' = got
                /\ ~Newest(got) => got' = ans
                /\ call'.name = call.name,
             \A o \in known : BeingBegun(o) => BeingBegun(o)',
             at' = "closing" /\ ans' # None /\ up' => \A o \in known : Recording(o)' => BeingBegun(o)'
      PROVE  CaptureInv'
  <2>1. Single' /\ Followed'
    BY <1>0, <1>1, LaterKeeps
  <2>2. ASSUME NEW a, Newest(a), call'.name = call.name
        PROVE  /\ a.kind = "op" /\ a.id = Len(ops') /\ a.id # 0
               /\ ops'[a.id].kind = IF call'.name = "photo" THEN "photo" ELSE "video"
               /\ \A i \in DOMAIN cmds' : ~Captures(cmds'[i])
    <3>1. \A i \in DOMAIN cmds' : ~Captures(cmds'[i])
      BY <1>1, <2>2 DEF Newest
    <3> QED BY <1>0, <1>1, <2>2, <3>1, NewestKept
  <2>3. at' = "sent" /\ step' = "begin" /\ ans' \notin {None, Bad} => Newest(ans)'
    BY <1>1, <2>2 DEF Newest, Captures
  <2>4. Place' = "poll" /\ step' = "begin" => Newest(got)'
    BY <1>1, <2>2 DEF Newest, Captures
  <2> QED BY <1>1, <2>1, <2>3, <2>4 DEF CaptureInv, Single, Followed
<1>2. CASE Advance
  <2>1. Later
    <3>1. PICK o \in DOMAIN ops, s \in {"RECORDING", "STOPPING"} \cup Over :
             /\ ops[o].state \in Active
             /\ s = "RECORDING" => ops[o].state = "STARTING"
             /\ ops' = [ops EXCEPT ![o].state = s]
      BY <1>2 DEF Advance
    <3>2. s \in Active \cup Over /\ s # "STARTING" /\ (s = "RECORDING" => ops[o].state \in Running)
      BY <3>1 DEF Active, Running, Over
    <3> QED BY <3>1, <3>2, StateChanged
  <2>2. UNCHANGED <<conn, up, video, call, at, step, got, back, ans, cmds, known>>
    BY <1>2 DEF Advance, callVars
  <2>3. \A o \in known : Recording(o)' => Recording(o)
    BY <1>0, <2>1, <2>2, LaterKeeps
  <2>4. \A o : BeingBegun(o)' = BeingBegun(o)
    BY <2>2 DEF BeingBegun
  <2> QED BY <1>1, <2>1, <2>2, <2>3, <2>4 DEF CaptureInv, Place
<1>3. CASE Synced \/ Superseded \/ UNCHANGED vars
  <2>1. UNCHANGED <<conn, up, video, call, at, step, got, back, ans, cmds, known, ops>>
    BY <1>3 DEF Synced, Superseded, vars, callVars, deviceVars
  <2> QED BY <2>1 DEF CaptureInv, Place, Newest, Captures, Recording, BeingBegun
<1>4. CASE LinkDrops \/ VideoStopped \/ (Close /\ at' = "closed")
  <2>1. Disconnect /\ Later
    BY <1>4, Disconnected DEF LinkDrops, VideoStopped, Close
  <2>2. UNCHANGED <<conn, video, call, step, got, known>>
    BY <1>4 DEF LinkDrops, VideoStopped, Close, callVars
  <2>3. ~up' /\ cmds' = <<>> /\ Place' = Place
    BY <1>4, <2>1 DEF LinkDrops, VideoStopped, Close, callVars, Disconnect, Place, CallInv
  <2>4. at' = "sent" => at = "sent" /\ UNCHANGED ans
    BY <1>4 DEF LinkDrops, VideoStopped, Close, callVars
  <2>5. \A o : BeingBegun(o) => BeingBegun(o)'
    <3>1. "poll" \in {at, back} => "poll" \in {at', back'}
      BY <1>4 DEF LinkDrops, VideoStopped, Close, callVars
    <3> QED BY <2>2, <3>1 DEF BeingBegun
  <2> QED BY <1>1, <2>1, <2>2, <2>3, <2>4, <2>5 DEF CaptureInv
<1>5. CASE Answered
  <2>1. UNCHANGED <<ops, conn, video, back, cmds>> /\ at = "sent" /\ ans # None
        /\ \/ at' = "idle" /\ UNCHANGED known
           \/ /\ at' = "poll" /\ got' = ans /\ ans # Bad /\ call'.name = call.name /\ UNCHANGED step
              /\ known' = IF step = "begin" THEN known \cup {ans.id} ELSE known
    BY <1>5 DEF Answered, Raise, End, CapTypeInv, CallTypes, Calls
  <2>2. back = "none"
    BY <2>1 DEF CallInv
  <2>3. \A o \in known : ~BeingBegun(o)
    BY <2>1, <2>2 DEF BeingBegun
  <2>4. CASE at' = "idle"
    BY <1>1, <2>1, <2>2, <2>3, <2>4 DEF Place
  <2>5. CASE at' = "poll"
    <3>1. step = "begin" => Newest(ans)
      BY <2>1, <2>5 DEF CaptureInv
    <3>2. Newest(ans) /\ step = "begin" => Newest(got)'
      BY <2>1, <2>5 DEF Newest, Captures
    <3>3. Single'
      BY <1>0, <2>1 DEF Single
    <3>4. ASSUME NEW o \in known', Recording(o)' PROVE video' = o \/ BeingBegun(o)'
      <4>1. CASE o \in known
        BY <1>0, <2>1, <2>3, <3>4, <4>1 DEF Followed, Recording
      <4>2. CASE o \notin known
        <5>1. step = "begin" /\ o = ans.id
          BY <2>1, <2>5, <3>4, <4>2
        <5> QED BY <2>1, <2>5, <5>1 DEF BeingBegun
      <4> QED BY <4>1, <4>2
    <3> QED BY <2>1, <2>5, <3>1, <3>2, <3>3, <3>4 DEF CaptureInv, Place, Single
  <2> QED BY <2>1, <2>4, <2>5
<1>6. CASE RequestFails \/ Judge \/ CheckConfig \/ Check \/ Photo \/ VideoStart \/ VideoStop
           \/ Queried \/ SetConfig \/ PauseEnds \/ StopAccepted
  <2>1. UNCHANGED <<ops, conn, video>> /\ at' \in {"idle", "pause", "check", "sent"}
        /\ (at' = "sent" => ans' = None)
    BY <1>6 DEF RequestFails, Judge, CheckConfig, Check, Photo, VideoStart, VideoStop, Queried,
                SetConfig, PauseEnds, StopAccepted, Raise, End, Send, SendOrRaise
  <2>2. known' \subseteq known /\ \A o \in known' : ~BeingBegun(o)
    <3>1. CASE RequestFails
      <4>1. known' = IF at = "poll" /\ step = "begin" THEN known \ {got.id} ELSE known
        BY <3>1 DEF RequestFails
      <4>2. at \in {"sent", "poll"} /\ back = "none"
        BY <3>1 DEF RequestFails, CallInv
      <4> QED BY <4>1, <4>2 DEF BeingBegun
    <3>2. CASE Judge \/ CheckConfig \/ Queried \/ StopAccepted
      BY <3>2 DEF Judge, CheckConfig, Queried, StopAccepted, BeingBegun
    <3>3. CASE Check \/ Photo \/ VideoStart \/ VideoStop \/ SetConfig \/ PauseEnds
      <4>1. UNCHANGED known /\ at \in {"check", "idle", "pause"}
        BY <3>3 DEF Check, Photo, VideoStart, VideoStop, SetConfig, PauseEnds
      <4>2. back = "none"
        BY <4>1 DEF CallInv
      <4> QED BY <4>1, <4>2 DEF BeingBegun
    <3> QED BY <1>6, <3>1, <3>2, <3>3
  <2>3. Single'
    BY <1>0, <2>1 DEF Single
  <2>4. \A o \in known' : Recording(o)' => video' = o
    BY <1>0, <2>1, <2>2 DEF Followed, Recording
  <2> QED BY <2>1, <2>3, <2>4 DEF CaptureInv, Place, Single
<1>7. CASE Accepted
  <2>1. Newest(got)
    BY <1>7 DEF Accepted, Began, CaptureInv, Place
  <2>2. UNCHANGED <<ops, conn, known>> /\ at' = "check"
        /\ video' = IF call.name = "video_start" THEN got.id ELSE video
    BY <1>7 DEF Accepted, KeptVideo
  <2>3. Single'
    BY <1>0, <2>2 DEF Single
  <2>4. ASSUME NEW o \in known', Recording(o) PROVE video' = o
    <3>1. o \in DOMAIN ops /\ o = Len(ops)
      <4>1. o \in DOMAIN ops
        BY <1>0, <2>1, <2>2, OpsLength DEF Newest
      <4> QED BY <1>0, <2>4, <4>1 DEF Single, Recording, Active
    <3>2. o = got.id /\ ops[got.id].kind = "video"
      BY <2>1, <2>4, <3>1 DEF Newest, Recording
    <3>3. call.name = "video_start"
      <4>1. call.name # "photo"
        BY <2>1, <3>2 DEF Newest
      <4>2. step = "begin" /\ at = "poll"
        BY <1>7 DEF Accepted, Began
      <4>3. step \in StepsOf(call.name)
        BY <4>2 DEF CallInv, Place
      <4> QED BY <4>1, <4>2, <4>3 DEF StepsOf
    <3> QED BY <2>2, <3>2, <3>3
  <2> QED BY <2>2, <2>3, <2>4 DEF CaptureInv, Place, Single, Recording
<1>8. CASE Close /\ at' = "closing"
  <2>1. /\ UNCHANGED <<ops, conn, known, video, call, step, got>> /\ ans' = None
        /\ cmds' = Append(cmds, [cmd |-> "VIDEO_STOP", arg |-> video, conn |-> conn])
    BY <1>8 DEF Close
  <2>2. Place' = at /\ Place = at
    BY <1>8 DEF Close, Place
  <2>3. \A i \in DOMAIN cmds' : ~Captures(cmds'[i]) \/ (\E j \in DOMAIN cmds : cmds'[i] = cmds[j])
    <3>1. [cmd |-> "VIDEO_STOP", arg |-> video, conn |-> conn] \in CapRequests(conn)
      BY InRequests, OpsLength
    <3>2. ASSUME NEW i \in DOMAIN cmds', cmds'[i] = [cmd |-> "VIDEO_STOP", arg |-> video, conn |-> conn]
          PROVE  ~Captures(cmds'[i])
      BY <3>2 DEF Captures
    <3> QED BY <2>1, <3>1, <3>2, Sending
  <2>4. \A o : BeingBegun(o) => BeingBegun(o)'
    BY <1>8, <2>1 DEF Close, BeingBegun
  <2> QED BY <1>1, <1>8, <2>1, <2>2, <2>3, <2>4 DEF CaptureInv
<1>9. CASE StayClosed
  <2>1. UNCHANGED <<ops, conn, known, video, call, step, got, cmds>> /\ at' = back /\ at = "closed"
    BY <1>9 DEF StayClosed, deviceVars
  <2>2. at' \notin {"sent", "closing", "closed"} /\ Place' = Place
    BY <2>1 DEF CallInv, Place
  <2>3. \A o : BeingBegun(o) => BeingBegun(o)'
    BY <2>1 DEF BeingBegun
  <2> QED BY <1>1, <2>1, <2>2, <2>3 DEF CaptureInv
<1>10. CASE Connect
  <2>1. UNCHANGED <<ops, known, call, step, got, cmds>> /\ conn' = conn + 1
        /\ ((at' = back /\ at = "closed") \/ (at' = "idle" /\ at = "idle"))
    BY <1>10 DEF Connect, deviceVars
  <2>2. at' \notin {"sent", "closing", "closed"} /\ Place' = Place
    BY <2>1 DEF CallInv, Place
  <2>3. Single'
    BY <1>0, <2>1 DEF Single
  <2>4. \A o \in known : ~Recording(o)'
    <3>1. \A o \in DOMAIN ops : ops[o].conn \in 1..conn
      <4>1. \A o \in DOMAIN ops : ops[o] \in Operations(conn)
        BY DEF CapTypeInv, CapDevice
      <4> QED BY <4>1 DEF Operations
    <3>2. conn + 1 \notin 1..conn
      BY DEF CapTypeInv, CallTypes
    <3> QED BY <1>0, <2>1, <3>1, <3>2 DEF Recording
  <2>5. Place' = "poll" /\ step' = "begin" => Newest(got)'
    BY <2>1, <2>2 DEF CaptureInv, Newest, Captures
  <2> QED BY <2>1, <2>2, <2>3, <2>4, <2>5 DEF CaptureInv, Single, Recording
<1>11. CASE Execute
  <2>1. UNCHANGED <<conn, up, video, call, at, step, got, back, known>> /\ up
        /\ cmds # <<>> /\ cmds' = Tail(cmds) /\ cmds[1] \in CapRequests(conn) /\ 1 \in DOMAIN cmds
        /\ (Took \/ Told \/ Stopped \/ Configured \/ Refused)
    BY <1>11, Executed
  <2>2. cmds \in Seq(CapRequests(conn)) /\ Place' = Place
    BY <2>1 DEF CapTypeInv, CmdTypes, Place
  <2>3. /\ \A i \in DOMAIN cmds' : i + 1 \in DOMAIN cmds /\ cmds'[i] = cmds[i + 1]
        /\ Len(cmds) = 1 => cmds' = <<>>
    BY <2>1, <2>2, Rest
  <2>4. at \in {"sent", "closing"} => ans = None
    BY <2>1 DEF WaitInv
  <2>5. at = "sent" /\ step = "begin" /\ Len(cmds) = 1 => cmds[1].cmd = Begins
    BY <2>1, <2>4 DEF WaitInv
  <2>6. at = "closing" /\ Len(cmds) = 1 => cmds[1].cmd = "VIDEO_STOP" /\ cmds[1].arg = video
    BY <2>1, <2>4 DEF WaitInv
  <2>7. CASE Took
    <3> DEFINE k == IF cmds[1].cmd = "SAVED_PHOTO" THEN "photo" ELSE "video"
    <3>1. cmds[1].conn = conn /\ k \in {"photo", "video"}
      BY <2>1 DEF CapRequests
    <3>2. /\ Len(ops') = Len(ops) + 1 /\ DOMAIN ops' = DOMAIN ops \cup {Len(ops')}
          /\ ops'[Len(ops')].kind = k /\ \A o \in DOMAIN ops : ops'[o] = ops[o]
      BY <2>7, <3>1, AcceptedOp DEF Took
    <3>3. Single'
      BY <2>7, <3>2 DEF Single, Took
    <3>4. \A o \in known : ~Recording(o)'
      BY <1>0, <2>1, <2>7, <3>2 DEF Recording, Took, Active
    <3>5. ASSUME at' = "sent", step' = "begin", ans' \notin {None, Bad} PROVE Newest(ans)'
      <4>1. Len(cmds) = 1 /\ ans' = [kind |-> "op", id |-> Len(ops) + 1]
        BY <2>1, <2>4, <2>7, <3>5 DEF Took, Reply
      <4>2. ans'.kind = "op" /\ ans'.id = Len(ops') /\ ans'.id # 0
        BY <3>2, <4>1, OpsLength
      <4>3. k = IF call.name = "photo" THEN "photo" ELSE "video"
        BY <2>1, <2>5, <3>5, <4>1 DEF Begins
      <4>4. cmds' = <<>>
        BY <2>3, <4>1
      <4> QED BY <2>1, <3>2, <4>2, <4>3, <4>4 DEF Newest
    <3>6. ~(Place' = "poll" /\ step' = "begin")
      BY <2>1, <2>2, <2>7 DEF CaptureInv, Newest, Took
    <3> QED BY <2>1, <3>3, <3>4, <3>5, <3>6 DEF CaptureInv, Single, Recording
  <2>8. CASE Told \/ Stopped \/ Configured \/ Refused
    <3>1. Later \/ UNCHANGED ops
      BY <2>8 DEF Told, Stopped, Configured, Refused
    <3>2. ~(at' = "sent" /\ step' = "begin" /\ ans' \notin {None, Bad})
      <4> SUFFICES ASSUME at = "sent", step = "begin", ans' \notin {None, Bad} PROVE FALSE
        BY <2>1
      <4>1. ans' = None \/ (Len(cmds) = 1 /\ Begins \in {"SAVED_PHOTO", "VIDEO_START"})
        BY <2>4, <2>8 DEF Told, Stopped, Configured, Refused, Reply, Begins
      <4>2. Len(cmds) = 1 => Refused
        BY <2>5, <2>8, <4>1 DEF Told, Stopped, Configured
      <4> QED BY <4>1, <4>2 DEF Refused, Reply
    <3>3. \A o \in known : Recording(o)' => Recording(o)
      BY <1>0, <2>1, <3>1, LaterKeeps
    <3>4. \A o : BeingBegun(o)' = BeingBegun(o)
      BY <2>1 DEF BeingBegun
    <3>5. ASSUME at' = "closing", ans' # None, NEW o \in known, Recording(o)', ~BeingBegun(o) PROVE FALSE
      <4>1. Recording(o) /\ o = video /\ o \in DOMAIN ops /\ o = Len(ops)
        BY <1>0, <3>3, <3>5 DEF Followed, Single, Recording, Active
      <4>2. Len(cmds) = 1
        BY <2>1, <2>4, <2>8, <3>5 DEF Told, Stopped, Configured, Refused, Reply
      <4>3. cmds[1].cmd = "VIDEO_STOP" /\ cmds[1].arg = video
        BY <2>1, <2>6, <3>5, <4>2
      <4>4. CASE Stopped
        BY <3>5, <4>1, <4>3, <4>4 DEF Stopped, Recording, Running
      <4>5. CASE Refused
        BY <4>1, <4>3, <4>5 DEF Refused
      <4> QED BY <2>8, <4>3, <4>4, <4>5 DEF Told, Configured
    <3> QED BY <1>1, <2>1, <2>2, <2>3, <3>1, <3>2, <3>4, <3>5 DEF CaptureInv
  <2> QED BY <2>1, <2>7, <2>8
<1>12. Close => at' \in {"closing", "closed"}
  BY DEF Close
<1> QED BY <1>2, <1>3, <1>4, <1>5, <1>6, <1>7, <1>8, <1>9, <1>10, <1>11, <1>12 DEF Next

-----------------------------------------------------------------------------
\* The configuration: nothing changes what was sent last while the call waits.
LEMMA ConfigKept ==
    ASSUME CapTypeInv, CallInv, WaitInv, ConfigInv, [Next]_vars
    PROVE  ConfigInv'
<1>0. call \in Calls /\ ans \in Answers
  BY DEF CapTypeInv, CallTypes
<1>1. CASE Advance \/ Synced \/ Superseded \/ UNCHANGED vars
  <2>1. UNCHANGED <<at, step, got, back, ans, cmds, call, merged>>
    BY <1>1 DEF Advance, Synced, Superseded, vars, callVars, deviceVars
  <2> QED BY <2>1 DEF ConfigInv, Place, Settled
<1>2. CASE Execute
  <2>1. UNCHANGED <<call, at, step, got, back>> /\ up
        /\ cmds # <<>> /\ cmds' = Tail(cmds) /\ 1 \in DOMAIN cmds
        /\ (Took \/ Told \/ Stopped \/ Configured \/ Refused)
    BY <1>2, Executed
  <2>2. cmds \in Seq(CapRequests(conn)) /\ Place' = Place
    BY <2>1 DEF CapTypeInv, CmdTypes, Place
  <2>3. \A i \in DOMAIN cmds' : i + 1 \in DOMAIN cmds /\ cmds'[i] = cmds[i + 1]
    BY <2>1, <2>2, Rest
  <2>4. Settled => Settled'
    <3> SUFFICES ASSUME Settled PROVE Settled'
      OBVIOUS
    <3>1. cmds[1].cmd # "SET_VIDEO_CONFIG"
      BY <2>1 DEF Settled
    <3>2. merged' = merged
      BY <2>1, <3>1 DEF Took, Told, Stopped, Configured, Refused
    <3> QED BY <2>1, <2>3, <3>2 DEF Settled
  <2>5. at = "sent" => ans = None
    BY <2>1 DEF WaitInv
  <2>6. ASSUME at = "sent", step \in {"set", "get"}, ans' \notin {None, Bad}
        PROVE  ans'.kind = "config" /\ (step = "set" => ans'.config.want = merged')
    <3>1. Len(cmds) = 1
      BY <2>1, <2>5, <2>6 DEF Took, Told, Stopped, Configured, Refused, Reply
    <3>2. cmds[1].cmd = IF step = "set" THEN "SET_VIDEO_CONFIG" ELSE "GET_VIDEO_CONFIG"
      BY <2>1, <2>5, <2>6, <3>1 DEF WaitInv
    <3>3. Configured \/ Refused
      BY <2>1, <3>2 DEF Took, Told, Stopped, Captures
    <3> QED BY <2>6, <3>1, <3>2, <3>3 DEF Configured, Refused, Reply
  <2> QED BY <2>1, <2>2, <2>4, <2>6 DEF ConfigInv
<1>3. CASE LinkDrops \/ VideoStopped \/ (Close /\ at' = "closed")
  <2>1. cmds' = <<>> /\ UNCHANGED <<step, got, call, merged>>
    BY <1>3 DEF LinkDrops, VideoStopped, Close, Disconnect, callVars
  <2>2. Place' = Place /\ (at' = "sent" => at = "sent" /\ UNCHANGED ans)
    BY <1>3 DEF LinkDrops, VideoStopped, Close, callVars, Place, CallInv
  <2>3. DOMAIN cmds' = {}
    BY <2>1, Nothing
  <2> QED BY <2>1, <2>2, <2>3 DEF ConfigInv, Settled
<1>4. CASE Answered
  <2>1. UNCHANGED <<cmds, merged>> /\ at = "sent" /\ ans # None /\ (ans # Bad => UNCHANGED step)
    BY <1>4 DEF Answered, Raise, End
  <2>2. CASE ans = Bad
    BY <1>4, <2>2 DEF Answered, Raise, End, ConfigInv, Place, NoCall
  <2>3. CASE ans # Bad
    <3>1. at' = "poll" /\ got' = ans /\ Place' = "poll" /\ Place = "sent"
          /\ call' = IF step = "set" /\ call.want # Duration THEN [call EXCEPT !.want = ans.config.want] ELSE call
      BY <1>4, <2>1, <2>3 DEF Answered, Place
    <3>2. call'.name = call.name
          /\ call'.want = IF step = "set" /\ call.want # Duration THEN ans.config.want ELSE call.want
      BY <1>0, <3>1 DEF Calls
    <3>3. step \in {"set", "get"} => ans.kind = "config"
      BY <2>1, <2>3 DEF ConfigInv
    <3>4. cmds = <<>>
      BY <2>1 DEF WaitInv
    <3>5. DOMAIN cmds' = {}
      BY <2>1, <3>4, Nothing
    <3>6. call'.name = "config" /\ call'.want # Duration => Settled'
      <4> SUFFICES ASSUME call.name = "config", call'.want # Duration PROVE Settled'
        BY <3>2
      <4>1. step \in {"set", "get"}
        BY <3>1, <3>2 DEF CallInv, StepsOf
      <4>2. step = "set" => ans.config.want = merged
        BY <2>1, <2>3 DEF ConfigInv
      <4>3. step = "get" => call.want = merged
        BY <3>2 DEF ConfigInv, Settled
      <4>4. call'.want = merged'
        BY <2>1, <3>2, <4>1, <4>2, <4>3
      <4> QED BY <3>5, <4>4 DEF Settled
    <3> QED BY <2>1, <2>3, <3>1, <3>3, <3>6 DEF ConfigInv
  <2> QED BY <2>2, <2>3
<1>5. CASE RequestFails \/ Judge
  <2>1. \/ at' = "idle" /\ call' = NoCall
        \/ at' = "pause" /\ call.name # "config" /\ UNCHANGED call
    <3>1. step = "status" /\ at = "poll" => call.name # "config"
      BY DEF CallInv, Place, StepsOf
    <3> QED BY <1>5, <3>1 DEF RequestFails, Judge, Raise, End
  <2> QED BY <2>1 DEF ConfigInv, Place, NoCall
<1>6. CASE CheckConfig
  <2>1. \/ at' = "idle" /\ call' = NoCall
        \/ at' = "pause" /\ at = "poll" /\ UNCHANGED <<call, step, got, cmds, merged>>
    BY <1>6 DEF CheckConfig, Raise, End
  <2> QED BY <2>1 DEF ConfigInv, Place, NoCall, Settled
<1>7. CASE Accepted \/ StopAccepted
  <2>1. at' = "check" /\ call'.name = call.name /\ step \in {"begin", "stop"} /\ at = "poll"
    BY <1>0, <1>7 DEF Accepted, StopAccepted, Began, Calls
  <2>2. call.name # "config"
    BY <2>1 DEF CallInv, Place, StepsOf
  <2> QED BY <2>1, <2>2 DEF ConfigInv, Place
<1>8. CASE Photo \/ VideoStart \/ VideoStop \/ Check \/ Queried
  <2>1. \/ at' = "idle" /\ call' = NoCall
        \/ at' = "sent" /\ call'.name # "config" /\ step' \in {"begin", "query", "status", "stop"}
    <3>1. at = "poll" /\ step = "query" => call.name # "config"
      BY DEF CallInv, Place, StepsOf
    <3> QED BY <1>8, <3>1 DEF Photo, VideoStart, VideoStop, Check, Queried, Start, Send,
               SendOrRaise, Raise, End, NoCall
  <2> QED BY <2>1 DEF ConfigInv, Place, NoCall
<1>9. CASE SetConfig
  <2>1. at' = "sent" /\ step' = "set" /\ ans' = None
    BY <1>9 DEF SetConfig, Send
  <2> QED BY <2>1 DEF ConfigInv, Place
<1>10. CASE PauseEnds
  <2>1. \/ at' = "idle" /\ call' = NoCall
        \/ at' = "check" /\ call.name # "config" /\ UNCHANGED call
        \/ call.name = "config" /\ Send("get", "GET_VIDEO_CONFIG", 0) /\ UNCHANGED <<call, merged>> /\ Place = "pause"
    BY <1>10 DEF PauseEnds, SendOrRaise, Raise, End, Place
  <2>2. CASE at' = "idle" /\ call' = NoCall
    BY <2>2 DEF ConfigInv, Place, NoCall
  <2>3. CASE at' = "check" /\ call.name # "config" /\ UNCHANGED call
    BY <2>3 DEF ConfigInv, Place
  <2>4. CASE call.name = "config" /\ Send("get", "GET_VIDEO_CONFIG", 0) /\ UNCHANGED <<call, merged>> /\ Place = "pause"
    <3>1. at' = "sent" /\ ans' = None /\ Place' = "sent" /\ step' = "get"
          /\ cmds' = Append(cmds, [cmd |-> "GET_VIDEO_CONFIG", arg |-> 0, conn |-> conn])
      BY <2>4 DEF Send, Place
    <3>2. [cmd |-> "GET_VIDEO_CONFIG", arg |-> 0, conn |-> conn] \in CapRequests(conn)
      BY InRequests
    <3>3. \A i \in DOMAIN cmds' : \/ cmds'[i] = [cmd |-> "GET_VIDEO_CONFIG", arg |-> 0, conn |-> conn]
                                  \/ i \in DOMAIN cmds /\ cmds'[i] = cmds[i]
      BY <3>1, <3>2, Sending
    <3>4. Settled => Settled'
      BY <2>4, <3>3 DEF Settled
    <3> QED BY <2>4, <3>1, <3>4 DEF ConfigInv
  <2> QED BY <2>1, <2>2, <2>3, <2>4
<1>11. CASE Close /\ at' = "closing"
  <2>1. /\ UNCHANGED <<merged, call, step, got>>
        /\ cmds' = Append(cmds, [cmd |-> "VIDEO_STOP", arg |-> video, conn |-> conn])
    BY <1>11 DEF Close
  <2>2. Place' = at /\ Place = at /\ at # "sent"
    BY <1>11 DEF Close, Place
  <2>3. [cmd |-> "VIDEO_STOP", arg |-> video, conn |-> conn] \in CapRequests(conn)
    BY InRequests, OpsLength
  <2>4. \A i \in DOMAIN cmds' : \/ cmds'[i] = [cmd |-> "VIDEO_STOP", arg |-> video, conn |-> conn]
                                \/ i \in DOMAIN cmds /\ cmds'[i] = cmds[i]
    BY <2>1, <2>3, Sending
  <2>5. Settled => Settled'
    BY <2>1, <2>4 DEF Settled
  <2> QED BY <1>11, <2>1, <2>2, <2>5 DEF ConfigInv
<1>12. CASE StayClosed \/ Connect
  <2>1. UNCHANGED <<call, step, got, cmds, merged>>
    BY <1>12 DEF StayClosed, Connect, deviceVars
  <2>2. at' \notin {"sent", "closing", "closed"} /\ Place' = Place
    BY <1>12 DEF StayClosed, Connect, CallInv, Place
  <2> QED BY <2>1, <2>2 DEF ConfigInv, Settled
<1>13. Close => at' \in {"closing", "closed"}
  BY DEF Close
<1> QED BY <1>1, <1>2, <1>3, <1>4, <1>5, <1>6, <1>7, <1>8, <1>9, <1>10, <1>11, <1>12, <1>13 DEF Next

-----------------------------------------------------------------------------
\* The invariant holds at first and is kept by every step.
LEMMA InitInv == Init => Inv
<1> SUFFICES ASSUME Init PROVE Inv
  OBVIOUS
<1>1. profile \in Configs
  BY DEF Init, Configs, Syncs
<1>2. ops = <<>> /\ cmds = <<>> /\ known = {} /\ DOMAIN <<>> = {}
      /\ ops \in Seq(Operations(conn)) /\ cmds \in Seq(CapRequests(conn))
  BY Nothing DEF Init
<1>3. CapTypeInv
  <2>1. CallTypes
    <3>1. conn = 1 /\ video = 0 /\ call = NoCall /\ ans = None /\ got = None
      BY DEF Init
    <3>2. 1 \in Nat \ {0} /\ 0 \in Nat
      OBVIOUS
    <3> QED BY <3>1, <3>2, InCalls DEF CallTypes
  <2>2. CmdTypes
    BY <1>2 DEF Init, CmdTypes
  <2>3. faults \in Nat
    BY DEF Init
  <2> QED BY <1>1, <1>2, <2>1, <2>2, <2>3 DEF CapTypeInv, CapDevice
<1> QED BY <1>2, <1>3 DEF Init, Inv, CallInv, WaitInv, CaptureInv, ConfigInv, Place, NoCall

LEMMA Invariant == Spec => []Inv
<1>1. Inv /\ [Next]_vars => Inv'
  BY TypesKept, CallKept, WaitKept, CaptureKept, ConfigKept DEF Inv
<1> QED BY <1>1, InitInv, PTL DEF Spec

\* close() leaves no video of this connection running whose acceptance has been
\* read, for any number of captures, connections and failures: the session keeps
\* the only one that can run, or the stop it sends is refused because none does
\* (GlassesSession.close, session.py:501).  A listener that closes in the poll of
\* VIDEO_START itself comes before the session keeps it, and is excepted.
THEOREM ClosingIsQuiet == Spec => ClosedQuiet
<1>1. ASSUME Inv, [Next]_vars, at # "closed", at' = "closed", up, faults' = faults,
             NEW o \in known, Recording(o), ~BeingBegun(o)
      PROVE  FALSE
  <2>1. video = o /\ o # 0
    <3>1. o \in 1..Len(ops) /\ Len(ops) \in Nat
      BY <1>1, OpsLength DEF Inv, CapTypeInv, CapDevice
    <3> QED BY <1>1, <3>1 DEF Inv, CaptureInv
  <2>2. Close \/ VideoStopped
    BY <1>1 DEF Next, Inv, CallInv, Execute, Advance, Synced, Superseded, LinkDrops, Answered,
       RequestFails, Photo, VideoStart, Accepted, Check, Judge, VideoStop, Queried, StopAccepted,
       SetConfig, CheckConfig, PauseEnds, StayClosed, Connect, Raise, End, Send, SendOrRaise,
       callVars, vars
  <2>3. CASE Close
    BY <1>1, <2>1, <2>3 DEF Close
  <2>4. CASE VideoStopped
    <3>1. at = "closing"
      BY <2>4 DEF VideoStopped
    <3>2. ans # None
      <4>1. faults \in Nat /\ faults + 1 # faults
        BY <1>1 DEF Inv, CapTypeInv
      <4> QED BY <1>1, <2>4, <4>1 DEF VideoStopped
    <3> QED BY <1>1, <3>1, <3>2 DEF Inv, CaptureInv
  <2> QED BY <2>2, <2>3, <2>4
<1>2. Inv /\ [Next]_vars =>
        (at # "closed" /\ at' = "closed" /\ up /\ faults' = faults
            => \A o \in known :
                   ops[o].conn = conn /\ ops[o].kind = "video" /\ ~BeingBegun(o) => ops[o].state \notin Running)
  BY <1>1 DEF Recording
<1> QED BY <1>2, Invariant, PTL DEF Spec, ClosedQuiet

\* A configuration call that returns has seen its own profile applied and saved on
\* its own connection, for any set of profiles and any changes by others
\* (CaptureClient.set_video_config, capture.py:125).
THEOREM ConfigurationIsOwn == Spec => ConfigIsOwn
<1>1. ASSUME Inv, [Next]_vars, call.name = "config", call.want # Duration, at' = "idle", step' = "returned"
      PROVE  conn = call.owner /\ got.config = [saved |-> merged, want |-> merged, sync |-> "APPLIED"]
  <2>1. Place # "idle"
    BY <1>1 DEF Inv, CallInv, NoCall
  <2>2. step \in {"set", "get"}
    BY <1>1, <2>1 DEF Inv, CallInv, StepsOf
  <2>3. CheckConfig
    BY <1>1, <2>1, <2>2 DEF Next, Inv, CallInv, Place, Execute, Advance, Synced, Superseded,
       LinkDrops, Answered, RequestFails, Photo, VideoStart, Accepted, Check, Judge, VideoStop,
       Queried, StopAccepted, SetConfig, PauseEnds, Close, VideoStopped, StayClosed, Connect,
       Raise, End, Send, SendOrRaise, callVars, vars, Began
  <2>4. at = "poll" /\ Place = "poll"
    BY <2>3 DEF CheckConfig, Place
  <2>5. /\ conn = call.owner /\ got.config.want = call.want /\ got.config.sync = "APPLIED"
        /\ got.config.saved = got.config.want
    BY <1>1, <2>3 DEF CheckConfig, Unmatched, StillAsked, Raise, End
  <2>6. call.want = merged
    BY <1>1, <2>4 DEF Inv, ConfigInv, Settled
  <2>7. got.config \in Configs
    <3>1. got.kind = "config" /\ got \in Answers
      BY <1>1, <2>2, <2>4 DEF Inv, ConfigInv, CapTypeInv, CallTypes
    <3>2. \A a \in Answers : a.kind = "config" => a.config \in Configs
      BY DEF Answers, None, Bad
    <3> QED BY <3>1, <3>2
  <2>8. \A g \in Configs : g = [saved |-> g.saved, want |-> g.want, sync |-> g.sync]
    BY DEF Configs
  <2> QED BY <2>5, <2>6, <2>7, <2>8
<1>2. Inv /\ [Next]_vars =>
        (call.name = "config" /\ call.want # Duration /\ at' = "idle" /\ step' = "returned"
            => conn = call.owner /\ got.config = [saved |-> merged, want |-> merged, sync |-> "APPLIED"])
  BY <1>1
<1> QED BY <1>2, Invariant, PTL DEF Spec, ConfigIsOwn
================================================================================
