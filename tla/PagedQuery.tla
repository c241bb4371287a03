------------------------------- MODULE PagedQuery -------------------------------
(***************************************************************************)
(* The two listings of the SDK that are read page by page with an offset   *)
(* as cursor: CatalogClient.list (looktech_glasses_sdk/catalog.py), which  *)
(* asks for pages of media ids and for the descriptor of each, and         *)
(* WifiClient.scan (looktech_glasses_sdk/wifi.py), which asks for pages of *)
(* networks until the scan is complete or its deadline is past.            *)
(*                                                                         *)
(* Between two requests the list of the device changes: entries are        *)
(* removed, appended or put first, and the catalog is replaced.            *)
(***************************************************************************)
EXTENDS Integers, Sequences, FiniteSets, SequencesExt

CONSTANTS
    Entries,        \* media ids, or networks
    PageMax,        \* entries of a page: 16 media ids, 5 networks
    MaxOffset,      \* the largest offset: 2^64 - 1 for media, 2^32 - 1 for networks
    MaxListChanges, \* bound: changes of the list of the device
    MaxTurns        \* pages of a scan that are asked for before its deadline

ASSUME PagedAssumption ==
    /\ IsFiniteSet(Entries)
    /\ PageMax \in Nat \ {0} /\ MaxOffset \in Nat
    /\ MaxListChanges \in Nat /\ MaxTurns \in Nat

VARIABLES
    kind,     \* which listing: "media" or "scan"
    stage,    \* where it is
    cursor,   \* the offset of the page asked for
    next,     \* next_cursor, next_offset
    more,     \* more, has_more
    page,     \* entries of the page not looked at yet
    items,    \* items, networks
    seen,     \* ids of the pages looked at
    turns,    \* turns of the loop of scan()
    list,     \* device: its entries in order
    same,     \* device: its catalog is the one asked for
    ready,    \* device: the scan is complete
    listChanges, \* changes so far
    stable,   \* history: entries the device has had since the listing began
    shifted   \* history: entries have come before the cursor without being read

listVars == <<list, same, ready, listChanges, stable, shifted>>
listingVars == <<kind, stage, cursor, next, more, page, items, seen, turns, listVars>>

-----------------------------------------------------------------------------
Ended == stage \in {"done", "failed"}
Smaller(a, b) == IF a < b THEN a ELSE b

ListingInit ==
    /\ kind \in {"media", "scan"}
    /\ stage = IF kind = "media" THEN "check" ELSE "page"
    /\ cursor = 0 /\ next = 0 /\ more = FALSE /\ page = <<>> /\ items = <<>> /\ seen = {} /\ turns = 0
    /\ list \in SetToAllKPermutations(Entries)
    /\ same \in BOOLEAN /\ (kind = "scan" => same)
    /\ ready = (kind = "media")
    /\ listChanges = 0 /\ stable = Range(list) /\ shifted = FALSE

\* Any request may time out, lose the link or be refused.
ListingFails ==
    /\ ~Ended
    /\ stage' = "failed"
    /\ UNCHANGED <<kind, cursor, next, more, page, items, seen, turns, listVars>>

\* CatalogClient.check, before the first page and after the last.
CheckCatalog ==
    /\ stage \in {"check", "recheck"}
    /\ stage' = IF ~same THEN "failed" ELSE IF stage = "check" THEN "page" ELSE "done"
    /\ UNCHANGED <<kind, cursor, next, more, page, items, seen, turns, listVars>>

\* The device answers with as many entries as it likes, with any offset for the
\* page after them, and with `more' when there are more, or at any time.  A page
\* of media ids that is empty though there is more is refused.
AskPage ==
    /\ stage = "page" /\ ready /\ same
    /\ \E n \in 0..Smaller(PageMax, Len(list) - Smaller(cursor, Len(list))) :
        /\ page' = SubSeq(list, cursor + 1, cursor + n)
        /\ next' \in 0..MaxOffset
        /\ more' \in {TRUE, cursor + n < Len(list)}
        /\ stage' = IF kind = "media" /\ more' /\ n = 0 THEN "failed" ELSE "entry"
        /\ shifted' = (shifted \/ (more' /\ next' > cursor + n))
    /\ UNCHANGED <<kind, cursor, items, seen, turns, list, same, ready, listChanges, stable>>

\* Pages of another catalog are refused.
AskOther ==
    /\ stage = "page" /\ ~same
    /\ stage' = "failed"
    /\ UNCHANGED <<kind, cursor, next, more, page, items, seen, turns, listVars>>

SeenBefore(e) == e \in seen

\* An entry of the page: a media id must be new, and its descriptor is asked
\* for; one deleted meanwhile is left out.  Networks are taken as they are.
Entry ==
    /\ stage = "entry" /\ page # <<>>
    /\ page' = Tail(page)
    /\ IF kind = "media" /\ (~same \/ SeenBefore(Head(page)))
       THEN stage' = "failed" /\ UNCHANGED <<items, seen>>
       ELSE /\ items' = IF kind = "scan" \/ Head(page) \in Range(list)
                      THEN Append(items, Head(page)) ELSE items
            /\ seen' = seen \cup {Head(page)}
            /\ UNCHANGED stage
    /\ UNCHANGED <<kind, cursor, next, more, turns, listVars>>

\* Mutant: the cursor counts pages of full length.
NextFullPage == cursor + PageMax

\* The cursor of the next page, which has to advance.
NextCursor == next

Advanced == next > cursor

\* The catalog is looked at again after the last page.
AfterLast == IF kind = "media" THEN "recheck" ELSE "done"

\* The end of a page; a scan looks at its deadline before it asks for another.
PageEnds ==
    /\ stage = "entry" /\ page = <<>>
    /\ stage' = IF ~more THEN AfterLast
             ELSE IF ~Advanced \/ (kind = "scan" /\ turns = MaxTurns) THEN "failed"
             ELSE "page"
    /\ cursor' = IF stage' = "page" THEN NextCursor ELSE cursor
    /\ turns' = IF stage' = "page" /\ kind = "scan" THEN turns + 1 ELSE turns
    /\ UNCHANGED <<kind, next, more, page, items, seen, listVars>>

\* Mutant: the deadline is looked at only after a page that is complete.
NotReadyYet ==
    /\ stage = "page" /\ ~ready
    /\ turns' = IF turns = MaxTurns THEN turns ELSE turns + 1
    /\ UNCHANGED <<kind, stage, cursor, next, more, page, items, seen, listVars>>

\* A page of a scan that is not complete: wait, or give up at the deadline.
NotReady ==
    /\ stage = "page" /\ ~ready
    /\ IF turns = MaxTurns THEN stage' = "failed" /\ UNCHANGED turns
       ELSE turns' = turns + 1 /\ UNCHANGED stage
    /\ UNCHANGED <<kind, cursor, next, more, page, items, seen, listVars>>

-----------------------------------------------------------------------------
(* The device.                                                             *)

ScanReady ==
    /\ ~ready
    /\ ready' = TRUE
    /\ UNCHANGED <<kind, stage, cursor, next, more, page, items, seen, turns,
                   list, same, listChanges, stable, shifted>>

\* The list becomes l.
Change(l) ==
    /\ ~Ended
    /\ list' = l
    /\ stable' = stable \cap Range(l)
    /\ listChanges < MaxListChanges /\ listChanges' = listChanges + 1
    /\ UNCHANGED <<kind, stage, cursor, next, more, page, items, seen, turns, same, ready>>

EntryRemoved == \E i \in DOMAIN list :
    /\ Change(RemoveAt(list, i))
    /\ shifted' = (shifted \/ i <= IF stage = "entry" THEN next ELSE cursor)

EntryAdded == \E e \in Entries \ Range(list) :
    /\ Change(Append(list, e)) \/ Change(<<e>> \o list)
    /\ UNCHANGED shifted

NewCatalog ==
    /\ kind = "media" /\ same
    /\ same' = FALSE
    /\ UNCHANGED <<kind, stage, cursor, next, more, page, items, seen, turns,
                   list, ready, listChanges, stable, shifted>>

Requests == CheckCatalog \/ AskPage \/ AskOther \/ Entry \/ PageEnds \/ NotReady
ListingNext == Requests \/ ListingFails \/ ScanReady \/ EntryRemoved \/ EntryAdded \/ NewCatalog

ListingSpec == ListingInit /\ [][ListingNext]_listingVars

\* A request is answered or times out.
FairSpec == ListingSpec /\ WF_listingVars(Requests)

-----------------------------------------------------------------------------
(* Properties.                                                             *)

\* Every variable has its type.
TypeOK ==
    /\ kind \in {"media", "scan"} /\ stage \in {"check", "page", "entry", "recheck", "done", "failed"}
    /\ {cursor, next, turns, listChanges} \subseteq Nat
    /\ {more, same, ready, shifted} \subseteq BOOLEAN
    /\ \A s \in {page, items, list} : s \in Seq(Entries)
    /\ stable \cup seen \subseteq Entries

\* A listing that ends well has every entry the device had all the time: pages
\* may be of any length, their offsets may stand still or go back, and entries
\* may come and go behind the cursor.  Excepted are the entries that pass the
\* cursor unread, because one before it was removed or because the device gave
\* an offset past the end of its page (list and scan).
MissedOnlyIfShifted == stage = "done" /\ ~shifted => stable \subseteq Range(items)

\* A listing ends, whatever lengths and offsets the device answers with: pages
\* without an entry, offsets that stand still, go back or jump, `more' without
\* an end, and scans that are never complete.
ListingEnds == <>Ended
================================================================================
