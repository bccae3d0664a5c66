------------------------------ MODULE TaskLists ------------------------------
(***************************************************************************)
(* The lists of the FreeRTOS kernel (Source/list.c, Source/include/list.h). *)
(*                                                                         *)
(* A List_t is a doubly linked ring that always holds its end marker       *)
(* xListEnd, and a cursor pxIndex.  A list that is walked by its cursor    *)
(* (the ready lists) is kept here as the sequence of its members read from *)
(* the one after the cursor round to the one the cursor stands on, so the  *)
(* last element is *pxIndex and the end marker is one of the elements.     *)
(* A list whose cursor never leaves the end marker (the delayed lists, the *)
(* event lists) is the sequence of its items in ring order.                *)
(***************************************************************************)
EXTENDS Integers, SequencesExt, FiniteSetsExt

CONSTANT End            \* the end marker xListEnd of a ready list

-----------------------------------------------------------------------------
(* Lists walked by the cursor.                                             *)

EmptyRing == << End >>

RingItems(ring) == Range(ring) \ {End}

\* A new item goes just before the cursor: it is the last one the cursor
\* will come to.  Here: the items of a sequence, one after the other.
RingInsertAllEnd(ring, items) == Front(ring) \o items \o << Last(ring) >>

\* The list without some of its items.  The cursor of a list that loses the
\* item under it steps back, to what is then the last element.
ListRemove(list, items) ==
    LET kept[n \in 0 .. Len(list)] ==
            IF n = 0 THEN << >>
            ELSE IF list[n] \in items THEN kept[n - 1] ELSE Append(kept[n - 1], list[n])
    IN kept[Len(list)]

Rotate(ring) == Append(Tail(ring), Head(ring))

\* Move the cursor to the next item and skip the end marker.
RingNextOwner(ring) ==
    LET next == Rotate(ring) IN IF Last(next) = End THEN Rotate(next) ELSE next

-----------------------------------------------------------------------------
(* Lists sorted by the value of their items.                               *)

\* A new item goes after the items of the same value, before the first one
\* of a greater value.
ListInsert(list, item, value) ==
    LET later == {i \in DOMAIN list : value[list[i]] > value[item]} IN
    InsertAt(list, IF later = {} THEN Len(list) + 1 ELSE Min(later), item)
=============================================================================
