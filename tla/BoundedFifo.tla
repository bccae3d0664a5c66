---------------------------- MODULE BoundedFifo ----------------------------
(***************************************************************************)
(* What the users of rtl/components/generic_fifo.sv rely on: a queue of at *)
(* most Depth words with a valid/grant handshake at each end.  In a clock  *)
(* cycle a word is accepted when it is offered and the queue was not full  *)
(* at the start of the cycle, and the oldest word is delivered when it is  *)
(* asked for and the queue was not empty.  Both may happen in one cycle.   *)
(***************************************************************************)
EXTENDS Integers, Sequences

CONSTANTS
    Word,    \* the words that can be queued
    Depth,   \* how many words the queue holds
    None     \* stands for no word accepted, or none delivered, in a cycle

VARIABLES
    queue,   \* the words accepted and not yet delivered, oldest first
    put,     \* the word accepted in the last cycle, or None
    got      \* the word delivered in the last cycle, or None

vars == <<queue, put, got>>

Init == queue = << >> /\ put = None /\ got = None

(* One clock cycle: offer says whether word w is offered, take whether the *)
(* consumer asks for a word.                                               *)
Cycle(offer, w, take) ==
    LET accepted  == offer /\ Len(queue) < Depth
        delivered == take /\ queue # << >>
        rest      == IF delivered THEN Tail(queue) ELSE queue
    IN  /\ queue' = IF accepted THEN Append(rest, w) ELSE rest
        /\ put'   = IF accepted THEN w ELSE None
        /\ got'   = IF delivered THEN Head(queue) ELSE None

Next == \E offer, take \in BOOLEAN, w \in Word : Cycle(offer, w, take)

Spec == Init /\ [][Next]_vars
=============================================================================
