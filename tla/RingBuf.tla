------------------------------ MODULE RingBuf ------------------------------
(***************************************************************************)
(* The ring buffer in which the debugger keeps the instructions that have  *)
(* been executed.                                                          *)
(***************************************************************************)
EXTENDS Integers, Sequences

CONSTANTS
    Item,       \* what is kept
    Null,       \* an empty slot
    Cap         \* slots, 64 in the debugger

ASSUME RingShape == Cap \in Nat \ {0} /\ Null \notin Item

VARIABLES store, head, tail, size

ringVars == <<store, head, tail, size>>

RingTypeOK ==
    /\ store \in [0..Cap - 1 -> Item \union {Null}]
    /\ head \in 0..Cap - 1 /\ tail \in 0..Cap - 1 /\ size \in 0..Cap

RingInit ==
    /\ store = [i \in 0..Cap - 1 |-> Null]
    /\ head = 0 /\ tail = 0 /\ size = 0

\* Mutated form: the head stays at the first slot.
HeadStays == UNCHANGED head

MoveHead ==
    IF size < Cap THEN UNCHANGED head
    ELSE head' = IF head + 1 = Cap THEN 0 ELSE head + 1

RingInsert(i) ==
    /\ store' = [store EXCEPT ![tail] = i]
    /\ tail' = IF tail + 1 = Cap THEN 0 ELSE tail + 1
    /\ size' = IF size < Cap THEN size + 1 ELSE size
    /\ MoveHead

RingNext == \E i \in Item : RingInsert(i)

RingSpec == RingInit /\ [][RingNext]_ringVars
-----------------------------------------------------------------------------
(* What is read                                                             *)

At(i) == store[(head + i) % Cap]

Back == IF tail = 0 THEN store[size - 1] ELSE store[tail - 1]

\* A listing stops at the tail, but not at once, or at an empty slot.
Stops(n) == (n > 0 /\ (head + n) % Cap = tail) \/ At(n) = Null

\* The items before the first stop
Listed ==
    LET stop == CHOOSE n \in 0..Cap : Stops(n) /\ \A m \in 0..n - 1 : ~Stops(m)
    IN  [i \in 1..stop |-> At(i - 1)]
-----------------------------------------------------------------------------
(* Properties                                                               *)

History == INSTANCE LastItems WITH
    items <- [i \in 1..size |-> At(i - 1)],
    newest <- IF size = 0 THEN <<>> ELSE <<Back>>,
    listing <- Listed

\* An index, the end and a listing of the buffer all show the last items in the order
\* of their insertion, before it is full, when it wraps around and ever after.
KeepsLastItems == History!HistorySpec
=============================================================================
