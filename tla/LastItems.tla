----------------------------- MODULE LastItems -----------------------------
(***************************************************************************)
(* A history: the last Cap items that have been inserted, oldest first.    *)
(***************************************************************************)
EXTENDS Integers, Sequences

CONSTANTS Item, Cap

VARIABLES
    items,      \* the history
    newest,     \* what a look at its end shows
    listing     \* what a listing of it shows

historyVars == <<items, newest, listing>>

HistoryInit == items = <<>> /\ newest = <<>> /\ listing = <<>>

Insert(i) ==
    LET all == Append(items, i)
    IN /\ items' = IF Len(items) = Cap THEN Tail(all) ELSE all
       /\ newest' = <<i>>
       /\ listing' = items'

HistoryNext == \E i \in Item : Insert(i)

HistorySpec == HistoryInit /\ [][HistoryNext]_historyVars
=============================================================================
