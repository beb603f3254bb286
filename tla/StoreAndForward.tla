--------------------------- MODULE StoreAndForward --------------------------
(***************************************************************************)
(* What the collector promises about the rows it forwards, whatever files, *)
(* positions, batches and restarts there are: a row is done with only      *)
(* after it has arrived or was given up, in a step of its own.  Delivering *)
(* a row again, and taking a position back, are allowed.                   *)
(***************************************************************************)
CONSTANT Row

VARIABLES
    held,       \* rows on the server
    lost,       \* rows given up: refused, or passed over at the start
    gone,       \* rows that were withdrawn from the server (and may come again)
    done        \* rows that a restart at this moment would not send

vars == <<held, lost, gone, done>>

Init == held = {} /\ lost = {} /\ gone = {} /\ done = {}

Deliver ==
    /\ held' \in SUBSET Row /\ held \subseteq held'
    /\ lost' \in SUBSET Row /\ lost \subseteq lost'
    /\ UNCHANGED <<gone, done>>

Withdraw ==
    /\ held' \subseteq held
    /\ gone' = gone \cup (held \ held')
    /\ UNCHANGED <<lost, done>>

Acknowledge ==
    /\ done' \subseteq held \cup lost \cup gone
    /\ UNCHANGED <<held, lost, gone>>

Next == Deliver \/ Withdraw \/ Acknowledge

Spec == Init /\ [][Next]_vars
=============================================================================
