-------------------------- MODULE AtMostOnceQueue --------------------------
(***************************************************************************)
(* What the work queue of shared/messaging/queue_contract.py promises its  *)
(* handlers, without Redis: an item is issued, then given to one worker,   *)
(* once, and finished at most once.  A worker may drop its item (a handler *)
(* that raises, a process that dies), and an issued item may never be      *)
(* given to anyone: the queue promises no more.                            *)
(***************************************************************************)
CONSTANTS Items, Workers, NoItem

VARIABLES issued,    \* items that exist
          started,   \* items some worker was given
          finished,  \* items whose worker finished them
          holding    \* the item each worker works on

vars == <<issued, started, finished, holding>>

Init == /\ issued = {}
        /\ started = {}
        /\ finished = {}
        /\ holding = [w \in Workers |-> NoItem]

Issue(x) ==
    /\ x \notin issued
    /\ issued' = issued \union {x}
    /\ UNCHANGED <<started, finished, holding>>

Start(w, x) ==
    /\ holding[w] = NoItem
    /\ x \in issued \ started
    /\ started' = started \union {x}
    /\ holding' = [holding EXCEPT ![w] = x]
    /\ UNCHANGED <<issued, finished>>

Finish(w) ==
    /\ holding[w] \in started \ finished
    /\ finished' = finished \union {holding[w]}
    /\ holding' = [holding EXCEPT ![w] = NoItem]
    /\ UNCHANGED <<issued, started>>

Drop(w) ==
    /\ holding' = [holding EXCEPT ![w] = NoItem]
    /\ UNCHANGED <<issued, started, finished>>

Next == \/ \E x \in Items : Issue(x)
        \/ \E w \in Workers : Finish(w) \/ Drop(w) \/ \E x \in Items : Start(w, x)

Spec == Init /\ [][Next]_vars
=============================================================================
