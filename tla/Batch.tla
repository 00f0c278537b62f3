-------------------------------- MODULE Batch ---------------------------------
(***************************************************************************)
(* What a batch of reads promises its caller, however it paces, retries,   *)
(* stops and resumes: each item is put under one heading at most, once and *)
(* for all; progress is told with each of them; and the result, given      *)
(* once, names the items that were given up and says whether there are any.*)
(***************************************************************************)
EXTENDS Naturals

CONSTANTS
    Items,
    Headings    \* what may be found out about an item

VARIABLES
    heading,    \* of each item, "none" until it is known
    told,       \* what the caller was last told of the progress
    over,       \* the result has been given
    skipped, blocked    \* and says this

vars == <<heading, told, over, skipped, blocked>>

Init ==
    /\ heading = [i \in Items |-> "none"] /\ told = 0
    /\ over = FALSE /\ skipped = {} /\ blocked = FALSE

File(i, h) ==
    /\ ~over /\ heading[i] = "none"
    /\ heading' = [heading EXCEPT ![i] = h]
    /\ told' = told + 1
    /\ UNCHANGED <<over, skipped, blocked>>

Close ==
    /\ ~over /\ over' = TRUE
    /\ skipped' = {i \in Items : heading[i] = "none"}
    /\ blocked' = (skipped' # {})
    /\ UNCHANGED <<heading, told>>

Next == Close \/ \E i \in Items, h \in Headings : File(i, h)

Spec == Init /\ [][Next]_vars

===============================================================================
