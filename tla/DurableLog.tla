----------------------------- MODULE DurableLog -----------------------------
(***************************************************************************)
(* What the append-only file promises the owners of the dataset.           *)
(*                                                                         *)
(* At any time one request may be outstanding: it offers to turn the       *)
(* committed history into another one, by one more batch or by an image    *)
(* that replaces it.  The request is acknowledged, or the system stops and *)
(* restarts from the committed history or from the offered one, never from *)
(* anything else.                                                          *)
(***************************************************************************)
EXTENDS Sequences

CONSTANTS Batch, Images

VARIABLES
    committed, \* the history of the acknowledged batches
    offered,   \* what the outstanding request makes of it
    up         \* the owners are being served

vars == <<committed, offered, up>>

Init == committed = <<>> /\ offered = <<>> /\ up = FALSE

\* Request one more batch.
Offer(b) ==
    /\ up /\ offered = committed
    /\ offered' = Append(committed, b)
    /\ UNCHANGED <<committed, up>>

\* Request that the whole dataset be replaced, or kept under another role.
OfferImage(image) ==
    /\ up /\ offered = committed
    /\ offered' = image
    /\ UNCHANGED <<committed, up>>

Acknowledge ==
    /\ up
    /\ committed' = offered
    /\ UNCHANGED <<offered, up>>

Stop ==
    /\ up' = FALSE
    /\ UNCHANGED <<committed, offered>>

Restart ==
    /\ ~up /\ up' = TRUE
    /\ committed' \in {committed, offered}
    /\ offered' = committed'

Next ==
    \/ \E b \in Batch : Offer(b)
    \/ \E image \in Images : OfferImage(image)
    \/ Acknowledge \/ Stop \/ Restart

Spec == Init /\ [][Next]_vars

=============================================================================
