-------------------------------- MODULE Mirror --------------------------------
(***************************************************************************)
(* What "ch-image pull" promises: an image in storage is one the registry  *)
(* offered for that reference and architecture while the pull that put it  *)
(* there was running ("ch-image pull will always retrieve the most         *)
(* up-to-date image").  Pulls may be given up at any moment; the image may *)
(* then be missing, but never a mixture and never an old one.              *)
(***************************************************************************)
CONSTANTS Proc, Dst, Manifest, None

VARIABLES img,     \* the image of each destination
          offer    \* what the registry has offered to each pull under way

vars == <<img, offer>>

Offer == [dst : Dst, of : SUBSET Manifest] \cup {None}

Init == /\ img = [d \in Dst |-> None]
        /\ offer = [p \in Proc |-> None]

\* A pull starts, ends or is given up, or the registry has something new.
Offers == img' = img /\ offer' \in [Proc -> Offer]

\* The image that is being pulled is removed to make room ...
Remove(p) == /\ offer[p] # None /\ offer' = offer
             /\ img' = [img EXCEPT ![offer[p].dst] = None]

\* ... and put there, which may be the last step of the pull.
Install(p) == /\ offer[p] # None /\ offer' \in [Proc -> Offer]
              /\ \E x \in offer[p].of : img' = [img EXCEPT ![offer[p].dst] = x]

Next == Offers \/ \E p \in Proc : Remove(p) \/ Install(p)

Spec == Init /\ [][Next]_vars
=============================================================================
