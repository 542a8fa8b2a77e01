------------------------------ MODULE PeerGroup ------------------------------
(***************************************************************************)
(* What "ch-run --join" promises its users: every peer group gets one      *)
(* container of its own.  The first peer to get there creates the          *)
(* namespaces, every other peer enters the namespaces of a peer of its own *)
(* group, and no peer ever changes container.                              *)
(***************************************************************************)
CONSTANTS Pid,      \* the ch-run processes
          Group,      \* the peer group (tag and start) each belongs to
          None        \* "no namespaces yet"

VARIABLE ns         \* the creator of the namespaces each process is in

vars == <<ns>>

Init == ns = [p \in Pid |-> None]

\* p is the first of its group and creates the namespaces.
Create(p) ==
    /\ \A q \in Pid : Group[q] = Group[p] => ns[q] = None
    /\ ns' = [ns EXCEPT ![p] = p]

\* p enters the namespaces of a peer that is already in the container.
Enter(p) ==
    /\ ns[p] = None
    /\ \E q \in Pid : /\ Group[q] = Group[p]
                      /\ ns[q] # None
                      /\ ns' = [ns EXCEPT ![p] = ns[q]]

Next == \E p \in Pid : Create(p) \/ Enter(p)

Spec == Init /\ [][Next]_vars
=============================================================================
