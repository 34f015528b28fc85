---------------------------- MODULE LinkMonitor ----------------------------
(***************************************************************************)
(* What a RemoteStatusTracker promises about the state it reports for the *)
(* peer: the state machine of the class comments of RemoteState and       *)
(* RemoteStatusTracker (mcf_remote/remote_service.py) and of spec.md:     *)
(*  - UP is only reached from UNSURE, by confirmation (a matching pong);  *)
(*  - UNSURE or UP may give up to DOWN;                                    *)
(*  - any state may fall back to UNSURE (a send timed out, or a message   *)
(*    arrived while DOWN);                                                 *)
(*  - an UNSURE tracker does not stay UNSURE: it is confirmed or gives up.*)
(* There is no promise that DOWN is ever left: that needs a message from  *)
(* the peer.                                                               *)
(***************************************************************************)
CONSTANT Peers

VARIABLE link   \* the state each peer's tracker reports

States == {"DOWN", "UNSURE", "UP"}

TypeOK == link \in [Peers -> States]

Init == link = [p \in Peers |-> "UNSURE"]

Confirm(p) ==
    /\ link[p] = "UNSURE"
    /\ link' = [link EXCEPT ![p] = "UP"]

GiveUp(p) ==
    /\ link[p] \in {"UNSURE", "UP"}
    /\ link' = [link EXCEPT ![p] = "DOWN"]

Doubt(p) ==
    /\ link[p] # "UNSURE"
    /\ link' = [link EXCEPT ![p] = "UNSURE"]

\* An UNSURE tracker is resolved one way or the other.
Resolve(p) == link[p] = "UNSURE" /\ (Confirm(p) \/ GiveUp(p))

Next == \E p \in Peers : Confirm(p) \/ GiveUp(p) \/ Doubt(p)

Spec == Init /\ [][Next]_link /\ \A p \in Peers : WF_link(Resolve(p))
=============================================================================
