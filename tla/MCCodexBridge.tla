---------------------------- MODULE MCCodexBridge ----------------------------
(* A Codex teammate seen from outside: the bridge to the Codex UI, with two     *)
(* calls at a time, two threads and a connection for every attempt the bounds   *)
(* allow, and a command that lists the teammate while it works.  They share no  *)
(* state: a behaviour is one of the two, the rest stays as it is at first.      *)
EXTENDS CodexBridge, CodexObservation

CONSTANTS k1, k2, t1

VARIABLE part

MCInit ==
    /\ part \in {"bridge", "look"}
    /\ BridgeInit /\ (part # "bridge" => recorded = Absent)
    /\ ObservationInit

MCNext ==
    /\ part' = part
    /\ \/ part = "bridge" /\ BridgeNext /\ UNCHANGED observationVars
       \/ part = "look" /\ ObservationNext /\ UNCHANGED bridgeVars

MCSpec ==
    /\ MCInit /\ [][MCNext]_<<part, bridgeVars, observationVars>>
    /\ part = "bridge" => BridgeFairness
=============================================================================
