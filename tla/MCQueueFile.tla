----------------------------- MODULE MCQueueFile -----------------------------
(* The queue file written by one daemon, or by the two of a hand-off that find*)
(* the torn tail of a writer that died before.                                *)
EXTENDS QueueFile, TLC

CONSTANTS w1, w2, e1, e2

OneWriter  == {w1}
TwoWriters == {w1, w2}
MCEvent    == {e1, e2}

TornInit ==
    /\ lines = <<>> /\ tail = Torn
    /\ pc = [w \in Writer |-> "idle"]
    /\ op \in [Writer -> {CHOOSE x \in Entry : TRUE}]
    /\ cut = [w \in Writer |-> 0]
    /\ newline = [w \in Writer |-> FALSE]
    /\ returned = {}
    /\ ops = 0 /\ faults = 0

TornSpec == TornInit /\ [][QueueNext]_queueVars
=============================================================================
