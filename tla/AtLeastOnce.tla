----------------------------- MODULE AtLeastOnce -----------------------------
(***************************************************************************)
(* What the daemon's durable inbound delivery promises (the header of      *)
(* daemon-queue.ts): receiving an event from Feishu and delivering it to   *)
(* Claude are separate facts.  An event is stored before Feishu is told it *)
(* arrived, shown to Claude only once stored - perhaps more than once -    *)
(* and counted as delivered only after Claude was shown it.  No fact is    *)
(* ever taken back, whatever crashes.                                      *)
(***************************************************************************)
CONSTANT Event

VARIABLES
    stored,     \* events the daemon can never lose again
    shown,      \* events written to some Claude session
    confirmed,  \* events that will not be shown again after a restart
    acked       \* events Feishu has been told about and will not send again

promise == <<stored, shown, confirmed, acked>>

Init == stored = {} /\ shown = {} /\ confirmed = {} /\ acked = {}

Store(e) ==
    /\ stored' = stored \cup {e}
    /\ UNCHANGED <<shown, confirmed, acked>>

Show(e) ==
    /\ e \in stored
    /\ shown' = shown \cup {e}
    /\ UNCHANGED <<stored, confirmed, acked>>

Confirm(e) ==
    /\ e \in shown
    /\ confirmed' = confirmed \cup {e}
    /\ UNCHANGED <<stored, shown, acked>>

Acknowledge(e) ==
    /\ e \in stored
    /\ acked' = acked \cup {e}
    /\ UNCHANGED <<stored, shown, confirmed>>

Next == \E e \in Event : Store(e) \/ Show(e) \/ Confirm(e) \/ Acknowledge(e)

Spec == Init /\ [][Next]_promise

=============================================================================
