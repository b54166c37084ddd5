-------------------------- MODULE MCTeammateProcesses --------------------------
(* Processes of `tm` over one teammate: the record and the daemon of a Codex   *)
(* teammate, the turns on its thread, the start and end of a Claude teammate,  *)
(* and the markers of its turns.  They are different teammates and share no    *)
(* state: a behaviour is one of the four, the rest stays as it is at first.    *)
EXTENDS CodexRegistry, CodexTurns, ClaudeLifecycle, TurnMarkers, TLC

CONSTANTS a, b, c, l1, l2, q1, r1, r2

VARIABLE part

Tm      == {a, b, c}
MCVerbs == {"spawn", "resume", "kill", "doctor"}
MCRoles == {"send", "wait", "ask"}
MCLauncher == {l1, l2}
MCReaders == {r1, r2}
MCTasks == {"send", "compact", "reload", "wait", "fresh", "quiet", "states", "kill"}

\* Processes of one kind are interchangeable.
Symmetry == Permutations(Tm) \cup Permutations(MCLauncher)

MCInit ==
    /\ part \in {"registry", "turns", "claude", "markers"}
    /\ RegistryInit /\ (part # "registry" => \A x \in Tm : verb[x] = "spawn")
    /\ TurnsInit /\ (part # "turns" => \A x \in Tm : role[x] = "send")
    /\ LifecycleInit /\ (part # "claude" => \A x \in MCLauncher : ~resumes[x])
    /\ MarkersInit /\ (part # "markers" => idle /\ \A x \in MCReaders : task[x] = "send")

MCNext ==
    /\ part' = part
    /\ \/ part = "registry" /\ RegistryNext /\ UNCHANGED <<turnsVars, lifecycleVars, markersVars>>
       \/ part = "turns" /\ TurnsNext /\ UNCHANGED <<registryVars, lifecycleVars, markersVars>>
       \/ part = "claude" /\ LifecycleNext /\ UNCHANGED <<registryVars, turnsVars, markersVars>>
       \/ part = "markers" /\ MarkersNext /\ UNCHANGED <<registryVars, turnsVars, lifecycleVars>>

MCSpec == MCInit /\ [][MCNext]_<<part, registryVars, turnsVars, lifecycleVars, markersVars>>
=============================================================================
