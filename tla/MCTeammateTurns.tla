---------------------------- MODULE MCTeammateTurns ----------------------------
(* Two sends or waits over a Claude teammate, the history of the sessions a     *)
(* name has had, and the arguments of a command.  They share no state: a        *)
(* behaviour is one of the three, the rest stays as it is at first.             *)
EXTENDS SendSupersede, SessionHistory, VerbArgs, TLC

CONSTANTS a, b, n1, r1, done

VARIABLE part

Two == {a, b}
MCWords   == {"", "bob", "05"}
MCDecimal == ("05" :> "5") @@ ("5" :> "5") @@ ("1800" :> "1800")

MCInit ==
    /\ part \in {"sends", "history", "arguments"}
    /\ SendInit /\ HistoryInit
    /\ ArgsInit /\ (part # "arguments" => command = "send")

MCNext ==
    /\ part' = part
    /\ \/ part = "sends" /\ SendNext /\ UNCHANGED <<historyVars, argsVars>>
       \/ part = "history" /\ HistoryNext /\ UNCHANGED <<sendVars, argsVars>>
       \/ part = "arguments" /\ ArgsNext /\ UNCHANGED <<sendVars, historyVars>>

MCSpec == MCInit /\ [][MCNext]_<<part, sendVars, historyVars, argsVars>>

\* In the other parts no send ever has a step to take, so the fairness of the
\* sends asks nothing of them.
FairMCSpec == MCSpec /\ SendFairness
=============================================================================
