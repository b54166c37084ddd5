----------------------------- MODULE CodexTurns -----------------------------
(***************************************************************************)
(* The turns of one Codex teammate's main thread and the commands that     *)
(* start, join and collect them: `tm send`, `tm wait` and `tm ask`         *)
(* (engines/codex/engine.ts, steer.ts, events.ts, ask.ts, supervisor.ts    *)
(* borrow lock, shared/send-token.ts).  A command is a process of its own  *)
(* with its own connection; they meet in the daemon's thread and in the    *)
(* borrow lock, the send token, the thread id and the last-seen files.     *)
(*                                                                         *)
(* The daemon is external: it runs one turn of the thread at a time, puts  *)
(* a steered prompt into the running turn, and tells the subscribers when  *)
(* it ends.  Time is in seconds, as the last-seen file has it.             *)
(***************************************************************************)
EXTENDS Naturals, Sequences, FiniteSets

CONSTANTS
    Client,     \* processes of `tm`
    Nobody,
    Roles,      \* what they run
    MaxTurns,   \* bound on the turns of the thread
    MaxTime,    \* bound on the clock
    MaxTrouble  \* bound on failures

ASSUME TurnsAssumption ==
    /\ Nobody \notin Client
    /\ Roles \subseteq {"send", "wait", "ask"}
    /\ {MaxTurns, MaxTime, MaxTrouble} \subseteq Nat /\ MaxTime > 0

VARIABLES
    at,         \* the step a client takes next
    role,       \* what it runs
    borrow,     \* the borrow lock: its holder
    probed,     \* the holder a command has read in it
    wronged,    \* history: a lock was removed as stale while its command was at work
    sendToken,  \* the send-token file
    thread,     \* has the main thread been started and recorded?
    turns,      \* the thread's turns: who began it, the sends it answers, does it run, when it ended
    clock,
    lastSeen,   \* the last-seen file
    mine,       \* did its claim of the token land?
    listening,  \* is it subscribed?
    heard,      \* the first turn that ended since it subscribed; 0 for none
    mark,       \* the last-seen time a wait has read
    result,     \* the turn a client returned; 0 for none
    trouble

files == <<borrow, wronged, sendToken, thread, lastSeen>>
local == <<probed, mine, listening, heard, mark, result>>
turnsVars == <<at, role, files, turns, clock, local, trouble>>

-----------------------------------------------------------------------------
(* The daemon's thread                                                      *)

Turn(c) == [by |-> c, of |-> {c}, runs |-> TRUE, steerable |-> TRUE, ended |-> 0]

\* activeTurnIdFromThread: the last turn in progress.
Active == {i \in DOMAIN turns : turns[i].runs}
ActiveTurn == IF Active = {} THEN 0 ELSE CHOOSE i \in Active : \A j \in Active : j <= i

TurnEnds(i) ==
    /\ i \in Active
    /\ turns' = [turns EXCEPT ![i].runs = FALSE, ![i].ended = clock]
    /\ heard' = [c \in Client |-> IF listening[c] /\ heard[c] = 0 THEN i ELSE heard[c]]
    /\ UNCHANGED <<at, role, files, clock, probed, mine, listening, mark, result, trouble>>

\* A review or a compaction takes no prompts.
TurnHardens(i) ==
    /\ i \in Active
    /\ trouble < MaxTrouble /\ trouble' = trouble + 1
    /\ turns' = [turns EXCEPT ![i].steerable = FALSE]
    /\ UNCHANGED <<at, role, files, clock, local>>

Tick ==
    /\ clock < MaxTime
    /\ clock' = clock + 1
    /\ UNCHANGED <<at, role, files, turns, local, trouble>>

-----------------------------------------------------------------------------

Ends == {"done", "superseded", "timedOut", "failed", "dead"}
In(c, label) == at[c] = label
To(c, label) == at' = [at EXCEPT ![c] = label]
Trouble == trouble < MaxTrouble /\ trouble' = trouble + 1
Under(c) == at[c] \notin Ends \cup {"off"}

\* The finally clauses: the connection is closed, and a borrower removes the
\* lock that is there.
Leave(c, verdict) ==
    /\ To(c, verdict)
    /\ listening' = [listening EXCEPT ![c] = FALSE]
    /\ borrow' = IF at[c] \in {"resolve", "look", "claim", "start", "joinHolding", "steerHolding",
                                "claimHolding", "awaitHolding", "ask"}
                 THEN Nobody ELSE borrow

\* tryBorrowDaemon: the holder is the primary, another send joins, an ask is turned away.
Borrow(c) ==
    /\ In(c, "borrow")
    /\ \/ borrow = Nobody /\ borrow' = c /\ To(c, IF role[c] = "ask" THEN "ask" ELSE "resolve")
       \/ /\ borrow # Nobody
          /\ UNCHANGED borrow
          /\ To(c, IF role[c] = "send" /\ thread THEN "find" ELSE "failed")
    /\ UNCHANGED <<role, wronged, sendToken, thread, lastSeen, turns, clock, local, trouble>>

\* clearStaleBorrowLock: a send and an ask first read who holds the lock.
Begin(c) ==
    /\ In(c, "off")
    /\ IF role[c] = "wait" THEN To(c, IF thread THEN "subscribe" ELSE "failed")
       ELSE To(c, IF borrow = Nobody THEN "borrow" ELSE "probe")
    /\ probed' = [probed EXCEPT ![c] = borrow]
    /\ UNCHANGED <<role, files, turns, clock, mine, listening, heard, mark, result, trouble>>

\* isProcessAlive, of the holder that was read: one that was killed is not, one that has ended
\* in another way may be for a moment longer.
ProbeHolder(c) ==
    /\ In(c, "probe")
    /\ \/ at[probed[c]] # "dead" /\ To(c, "borrow")
       \/ at[probed[c]] \in Ends /\ To(c, "clear")
    /\ UNCHANGED <<role, files, turns, clock, local, trouble>>

\* The lock of a dead process is removed, whosever lock is there by then.
ClearStaleBorrow(c) ==
    /\ In(c, "clear")
    /\ borrow' = Nobody
    /\ wronged' = (wronged \/ (borrow # Nobody /\ Under(borrow)))
    /\ To(c, "borrow")
    /\ UNCHANGED <<role, sendToken, thread, lastSeen, turns, clock, local, trouble>>

-----------------------------------------------------------------------------
(* tm send (engine.ts:376-570, 888-976)                                     *)

\* resolveSendThread: the thread is resumed, or started and recorded.
ResolveThread(c) ==
    /\ In(c, "resolve")
    /\ thread' = TRUE
    /\ To(c, "look")
    /\ UNCHANGED <<role, borrow, wronged, sendToken, lastSeen, turns, clock, local, trouble>>

\* A plausible bug: the holder starts a turn without looking for one.
LookSkipped(c) ==
    /\ In(c, "look")
    /\ To(c, "claim")
    /\ UNCHANGED <<role, files, turns, clock, local, trouble>>

\* The holder joins a turn an earlier send left running.
LookForTurn(c) ==
    /\ In(c, "look")
    /\ To(c, IF Active = {} THEN "claim" ELSE "joinHolding")
    /\ UNCHANGED <<role, files, turns, clock, local, trouble>>

\* findActiveTurnWithRetry: five looks, some time apart.
FindTurn(c) ==
    /\ In(c, "find")
    /\ To(c, IF Active # {} THEN "join" ELSE "failed")
    /\ UNCHANGED <<role, files, turns, clock, local, trouble>>

\* claimSendToken, which may fail: the send then never takes itself for superseded.
Claim(c) ==
    /\ at[c] \in {"claim", "claimJoined", "claimHolding"}
    /\ \/ sendToken' = c /\ mine' = [mine EXCEPT ![c] = TRUE] /\ UNCHANGED trouble
       \/ Trouble /\ UNCHANGED <<sendToken, mine>>
    /\ To(c, CASE In(c, "claim") -> "start"
               [] In(c, "claimJoined") -> "await"
               [] OTHER -> "awaitHolding")
    /\ UNCHANGED <<role, borrow, wronged, thread, lastSeen, turns, clock, probed, listening, heard, mark, result>>

\* Subscribed first, so that an early end is heard.
StartTurn(c) ==
    /\ In(c, "start")
    /\ Len(turns) < MaxTurns
    /\ turns' = Append(turns, Turn(c))
    /\ listening' = [listening EXCEPT ![c] = TRUE]
    /\ To(c, "awaitHolding")
    /\ UNCHANGED <<role, files, clock, probed, mine, heard, mark, result, trouble>>

Subscribe(c) ==
    /\ at[c] \in {"join", "joinHolding"}
    /\ listening' = [listening EXCEPT ![c] = TRUE]
    /\ To(c, IF In(c, "join") THEN "steer" ELSE "steerHolding")
    /\ UNCHANGED <<role, files, turns, clock, probed, mine, heard, mark, result, trouble>>

\* steerActiveTurn: a turn that took the place of the expected one gets the prompt.
Steer(c) ==
    /\ at[c] \in {"steer", "steerHolding"}
    /\ ActiveTurn # 0 /\ turns[ActiveTurn].steerable
    /\ turns' = [turns EXCEPT ![ActiveTurn].of = @ \cup {c}]
    /\ To(c, IF In(c, "steer") THEN "claimJoined" ELSE "claimHolding")
    /\ UNCHANGED <<role, files, clock, local, trouble>>

\* No turn runs any more, or it takes no prompt: nothing is delivered, nothing claimed.
SteerRefused(c) ==
    /\ at[c] \in {"steer", "steerHolding"}
    /\ ActiveTurn # 0 => ~turns[ActiveTurn].steerable
    /\ Leave(c, "failed")
    /\ UNCHANGED <<role, wronged, sendToken, thread, lastSeen, turns, clock, probed, mine, heard, mark, result, trouble>>

Awaiting(c) == at[c] \in {"await", "awaitHolding", "waiting", "waitingUnread"}

\* isSuperseded: another send's token is in the file.
Superseded(c) ==
    /\ at[c] \in {"await", "awaitHolding"}
    /\ mine[c] /\ sendToken \notin {Nobody, c}
    /\ Leave(c, "superseded")
    /\ UNCHANGED <<role, wronged, sendToken, thread, lastSeen, turns, clock, probed, mine, heard, mark, result, trouble>>

TimesOut(c) ==
    /\ Awaiting(c)
    /\ Trouble
    /\ Leave(c, "timedOut")
    /\ UNCHANGED <<role, wronged, sendToken, thread, lastSeen, turns, clock, probed, mine, heard, mark, result>>

\* The turn is kept as the last one, and the last-seen time is now.
Collect(c) ==
    /\ Awaiting(c)
    /\ heard[c] # 0
    /\ result' = [result EXCEPT ![c] = heard[c]]
    /\ lastSeen' = clock
    /\ Leave(c, "done")
    /\ UNCHANGED <<role, wronged, sendToken, thread, turns, clock, probed, mine, heard, mark, trouble>>

-----------------------------------------------------------------------------
(* tm wait (engine.ts:978-1077) and tm ask (ask.ts)                         *)

\* A plausible bug: the wait subscribes after it has read the thread.
SubscribeLate(w) ==
    /\ In(w, "subscribe")
    /\ mark' = [mark EXCEPT ![w] = lastSeen]
    /\ To(w, "read")
    /\ UNCHANGED <<role, files, turns, clock, probed, mine, listening, heard, result, trouble>>

SubscribeWait(w) ==
    /\ In(w, "subscribe")
    /\ listening' = [listening EXCEPT ![w] = TRUE]
    /\ mark' = [mark EXCEPT ![w] = lastSeen]
    /\ To(w, "read")
    /\ UNCHANGED <<role, files, turns, clock, probed, mine, heard, result, trouble>>

\* pickBackfillTurn: the ended turns after the mark.
Backfill(w) == {i \in DOMAIN turns : ~turns[i].runs /\ turns[i].ended > mark[w]}

\* The read races the subscription, and the first of them to have a turn wins.
ReadThread(w) ==
    /\ In(w, "read")
    /\ \/ (heard[w] # 0 \/ Backfill(w) = {}) /\ UNCHANGED heard
       \/ /\ heard[w] = 0
          /\ \E i \in Backfill(w) :
                /\ \A j \in Backfill(w) : turns[j].ended <= turns[i].ended
                /\ heard' = [heard EXCEPT ![w] = i]
    /\ To(w, "waiting")
    /\ UNCHANGED <<role, files, turns, clock, probed, mine, listening, mark, result, trouble>>

\* The read fails: what is left is the subscription.
ReadFails(w) ==
    /\ In(w, "read")
    /\ Trouble
    /\ To(w, "waitingUnread")
    /\ UNCHANGED <<role, files, turns, clock, local>>

\* An ephemeral turn: the last-seen time is left alone.
AskEnds(a) ==
    /\ In(a, "ask")
    /\ Leave(a, "done")
    /\ UNCHANGED <<role, wronged, sendToken, thread, lastSeen, turns, clock, probed, mine, heard, mark, result, trouble>>

-----------------------------------------------------------------------------

\* An error of the connection or of a request.
RequestFails(c) ==
    /\ Under(c) /\ at[c] \notin {"probe", "clear", "borrow"}
    /\ Trouble
    /\ Leave(c, "failed")
    /\ UNCHANGED <<role, wronged, sendToken, thread, lastSeen, turns, clock, probed, mine, heard, mark, result>>

\* The process is killed: its lock stays.
ClientDies(c) ==
    /\ Under(c)
    /\ Trouble
    /\ To(c, "dead")
    /\ listening' = [listening EXCEPT ![c] = FALSE]
    /\ UNCHANGED <<role, files, turns, clock, probed, mine, heard, mark, result>>

ClientStep(c) ==
    \/ Begin(c) \/ ProbeHolder(c) \/ ClearStaleBorrow(c) \/ Borrow(c)
    \/ ResolveThread(c) \/ LookForTurn(c) \/ FindTurn(c) \/ Claim(c) \/ StartTurn(c)
    \/ Subscribe(c) \/ Steer(c) \/ SteerRefused(c) \/ Superseded(c) \/ Collect(c)
    \/ SubscribeWait(c) \/ ReadThread(c) \/ AskEnds(c)

Failure(c) == ReadFails(c) \/ TimesOut(c) \/ RequestFails(c) \/ ClientDies(c)

TurnsNext ==
    \/ \E c \in Client : ClientStep(c) \/ Failure(c)
    \/ \E i \in DOMAIN turns : TurnEnds(i) \/ TurnHardens(i)
    \/ Tick

TurnsInit ==
    /\ at = [c \in Client |-> "off"]
    /\ role \in [Client -> Roles]
    /\ borrow = Nobody /\ probed = [c \in Client |-> Nobody] /\ wronged = FALSE
    /\ sendToken = Nobody /\ thread = FALSE /\ lastSeen = 0
    /\ turns = <<>> /\ clock = 1
    /\ mine = [c \in Client |-> FALSE]
    /\ listening = [c \in Client |-> FALSE]
    /\ heard = [c \in Client |-> 0]
    /\ mark = [c \in Client |-> 0]
    /\ result = [c \in Client |-> 0]
    /\ trouble = 0

TurnsSpec == TurnsInit /\ [][TurnsNext]_turnsVars

-----------------------------------------------------------------------------
(* Properties                                                               *)

TurnsTypeOK ==
    /\ {borrow, sendToken} \cup {probed[c] : c \in Client} \subseteq Client \cup {Nobody}
    /\ \A i \in DOMAIN turns :
          turns[i].by \in turns[i].of /\ turns[i].of \subseteq Client /\ turns[i].ended \in 0 .. MaxTime
    /\ clock \in 0 .. MaxTime /\ lastSeen \in 0 .. clock
    /\ \A c \in Client : {heard[c], result[c]} \subseteq 0 .. Len(turns)

\* The borrow lock makes one command the starter of turns, whatever dies, until
\* somebody removes the lock of a command at work in the belief that it is a dead
\* one's (supervisor.ts:177-182 reads, probes and removes): one turn is begun at a
\* time, a send that starts a turn and collects one returns its own, although its
\* subscription takes the first end it hears, and no ask runs beside it
\* (engine.ts:915-976, ask.ts).
StarterGetsItsTurn ==
    ~wronged =>
        /\ Cardinality(Active) <= 1
        /\ \A c \in Client, i \in DOMAIN turns : turns[i].by = c /\ In(c, "done") => result[c] = i
        /\ \A c, d \in Client :
              In(c, "ask") /\ at[d] \in {"resolve", "look", "claim", "start", "awaitHolding"} => c = d

\* A wait that has read the thread and is left waiting has missed nothing: a
\* turn that ended since its watermark, even between the read and the
\* subscription, has been found or heard (the order of wait, engine.ts:1016-1049).
WaitMissesNothing ==
    \A w \in Client : In(w, "waiting") /\ heard[w] = 0 =>
        \A i \in DOMAIN turns : turns[i].runs \/ turns[i].ended <= mark[w]

\* engines/codex/engine.ts:472: a joining send steers its prompt into the active
\* turn and collects the merged result.
ReplyAnswersPrompt ==
    \A c \in Client : role[c] = "send" /\ In(c, "done") => c \in turns[result[c]].of

\* engines/codex/engine.ts:477-480: only the latest send survives.  So a send
\* that exits as superseded has one that was delivered into its turn or later.
LatestSendSurvives ==
    \A c \in Client : In(c, "superseded") =>
        \E i, j \in DOMAIN turns : c \in turns[i].of /\ i <= j /\ turns[j].of \ {c} # {}
=============================================================================
