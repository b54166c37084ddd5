--------------------------- MODULE CodexObservation ---------------------------
(***************************************************************************)
(* A command that looks at a Codex teammate while it works: the rows of    *)
(* `tm ls` and `tm status`, `tm last` and `tm ctx` (engines/codex/         *)
(* engine.ts, rollout.ts).  What it reports is put together from the       *)
(* registry, the rollout file, the daemon's answer and the borrow lock,    *)
(* read one after the other.                                               *)
(*                                                                         *)
(* The daemon, its threads and the rollout it appends to are external.     *)
(***************************************************************************)
EXTENDS Naturals, Sequences, FiniteSetsExt

CONSTANTS
    Watched,    \* threads
    NoThread,
    Window,     \* how long a write counts as activity (CODEX_ROLLOUT_BUSY_WINDOW_MS)
    MaxClock, MaxEntries, MaxDaemons    \* bounds

ASSUME ObservationAssumption ==
    /\ NoThread \notin Watched
    /\ {Window, MaxClock, MaxEntries, MaxDaemons} \subseteq Nat

VARIABLES
    serving,    \* the daemon that runs; 0: none
    daemons,    \* how many ran
    registered, \* the registry of the teammate: its daemon, 0 without one, and its thread
    status,     \* what the daemon says of a thread
    asking,     \* does `tm ask` or `tm send` borrow the daemon?
    entries,    \* the lines of a thread's rollout
    written,    \* when one was last written
    wallClock,
    view,       \* the command: its verb, its next step, and what it has read
    shown,      \* what it reported
    calm        \* since it read the registry, was there a moment without a turn?

observedVars == <<serving, daemons, registered, status, asking, entries, written>>
observationVars == <<observedVars, wallClock, view, shown, calm>>

Kinds == {"text", "usage", "other", "torn"}

TurnRuns == registered.thread \in Watched /\ serving # 0 /\ status[registered.thread] = "active"

\* A step of the daemon or of another command.
Elsewhere ==
    /\ calm' = (calm \/ ~TurnRuns')
    /\ UNCHANGED <<view, shown>>

-----------------------------------------------------------------------------
(* The daemon (external)                                                    *)

AppendEntry(t, kind) ==
    /\ MapThenSumSet(LAMBDA u : Len(entries[u]), Watched) < MaxEntries
    /\ entries' = [entries EXCEPT ![t] = Append(@, kind)]
    /\ written' = [written EXCEPT ![t] = wallClock]

\* The first prompt of a teammate opens its thread.
ThreadOpens(t) ==
    /\ serving # 0 /\ registered.thread = NoThread
    /\ registered' = [registered EXCEPT !.thread = t]
    /\ status' = [status EXCEPT ![t] = "idle"]
    /\ UNCHANGED <<serving, daemons, asking, entries, written, wallClock>>
    /\ Elsewhere

TurnBeginsOn(t) ==
    /\ serving # 0 /\ registered.thread = t /\ status[t] # "active"
    /\ status' = [status EXCEPT ![t] = "active"]
    /\ UNCHANGED <<serving, daemons, registered, asking, entries, written, wallClock>>
    /\ Elsewhere

TurnWrites(t) ==
    /\ serving # 0 /\ status[t] = "active"
    /\ \E kind \in {"text", "usage", "other"} : AppendEntry(t, kind)
    /\ UNCHANGED <<serving, daemons, registered, status, asking, wallClock>>
    /\ Elsewhere

TurnEndsOn(t) ==
    /\ serving # 0 /\ status[t] = "active"
    /\ \E after \in {"idle", "systemError"} : status' = [status EXCEPT ![t] = after]
    /\ UNCHANGED <<serving, daemons, registered, asking, entries, written, wallClock>>
    /\ Elsewhere

\* What the daemon was writing is cut short.
DaemonStops ==
    /\ serving # 0
    /\ serving' = 0
    /\ status' = [t \in Watched |-> "notLoaded"]
    /\ \/ \E t \in Watched : status[t] = "active" /\ AppendEntry(t, "torn")
       \/ UNCHANGED <<entries, written>>
    /\ UNCHANGED <<daemons, registered, asking, wallClock>>
    /\ Elsewhere

\* A kill or the doctor removes the registry; a spawn or a resume makes it anew.
DaemonComesBack ==
    /\ serving = 0 /\ daemons < MaxDaemons
    /\ daemons' = daemons + 1
    /\ serving' = daemons'
    /\ \E t \in Watched \cup {NoThread} : registered' = [daemon |-> daemons', thread |-> t]
    /\ UNCHANGED <<status, asking, entries, written, wallClock>>
    /\ Elsewhere

RegistryGoes ==
    /\ serving = 0 /\ registered.daemon # 0
    /\ registered' = [daemon |-> 0, thread |-> NoThread]
    /\ UNCHANGED <<serving, daemons, status, asking, entries, written, wallClock>>
    /\ Elsewhere

Borrows ==
    /\ serving # 0
    /\ asking' = ~asking
    /\ UNCHANGED <<serving, daemons, registered, status, entries, written, wallClock>>
    /\ Elsewhere

TimePasses ==
    /\ wallClock < MaxClock /\ wallClock' = wallClock + 1
    /\ UNCHANGED observedVars
    /\ Elsewhere

-----------------------------------------------------------------------------
(* Reading a rollout (rollout.ts)                                           *)

\* readCodexRolloutSnapshot keeps the last line that gave a text, and the last that gave a usage.
Newest(kind, file) ==
    LET scan[i \in 0..Len(file)] ==
            IF i = 0 THEN 0 ELSE IF file[i] = kind THEN i ELSE scan[i - 1]
    IN scan[Len(file)]

NoSnapshot == [found |-> FALSE, at |-> 0, text |-> 0, usage |-> 0, length |-> 0]

\* rolloutRecentlyActive, with the time and the snapshot the command has taken.
RecentlyActive == view.rollout.found /\ view.now - view.rollout.at <= Window

-----------------------------------------------------------------------------
(* The command (engine.ts)                                                  *)

Idly == UNCHANGED <<observedVars, wallClock>>
At(label) == view.step = label

\* readDaemonState: the registry, and the clock once for the whole row.
ReadRegistry(verb) ==
    /\ At("off")
    /\ view' = [view EXCEPT !.verb = verb, !.daemon = registered.daemon, !.thread = registered.thread, !.now = wallClock,
                            !.step = IF registered.daemon = 0 THEN "end"
                                     ELSE IF registered.thread # NoThread THEN "stat"
                                     ELSE IF verb = "row" THEN "probe" ELSE "end"]
    /\ shown' = IF registered.daemon = 0 \/ (verb # "row" /\ registered.thread = NoThread) THEN "none" ELSE shown
    /\ calm' = ~TurnRuns
    /\ Idly

\* The file is found with its time of writing, then read.
StatRollout ==
    /\ At("stat")
    /\ view' = [view EXCEPT !.rollout = [NoSnapshot EXCEPT !.found = entries[view.thread] # <<>>, !.at = written[view.thread]],
                            !.step = "read"]
    /\ UNCHANGED <<shown, calm>> /\ Idly

ReadRollout ==
    /\ At("read")
    /\ LET file == entries[view.thread]
           snapshot == [view.rollout EXCEPT !.text = Newest("text", file), !.usage = Newest("usage", file), !.length = Len(file)]
           value == IF view.verb = "last" THEN snapshot.text ELSE snapshot.usage
       IN /\ view' = [view EXCEPT !.rollout = IF @.found THEN snapshot ELSE @,
                                  !.step = IF view.verb = "row" THEN "probe" ELSE "end"]
          /\ shown' = IF view.verb = "row" THEN shown ELSE IF view.rollout.found /\ value # 0 THEN "value" ELSE "none"
    /\ UNCHANGED calm /\ Idly

\* probeRuntime asks nothing of a daemon that is dead.
ProbesDaemon ==
    /\ At("probe")
    /\ view' = [view EXCEPT !.step = IF serving # 0 /\ view.daemon = serving THEN "connect" ELSE "row"]
    /\ UNCHANGED <<shown, calm>> /\ Idly

\* openInitializedCodexClient connects to the socket of the name, whichever daemon is registered
\* and serves it by now.  There may be none, and it may not answer in time.
Connects ==
    /\ At("connect")
    /\ \/ /\ serving # 0 /\ registered.daemon # 0
          /\ view' = [view EXCEPT !.reach = "yes", !.peer = serving,
                                  !.step = IF view.thread # NoThread THEN "ask" ELSE "row"]
       \/ view' = [view EXCEPT !.reach = "no", !.step = "row"]
    /\ UNCHANGED <<shown, calm>> /\ Idly

\* A thread/read that fails or is late leaves the state of the thread open.
ReadsThread ==
    /\ At("ask")
    /\ \/ serving = view.peer /\ view' = [view EXCEPT !.said = status[view.thread], !.step = "row"]
       \/ view' = [view EXCEPT !.step = "row"]
    /\ UNCHANGED <<shown, calm>> /\ Idly

StatusState(said) ==
    CASE said = "active" -> "busy"
      [] said \in {"idle", "notLoaded"} -> "idle"
      [] said = "systemError" -> "unknown"
      [] OTHER -> "open"

\* A state that trusts a silent rollout more than the daemon's answer.
RolloutDecides(thread) ==
    IF serving = 0 \/ view.daemon # serving THEN "unknown"
    ELSE IF RecentlyActive THEN "busy"
    ELSE IF asking THEN "borrowed"
    ELSE IF view.reach = "no" THEN "unknown" ELSE "idle"

\* codexDaemonState
DaemonState(thread) ==
    IF serving = 0 \/ view.daemon # serving THEN "unknown"
    ELSE IF thread = "busy" THEN "busy"
    ELSE IF asking THEN "borrowed"
    ELSE IF RecentlyActive THEN "busy"
    ELSE IF thread = "idle" THEN "idle"
    ELSE IF thread = "unknown" \/ view.reach = "no" THEN "unknown" ELSE "idle"

Row ==
    /\ At("row")
    /\ view' = [view EXCEPT !.step = "end"]
    /\ shown' = DaemonState(StatusState(view.said))
    /\ UNCHANGED calm /\ Idly

-----------------------------------------------------------------------------
\* A daemon runs and has not yet been given a prompt.
ObservationInit ==
    /\ serving = 1 /\ daemons = 1 /\ registered = [daemon |-> 1, thread |-> NoThread]
    /\ asking = FALSE
    /\ status = [t \in Watched |-> "notLoaded"]
    /\ entries = [t \in Watched |-> <<>>] /\ written = [t \in Watched |-> 0]
    /\ wallClock = 0
    /\ view = [verb |-> "row", step |-> "off", daemon |-> 0, thread |-> NoThread, now |-> 0,
               rollout |-> NoSnapshot, reach |-> "none", peer |-> 0, said |-> "none"]
    /\ shown = "nothing" /\ calm = TRUE

DaemonLives ==
    \/ \E t \in Watched : ThreadOpens(t) \/ TurnBeginsOn(t) \/ TurnWrites(t) \/ TurnEndsOn(t)
    \/ DaemonStops \/ DaemonComesBack \/ RegistryGoes \/ Borrows \/ TimePasses

Looks ==
    \/ \E verb \in {"row", "last", "ctx"} : ReadRegistry(verb)
    \/ StatRollout \/ ReadRollout \/ ProbesDaemon \/ Connects \/ ReadsThread \/ Row

\* What happens after the report is of no concern to it.
ObservationNext == (~At("end") /\ DaemonLives) \/ Looks

ObservationSpec == ObservationInit /\ [][ObservationNext]_observationVars

-----------------------------------------------------------------------------
ObservationTypeOK ==
    /\ serving \in 0..MaxDaemons /\ daemons \in 0..MaxDaemons
    /\ registered \in [daemon : 0..MaxDaemons, thread : Watched \cup {NoThread}]
    /\ status \in [Watched -> {"notLoaded", "idle", "active", "systemError"}]
    /\ \A t \in Watched : \A i \in DOMAIN entries[t] : entries[t][i] \in Kinds
    /\ shown \in {"nothing", "none", "value", "unknown", "busy", "borrowed", "idle"}

\* A teammate of which a daemon answered is shown idle only if there was a moment, since the
\* command read the registry, when no turn ran on its thread (probeRuntime, codexDaemonState): a
\* turn that was running all along is never idle, however long it has written nothing, and
\* although the daemon that answered may be a newer one, which has not loaded the thread.
IdleRowWasIdle ==
    shown = "idle" /\ view.said # "none" => calm

\* `tm last` and `tm ctx` report the newest text and usage of the rollout they read, past
\* the lines a daemon left half written (readCodexRolloutSnapshot).
NewestLineIsReported ==
    view.rollout.length > 0 =>
        LET read == SubSeq(entries[view.thread], 1, view.rollout.length) IN
        /\ \A i \in DOMAIN read : read[i] = "text" => i <= view.rollout.text
        /\ \A i \in DOMAIN read : read[i] = "usage" => i <= view.rollout.usage
==============================================================================
