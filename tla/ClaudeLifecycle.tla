--------------------------- MODULE ClaudeLifecycle ---------------------------
(***************************************************************************)
(* One teammate name of the Claude engine, and the commands that start and *)
(* end its session: spawn, resume and kill (engines/claude/claude-engine.ts*)
(* spawn.ts, resume.ts, verbs/kill.ts).  A command is a process of its own.*)
(* They meet in the identity record, the tmux session and the files of the *)
(* teammate, which the hooks of its Claude write too                       *)
(* (hooks/on-session-start.sh, hooks/on-stop.sh).                          *)
(*                                                                         *)
(* tmux and Claude are external.  A session, the sid of its Claude and the *)
(* directory it works in are named after the command that started it: two  *)
(* commands may start one name in two directories.                         *)
(***************************************************************************)
EXTENDS Naturals

CONSTANTS
    Launcher,       \* processes of `tm` that spawn or resume
    Killer,         \* processes of `tm` that kill
    Nil,
    MaxUpsets       \* bound on failures

ASSUME LifecycleAssumption ==
    /\ Launcher \cap Killer = {}
    /\ Nil \notin Launcher \cup Killer \cup [by : Launcher, written : BOOLEAN]
    /\ MaxUpsets \in Nat

VARIABLES
    doing,      \* the step a command takes next
    resumes,    \* does a launcher continue the latest conversation?
    ident,      \* the identity record: its author, and is it written?
    archived,   \* the author of the archived record
    session,    \* the tmux session
    claude,     \* what the Claude of a launcher does
    hook,       \* what its SessionStart hook writes next
    typed,      \* keys typed to it: "/exit", or the Enter after it
    ended,      \* the launchers whose Claude has fired SessionEnd
    cwdFile, sidFile,   \* the files: the launcher they are about
    ready,      \* does the ready file exist?
    reserved,   \* did a launcher reserve the name itself?
    sidRead,    \* the sid a killer has read
    advanced,   \* has the idle marker moved since a killer took its baseline?
    hadRecord,  \* did a killer see an identity file?
    exit,       \* how a killer says the session ended
    missed,     \* has a killer failed to see or to end the session?
    outlived,   \* did a SessionStart hook outlive the session a killer cleans up after?
    alone,      \* has no launcher run since a killer began?
    upsets

nameFiles == <<cwdFile, sidFile, ready>>
killVars == <<sidRead, advanced, hadRecord, exit, missed, outlived, alone>>
tmuxVars == <<session, claude, hook, typed, ended>>
lifecycleVars ==
    <<doing, resumes, ident, archived, tmuxVars, nameFiles, reserved, killVars, upsets>>

DoesNext(c, label) == doing' = [doing EXCEPT ![c] = label]
Does(c, label) == doing[c] = label
Upset == upsets < MaxUpsets /\ upsets' = upsets + 1
Outcomes == {"started", "exists", "failed", "killed", "notFound"}
Underway(c) == doing[c] \notin Outcomes \cup {"off"}
Present(s) == session = s /\ s # Nil
Identified == ident # Nil /\ ident.written

-----------------------------------------------------------------------------
(* spawn and resume (claude-engine.ts:205-255, 545-690, spawn.ts:300-500)   *)

\* reserveClaudeIdentityForLaunch: a readable record is another start's, and good enough.
BeginLaunch(c) ==
    /\ Does(c, "off")
    /\ DoesNext(c, IF Identified THEN "look" ELSE "reserve")
    /\ alone' = [k \in Killer |-> FALSE]
    /\ UNCHANGED <<resumes, ident, archived, tmuxVars, nameFiles, reserved, sidRead, advanced,
                   hadRecord, exit, missed, outlived, upsets>>

\* The exclusive create.  It is taken, or unreadable for now.
ReserveName(c) ==
    /\ Does(c, "reserve")
    /\ \/ /\ ident = Nil
          /\ ident' = [by |-> c, written |-> FALSE]
          /\ reserved' = [reserved EXCEPT ![c] = TRUE]
          /\ DoesNext(c, "write")
       \/ ident # Nil /\ DoesNext(c, "failed") /\ UNCHANGED <<ident, reserved>>
    /\ UNCHANGED <<resumes, archived, tmuxVars, nameFiles, killVars, upsets>>

WriteIdentity(c) ==
    /\ Does(c, "write")
    /\ ident' = IF ident # Nil /\ ident.by = c THEN [ident EXCEPT !.written = TRUE] ELSE ident
    /\ DoesNext(c, "look")
    /\ UNCHANGED <<resumes, archived, tmuxVars, nameFiles, reserved, killVars, upsets>>

\* claudeResume and claudeLaunch: a session that is there is left alone.
LookForSession(c) ==
    /\ Does(c, "look")
    /\ DoesNext(c, IF session = Nil THEN "clearReady" ELSE IF resumes[c] THEN "undo" ELSE "exists")
    /\ UNCHANGED <<resumes, ident, archived, tmuxVars, nameFiles, reserved, killVars, upsets>>

ClearReady(c) ==
    /\ Does(c, "clearReady")
    /\ ready' = FALSE
    /\ DoesNext(c, "writeCwd")
    /\ UNCHANGED <<resumes, ident, archived, tmuxVars, cwdFile, sidFile, reserved, killVars, upsets>>

WriteCwd(c) ==
    /\ Does(c, "writeCwd")
    /\ cwdFile' = c
    /\ DoesNext(c, "newSession")
    /\ UNCHANGED <<resumes, ident, archived, tmuxVars, sidFile, ready, reserved, killVars, upsets>>

\* tmux refuses a second session of the name.
NewSession(c) ==
    /\ Does(c, "newSession")
    /\ \/ session = Nil /\ session' = c /\ DoesNext(c, "launch") /\ UNCHANGED upsets
       \/ session # Nil /\ DoesNext(c, "undo") /\ UNCHANGED <<session, upsets>>
       \/ Upset /\ DoesNext(c, "undo") /\ UNCHANGED session
    /\ UNCHANGED <<resumes, ident, archived, claude, hook, typed, ended, nameFiles, reserved, killVars>>

\* The command line is typed to the pane, if it is still there.
LaunchClaude(c) ==
    /\ Does(c, "launch")
    /\ claude' = IF Present(c) THEN [claude EXCEPT ![c] = "boots"] ELSE claude
    /\ DoesNext(c, IF resumes[c] THEN "awaitReady" ELSE "writeSid")
    /\ UNCHANGED <<resumes, ident, archived, session, hook, typed, ended, nameFiles, reserved, killVars, upsets>>

WriteSid(c) ==
    /\ Does(c, "writeSid")
    /\ sidFile' = c
    /\ DoesNext(c, "awaitReady")
    /\ UNCHANGED <<resumes, ident, archived, tmuxVars, cwdFile, ready, reserved, killVars, upsets>>

\* pollReady: it is there, or the launcher goes on with a warning.
AwaitReady(c) ==
    /\ Does(c, "awaitReady")
    /\ IF ready THEN UNCHANGED upsets ELSE Upset
    /\ DoesNext(c, "started")
    /\ UNCHANGED <<resumes, ident, archived, tmuxVars, nameFiles, reserved, killVars>>

\* A plausible bug: the name is given up without a look at the session.
UndoBlindly(c) ==
    /\ Does(c, "undo")
    /\ DoesNext(c, IF reserved[c] THEN "release" ELSE "failed")
    /\ UNCHANGED <<resumes, ident, archived, tmuxVars, nameFiles, reserved, killVars, upsets>>

\* The name is given up by who reserved it, and only without a session.
Undo(c) ==
    /\ Does(c, "undo")
    /\ DoesNext(c, IF reserved[c] /\ session = Nil THEN "release" ELSE "failed")
    /\ UNCHANGED <<resumes, ident, archived, tmuxVars, nameFiles, reserved, killVars, upsets>>

Release(c) ==
    /\ Does(c, "release")
    /\ ident' = Nil
    /\ DoesNext(c, "failed")
    /\ UNCHANGED <<resumes, archived, tmuxVars, nameFiles, reserved, killVars, upsets>>

-----------------------------------------------------------------------------
(* kill (claude-engine.ts:340-540, verbs/kill.ts)                           *)

StartKill(k) ==
    /\ Does(k, "off")
    /\ hadRecord' = [hadRecord EXCEPT ![k] = ident # Nil]
    /\ sidRead' = [sidRead EXCEPT ![k] = sidFile]
    /\ alone' = [alone EXCEPT ![k] = \A c \in Launcher : ~Underway(c)]
    /\ DoesNext(k, "lookToKill")
    /\ UNCHANGED <<resumes, ident, archived, tmuxVars, nameFiles, reserved, advanced, exit, missed, outlived, upsets>>

\* has-session may fail, and then there is no session for the killer.
LookToKill(k) ==
    /\ Does(k, "lookToKill")
    /\ \/ /\ DoesNext(k, IF session = Nil THEN "clean" ELSE "typeExit")
          /\ UNCHANGED <<missed, upsets>>
       \/ Upset /\ missed' = [missed EXCEPT ![k] = TRUE] /\ DoesNext(k, "clean")
    /\ advanced' = [advanced EXCEPT ![k] = FALSE]
    /\ UNCHANGED <<resumes, ident, archived, tmuxVars, nameFiles, reserved, sidRead, hadRecord,
                   exit, outlived, alone>>

\* The keys go to the session of the name.  If they cannot be sent there is no session.
TypeExit(k) ==
    /\ Does(k, "typeExit")
    /\ \/ /\ session # Nil
          /\ typed' = [typed EXCEPT ![session] = "exit"]
          /\ DoesNext(k, "awaitExit")
          /\ UNCHANGED <<missed, upsets>>
       \/ session = Nil /\ DoesNext(k, "clean") /\ UNCHANGED <<typed, missed, upsets>>
       \/ Upset /\ missed' = [missed EXCEPT ![k] = TRUE] /\ DoesNext(k, "clean") /\ UNCHANGED typed
    /\ UNCHANGED <<resumes, ident, archived, session, claude, hook, ended, nameFiles, reserved, sidRead,
                   advanced, hadRecord, exit, outlived, alone>>

\* waitForExitSignal: the idle marker has moved, or the session is gone or cannot be asked for.
ExitSeen(k) ==
    /\ doing[k] \in {"awaitExit", "awaitKept"}
    /\ \/ (advanced[k] \/ session = Nil) /\ UNCHANGED upsets
       \/ Upset
    /\ exit' = [exit EXCEPT ![k] = "graceful"]
    /\ DoesNext(k, "killSession")
    /\ UNCHANGED <<resumes, ident, archived, tmuxVars, nameFiles, reserved, sidRead, advanced,
                   hadRecord, missed, outlived, alone>>

\* Fifteen seconds, an Enter for the prompt of a dirty worktree, which may fail, and five more.
ExitUnseen(k) ==
    /\ Upset
    /\ \/ /\ Does(k, "awaitExit")
          /\ \/ session # Nil /\ typed' = [typed EXCEPT ![session] = "keep"]
             \/ UNCHANGED typed
          /\ DoesNext(k, "awaitKept")
          /\ UNCHANGED exit
       \/ /\ Does(k, "awaitKept")
          /\ exit' = [exit EXCEPT ![k] = "forced"]
          /\ DoesNext(k, "killSession")
          /\ UNCHANGED typed
    /\ UNCHANGED <<resumes, ident, archived, session, claude, hook, ended, nameFiles, reserved, sidRead,
                   advanced, hadRecord, missed, outlived, alone>>

\* tryKillTmuxSession: the session of the name, which may be a later one.  Nobody hears of a failure.
KillSession(k) ==
    /\ Does(k, "killSession")
    /\ \/ session' = Nil /\ UNCHANGED <<missed, upsets>>
       \/ Upset /\ missed' = [missed EXCEPT ![k] = TRUE] /\ UNCHANGED session
    /\ DoesNext(k, "clean")
    /\ UNCHANGED <<resumes, ident, archived, claude, hook, typed, ended, nameFiles, reserved, sidRead,
                   advanced, hadRecord, exit, outlived, alone>>

\* A hook that has passed its checks before the files are gone writes its own after that.
Outlives(k) == outlived' = [outlived EXCEPT ![k] = \E s \in Launcher : hook[s] # "none"]

\* A plausible bug: with neither a session nor a record there is nothing to clean.
CleanWhatIsKnown(k) ==
    /\ Does(k, "clean")
    /\ IF exit[k] = "absent" /\ ~hadRecord[k] THEN DoesNext(k, "notFound") /\ UNCHANGED nameFiles
       ELSE cwdFile' = Nil /\ sidFile' = Nil /\ ready' = FALSE /\ DoesNext(k, "archive")
    /\ Outlives(k)
    /\ UNCHANGED <<resumes, ident, archived, tmuxVars, reserved, sidRead, advanced, hadRecord, exit,
                   missed, alone, upsets>>

CleanFiles(k) ==
    /\ Does(k, "clean")
    /\ cwdFile' = Nil /\ sidFile' = Nil /\ ready' = FALSE
    /\ DoesNext(k, IF exit[k] = "absent" /\ ~hadRecord[k] THEN "notFound" ELSE "archive")
    /\ Outlives(k)
    /\ UNCHANGED <<resumes, ident, archived, tmuxVars, reserved, sidRead, advanced, hadRecord, exit,
                   missed, alone, upsets>>

Archive(k) ==
    /\ Does(k, "archive")
    /\ archived' = IF ident = Nil THEN archived ELSE ident.by
    /\ DoesNext(k, "forget")
    /\ UNCHANGED <<resumes, ident, tmuxVars, nameFiles, reserved, killVars, upsets>>

Forget(k) ==
    /\ Does(k, "forget")
    /\ ident' = Nil
    /\ DoesNext(k, "killed")
    /\ UNCHANGED <<resumes, archived, tmuxVars, nameFiles, reserved, killVars, upsets>>

-----------------------------------------------------------------------------
(* Claude and its hooks                                                     *)

\* on-session-start.sh, when Claude starts: it writes nothing unless Claude runs where the cwd
\* file says.  The hook is a process of its own, and neither Claude nor a kill waits for it.
HookStarts(s) ==
    /\ Present(s) /\ claude[s] = "boots"
    /\ claude' = [claude EXCEPT ![s] = "idle"]
    /\ hook' = IF cwdFile = s THEN [hook EXCEPT ![s] = "sid"] ELSE hook
    /\ UNCHANGED <<doing, resumes, ident, archived, session, typed, ended, nameFiles, reserved, killVars, upsets>>

HookWritesSid(s) ==
    /\ hook[s] = "sid"
    /\ hook' = [hook EXCEPT ![s] = "ready"]
    /\ sidFile' = s
    /\ UNCHANGED <<doing, resumes, ident, archived, session, claude, typed, ended, cwdFile, ready,
                   reserved, killVars, upsets>>

HookTouchesReady(s) ==
    /\ hook[s] = "ready"
    /\ hook' = [hook EXCEPT ![s] = "none"]
    /\ ready' = TRUE
    /\ UNCHANGED <<doing, resumes, ident, archived, session, claude, typed, ended, cwdFile, sidFile,
                   reserved, killVars, upsets>>

TurnBegins(s) ==
    /\ Present(s) /\ claude[s] = "idle" /\ typed[s] = "none"
    /\ claude' = [claude EXCEPT ![s] = "works"]
    /\ UNCHANGED <<doing, resumes, ident, archived, session, hook, typed, ended, nameFiles, reserved, killVars, upsets>>

\* on-stop.sh touches the idle marker of its session.
Touched(s) == advanced' = [k \in Killer |-> advanced[k] \/ sidRead[k] = s]

\* Stop
TurnStops(s) ==
    /\ Present(s) /\ claude[s] = "works"
    /\ claude' = [claude EXCEPT ![s] = "idle"]
    /\ Touched(s)
    /\ UNCHANGED <<doing, resumes, ident, archived, session, hook, typed, ended, nameFiles, reserved,
                   sidRead, hadRecord, exit, missed, outlived, alone, upsets>>

\* SessionEnd, with a clean worktree or after the prompt about a dirty one.
ClaudeExits(s) ==
    /\ Present(s)
    /\ \/ claude[s] = "idle" /\ typed[s] # "none"
       \/ claude[s] = "asks" /\ typed[s] = "keep"
    /\ claude' = [claude EXCEPT ![s] = "shell"]
    /\ ended' = ended \cup {s}
    /\ Touched(s)
    /\ UNCHANGED <<doing, resumes, ident, archived, session, hook, typed, nameFiles, reserved,
                   sidRead, hadRecord, exit, missed, outlived, alone, upsets>>

\* The prompt about a dirty worktree.
ClaudeAsks(s) ==
    /\ Present(s) /\ claude[s] = "idle" /\ typed[s] = "exit"
    /\ claude' = [claude EXCEPT ![s] = "asks"]
    /\ UNCHANGED <<doing, resumes, ident, archived, session, hook, typed, ended, nameFiles, reserved, killVars, upsets>>

\* The session ends by itself.
SessionGone ==
    /\ session # Nil
    /\ Upset
    /\ session' = Nil
    /\ UNCHANGED <<doing, resumes, ident, archived, claude, hook, typed, ended, nameFiles, reserved, killVars>>

Launch(c) ==
    \/ BeginLaunch(c) \/ ReserveName(c) \/ WriteIdentity(c) \/ LookForSession(c) \/ ClearReady(c)
    \/ WriteCwd(c) \/ NewSession(c) \/ LaunchClaude(c) \/ WriteSid(c) \/ AwaitReady(c)
    \/ Undo(c) \/ Release(c)

KillStep(k) ==
    \/ StartKill(k) \/ LookToKill(k) \/ TypeExit(k) \/ ExitSeen(k) \/ ExitUnseen(k)
    \/ KillSession(k) \/ CleanFiles(k) \/ Archive(k) \/ Forget(k)

ClaudeStep(s) ==
    \/ HookStarts(s) \/ HookWritesSid(s) \/ HookTouchesReady(s)
    \/ TurnBegins(s) \/ TurnStops(s) \/ ClaudeExits(s) \/ ClaudeAsks(s)

LifecycleNext ==
    \/ \E c \in Launcher : Launch(c) \/ ClaudeStep(c)
    \/ \E k \in Killer : KillStep(k)
    \/ SessionGone

LifecycleInit ==
    /\ doing = [c \in Launcher \cup Killer |-> "off"]
    /\ resumes \in [Launcher -> BOOLEAN]
    /\ ident = Nil /\ archived = Nil /\ session = Nil
    /\ claude = [c \in Launcher |-> "shell"]
    /\ hook = [c \in Launcher |-> "none"]
    /\ typed = [c \in Launcher |-> "none"]
    /\ ended = {}
    /\ cwdFile = Nil /\ sidFile = Nil /\ ready = FALSE
    /\ reserved = [c \in Launcher |-> FALSE]
    /\ sidRead = [k \in Killer |-> Nil]
    /\ advanced = [k \in Killer |-> FALSE]
    /\ hadRecord = [k \in Killer |-> FALSE]
    /\ exit = [k \in Killer |-> "absent"]
    /\ missed = [k \in Killer |-> FALSE]
    /\ outlived = [k \in Killer |-> FALSE]
    /\ alone = [k \in Killer |-> FALSE]
    /\ upsets = 0

LifecycleSpec == LifecycleInit /\ [][LifecycleNext]_lifecycleVars

-----------------------------------------------------------------------------
(* Properties                                                               *)

LifecycleTypeOK ==
    /\ ident \in [by : Launcher, written : BOOLEAN] \cup {Nil}
    /\ {archived, session, cwdFile, sidFile} \subseteq Launcher \cup {Nil}
    /\ ended \subseteq Launcher /\ ready \in BOOLEAN

Unkilled == \A k \in Killer : Does(k, "off")

\* Spawns and resumes race for one name, and one of them gets the session.  As
\* long as no one kills it and nothing fails, the name stays reserved while the
\* session is there, and the sid file, which every other command goes by, names
\* the conversation in it (spawn.ts:300-470, claude-engine.ts:560-600).
SessionIsRecorded ==
    Unkilled /\ upsets = 0 /\ session # Nil =>
        /\ Identified
        /\ sidFile \in {Nil, session}
        /\ Does(session, "started") => sidFile = session

\* A kill that no start has run beside leaves no record and no cwd file of the
\* teammate, whatever fails and whoever else kills.  It leaves the session only if
\* tmux failed it, which the code takes for a session that is gone
\* (claude-engine.ts:379-383, 455-462, 491-497); and, unless tmux failed or a
\* SessionStart hook was at work when the files were removed, no sid file and no
\* ready file either, so that the next spawn begins from nothing.
KillLeavesNothing ==
    \A k \in Killer : doing[k] \in {"killed", "notFound"} /\ alone[k] =>
        /\ ident = Nil /\ cwdFile = Nil
        /\ ~missed[k] => session = Nil
        /\ ~missed[k] /\ ~outlived[k] => sidFile = Nil /\ ~ready

\* engines/claude/claude-engine.ts:443: a kill is graceful when SessionEnd was
\* reached cleanly.
GracefulIsClean ==
    \A k \in Killer, s \in Launcher :
        Does(k, "killSession") /\ exit[k] = "graceful" /\ sidRead[k] = s /\ Present(s) => s \in ended
=============================================================================
