----------------------------- MODULE TurnMarkers -----------------------------
(***************************************************************************)
(* The markers a Claude teammate's hooks leave (hooks/on-busy.sh,          *)
(* hooks/on-stop.sh), and the verbs that read them: `tm compact`, `tm      *)
(* wait`, `tm reload` and the listings (engines/claude/compact.ts,         *)
(* wait-signals.ts, reload.ts, claude-engine.ts).  A verb that types a     *)
(* line into the pane wipes the markers first (keys.ts), and so it may     *)
(* wipe those of a turn that runs.                                         *)
(*                                                                         *)
(* One teammate.  Claude Code is external: it takes the lines typed into   *)
(* its pane in order, one when it is at rest, and waits for its hooks.     *)
(* Somebody else may type into the pane too.  A deadline may pass at any   *)
(* poll.                                                                   *)
(***************************************************************************)
EXTENDS Naturals, Sequences

CONSTANTS
    Reader,     \* processes of `tm`
    Tasks,      \* the verbs they run
    MaxLines    \* bound on the lines typed

ASSUME MarkersAssumption ==
    /\ Tasks \subseteq {"send", "compact", "reload", "wait", "fresh", "quiet", "states", "kill"}
    /\ MaxLines \in Nat

VARIABLES
    up,         \* does the tmux session exist?
    hasSid,    \* does the file with its session id exist?
    idle, busy, last,   \* the three markers
    lines,      \* what is typed and not taken: the kind of line, and who typed it
    typedLines, \* how many were typed
    activity,   \* what Claude is at
    refusal,    \* is a refused /compact visible in the pane?
    wiped,      \* were the markers wiped since the busy one was set?
    task, spot, verdict, \* a command's verb, its next step, what it said
    streak,     \* the polls in a row that found no busy marker
    lone,      \* has nothing but the command touched the teammate since it began?
    outcome,    \* what became of the /compact a command typed
    working     \* did a turn run at the command's last look at the busy marker?

markers == <<idle, busy, last>>
claudeVars == <<lines, typedLines, activity, refusal>>
readerVars == <<task, spot, verdict, streak, lone, outcome, working>>
markersVars == <<up, hasSid, markers, claudeVars, wiped, readerVars>>

Types == {"send", "compact", "reload", "fresh"}

Stands(r, label) == spot[r] = label
Moves(r, label) == spot' = [spot EXCEPT ![r] = label]
Says(r, what) == verdict' = [verdict EXCEPT ![r] = what] /\ Moves(r, "end")
Works == activity \in {"turn", "compacting"}

\* What r does to the teammate, every other command lives through.
OnlyBy(r) == lone' = [x \in Reader |-> lone[x] /\ (x = r \/ spot[x] = "off")]
Nobodys == lone' = [x \in Reader |-> lone[x] /\ spot[x] = "off"]

-----------------------------------------------------------------------------
(* A command begins (tmux.ts, keys.ts, idle.ts)                             *)

\* A compact that types its line over the markers of an earlier turn.
StartsUnwiped(r) ==
    CASE task[r] = "compact" -> "type"
      [] task[r] \in Types \ {"compact"} -> "wipeIdle"
      [] task[r] = "wait" -> "poll"
      [] task[r] = "quiet" -> "quiet"
      [] task[r] = "states" -> "look"

FirstStep(r) ==
    CASE task[r] \in Types -> "wipeIdle"
      [] task[r] = "wait" -> "poll"
      [] task[r] = "quiet" -> "quiet"
      [] task[r] = "states" -> "look"

\* requireSession, resolveSidOrDie and resolvePaneTarget, each of which ends the command.
Arrive(r) ==
    /\ Stands(r, "off")
    /\ lone' = [lone EXCEPT ![r] = up /\ activity = "rest" /\ lines = <<>> /\ ~refusal]
    /\ IF task[r] = "kill" THEN Moves(r, "kill") /\ UNCHANGED verdict
       ELSE IF ~up \/ (~hasSid /\ task[r] \in {"compact", "wait", "fresh"}) THEN Says(r, "died")
       ELSE Moves(r, FirstStep(r)) /\ UNCHANGED verdict
    /\ UNCHANGED <<up, hasSid, markers, claudeVars, wiped, task, streak, outcome, working>>

\* clearIdle: three files, one after the other; nothing without a session id.
WipeIdle(r) ==
    /\ Stands(r, "wipeIdle")
    /\ idle' = (idle /\ ~hasSid)
    /\ Moves(r, IF hasSid THEN "wipeLast" ELSE "type")
    /\ OnlyBy(r)
    /\ UNCHANGED <<up, hasSid, busy, last, claudeVars, wiped, task, verdict, streak, outcome, working>>

WipeLast(r) ==
    /\ Stands(r, "wipeLast")
    /\ last' = FALSE
    /\ Moves(r, "wipeBusy")
    /\ UNCHANGED <<up, hasSid, idle, busy, claudeVars, wiped, task, verdict, streak, lone, outcome, working>>

WipeBusy(r) ==
    /\ Stands(r, "wipeBusy")
    /\ busy' = FALSE
    /\ wiped' = TRUE
    /\ Moves(r, IF task[r] = "fresh" THEN "poll" ELSE "type")
    /\ OnlyBy(r)
    /\ UNCHANGED <<up, hasSid, idle, last, claudeVars, task, verdict, streak, outcome, working>>

\* The line and its Enter; tmux fails when the session is gone.
TypeLine(r) ==
    /\ Stands(r, "type")
    /\ IF up
       THEN /\ typedLines < MaxLines
            /\ typedLines' = typedLines + 1
            /\ lines' = Append(lines, [kind |-> task[r], by |-> r])
            /\ IF task[r] = "compact" THEN Moves(r, "poll") /\ UNCHANGED verdict ELSE Says(r, "typed")
       ELSE Says(r, "failed") /\ UNCHANGED <<lines, typedLines>>
    /\ OnlyBy(r)
    /\ UNCHANGED <<up, hasSid, markers, activity, refusal, wiped, task, streak, outcome, working>>

-----------------------------------------------------------------------------
(* Waiting (compact.ts, wait-signals.ts, wait.ts)                           *)

\* The idle marker ends the wait; a compact that does not see it looks at the pane.
PollIdle(r) ==
    /\ Stands(r, "poll")
    /\ IF idle THEN IF task[r] = "compact" THEN Says(r, "compacted") ELSE Moves(r, "reply") /\ UNCHANGED verdict
       ELSE /\ \/ task[r] = "compact" /\ Moves(r, "capture")
               \/ Moves(r, "expire")
            /\ UNCHANGED verdict
    /\ UNCHANGED <<up, hasSid, markers, claudeVars, wiped, task, streak, lone, outcome, working>>

Capture(r) ==
    /\ Stands(r, "capture")
    /\ IF up /\ refusal THEN Says(r, "refused") ELSE Moves(r, "poll") /\ UNCHANGED verdict
    /\ UNCHANGED <<up, hasSid, markers, claudeVars, wiped, task, streak, lone, outcome, working>>

\* probeStillAlive: 124 promises a teammate that still runs.
Expire(r) ==
    /\ Stands(r, "expire")
    /\ Says(r, IF up /\ hasSid THEN "expired" ELSE "died")
    /\ UNCHANGED <<up, hasSid, markers, claudeVars, wiped, task, streak, lone, outcome, working>>

\* printLastOrEmpty
Reply(r) ==
    /\ Stands(r, "reply")
    /\ Says(r, IF hasSid /\ last THEN "replied" ELSE "empty")
    /\ UNCHANGED <<up, hasSid, markers, claudeVars, wiped, task, streak, lone, outcome, working>>

\* waitPaneQuiet: two polls in a row without the busy marker.
PollQuiet(r) ==
    /\ Stands(r, "quiet")
    /\ LET isBusy == hasSid /\ busy IN
       /\ streak' = [streak EXCEPT ![r] = IF isBusy THEN 0 ELSE IF @ < 2 THEN @ + 1 ELSE @]
       /\ working' = [working EXCEPT ![r] = ~isBusy /\ hasSid /\ Works /\ ~wiped]
       /\ \/ streak'[r] = 2 /\ Says(r, "quiet")
          \/ Moves(r, "quiet") /\ UNCHANGED verdict
          \/ Moves(r, "expire") /\ UNCHANGED verdict
    /\ UNCHANGED <<up, hasSid, markers, claudeVars, wiped, task, lone, outcome>>

-----------------------------------------------------------------------------
(* Listings (claude-engine.ts, state.ts) and kill                           *)

\* deriveState looks at the busy marker, then at the idle one.
LookBusy(r) ==
    /\ Stands(r, "look")
    /\ working' = [working EXCEPT ![r] = Works /\ ~wiped]
    /\ IF ~hasSid THEN Says(r, "unknown")
       ELSE IF busy THEN Says(r, "busy") ELSE Moves(r, "lookIdle") /\ UNCHANGED verdict
    /\ UNCHANGED <<up, hasSid, markers, claudeVars, wiped, task, streak, lone, outcome>>

LookIdle(r) ==
    /\ Stands(r, "lookIdle")
    /\ Says(r, IF idle THEN "idle" ELSE "unknown")
    /\ UNCHANGED <<up, hasSid, markers, claudeVars, wiped, task, streak, lone, outcome, working>>

\* The hook of a session that ends may run, or be cut off with it.
EndSession(r) ==
    /\ Stands(r, "kill")
    /\ up' = FALSE /\ activity' = "gone" /\ lines' = <<>> /\ refusal' = FALSE
    /\ IF up THEN \/ busy' = FALSE /\ idle' = TRUE
                  \/ UNCHANGED <<busy, idle>>
       ELSE UNCHANGED <<busy, idle>>
    /\ Moves(r, "clean")
    /\ OnlyBy(r)
    /\ UNCHANGED <<hasSid, last, typedLines, wiped, task, verdict, streak, outcome, working>>

CleanMarkers(r) ==
    /\ Stands(r, "clean")
    /\ hasSid' = FALSE /\ idle' = FALSE /\ busy' = FALSE /\ last' = FALSE
    /\ Says(r, "killed")
    /\ OnlyBy(r)
    /\ UNCHANGED <<up, claudeVars, wiped, task, streak, outcome, working>>

-----------------------------------------------------------------------------
(* Claude Code, its user and its hooks                                      *)

SomebodyTypes ==
    /\ up /\ typedLines < MaxLines
    /\ typedLines' = typedLines + 1
    /\ \E kind \in {"send", "compact"} : lines' = Append(lines, [kind |-> kind, by |-> "user"])
    /\ Nobodys
    /\ UNCHANGED <<up, hasSid, markers, activity, refusal, wiped, task, spot, verdict, streak, outcome, working>>

Takes(kind) == activity = "rest" /\ lines # <<>> /\ Head(lines).kind = kind /\ lines' = Tail(lines)

Becoming(what) ==
    outcome' = [x \in Reader |-> IF Head(lines).by = x THEN what ELSE outcome[x]]

\* on-busy.sh at UserPromptSubmit; what the turn writes may scroll a refusal away.
TurnStarts ==
    /\ Takes("send")
    /\ activity' = "turn"
    /\ busy' = TRUE /\ wiped' = FALSE
    /\ refusal' \in {refusal, FALSE}
    /\ UNCHANGED <<up, hasSid, idle, last, typedLines, readerVars>>

\* on-busy.sh at PreToolUse
ToolUse ==
    /\ activity = "turn"
    /\ busy' = TRUE /\ wiped' = FALSE
    /\ UNCHANGED <<up, hasSid, idle, last, claudeVars, readerVars>>

\* PreCompact, or a refusal in the pane and no hook at all.
CompactBegins ==
    /\ Takes("compact")
    /\ \/ /\ activity' = "compacting"
          /\ busy' = TRUE /\ wiped' = FALSE
          /\ Becoming("begun")
          /\ UNCHANGED refusal
       \/ /\ refusal' = TRUE
          /\ Becoming("refused")
          /\ UNCHANGED <<activity, busy, wiped>>
    /\ UNCHANGED <<up, hasSid, idle, last, typedLines, task, spot, verdict, streak, lone, working>>

ReloadRuns ==
    /\ Takes("reload")
    /\ UNCHANGED <<up, hasSid, markers, typedLines, activity, refusal, wiped, readerVars>>

\* on-stop.sh clears the busy marker first; an interrupted turn runs no hook.
StopFires ==
    /\ activity = "turn"
    /\ \/ activity' \in {"stop", "touch"} /\ busy' = FALSE
       \/ activity' = "rest" /\ UNCHANGED busy
    /\ UNCHANGED <<up, hasSid, idle, last, lines, typedLines, refusal, wiped, readerVars>>

CompactEnds ==
    /\ activity = "compacting"
    /\ activity' = "touch"
    /\ busy' = FALSE
    /\ outcome' = [x \in Reader |-> IF outcome[x] = "begun" THEN "compacted" ELSE outcome[x]]
    /\ UNCHANGED <<up, hasSid, idle, last, lines, typedLines, refusal, wiped, task, spot, verdict, streak, lone, working>>

\* on-stop.sh at Stop: the text once it is settled, nothing for a turn without text, and
\* the file as it was when the transcript does not settle in time.
WriteLast ==
    /\ activity = "stop"
    /\ activity' = "touch"
    /\ last' \in BOOLEAN
    /\ UNCHANGED <<up, hasSid, idle, busy, lines, typedLines, refusal, wiped, readerVars>>

TouchIdle ==
    /\ activity = "touch"
    /\ activity' = "rest"
    /\ idle' = TRUE
    /\ UNCHANGED <<up, hasSid, busy, last, lines, typedLines, refusal, wiped, readerVars>>

ClaudeSteps == TurnStarts \/ ToolUse \/ CompactBegins \/ ReloadRuns \/ StopFires \/ CompactEnds \/ WriteLast \/ TouchIdle

-----------------------------------------------------------------------------
\* The teammate has been spawned and its session id is on file.
MarkersInit ==
    /\ up = TRUE /\ hasSid = TRUE
    /\ idle \in BOOLEAN /\ busy = FALSE /\ last = FALSE
    /\ lines = <<>> /\ typedLines = 0
    /\ activity = "rest" /\ refusal = FALSE /\ wiped = FALSE
    /\ task \in [Reader -> Tasks]
    /\ spot = [r \in Reader |-> "off"]
    /\ verdict = [r \in Reader |-> "none"]
    /\ streak = [r \in Reader |-> 0]
    /\ lone = [r \in Reader |-> TRUE]
    /\ outcome = [r \in Reader |-> "none"]
    /\ working = [r \in Reader |-> FALSE]

ReaderStep(r) ==
    \/ Arrive(r) \/ WipeIdle(r) \/ WipeLast(r) \/ WipeBusy(r) \/ TypeLine(r)
    \/ PollIdle(r) \/ Capture(r) \/ Expire(r) \/ Reply(r) \/ PollQuiet(r)
    \/ LookBusy(r) \/ LookIdle(r) \/ EndSession(r) \/ CleanMarkers(r)

MarkersNext == (\E r \in Reader : ReaderStep(r)) \/ SomebodyTypes \/ ClaudeSteps

MarkersSpec == MarkersInit /\ [][MarkersNext]_markersVars

-----------------------------------------------------------------------------
MarkersTypeOK ==
    /\ {up, hasSid, idle, busy, last, refusal, wiped} \subseteq BOOLEAN
    /\ activity \in {"rest", "turn", "compacting", "stop", "touch", "gone"}
    /\ typedLines \in 0..MaxLines
    /\ verdict \in [Reader -> {"none", "died", "failed", "typed", "compacted", "refused", "expired", "replied",
                               "empty", "quiet", "idle", "busy", "unknown", "killed"}]
    /\ outcome \in [Reader -> {"none", "begun", "refused", "compacted"}]

\* `tm compact` of a teammate at rest that nobody else touches says "compacted" only after
\* its own compaction is over, and "refused" only when Claude refused it (compact.ts): the
\* marker it reads was wiped, and set again by no other turn.
LoneCompactIsTrue ==
    \A r \in Reader : task[r] = "compact" /\ lone[r] =>
        /\ verdict[r] = "compacted" => outcome[r] = "compacted"
        /\ verdict[r] = "refused" => outcome[r] = "refused"

\* A listing that shows a teammate idle, and a quiet pane, were looked at when no turn ran,
\* unless a command that typed into the pane had wiped the marker of the turn
\* (claude-engine.ts deriveState, wait-signals.ts waitPaneQuiet).
RestIsReal ==
    \A r \in Reader : verdict[r] \in {"idle", "quiet"} => ~working[r]

\* "send `/compact` and verify PostCompact fired. Reports ... `compacted` on stdout when it
\* did" (compact.ts:2-3), whatever else goes on.
CompactedIsCompacted ==
    \A r \in Reader : verdict[r] = "compacted" => outcome[r] = "compacted"
==============================================================================
