---------------------------- MODULE SendSupersede ----------------------------
(***************************************************************************)
(* `tm send` and `tm wait` to one Claude teammate (engines/claude/send.ts, *)
(* keys.ts, wait-signals.ts, shared/send-token.ts) and the hook that ends  *)
(* a turn (hooks/on-stop.sh).  Every send is a process of its own; they    *)
(* meet in the teammate's pane and in four files: the send token, the idle *)
(* and busy markers and the text of the last turn.                         *)
(*                                                                         *)
(* The Claude Code session is external: a prompt entered while it is busy  *)
(* is queued, and is folded into the turn at a pause or run as a turn of   *)
(* its own, with no Stop in between (decisions/send-supersede.md).  A text *)
(* is the set of the sends whose prompts it answers.                       *)
(***************************************************************************)
EXTENDS Naturals, Sequences, FiniteSets

CONSTANTS
    Process,    \* processes of `tm`, each a send or a wait
    None,       \* no token
    MaxRetries, \* times confirmSubmit enters a prompt again: two in the code
    MaxFaults   \* bound on failures

ASSUME SendAssumption == None \notin Process /\ {MaxRetries, MaxFaults} \subseteq Nat

VARIABLES
    pc,         \* the step a process takes next
    anchor,     \* the length of the transcript when a send began
    tries,      \* times a send has entered its prompt again
    claimed,    \* sends whose claim of the token landed
    token,      \* the send-token file
    idle,       \* does the idle marker exist?
    busy,       \* does the busy marker exist?
    last,       \* the text in the .last file; empty when there is none
    typed,      \* prompts in the input line
    queue,      \* prompts entered and not started, as sets of sends
    turn,       \* the sends the running turn answers
    unflushed,  \* the reply of a finished turn that is not in the transcript yet
    transcript,
    stop,       \* the next step of the Stop hook, or "none"
    alive,      \* is the tmux session up?
    out,        \* the text a process printed
    faults,
    entered,    \* history: sends that pressed Enter after their prompt
    discarded,  \* history: sends whose prompt a dialog swallowed
    claims,     \* history: the claims in their order
    alone,      \* history: sends with no other process or turn since they began
    late        \* history: has the hook ever run ahead of the transcript?

protocol == <<claimed, token, idle, busy, last>>
session  == <<typed, queue, turn, unflushed, transcript, stop, alive>>
history  == <<entered, discarded, claims, alone, late>>
sendVars == <<pc, anchor, tries, protocol, session, out, faults, history>>

-----------------------------------------------------------------------------
(* The transcript (turn-jsonl.ts, on-stop.sh)                               *)

User(s) == [t |-> "user", of |-> s]
Reply(s) == [t |-> "reply", of |-> s]
ToolUse == [t |-> "tool", of |-> {}]

Prompts == (SUBSET Process) \ {{}}

Entries == [t : {"user", "reply"}, of : Prompts] \cup {ToolUse}

Assistant(n) == {i \in n + 1 .. Len(transcript) : transcript[i].t # "user"}

Latest(I) == transcript[CHOOSE i \in I : \A j \in I : j <= i]

\* Faulty: a tool call passes for the end of a turn, and the end does not.
SettledByToolUse(n) == Assistant(n) # {} /\ Latest(Assistant(n)).t = "tool"

\* Is the latest assistant entry after the first n one that ends a turn?
SettledAfter(n) == Assistant(n) # {} /\ Latest(Assistant(n)).t = "reply"

\* Text of the assistant since the last prompt (extract_last_turn).
LastTurn ==
    UNION {transcript[i].of : i \in {k \in 1..Len(transcript) :
              /\ transcript[k].t = "reply"
              /\ \A j \in k .. Len(transcript) : transcript[j].t # "user"}}

UserEntryAfter(n) == \E i \in n + 1 .. Len(transcript) : transcript[i].t = "user"

-----------------------------------------------------------------------------

At(p, label) == pc[p] = label
GoTo(p, label) == pc' = [pc EXCEPT ![p] = label]
Ended == {"off", "done", "superseded", "expired", "died", "failed"}
Active == {p \in Process : pc[p] \notin Ended}
Fault == faults < MaxFaults /\ faults' = faults + 1

SessionQuiet == queue = <<>> /\ {typed, turn, unflushed} = {{}} /\ stop = "none"

\* requireSession: without the tmux session a verb fails.
IfAlive(label) == IF alive THEN label ELSE "failed"

\* The snapshot of the transcript offset, before the prompt goes out.
BeginSend(s) ==
    /\ At(s, "off")
    /\ GoTo(s, IfAlive("rmIdle"))
    /\ anchor' = [anchor EXCEPT ![s] = Len(transcript)]
    /\ alone' = IF SessionQuiet /\ Active = {} THEN {s} ELSE {}
    /\ UNCHANGED <<tries, protocol, session, out, faults, entered, discarded, claims, late>>

\* A `tm wait`, with --fresh or without.
BeginWait(w) ==
    /\ At(w, "off")
    /\ \E fresh \in BOOLEAN : GoTo(w, IfAlive(IF fresh THEN "freshen" ELSE "wait"))
    /\ alone' = {}
    /\ UNCHANGED <<anchor, tries, protocol, session, out, faults, entered, discarded, claims, late>>

\* Faulty: the idle marker of an earlier turn stays.
ClearKeepsMarker(p) ==
    /\ \/ At(p, "rmIdle") /\ GoTo(p, "rmRest") /\ UNCHANGED <<idle, last, busy>>
       \/ At(p, "freshen") /\ GoTo(p, "freshenRest") /\ UNCHANGED <<idle, last, busy>>
       \/ At(p, "rmRest") /\ GoTo(p, "type") /\ last' = {} /\ busy' = FALSE /\ UNCHANGED idle
       \/ At(p, "freshenRest") /\ GoTo(p, "wait") /\ last' = {} /\ busy' = FALSE /\ UNCHANGED idle
    /\ UNCHANGED <<anchor, tries, claimed, token, session, out, faults, history>>

\* clearIdle: the idle marker goes first, then the text and the busy marker.
ClearIdle(p) ==
    /\ \/ At(p, "rmIdle") /\ GoTo(p, "rmRest") /\ idle' = FALSE /\ UNCHANGED <<last, busy>>
       \/ At(p, "freshen") /\ GoTo(p, "freshenRest") /\ idle' = FALSE /\ UNCHANGED <<last, busy>>
       \/ At(p, "rmRest") /\ GoTo(p, "type") /\ last' = {} /\ busy' = FALSE /\ UNCHANGED idle
       \/ At(p, "freshenRest") /\ GoTo(p, "wait") /\ last' = {} /\ busy' = FALSE /\ UNCHANGED idle
    /\ UNCHANGED <<anchor, tries, claimed, token, session, out, faults, history>>

\* Faulty: the token is claimed before the prompt is delivered.
TypeAndClaim(s) ==
    /\ At(s, "type") /\ alive
    /\ typed' = typed \cup {s}
    /\ token' = s /\ claimed' = claimed \cup {s} /\ claims' = Append(claims, s)
    /\ GoTo(s, "enter")
    /\ UNCHANGED <<anchor, tries, idle, busy, last, queue, turn, unflushed, transcript, stop,
                   alive, out, faults, entered, discarded, alone, late>>

TypePrompt(s) ==
    /\ At(s, "type") /\ alive
    /\ typed' = typed \cup {s}
    /\ GoTo(s, "enter")
    /\ UNCHANGED <<anchor, tries, protocol, queue, turn, unflushed, transcript, stop, alive,
                   out, faults, history>>

\* Any tmux call may fail, and does when the session is gone: the verb fails.
TmuxFails(s) ==
    /\ pc[s] \in {"type", "enter"}
    /\ (~alive /\ UNCHANGED faults) \/ Fault
    /\ GoTo(s, "failed")
    /\ UNCHANGED <<anchor, tries, protocol, session, out, history>>

\* What Enter does: the input line is submitted, whoever typed it.
Submit ==
    /\ queue' = IF typed = {} THEN queue ELSE Append(queue, typed)
    /\ typed' = {}
    /\ UNCHANGED discarded

\* Or a dialog takes the Enter and discards the text, or ignores both.
Swallowed ==
    /\ \/ typed' = {} /\ discarded' = discarded \cup typed
       \/ UNCHANGED <<typed, discarded>>
    /\ UNCHANGED queue

PressEnter == (Submit /\ UNCHANGED faults) \/ (Swallowed /\ Fault)

Enter(s) ==
    /\ At(s, "enter") /\ alive
    /\ PressEnter
    /\ GoTo(s, "claim")
    /\ entered' = entered \cup {s}
    /\ UNCHANGED <<anchor, tries, protocol, turn, unflushed, transcript, stop, alive, out,
                   claims, alone, late>>

\* claimSendToken: an atomic rename, whose failure leaves the send without.
Claim(s) ==
    /\ At(s, "claim")
    /\ GoTo(s, "confirm")
    /\ \/ /\ token' = s /\ claimed' = claimed \cup {s} /\ claims' = Append(claims, s)
          /\ UNCHANGED faults
       \/ Fault /\ UNCHANGED <<token, claimed, claims>>
    /\ UNCHANGED <<anchor, tries, idle, busy, last, session, out, entered, discarded, alone, late>>

\* confirmSubmit: a sign that the prompt was accepted, or Enter again.
Submitted(s) == busy \/ idle \/ UserEntryAfter(anchor[s])

ConfirmSubmit(s) ==
    /\ At(s, "confirm")
    /\ IF Submitted(s) \/ tries[s] = MaxRetries
         THEN GoTo(s, IfAlive("wait")) /\ UNCHANGED <<tries, typed, queue, discarded, faults>>
         ELSE /\ tries' = [tries EXCEPT ![s] = @ + 1]
              /\ IF alive THEN PressEnter ELSE UNCHANGED <<typed, queue, discarded, faults>>
              /\ UNCHANGED pc
    /\ UNCHANGED <<anchor, protocol, turn, unflushed, transcript, stop, alive, out,
                   entered, claims, alone, late>>

-----------------------------------------------------------------------------
(* waitForTurnEnd and waitIdleSignal                                        *)

\* A `tm wait` does not look at the transcript.
TurnSettled(p) == p \in entered /\ SettledAfter(anchor[p])

\* isSuperseded
Superseded(p) == p \in claimed /\ token # p

\* One poll: the marker, the transcript, the token, in this order.  Only the
\* transcript's reply is written back to .last by the send itself.
Poll(p) ==
    /\ At(p, "wait")
    /\ \/ idle /\ GoTo(p, "print") /\ UNCHANGED last
       \/ /\ ~idle /\ TurnSettled(p)
          /\ GoTo(p, "print")
          /\ last' = Latest(Assistant(anchor[p])).of
       \/ ~idle /\ ~TurnSettled(p) /\ Superseded(p) /\ GoTo(p, "superseded") /\ UNCHANGED last
    /\ UNCHANGED <<anchor, tries, claimed, token, idle, busy, session, out, faults, history>>

Report(p) ==
    /\ At(p, "print")
    /\ out' = [out EXCEPT ![p] = last]
    /\ GoTo(p, "done")
    /\ UNCHANGED <<anchor, tries, protocol, session, faults, history>>

\* The wait expires: probeStillAlive tells a slow teammate from a dead one.
Expire(p) ==
    /\ At(p, "wait")
    /\ GoTo(p, IF alive THEN "expired" ELSE "died")
    /\ out' = IF alive THEN [out EXCEPT ![p] = last] ELSE out
    /\ UNCHANGED <<anchor, tries, protocol, session, faults, history>>

-----------------------------------------------------------------------------
(* The session                                                              *)

StartTurn ==
    /\ turn = {} /\ unflushed = {} /\ stop = "none" /\ queue # <<>>
    /\ turn' = Head(queue) /\ queue' = Tail(queue)
    /\ transcript' = Append(transcript, User(turn'))
    /\ busy' = TRUE
    /\ UNCHANGED <<pc, anchor, tries, claimed, token, idle, last, typed, unflushed, stop, alive,
                   out, faults, history>>

\* The prompt at the head of the queue is taken in after a tool call.
FoldIn ==
    /\ turn # {} /\ queue # <<>>
    /\ turn' = turn \cup Head(queue) /\ queue' = Tail(queue)
    /\ transcript' = transcript \o <<ToolUse, User(Head(queue))>>
    /\ busy' = TRUE
    /\ UNCHANGED <<pc, anchor, tries, claimed, token, idle, last, typed, unflushed, stop, alive,
                   out, faults, history>>

\* The turn is over; with nothing queued the Stop hook is fired, perhaps
\* before the reply is in the transcript.
EndTurn ==
    /\ turn # {}
    /\ unflushed' = turn /\ turn' = {}
    /\ stop' = IF queue = <<>> THEN "busy" ELSE "none"
    /\ UNCHANGED <<pc, anchor, tries, protocol, typed, queue, transcript, alive, out, faults, history>>

Flush ==
    /\ unflushed # {}
    /\ transcript' = Append(transcript, Reply(unflushed))
    /\ unflushed' = {}
    /\ UNCHANGED <<pc, anchor, tries, protocol, typed, queue, turn, stop, alive, out, faults, history>>

\* The session is killed; a SessionEnd hook may or may not touch the marker.
Kill ==
    /\ Fault /\ alive
    /\ alive' = FALSE
    /\ typed' = {} /\ queue' = <<>> /\ turn' = {} /\ unflushed' = {} /\ stop' = "none"
    /\ idle' \in {idle, TRUE}
    /\ UNCHANGED <<pc, anchor, tries, claimed, token, busy, last, transcript, out, history>>

-----------------------------------------------------------------------------
(* on-stop.sh, for a Stop                                                   *)

HookClearsBusy ==
    /\ stop = "busy" /\ stop' = "extract"
    /\ busy' = FALSE
    /\ UNCHANGED <<pc, anchor, tries, claimed, token, idle, last, typed, queue, turn, unflushed,
                   transcript, alive, out, faults, history>>

\* Once the latest assistant entry is settled, of whichever turn, .last gets
\* the text since the last prompt, or is removed.  After 15 seconds it is left
\* as it is.
HookExtracts ==
    /\ stop = "extract" /\ stop' = "touch"
    /\ \/ SettledAfter(0) /\ last' = LastTurn /\ UNCHANGED faults
       \/ ~SettledAfter(0) /\ Fault /\ UNCHANGED last
    /\ late' = (late \/ unflushed # {})
    /\ UNCHANGED <<pc, anchor, tries, claimed, token, idle, busy, typed, queue, turn, unflushed,
                   transcript, alive, out, entered, discarded, claims, alone>>

HookTouchesIdle ==
    /\ stop = "touch" /\ stop' = "none"
    /\ idle' = TRUE
    /\ UNCHANGED <<pc, anchor, tries, claimed, token, busy, last, typed, queue, turn, unflushed,
                   transcript, alive, out, faults, history>>

-----------------------------------------------------------------------------

SendInit ==
    /\ pc = [p \in Process |-> "off"]
    /\ anchor = [s \in Process |-> 0] /\ tries = [s \in Process |-> 0]
    /\ claimed = {} /\ token = None
    /\ idle = FALSE /\ busy = FALSE /\ last = {}
    /\ typed = {} /\ queue = <<>> /\ turn = {} /\ unflushed = {}
    /\ transcript = <<>> /\ stop = "none" /\ alive = TRUE
    /\ out = [p \in Process |-> {}]
    /\ faults = 0
    /\ entered = {} /\ discarded = {} /\ claims = <<>> /\ alone = {} /\ late = FALSE

Hook == HookClearsBusy \/ HookExtracts \/ HookTouchesIdle

Carry(p) ==
    \/ ClearIdle(p) \/ Poll(p) \/ Report(p)
    \/ TypePrompt(p) \/ Enter(p) \/ Claim(p) \/ ConfirmSubmit(p)

SendNext ==
    \/ \E p \in Process : \/ BeginSend(p) \/ BeginWait(p)
                           \/ Carry(p) \/ TmuxFails(p) \/ Expire(p)
    \/ StartTurn \/ FoldIn \/ EndTurn \/ Flush \/ Kill
    \/ Hook

SendSpec == SendInit /\ [][SendNext]_sendVars

\* Processes that live go on; the session takes prompts from its queue and ends
\* its turns.  Nobody has to send, and no wait is helped by its expiry.
SendFairness ==
    /\ \A p \in Process : WF_sendVars(Carry(p))
    /\ WF_sendVars(StartTurn) /\ WF_sendVars(EndTurn) /\ WF_sendVars(Flush) /\ WF_sendVars(Hook)

FairSendSpec == SendSpec /\ SendFairness

-----------------------------------------------------------------------------
(* Properties                                                               *)

\* Type correctness; only a send that pressed Enter has claimed.
SendTypeOK ==
    /\ pc \in [Process -> Ended \cup {"rmIdle", "rmRest", "freshen", "freshenRest", "type",
                                      "enter", "claim", "confirm", "wait", "print"}]
    /\ anchor \in [Process -> 0..Len(transcript)] /\ tries \in [Process -> 0..MaxRetries]
    /\ claimed \subseteq entered /\ token \in Process \cup {None}
    /\ {idle, busy, alive, late} \subseteq BOOLEAN
    /\ {last, typed, turn, unflushed, discarded, alone, entered} \subseteq SUBSET Process
    /\ queue \in Seq(Prompts)
    /\ transcript \in Seq(Entries)
    /\ stop \in {"none", "busy", "extract", "touch"}
    /\ out \in [Process -> SUBSET Process]
    /\ claims \in Seq(Process) /\ faults \in 0..MaxFaults

\* A send that returns early was superseded by one that claimed after it and
\* had delivered its prompt; the send that claimed last never returns early,
\* so somebody is left to collect the result (send-token.ts).
SurvivorIsLastClaim ==
    \A s \in Process : At(s, "superseded") =>
        \E i, j \in 1..Len(claims) : i < j /\ claims[i] = s /\ claims[j] \in entered

\* A send to a quiet teammate that nobody interferes with prints the reply to
\* its own prompt, whatever earlier turns and failed sends have left in the
\* files and in the transcript - or nothing, when the hook ran ahead of the
\* transcript, or the session ended.
LoneSendRoundTrip ==
    \A s \in alone : At(s, "done") => out[s] = {s} \/ (out[s] = {} /\ (late \/ ~alive))

\* No send waits for its expiry while the session lives and has taken its
\* prompt: the marker may be wiped by a later send that then fails, and the
\* transcript or the token still ends the wait.
WaitEnds ==
    \A s \in Process : At(s, "wait") /\ s \in entered ~> \/ ~At(s, "wait")
                                     \/ ~alive
                                     \/ s \in discarded \cup typed

\* "A settled assistant entry from a PRIOR turn (which lives before the offset)
\* can never be mistaken for this turn's completion" (turn-jsonl.ts:9-11).
PriorTurnIsNotMistaken ==
    \A s \in Process : At(s, "wait") /\ TurnSettled(s) =>
        \E i \in 1..Len(transcript) : transcript[i].t = "reply" /\ s \in transcript[i].of

=============================================================================
