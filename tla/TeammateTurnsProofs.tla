-------------------------- MODULE TeammateTurnsProofs --------------------------
(***************************************************************************)
(* Proofs about the sends to a teammate and the history of its sessions.   *)
(* SendSupersede: of any number of sends, only one that another claimed    *)
(* after returns early; and a send that is alone prints the reply to its   *)
(* own prompt.  SessionHistory: a row names the session it is about, and   *)
(* a status in it was given to that session or to one it cannot be told    *)
(* apart from.                                                             *)
(***************************************************************************)
EXTENDS SendSupersede, SessionHistory, SequenceTheorems, WellFoundedInduction,
        FiniteSetTheorems, TLAPS

\* The token is the last claim, and the claims are those of the sends that
\* claimed, each after its Enter.
ClaimInv ==
    /\ claims \in Seq(Process)
    /\ claimed = {claims[i] : i \in 1..Len(claims)}
    /\ claimed \subseteq entered
    /\ claims # <<>> => token = claims[Len(claims)]

Labels == Ended \cup {"rmIdle", "rmRest", "freshen", "freshenRest", "type",
                      "enter", "claim", "confirm", "wait", "print"}

\* A send is about to claim only after its Enter.
EnteredFirst ==
    /\ pc \in [Process -> Labels]
    /\ \A s \in Process : At(s, "claim") => s \in entered

\* The inductive invariant.
SurvivorInv == ClaimInv /\ EnteredFirst /\ SurvivorIsLastClaim

-----------------------------------------------------------------------------

\* A step that claims nothing and sends nobody back early.
LEMMA NoClaim ==
    ASSUME SurvivorInv, UNCHANGED <<claimed, token, claims>>, entered \subseteq entered',
           \A s \in Process : At(s, "superseded")' => At(s, "superseded")
    PROVE  ClaimInv' /\ SurvivorIsLastClaim'
BY DEF SurvivorInv, ClaimInv, SurvivorIsLastClaim, At

\* A claim is the newest.
LEMMA ClaimIsNewest ==
    ASSUME SurvivorInv, NEW s \in Process, At(s, "claim"),
           GoTo(s, "confirm"), entered' = entered,
           token' = s, claimed' = claimed \cup {s}, claims' = Append(claims, s)
    PROVE  ClaimInv' /\ SurvivorIsLastClaim'
<1>1. claims \in Seq(Process) /\ Len(claims) \in Nat
  BY DEF SurvivorInv, ClaimInv
<1>2. /\ claims' \in Seq(Process) /\ Len(claims') = Len(claims) + 1
      /\ \A i \in 1..Len(claims) : claims'[i] = claims[i]
      /\ claims'[Len(claims) + 1] = s
  BY <1>1
<1>3. 1..Len(claims') = 1..Len(claims) \cup {Len(claims) + 1}
  BY <1>1, <1>2
<1>4. {claims'[i] : i \in 1..Len(claims')} = {claims[i] : i \in 1..Len(claims)} \cup {s}
  BY <1>2, <1>3
<1>5. ClaimInv'
  BY <1>2, <1>4 DEF SurvivorInv, ClaimInv, EnteredFirst
<1>6. ASSUME NEW p \in Process, At(p, "superseded")'
      PROVE  \E i, j \in 1..Len(claims') : i < j /\ claims'[i] = p /\ claims'[j] \in entered'
  <2>1. At(p, "superseded")
    BY <1>6 DEF SurvivorInv, EnteredFirst, At, GoTo
  <2>2. PICK i, j \in 1..Len(claims) : i < j /\ claims[i] = p /\ claims[j] \in entered
    BY <2>1 DEF SurvivorInv, SurvivorIsLastClaim
  <2> QED
    BY <1>2, <1>3, <2>2
<1> QED
  BY <1>5, <1>6 DEF SurvivorInv, SurvivorIsLastClaim

\* Who finds the token in another's hand has been overtaken.
LEMMA OvertakenByToken ==
    ASSUME ClaimInv, NEW p \in Process, Superseded(p)
    PROVE  \E i, j \in 1..Len(claims) : i < j /\ claims[i] = p /\ claims[j] \in entered
<1>1. PICK i \in 1..Len(claims) : claims[i] = p
  BY DEF ClaimInv, Superseded
<1>2. Len(claims) \in Nat /\ claims # <<>>
  BY <1>1 DEF ClaimInv
<1>3. Len(claims) \in 1..Len(claims) /\ claims[Len(claims)] = token
  BY <1>1, <1>2 DEF ClaimInv
<1>4. i < Len(claims)
  BY <1>1, <1>2, <1>3 DEF Superseded
<1>5. token \in entered
  BY <1>3 DEF ClaimInv
<1> QED
  BY <1>1, <1>3, <1>4, <1>5

-----------------------------------------------------------------------------

LEMMA SurvivorInvInit == SendInit => SurvivorInv
<1> SUFFICES ASSUME SendInit PROVE SurvivorInv
  OBVIOUS
<1>1. claims = <<>> /\ claimed = {} /\ entered = {} /\ Len(claims) = 0
  BY DEF SendInit
<1>2. ClaimInv
  BY <1>1 DEF ClaimInv
<1>3. pc = [p \in Process |-> "off"]
  BY DEF SendInit
<1>4. EnteredFirst /\ SurvivorIsLastClaim
  BY <1>3 DEF EnteredFirst, SurvivorIsLastClaim, At, Labels, Ended
<1> QED
  BY <1>2, <1>4 DEF SurvivorInv

\* Labels stay strings; a step of one process moves no other.
LEMMA EnteredStays ==
    ASSUME SurvivorInv, [SendNext]_sendVars
    PROVE  EnteredFirst' /\ entered \subseteq entered'
<1>1. EnteredFirst
  BY DEF SurvivorInv
<1>2. ASSUME NEW p \in Process, NEW label \in Labels, GoTo(p, label),
             entered \subseteq entered', label = "claim" => p \in entered'
      PROVE  EnteredFirst'
  BY <1>1, <1>2 DEF EnteredFirst, At, GoTo
<1>3. ASSUME NEW p \in Process, BeginSend(p) \/ BeginWait(p)
      PROVE  EnteredFirst' /\ entered' = entered
  <2>1. entered' = entered /\ \E label \in {"rmIdle", "freshen", "wait", "failed"} : GoTo(p, label)
    BY <1>3 DEF BeginSend, BeginWait, IfAlive
  <2> QED
    BY <1>2, <2>1 DEF Labels, Ended
<1>4. ASSUME NEW p \in Process, TmuxFails(p) \/ Expire(p) \/ Claim(p)
      PROVE  EnteredFirst' /\ entered' = entered
  <2>1. entered' = entered /\ \E label \in {"failed", "expired", "died", "confirm"} : GoTo(p, label)
    BY <1>4 DEF TmuxFails, Expire, Claim, history
  <2> QED
    BY <1>2, <2>1 DEF Labels, Ended
<1>5. ASSUME NEW p \in Process, ClearIdle(p) \/ Poll(p) \/ Report(p) \/ TypePrompt(p)
      PROVE  EnteredFirst' /\ entered' = entered
  <2>1. entered' = entered /\ \E label \in {"rmRest", "freshenRest", "type", "wait", "print",
                                            "superseded", "done", "enter"} : GoTo(p, label)
    BY <1>5 DEF ClearIdle, Poll, Report, TypePrompt, history
  <2> QED
    BY <1>2, <2>1 DEF Labels, Ended
<1>6. ASSUME NEW p \in Process, Enter(p) PROVE EnteredFirst' /\ entered \subseteq entered'
  BY <1>2, <1>6 DEF Enter, Labels
<1>7. ASSUME NEW p \in Process, ConfirmSubmit(p) PROVE EnteredFirst' /\ entered' = entered
  <2>1. entered' = entered /\ (pc' = pc \/ \E label \in {"wait", "failed"} : GoTo(p, label))
    BY <1>7 DEF ConfirmSubmit, IfAlive
  <2> QED
    BY <1>1, <1>2, <2>1 DEF EnteredFirst, At, Labels, Ended
<1>8. ASSUME StartTurn \/ FoldIn \/ EndTurn \/ Flush \/ Kill \/ Hook \/ UNCHANGED sendVars
      PROVE  EnteredFirst' /\ entered' = entered
  BY <1>1, <1>8 DEF StartTurn, FoldIn, EndTurn, Flush, Kill, Hook, HookClearsBusy, HookExtracts,
              HookTouchesIdle, sendVars, history, EnteredFirst, At
<1> QED
  BY <1>3, <1>4, <1>5, <1>6, <1>7, <1>8 DEF SendNext, Carry

\* A send that finds itself superseded is not the last that claimed.
LEMMA SupersededPoll ==
    ASSUME SurvivorInv, NEW p \in Process, Poll(p)
    PROVE  ClaimInv' /\ SurvivorIsLastClaim'
<1>1. UNCHANGED <<claimed, token, claims, entered>>
  BY DEF Poll, history
<1>2. ClaimInv'
  BY <1>1 DEF SurvivorInv, ClaimInv
<1>3. ASSUME NEW s \in Process, At(s, "superseded")'
      PROVE  At(s, "superseded") \/ Superseded(s)
  BY <1>3 DEF Poll, At, GoTo, SurvivorInv, EnteredFirst
<1>4. ASSUME NEW s \in Process, At(s, "superseded")'
      PROVE  \E i, j \in 1..Len(claims) : i < j /\ claims[i] = s /\ claims[j] \in entered
  BY <1>3, <1>4, OvertakenByToken DEF SurvivorInv, SurvivorIsLastClaim
<1> QED
  BY <1>1, <1>2, <1>4 DEF SurvivorIsLastClaim

LEMMA SurvivorInvStep == SurvivorInv /\ [SendNext]_sendVars => SurvivorInv'
<1> SUFFICES ASSUME SurvivorInv, [SendNext]_sendVars PROVE ClaimInv' /\ SurvivorIsLastClaim'
  BY EnteredStays DEF SurvivorInv
<1> DEFINE Quiet == /\ UNCHANGED <<claimed, token, claims>>
                    /\ \A s \in Process : At(s, "superseded")' => At(s, "superseded")
<1>1. ASSUME NEW p \in Process, BeginSend(p) \/ BeginWait(p) \/ TmuxFails(p) \/ Expire(p)
      PROVE  Quiet
  BY <1>1 DEF BeginSend, BeginWait, TmuxFails, Expire, IfAlive, protocol, history, At, GoTo,
              SurvivorInv, EnteredFirst
<1>2. ASSUME NEW p \in Process, ClearIdle(p) \/ Report(p) \/ TypePrompt(p) \/ Enter(p)
      PROVE  Quiet
  BY <1>2 DEF ClearIdle, Report, TypePrompt, Enter, protocol, history, At, GoTo,
              SurvivorInv, EnteredFirst
<1>3. ASSUME NEW p \in Process, ConfirmSubmit(p) PROVE Quiet
  BY <1>3 DEF ConfirmSubmit, IfAlive, protocol, At, GoTo, SurvivorInv, EnteredFirst
<1>4. ASSUME StartTurn \/ FoldIn \/ EndTurn \/ Flush \/ Kill \/ Hook \/ UNCHANGED sendVars
      PROVE  Quiet
  BY <1>4 DEF StartTurn, FoldIn, EndTurn, Flush, Kill, Hook, HookClearsBusy, HookExtracts,
              HookTouchesIdle, sendVars, protocol, history, At
<1>5. ASSUME NEW p \in Process, Claim(p) PROVE ClaimInv' /\ SurvivorIsLastClaim'
  <2>1. CASE UNCHANGED <<token, claimed, claims>>
    <3>1. \A s \in Process : At(s, "superseded")' => At(s, "superseded")
      BY <1>5 DEF Claim, At, GoTo, SurvivorInv, EnteredFirst
    <3> QED
      BY <2>1, <3>1, EnteredStays, NoClaim
  <2>2. CASE token' = p /\ claimed' = claimed \cup {p} /\ claims' = Append(claims, p)
    BY <1>5, <2>2, ClaimIsNewest DEF Claim
  <2> QED
    BY <1>5, <2>1, <2>2 DEF Claim
<1>6. Quiet => ClaimInv' /\ SurvivorIsLastClaim'
  BY EnteredStays, NoClaim
<1> HIDE DEF Quiet
<1> QED
  BY <1>1, <1>2, <1>3, <1>4, <1>5, <1>6, SupersededPoll DEF SendNext, Carry

\* Of any number of sends to one teammate, only one that another claimed after,
\* its prompt delivered, returns early (send-token.ts, waitForTurnEnd).
THEOREM SurvivorStays == SendSpec => []SurvivorIsLastClaim
<1>1. SurvivorInv => SurvivorIsLastClaim
  BY DEF SurvivorInv
<1> QED
  BY <1>1, SurvivorInvInit, SurvivorInvStep, PTL DEF SendSpec

-----------------------------------------------------------------------------
\* The types in three parts: the session's, the files' and the processes'.
SessionTypes ==
    /\ typed \subseteq Process /\ turn \subseteq Process /\ unflushed \subseteq Process
    /\ queue \in Seq(Prompts) /\ transcript \in Seq(Entries)
    /\ anchor \in [Process -> Nat] /\ \A s \in Process : anchor[s] <= Len(transcript)
    /\ alive \in BOOLEAN /\ stop \in {"none", "busy", "extract", "touch"}

FileTypes ==
    /\ idle \in BOOLEAN /\ busy \in BOOLEAN /\ late \in BOOLEAN
    /\ last \subseteq Process /\ token \in Process \cup {None}

ProcessTypes ==
    /\ tries \in [Process -> 0..MaxRetries] /\ faults \in 0..MaxFaults
    /\ out \in [Process -> SUBSET Process]
    /\ entered \subseteq Process /\ discarded \subseteq Process /\ alone \subseteq Process

TypeInv == SurvivorInv /\ SessionTypes /\ FileTypes /\ ProcessTypes

\* Together they are the types of SendSupersede.
LEMMA TypesAreAll == TypeInv => SendTypeOK
<1> SUFFICES ASSUME TypeInv PROVE SendTypeOK
  OBVIOUS
<1>1. pc \in [Process -> Labels] /\ claimed \subseteq entered /\ claims \in Seq(Process)
  BY DEF TypeInv, SurvivorInv, ClaimInv, EnteredFirst
<1>2. {idle, busy, alive, late} \subseteq BOOLEAN
  BY Zenon DEF TypeInv, SessionTypes, FileTypes
<1>3. {last, typed, turn, unflushed, discarded, alone, entered} \subseteq SUBSET Process
  BY DEF TypeInv, SessionTypes, FileTypes, ProcessTypes
<1>4. anchor \in [Process -> 0..Len(transcript)]
  <2>1. Len(transcript) \in Nat
    BY DEF TypeInv, SessionTypes
  <2>2. \A s \in Process : anchor[s] \in 0..Len(transcript)
    BY <2>1 DEF TypeInv, SessionTypes
  <2> QED
    BY <2>2 DEF TypeInv, SessionTypes
<1> QED
  BY <1>1, <1>2, <1>3, <1>4 DEF TypeInv, SendTypeOK, Labels, SessionTypes, FileTypes, ProcessTypes, Prompts

\* They hold at first.
LEMMA TypeInvInit == SendInit => TypeInv
<1> SUFFICES ASSUME SendInit PROVE TypeInv
  OBVIOUS
<1>1. transcript = <<>> /\ Len(transcript) = 0 /\ queue = <<>>
  BY DEF SendInit
<1>2. SessionTypes
  BY <1>1 DEF SendInit, SessionTypes
<1>3. FileTypes
  BY DEF SendInit, FileTypes
<1>4. ProcessTypes
  BY SendAssumption DEF SendInit, ProcessTypes
<1> QED
  BY <1>2, <1>3, <1>4, SurvivorInvInit DEF TypeInv

-----------------------------------------------------------------------------
\* A longer transcript.
LEMMA TranscriptGrows ==
    ASSUME SessionTypes, NEW e \in Entries
    PROVE  /\ Append(transcript, e) \in Seq(Entries)
           /\ Len(Append(transcript, e)) = Len(transcript) + 1 /\ Len(transcript) \in Nat
BY DEF SessionTypes

\* A prompt that joins the queue, or leaves it.
LEMMA PromptsMove ==
    ASSUME SessionTypes
    PROVE  /\ typed # {} => Append(queue, typed) \in Seq(Prompts)
           /\ queue # <<>> => Head(queue) \in Prompts /\ Tail(queue) \in Seq(Prompts)
<1>1. typed # {} => typed \in Prompts
  BY DEF SessionTypes, Prompts
<1>2. PICK q \in Seq(Prompts) : q = queue
  BY DEF SessionTypes
<1>3. \A x \in Prompts : Append(q, x) \in Seq(Prompts)
  OBVIOUS
<1>4. q # <<>> => Head(q) \in Prompts /\ Tail(q) \in Seq(Prompts)
  OBVIOUS
<1> QED
  BY <1>1, <1>2, <1>3, <1>4

\* What an Enter does keeps the types, whoever typed the prompt.
LEMMA EnterKeeps ==
    ASSUME SessionTypes, ProcessTypes, PressEnter
    PROVE  typed' \subseteq Process /\ queue' \in Seq(Prompts) /\ discarded' \subseteq Process
           /\ faults' \in 0..MaxFaults
<1>1. typed' \in {typed, {}} /\ discarded' \in {discarded, discarded \cup typed}
  BY DEF PressEnter, Submit, Swallowed
<1>3. faults' = faults \/ (faults < MaxFaults /\ faults' = faults + 1)
  BY DEF PressEnter, Fault
<1>4. faults' \in 0..MaxFaults
  <2>1. MaxFaults \in Nat /\ faults \in 0..MaxFaults
    BY SendAssumption DEF ProcessTypes
  <2> QED
    BY <1>3, <2>1
<1>2. queue' = queue \/ (typed # {} /\ queue' = Append(queue, typed))
  BY DEF PressEnter, Submit, Swallowed
<1> QED
  BY <1>1, <1>2, <1>4, PromptsMove DEF SessionTypes, ProcessTypes

\* One step per action.
LEMMA SessionTypesStep == SessionTypes /\ ProcessTypes /\ [SendNext]_sendVars => SessionTypes'
<1> SUFFICES ASSUME SessionTypes, ProcessTypes, [SendNext]_sendVars PROVE SessionTypes'
  OBVIOUS
<1>1. ASSUME UNCHANGED <<typed, queue, turn, unflushed, transcript, stop, alive, anchor>> PROVE SessionTypes'
  BY <1>1 DEF SessionTypes
<1>2. ASSUME NEW p \in Process, BeginSend(p) PROVE SessionTypes'
  <2>1. anchor' = [anchor EXCEPT ![p] = Len(transcript)] /\ UNCHANGED session
    BY <1>2 DEF BeginSend
  <2>2. Len(transcript) \in Nat
    BY DEF SessionTypes
  <2> QED
    BY <2>1, <2>2 DEF SessionTypes, session
<1>3. ASSUME NEW p \in Process, BeginWait(p) \/ ClearIdle(p) \/ TmuxFails(p) \/ Claim(p) \/ Poll(p)
                                \/ Report(p) \/ Expire(p)
      PROVE  SessionTypes'
  BY <1>1, <1>3 DEF BeginWait, ClearIdle, TmuxFails, Claim, Poll, Report, Expire, session
<1>4. ASSUME NEW p \in Process, TypePrompt(p) PROVE SessionTypes'
  BY <1>4 DEF TypePrompt, SessionTypes
<1>5. ASSUME NEW p \in Process, Enter(p) \/ ConfirmSubmit(p) PROVE SessionTypes'
  <2>1. UNCHANGED <<anchor, turn, unflushed, transcript, stop, alive>>
        /\ (PressEnter \/ UNCHANGED <<typed, queue>>)
    BY <1>5 DEF Enter, ConfirmSubmit
  <2> QED
    BY <2>1, EnterKeeps DEF SessionTypes
<1>6. CASE StartTurn
  <2>1. /\ queue # <<>> /\ turn' = Head(queue) /\ queue' = Tail(queue)
        /\ transcript' = Append(transcript, User(turn'))
        /\ UNCHANGED <<typed, unflushed, anchor, stop, alive>>
    BY <1>6 DEF StartTurn
  <2>2. turn' \in Prompts /\ queue' \in Seq(Prompts)
    BY <2>1, PromptsMove
  <2>3. User(turn') \in Entries
    BY <2>2 DEF User, Entries, Prompts
  <2>4. transcript' \in Seq(Entries) /\ Len(transcript') = Len(transcript) + 1 /\ Len(transcript) \in Nat
    BY <2>1, <2>3, TranscriptGrows
  <2> QED
    BY <2>1, <2>2, <2>4 DEF SessionTypes, Prompts
<1>7. CASE FoldIn
  <2>1. /\ queue # <<>> /\ turn' = turn \cup Head(queue) /\ queue' = Tail(queue)
        /\ transcript' = transcript \o <<ToolUse, User(Head(queue))>>
        /\ UNCHANGED <<typed, unflushed, anchor, stop, alive>>
    BY <1>7 DEF FoldIn
  <2>2. Head(queue) \in Prompts /\ queue' \in Seq(Prompts)
    BY <2>1, PromptsMove
  <2>3. PICK e \in Entries, f \in Entries : e = ToolUse /\ f = User(Head(queue))
    BY <2>2 DEF ToolUse, User, Entries, Prompts
  <2>4. transcript \in Seq(Entries)
    BY DEF SessionTypes
  <2>5. transcript' = transcript \o <<e, f>>
    BY <2>1, <2>3
  <2>6. transcript' \in Seq(Entries) /\ Len(transcript') = Len(transcript) + 2 /\ Len(transcript) \in Nat
    BY <2>4, <2>5
  <2> QED
    BY <2>1, <2>2, <2>6 DEF SessionTypes, Prompts
<1>8. CASE EndTurn \/ Kill \/ HookClearsBusy \/ HookExtracts \/ HookTouchesIdle
  <2>1. UNCHANGED <<transcript, anchor>>
    BY <1>8 DEF EndTurn, Kill, HookClearsBusy, HookTouchesIdle, HookExtracts
  <2>2. typed' \in {typed, {}} /\ turn' \in {turn, {}} /\ unflushed' \in {unflushed, turn, {}}
    BY <1>8 DEF EndTurn, Kill, HookClearsBusy, HookTouchesIdle, HookExtracts
  <2>3. queue' = queue \/ queue' = <<>>
    BY <1>8 DEF EndTurn, Kill, HookClearsBusy, HookTouchesIdle, HookExtracts
  <2>4. stop' \in {"none", "busy", "extract", "touch"}
    BY <1>8 DEF EndTurn, Kill, HookClearsBusy, HookTouchesIdle, HookExtracts
  <2>5. alive' = alive \/ alive' = FALSE
    BY <1>8, Zenon DEF EndTurn, Kill, HookClearsBusy, HookTouchesIdle, HookExtracts
  <2>6. alive' \in BOOLEAN
    BY <2>5, Zenon DEF SessionTypes
  <2>7. queue' \in Seq(Prompts)
    <3>1. queue \in Seq(Prompts) /\ <<>> \in Seq(Prompts)
      BY DEF SessionTypes
    <3> QED
      BY <2>3, <3>1
  <2> QED
    BY <2>1, <2>2, <2>4, <2>6, <2>7 DEF SessionTypes
<1>9. CASE Flush
  <2>1. /\ unflushed # {} /\ transcript' = Append(transcript, Reply(unflushed)) /\ unflushed' = {}
        /\ UNCHANGED <<typed, queue, turn, anchor, stop, alive>>
    BY <1>9 DEF Flush
  <2>2. Reply(unflushed) \in Entries
    <3>1. unflushed \in Prompts
      BY <2>1 DEF SessionTypes, Prompts
    <3> QED
      BY <3>1 DEF Reply, Entries, Prompts
  <2>3. transcript' \in Seq(Entries) /\ Len(transcript') = Len(transcript) + 1 /\ Len(transcript) \in Nat
    BY <2>1, <2>2, TranscriptGrows
  <2> QED
    BY <2>1, <2>3 DEF SessionTypes
<1>10. CASE UNCHANGED sendVars
  BY <1>1, <1>10 DEF sendVars, session
<1> QED
  BY <1>2, <1>3, <1>4, <1>5, <1>6, <1>7, <1>8, <1>9, <1>10 DEF SendNext, Carry, Hook

\* The text of the last turn is that of sends.
LEMMA LastTurnTyped == SessionTypes => LastTurn \subseteq Process
<1>1. \A e \in Entries : e.of \subseteq Process
  BY DEF Entries, ToolUse, Prompts
<1>2. SessionTypes => \A i \in 1..Len(transcript) : transcript[i] \in Entries
  BY DEF SessionTypes
<1> QED
  BY <1>1, <1>2 DEF LastTurn

\* The latest of an interval of assistant entries is one of them.
LEMMA LatestIsOne ==
    ASSUME SessionTypes, NEW n \in Nat, Assistant(n) # {}
    PROVE  \E i \in Assistant(n) : /\ \A j \in Assistant(n) : j <= i
                                   /\ Latest(Assistant(n)) = transcript[i]
<1> DEFINE T == {Len(transcript) - i : i \in Assistant(n)}
<1>1. Len(transcript) \in Nat
  BY DEF SessionTypes
<1>2. T \in SUBSET Nat /\ T # {}
  BY <1>1 DEF Assistant
<1>3. PICK t \in T : \A u \in T : ~ (<<u, t>> \in OpToRel(<, Nat))
  BY <1>2, WFMin, NatLessThanWellFounded, Zenon
<1>4. \A u \in T : ~ (u < t)
  BY <1>2, <1>3, Zenon DEF OpToRel
<1>5. PICK i \in Assistant(n) : t = Len(transcript) - i
  OBVIOUS
<1>6. \A j \in Assistant(n) : j <= i
  <2>1. SUFFICES ASSUME NEW j \in Assistant(n) PROVE j <= i
    OBVIOUS
  <2>2. ~(Len(transcript) - j < t)
    BY <1>4
  <2>3. i \in Int /\ j \in Int
    BY DEF Assistant
  <2> HIDE DEF T
  <2> QED
    BY <1>1, <1>5, <2>2, <2>3
<1>7. PICK k : k = CHOOSE i1 \in Assistant(n) : \A j \in Assistant(n) : j <= i1
  OBVIOUS
<1>8. k \in Assistant(n) /\ \A j \in Assistant(n) : j <= k
  BY <1>6, <1>7
<1>9. Latest(Assistant(n)) = transcript[k]
  BY <1>7 DEF Latest
<1> QED
  BY <1>8, <1>9

\* The files have one writer each step.
LEMMA FileTypesStep ==
    ASSUME SessionTypes, FileTypes, ProcessTypes, [SendNext]_sendVars, pc \in [Process -> Labels]
    PROVE  FileTypes'
<1>1. ASSUME UNCHANGED <<idle, busy, last, token, late>> PROVE FileTypes'
  BY <1>1, Zenon DEF FileTypes
<1>2. ASSUME NEW p \in Process, BeginSend(p) \/ BeginWait(p) \/ TypePrompt(p) \/ TmuxFails(p)
                                \/ Enter(p) \/ ConfirmSubmit(p) \/ Report(p) \/ Expire(p)
      PROVE  FileTypes'
  BY <1>1, <1>2 DEF BeginSend, BeginWait, TypePrompt, TmuxFails, Enter, ConfirmSubmit, Report, Expire,
                    protocol, history
<1>3. ASSUME NEW p \in Process, ClearIdle(p) PROVE FileTypes'
  <2>1. idle' \in {idle, FALSE} /\ busy' \in {busy, FALSE} /\ last' \in {last, {}} /\ UNCHANGED <<token, late>>
    BY <1>3, Zenon DEF ClearIdle, history
  <2>2. idle' \in BOOLEAN /\ busy' \in BOOLEAN
    BY <2>1, Zenon DEF FileTypes
  <2>3. last' \subseteq Process
    BY <2>1 DEF FileTypes
  <2> QED
    BY <2>1, <2>2, <2>3, Zenon DEF FileTypes
<1>4. ASSUME NEW p \in Process, Claim(p) PROVE FileTypes'
  <2>1. token' \in {token, p} /\ UNCHANGED <<idle, busy, last, late>>
    BY <1>4 DEF Claim
  <2>2. token' \in Process \cup {None}
    BY <2>1 DEF FileTypes
  <2> QED
    BY <2>1, <2>2, Zenon DEF FileTypes
<1>5. ASSUME NEW p \in Process, Poll(p) PROVE FileTypes'
  <2>1. UNCHANGED <<idle, busy, token, late>>
    BY <1>5 DEF Poll, history
  <2>2. last' \subseteq Process
    <3>1. CASE last' = last
      BY <3>1 DEF FileTypes
    <3>2. CASE last' = Latest(Assistant(anchor[p])).of /\ TurnSettled(p)
      <4>1. anchor[p] \in Nat
        BY DEF SessionTypes
      <4>2. PICK i \in Assistant(anchor[p]) : Latest(Assistant(anchor[p])) = transcript[i]
        BY <3>2, <4>1, LatestIsOne DEF TurnSettled, SettledAfter
      <4>3. i \in 1..Len(transcript)
        BY <4>1, <4>2 DEF Assistant, SessionTypes
      <4>4. transcript[i] \in Entries
        BY <4>3 DEF SessionTypes
      <4>5. \A e \in Entries : e.of \subseteq Process
        BY DEF Entries, ToolUse, Prompts
      <4> QED
        BY <3>2, <4>2, <4>4, <4>5
    <3> QED
      BY <1>5, <3>1, <3>2 DEF Poll
  <2> QED
    BY <2>1, <2>2, Zenon DEF FileTypes
<1>6. CASE StartTurn \/ FoldIn
  <2>1. busy' = TRUE /\ UNCHANGED <<idle, last, token, late>>
    BY <1>6 DEF StartTurn, FoldIn, history
  <2> QED
    BY <2>1, Zenon DEF FileTypes
<1>7. CASE EndTurn \/ Flush
  BY <1>1, <1>7 DEF EndTurn, Flush, protocol, history
<1>8. CASE Kill
  <2>1. idle' \in {idle, TRUE} /\ UNCHANGED <<busy, last, token, late>>
    BY <1>8 DEF Kill, history
  <2> QED
    BY <2>1, Zenon DEF FileTypes
<1>9. CASE HookClearsBusy
  <2>1. busy' = FALSE /\ UNCHANGED <<idle, last, token, late>>
    BY <1>9 DEF HookClearsBusy, history
  <2> QED
    BY <2>1, Zenon DEF FileTypes
<1>10. CASE HookExtracts
  <2>1. late' = (late \/ unflushed # {}) /\ UNCHANGED <<idle, busy, token>>
        /\ (last' = LastTurn \/ last' = last)
    BY <1>10 DEF HookExtracts
  <2>2. last' \subseteq Process
    BY <2>1, LastTurnTyped DEF FileTypes
  <2>3. late' \in BOOLEAN
    BY <2>1, Zenon
  <2> QED
    BY <2>1, <2>2, <2>3, Zenon DEF FileTypes
<1>11. CASE HookTouchesIdle
  <2>1. idle' = TRUE /\ UNCHANGED <<busy, last, token, late>>
    BY <1>11 DEF HookTouchesIdle, history
  <2> QED
    BY <2>1, Zenon DEF FileTypes
<1>12. CASE UNCHANGED sendVars
  BY <1>1, <1>12 DEF sendVars, protocol, history
<1> QED
  BY <1>2, <1>3, <1>4, <1>5, <1>6, <1>7, <1>8, <1>9, <1>10, <1>11, <1>12 DEF SendNext, Carry, Hook

\* What the processes keep.
LEMMA ProcessTypesStep ==
    ASSUME SessionTypes, FileTypes, ProcessTypes, [SendNext]_sendVars
    PROVE  ProcessTypes'
<1>1. ASSUME UNCHANGED <<tries, out, entered, alone>>,
             faults' \in 0..MaxFaults, discarded' \subseteq Process
      PROVE ProcessTypes'
  BY <1>1 DEF ProcessTypes
<1>2. faults \in 0..MaxFaults /\ discarded \subseteq Process /\ (Fault => faults' \in 0..MaxFaults)
  <2>1. MaxFaults \in Nat /\ faults \in 0..MaxFaults
    BY SendAssumption DEF ProcessTypes
  <2> QED
    BY <2>1 DEF Fault, ProcessTypes
<1>3. ASSUME NEW p \in Process, BeginSend(p) \/ BeginWait(p) PROVE ProcessTypes'
  <2>1. alone' \subseteq {p} /\ UNCHANGED <<tries, out, faults, entered, discarded>>
    BY <1>3 DEF BeginSend, BeginWait
  <2> QED
    BY <2>1 DEF ProcessTypes
<1>4. ASSUME NEW p \in Process, ClearIdle(p) \/ Poll(p) \/ TypePrompt(p) \/ TmuxFails(p) \/ Claim(p)
      PROVE  ProcessTypes'
  BY <1>1, <1>2, <1>4 DEF ClearIdle, Poll, TypePrompt, TmuxFails, Claim, history
<1>5. ASSUME NEW p \in Process, Enter(p) PROVE ProcessTypes'
  BY <1>5, EnterKeeps DEF Enter, ProcessTypes
<1>6. ASSUME NEW p \in Process, ConfirmSubmit(p) PROVE ProcessTypes'
  <2>1. UNCHANGED <<out, entered, alone>>
    BY <1>6 DEF ConfirmSubmit
  <2>2. CASE UNCHANGED <<tries, discarded, faults>>
    BY <1>1, <1>2, <2>1, <2>2
  <2>3. CASE tries[p] # MaxRetries /\ tries' = [tries EXCEPT ![p] = @ + 1]
             /\ (PressEnter \/ UNCHANGED <<discarded, faults>>)
    <3>1. MaxRetries \in Nat /\ tries[p] \in 0..MaxRetries
      BY SendAssumption DEF ProcessTypes
    <3>2. tries[p] + 1 \in 0..MaxRetries
      BY <2>3, <3>1
    <3>3. discarded' \subseteq Process /\ faults' \in 0..MaxFaults
      BY <1>2, <2>3, EnterKeeps
    <3> QED
      BY <2>1, <2>3, <3>2, <3>3 DEF ProcessTypes
  <2> QED
    BY <1>6, <2>2, <2>3 DEF ConfirmSubmit
<1>7. ASSUME NEW p \in Process, Report(p) \/ Expire(p) PROVE ProcessTypes'
  <2>1. (out' = out \/ out' = [out EXCEPT ![p] = last])
        /\ UNCHANGED <<tries, faults, entered, discarded, alone>>
    BY <1>7 DEF Report, Expire, history
  <2> QED
    BY <2>1 DEF ProcessTypes, FileTypes
<1>8. CASE StartTurn \/ FoldIn \/ EndTurn \/ Flush \/ Kill \/ HookClearsBusy \/ HookTouchesIdle
  BY <1>1, <1>2, <1>8 DEF StartTurn, FoldIn, EndTurn, Flush, Kill, HookClearsBusy, HookTouchesIdle, history
<1>9. CASE HookExtracts
  BY <1>1, <1>2, <1>9 DEF HookExtracts
<1>10. CASE UNCHANGED sendVars
  BY <1>1, <1>2, <1>10 DEF sendVars, history
<1> QED
  BY <1>3, <1>4, <1>5, <1>6, <1>7, <1>8, <1>9, <1>10 DEF SendNext, Carry, Hook

\* The types hold throughout.
LEMMA TypeInvAlways == SendSpec => []TypeInv
<1>1. TypeInv /\ [SendNext]_sendVars => TypeInv'
  BY SurvivorInvStep, SessionTypesStep, FileTypesStep, ProcessTypesStep DEF TypeInv, SurvivorInv, EnteredFirst
<1> QED
  BY <1>1, TypeInvInit, PTL DEF SendSpec

\* Type correctness of the protocol of sends and waits (engines/claude/send.ts,
\* keys.ts, wait-signals.ts, hooks/on-stop.sh).
THEOREM SendTypeCorrect == SendSpec => []SendTypeOK
BY TypesAreAll, TypeInvAlways, PTL

-----------------------------------------------------------------------------
\* What the transcript says after the anchor of a send: nothing, its prompt, its reply.
Unasked(s) == Len(transcript) = anchor[s]
Asked(s) == Len(transcript) = anchor[s] + 1 /\ transcript[anchor[s] + 1] = User({s})
Replied(s) ==
    /\ Len(transcript) = anchor[s] + 2
    /\ transcript[anchor[s] + 1] = User({s}) /\ transcript[anchor[s] + 2] = Reply({s})

\* Before its reply nothing after the anchor ends a turn, and the last turn has no text.
LEMMA UnaskedSaysNothing ==
    ASSUME SessionTypes, NEW s \in Process, Unasked(s) \/ Asked(s)
    PROVE  /\ ~SettledAfter(anchor[s])
           /\ Asked(s) => LastTurn = {}
<1>1. PICK n \in Nat : n = Len(transcript)
  BY DEF SessionTypes
<1>2. Assistant(anchor[s]) = {}
  BY <1>1 DEF Unasked, Asked, Assistant, User, SessionTypes
<1>3. ASSUME Asked(s) PROVE LastTurn = {}
  <2>1. n \in 1..n /\ transcript[n].t = "user"
    BY <1>1, <1>3 DEF Asked, User, SessionTypes
  <2>2. \A i \in 1..n : n \in i..n
    BY <2>1
  <2> QED
    BY <1>1, <2>1, <2>2 DEF LastTurn
<1> QED
  BY <1>2, <1>3 DEF SettledAfter

\* With its reply there, every reader of the transcript finds it.
LEMMA RepliedSays ==
    ASSUME SessionTypes, NEW s \in Process, Replied(s)
    PROVE  /\ Latest(Assistant(anchor[s])).of = {s}
           /\ SettledAfter(0) /\ LastTurn = {s}
<1>1. PICK n \in Nat : n = anchor[s]
  BY DEF SessionTypes
<1>2. /\ Len(transcript) = n + 2 /\ transcript[n + 2].t = "reply" /\ transcript[n + 2].of = {s}
      /\ transcript[n + 1].t = "user"
  BY <1>1 DEF Replied, User, Reply
<1>3. ASSUME NEW k \in Nat, k <= n + 1
      PROVE  Assistant(k) # {} /\ Latest(Assistant(k)) = transcript[n + 2]
  <2>1. n + 2 \in Assistant(k)
    BY <1>2, <1>3 DEF Assistant
  <2>2. PICK i \in Assistant(k) : (\A j \in Assistant(k) : j <= i) /\ Latest(Assistant(k)) = transcript[i]
    BY <2>1, LatestIsOne
  <2>3. i \in Int /\ i <= n + 2
    BY <1>2, <1>3 DEF Assistant
  <2>4. n + 2 <= i
    BY <2>1, <2>2
  <2>5. i = n + 2
    BY <2>3, <2>4
  <2> QED
    BY <2>1, <2>2, <2>5
<1>4. Latest(Assistant(anchor[s])).of = {s} /\ SettledAfter(0)
  BY <1>1, <1>2, <1>3 DEF SettledAfter
<1>5. {k \in 1..Len(transcript) : /\ transcript[k].t = "reply"
                                  /\ \A j \in k .. Len(transcript) : transcript[j].t # "user"} = {n + 2}
  <2>1. \A k \in 1..n + 2 : k # n + 2 => n + 1 \in k..n + 2
    OBVIOUS
  <2>2. \A j \in n + 2..n + 2 : j = n + 2
    OBVIOUS
  <2> QED
    BY <1>2, <2>1, <2>2
<1>6. LastTurn = UNION {transcript[i].of : i \in {n + 2}}
  BY <1>5 DEF LastTurn
<1>7. LastTurn = {s}
  BY <1>2, <1>6
<1> QED
  BY <1>4, <1>7

\* Where the prompt of a lone send can be, by what the transcript says of it.
PromptGoesAlone(s) ==
    \/ /\ Unasked(s) /\ turn = {} /\ unflushed = {} /\ stop = "none"
       /\ \/ typed \in {{}, {s}} /\ queue = <<>>
          \/ typed = {} /\ queue = <<{s}>>
    \/ /\ Asked(s) /\ typed = {} /\ queue = <<>>
       /\ \/ turn = {s} /\ unflushed = {} /\ stop = "none"
          \/ turn = {} /\ unflushed = {s}
          \/ turn = {} /\ unflushed = {} /\ stop = "none" /\ ~alive
    \/ Replied(s) /\ typed = {} /\ queue = <<>> /\ turn = {} /\ unflushed = {}

\* What LoneSendRoundTrip allows a send to print.
IsAnswer(s, text) == text = {s} \/ (text = {} /\ (late \/ ~alive))

\* Once a lone send has cleared the files nothing of an earlier turn is in them, and the
\* idle marker stands for an answer.
FilesAreItsOwn(s) ==
    /\ pc[s] \in {"rmIdle", "rmRest"} \/ last \in {{}, {s}}
    /\ idle /\ pc[s] = "rmRest" => ~alive
    /\ idle /\ pc[s] \notin {"rmIdle", "rmRest"} => IsAnswer(s, last)
    /\ stop = "touch" \/ pc[s] = "print" => IsAnswer(s, last)

\* A lone send whose verb has not ended.
OnItsWay(s) ==
    /\ PromptGoesAlone(s) /\ FilesAreItsOwn(s)
    /\ pc[s] \in {"rmIdle", "rmRest", "type"} => Unasked(s) /\ typed = {} /\ queue = <<>>
    /\ pc[s] = "enter" => Unasked(s) /\ queue = <<>>

\* Nobody else runs, and the send prints its answer.
Lone(s) ==
    /\ \A p \in Process \ {s} : pc[p] \in Ended
    /\ pc[s] \notin {"off", "freshen", "freshenRest"}
    /\ pc[s] \notin Ended => OnItsWay(s)
    /\ pc[s] = "done" => IsAnswer(s, out[s])

LoneInv == \A s \in alone : Lone(s)

\* The transcript is in one of the three states.
LEMMA OneStage ==
    ASSUME SessionTypes, NEW s \in Process
    PROVE  /\ Unasked(s) => ~Asked(s) /\ ~Replied(s)
           /\ Asked(s) => ~Replied(s)
<1>1. Len(transcript) \in Nat /\ anchor[s] \in Nat
  BY DEF SessionTypes
<1> QED
  BY <1>1 DEF Unasked, Asked, Replied

\* A lone send that takes a step.
LEMMA LoneMoves ==
    ASSUME NEW s \in Process, pc \in [Process -> Labels], Lone(s), NEW label, GoTo(s, label),
           label \notin {"off", "freshen", "freshenRest"},
           label \notin Ended => OnItsWay(s)',
           label = "done" => IsAnswer(s, out[s])'
    PROVE  Lone(s)'
<1>1. pc'[s] = label /\ \A p \in Process \ {s} : pc'[p] = pc[p]
  BY DEF GoTo
<1> QED
  BY <1>1, Zenon DEF Lone

\* A step of the session or the hook.
LEMMA LoneStays ==
    ASSUME NEW s \in Process, Lone(s), UNCHANGED <<pc, out>>, late => late', ~alive => ~alive',
           pc[s] \notin Ended => OnItsWay(s)'
    PROVE  Lone(s)'
<1>1. pc[s] = "done" => IsAnswer(s, out[s])'
  BY DEF Lone, IsAnswer
<1> QED
  BY <1>1, Zenon DEF Lone

\* Nobody else takes a step.
LEMMA LoneActs ==
    ASSUME LoneInv, NEW s \in alone, NEW p \in Process, pc[p] \notin Ended
    PROVE  p = s /\ Lone(s) /\ OnItsWay(s) /\ pc[s] \notin {"off", "freshen", "freshenRest"}
BY DEF LoneInv, Lone

\* Enter submits the prompt of a lone send once.
LEMMA PressMoves ==
    ASSUME SessionTypes, NEW s \in Process, PromptGoesAlone(s), PressEnter,
           UNCHANGED <<anchor, turn, unflushed, transcript, stop, alive>>
    PROVE  PromptGoesAlone(s)'
<1>1. /\ Unasked(s)' <=> Unasked(s)
      /\ Asked(s)' <=> Asked(s)
      /\ Replied(s)' <=> Replied(s)
  BY DEF Unasked, Asked, Replied
<1>2. (typed' = {} \/ typed' = typed) /\ (queue' = queue \/ (typed # {} /\ typed' = {} /\ queue' = Append(queue, typed)))
  BY DEF PressEnter, Submit, Swallowed
<1>3. Append(<<>>, {s}) = <<{s}>>
  OBVIOUS
<1>4. CASE queue' = queue
  BY <1>1, <1>2, <1>4 DEF PromptGoesAlone
<1>5. CASE typed # {} /\ typed' = {} /\ queue' = Append(queue, typed)
  <2>1. Unasked(s) /\ turn = {} /\ unflushed = {} /\ stop = "none" /\ typed = {s} /\ queue = <<>>
    BY <1>5 DEF PromptGoesAlone
  <2>2. queue' = <<{s}>>
    BY <1>3, <1>5, <2>1
  <2> QED
    BY <1>1, <1>5, <2>1, <2>2 DEF PromptGoesAlone
<1> QED
  BY <1>2, <1>4, <1>5

\* While the session stands still the prompt is where it is.
LEMMA SameSession ==
    ASSUME NEW s \in Process, UNCHANGED <<typed, queue, turn, unflushed, transcript, stop, alive, anchor>>
    PROVE  /\ Unasked(s)' <=> Unasked(s)
           /\ PromptGoesAlone(s) => PromptGoesAlone(s)'
BY DEF Unasked, PromptGoesAlone, Asked, Replied

\* A step of a process, which is one of the lone send.
LEMMA ProcessLone ==
    ASSUME TypeInv, LoneInv, NEW p \in Process, NEW s \in alone,
           Carry(p) \/ TmuxFails(p) \/ Expire(p)
    PROVE  Lone(s)'
<1>1. SessionTypes /\ s \in Process /\ pc \in [Process -> Labels]
  BY DEF TypeInv, ProcessTypes, SurvivorInv, EnteredFirst
<1>2. pc[p] \notin Ended
  BY DEF Carry, TmuxFails, Expire, ClearIdle, Poll, Report, TypePrompt, Enter, Claim, ConfirmSubmit, At, Ended
<1>3. p = s /\ Lone(s) /\ OnItsWay(s) /\ pc[s] \notin {"off", "freshen", "freshenRest"}
  BY <1>2, LoneActs
<1>4. pc[s] \in {"rmIdle", "rmRest", "type"} =>
         Unasked(s) /\ typed = {} /\ queue = <<>> /\ turn = {} /\ unflushed = {} /\ stop = "none"
  BY <1>1, <1>3, OneStage DEF OnItsWay, PromptGoesAlone
<1>5. CASE ClearIdle(s)
  <2>1. UNCHANGED <<typed, queue, turn, unflushed, transcript, stop, alive, anchor, late>>
    BY <1>5 DEF ClearIdle, session, history
  <2>2. PromptGoesAlone(s)' /\ (Unasked(s)' <=> Unasked(s))
    BY <1>1, <1>3, <2>1, SameSession DEF OnItsWay
  <2>3. CASE At(s, "rmIdle")
    <3>1. GoTo(s, "rmRest") /\ idle' = FALSE /\ pc'[s] = "rmRest"
      BY <1>1, <1>5, <2>3 DEF ClearIdle, At, GoTo
    <3>2. OnItsWay(s)'
      BY <1>4, <2>1, <2>2, <2>3, <3>1 DEF OnItsWay, FilesAreItsOwn, At
    <3> QED
      BY <1>1, <1>3, <3>1, <3>2, LoneMoves DEF Ended
  <2>4. CASE At(s, "rmRest")
    <3>1. GoTo(s, "type") /\ last' = {} /\ idle' = idle /\ pc'[s] = "type"
      BY <1>1, <1>5, <2>4 DEF ClearIdle, At, GoTo
    <3>2. idle => ~alive
      BY <1>3, <2>4 DEF OnItsWay, FilesAreItsOwn, At
    <3>3. OnItsWay(s)'
      BY <1>4, <2>1, <2>2, <2>4, <3>1, <3>2 DEF OnItsWay, FilesAreItsOwn, IsAnswer, At
    <3> QED
      BY <1>1, <1>3, <3>1, <3>3, LoneMoves DEF Ended
  <2> QED
    BY <1>3, <1>5, <2>3, <2>4 DEF ClearIdle, At
<1>6. CASE TypePrompt(s)
  <2>1. At(s, "type") /\ GoTo(s, "enter") /\ pc'[s] = "enter" /\ typed' = typed \cup {s}
        /\ UNCHANGED <<queue, turn, unflushed, transcript, stop, alive, anchor, late, idle, last>>
    BY <1>1, <1>6 DEF TypePrompt, At, GoTo, protocol, history
  <2>2. Unasked(s)' /\ typed' = {s} /\ queue' = <<>>
    BY <1>4, <2>1 DEF Unasked, At
  <2>3. PromptGoesAlone(s)'
    BY <1>4, <2>1, <2>2 DEF PromptGoesAlone, At
  <2>4. FilesAreItsOwn(s)'
    BY <1>3, <1>4, <2>1 DEF OnItsWay, FilesAreItsOwn, IsAnswer, At
  <2>5. OnItsWay(s)'
    BY <2>1, <2>2, <2>3, <2>4 DEF OnItsWay
  <2> QED
    BY <1>1, <1>3, <2>1, <2>5, LoneMoves DEF Ended
<1>7. CASE TmuxFails(s) \/ Expire(s)
  <2>1. \E label \in {"failed", "expired", "died"} : GoTo(s, label)
    BY <1>7 DEF TmuxFails, Expire
  <2> QED
    BY <1>1, <1>3, <2>1, LoneMoves DEF Ended
<1>8. CASE Enter(s)
  <2>1. At(s, "enter") /\ GoTo(s, "claim") /\ pc'[s] = "claim" /\ PressEnter
        /\ UNCHANGED <<turn, unflushed, transcript, stop, alive, anchor, late, idle, last>>
    BY <1>1, <1>8 DEF Enter, At, GoTo, protocol
  <2>2. PromptGoesAlone(s)'
    BY <1>1, <1>3, <2>1, PressMoves DEF OnItsWay
  <2>3. FilesAreItsOwn(s)'
    BY <1>3, <2>1 DEF OnItsWay, FilesAreItsOwn, IsAnswer, At
  <2>4. OnItsWay(s)'
    BY <2>1, <2>2, <2>3 DEF OnItsWay
  <2> QED
    BY <1>1, <1>3, <2>1, <2>4, LoneMoves DEF Ended
<1>9. CASE Claim(s)
  <2>1. At(s, "claim") /\ GoTo(s, "confirm") /\ pc'[s] = "confirm"
        /\ UNCHANGED <<typed, queue, turn, unflushed, transcript, stop, alive, anchor, late, idle, last>>
    BY <1>1, <1>9 DEF Claim, At, GoTo, session
  <2>2. PromptGoesAlone(s)'
    BY <1>1, <1>3, <2>1, SameSession DEF OnItsWay
  <2>3. FilesAreItsOwn(s)'
    BY <1>3, <2>1 DEF OnItsWay, FilesAreItsOwn, IsAnswer, At
  <2>4. OnItsWay(s)'
    BY <2>1, <2>2, <2>3 DEF OnItsWay
  <2> QED
    BY <1>1, <1>3, <2>1, <2>4, LoneMoves DEF Ended
<1>10. CASE ConfirmSubmit(s)
  <2>1. /\ At(s, "confirm") /\ UNCHANGED <<out, turn, unflushed, transcript, stop, alive, anchor, late, idle, last>>
        /\ \/ (GoTo(s, "wait") \/ GoTo(s, "failed")) /\ UNCHANGED <<typed, queue>>
           \/ UNCHANGED pc /\ (PressEnter \/ UNCHANGED <<typed, queue>>)
    BY <1>10 DEF ConfirmSubmit, IfAlive, protocol
  <2>2. PromptGoesAlone(s)'
    BY <1>1, <1>3, <2>1, SameSession, PressMoves DEF OnItsWay
  <2>3. CASE GoTo(s, "failed")
    BY <1>1, <1>3, <2>3, LoneMoves DEF Ended
  <2>4. CASE GoTo(s, "wait")
    <3>1. pc'[s] = "wait"
      BY <1>1, <2>4 DEF GoTo
    <3>2. FilesAreItsOwn(s)'
      BY <1>3, <2>1, <3>1 DEF OnItsWay, FilesAreItsOwn, IsAnswer, At
    <3>3. OnItsWay(s)'
      BY <2>2, <3>1, <3>2 DEF OnItsWay
    <3> QED
      BY <1>1, <1>3, <2>4, <3>3, LoneMoves DEF Ended
  <2>5. CASE UNCHANGED pc
    <3>1. FilesAreItsOwn(s)'
      BY <1>3, <2>1, <2>5 DEF OnItsWay, FilesAreItsOwn, IsAnswer, At
    <3>2. OnItsWay(s)'
      BY <2>1, <2>2, <2>5, <3>1 DEF OnItsWay, At
    <3> QED
      BY <1>3, <2>1, <2>5, <3>2, LoneStays
  <2> QED
    BY <2>1, <2>3, <2>4, <2>5
<1>11. CASE Poll(s)
  <2>1. At(s, "wait") /\ UNCHANGED <<typed, queue, turn, unflushed, transcript, stop, alive, anchor, late, idle>>
    BY <1>11 DEF Poll, session, history
  <2>2. PromptGoesAlone(s)'
    BY <1>1, <1>3, <2>1, SameSession DEF OnItsWay
  <2>3. ASSUME GoTo(s, "print"), IsAnswer(s, last)' PROVE Lone(s)'
    <3>1. pc'[s] = "print"
      BY <1>1, <2>3 DEF GoTo
    <3>2. FilesAreItsOwn(s)'
      BY <2>3, <3>1 DEF FilesAreItsOwn, IsAnswer
    <3>3. OnItsWay(s)'
      BY <2>2, <3>1, <3>2 DEF OnItsWay
    <3> QED
      BY <1>1, <1>3, <2>3, <3>3, LoneMoves DEF Ended
  <2>4. CASE idle /\ GoTo(s, "print") /\ last' = last
    <3>1. IsAnswer(s, last)
      BY <1>3, <2>1, <2>4 DEF OnItsWay, FilesAreItsOwn, At
    <3> QED
      BY <2>1, <2>3, <2>4, <3>1 DEF IsAnswer
  <2>5. CASE TurnSettled(s) /\ GoTo(s, "print") /\ last' = Latest(Assistant(anchor[s])).of
    <3>1. ~Unasked(s) /\ ~Asked(s)
      BY <1>1, <2>5, UnaskedSaysNothing DEF TurnSettled
    <3>2. Replied(s)
      BY <1>3, <3>1 DEF OnItsWay, PromptGoesAlone
    <3>3. last' = {s}
      BY <1>1, <2>5, <3>2, RepliedSays
    <3> QED
      BY <2>3, <2>5, <3>3 DEF IsAnswer
  <2>6. CASE GoTo(s, "superseded")
    BY <1>1, <1>3, <2>6, LoneMoves DEF Ended
  <2> QED
    BY <1>11, <2>4, <2>5, <2>6 DEF Poll
<1>12. CASE Report(s)
  <2>1. At(s, "print") /\ GoTo(s, "done") /\ out' = [out EXCEPT ![s] = last] /\ UNCHANGED <<alive, late>>
    BY <1>12 DEF Report, session, history
  <2>2. out'[s] = last
    BY <1>1, <2>1 DEF TypeInv, ProcessTypes
  <2>3. IsAnswer(s, last)
    BY <1>3, <2>1 DEF OnItsWay, FilesAreItsOwn, At
  <2>4. IsAnswer(s, out[s])'
    BY <2>1, <2>2, <2>3 DEF IsAnswer
  <2> QED
    BY <1>1, <1>3, <2>1, <2>4, LoneMoves DEF Ended
<1> QED
  BY <1>3, <1>5, <1>6, <1>7, <1>8, <1>9, <1>10, <1>11, <1>12 DEF Carry

\* A step of the session or of its hook carries the prompt on.
LEMMA SessionLone ==
    ASSUME TypeInv, LoneInv, NEW s \in alone,
           StartTurn \/ FoldIn \/ EndTurn \/ Flush \/ Kill \/ Hook
    PROVE  Lone(s)'
<1>1. SessionTypes /\ s \in Process /\ Lone(s) /\ anchor[s] \in Nat /\ Len(transcript) \in Nat
  BY DEF TypeInv, ProcessTypes, SessionTypes, LoneInv
<1>2. UNCHANGED <<pc, out, anchor>>
  BY DEF StartTurn, FoldIn, EndTurn, Flush, Kill, Hook, HookClearsBusy, HookExtracts, HookTouchesIdle
<1>3. (late => late') /\ (~alive => ~alive')
  <2>1. CASE HookExtracts
    BY <2>1, Zenon DEF HookExtracts
  <2>2. CASE Kill
    BY <2>2, Zenon DEF Kill, history
  <2>3. CASE ~HookExtracts /\ ~Kill
    <3>1. UNCHANGED <<late, alive>>
      BY <2>3 DEF StartTurn, FoldIn, EndTurn, Flush, Hook, HookClearsBusy, HookTouchesIdle, history
    <3> QED
      BY <3>1, Zenon
  <2> QED
    BY <2>1, <2>2, <2>3
<1>4. SUFFICES ASSUME pc[s] \notin Ended PROVE OnItsWay(s)'
  BY <1>1, <1>2, <1>3, LoneStays
<1>5. OnItsWay(s) /\ pc'[s] = pc[s]
  BY <1>1, <1>2, <1>4 DEF Lone
<1>6. Unasked(s) => turn = {} /\ unflushed = {} /\ stop = "none" /\ ~Asked(s) /\ ~Replied(s)
  BY <1>1, <1>5, OneStage DEF OnItsWay, PromptGoesAlone
<1>7. CASE StartTurn
  <2>1. /\ queue # <<>> /\ turn' = Head(queue) /\ queue' = Tail(queue)
        /\ transcript' = Append(transcript, User(turn'))
        /\ UNCHANGED <<idle, last, typed, unflushed, stop, alive, late>>
    BY <1>7 DEF StartTurn, history
  <2>2. Unasked(s) /\ typed = {} /\ queue = <<{s}>>
    BY <1>5, <2>1 DEF OnItsWay, PromptGoesAlone
  <2>3. turn' = {s} /\ queue' = <<>>
    BY <2>1, <2>2
  <2>4. Asked(s)'
    BY <1>1, <1>2, <2>1, <2>2, <2>3 DEF Asked, Unasked, SessionTypes
  <2>5. PromptGoesAlone(s)'
    BY <1>6, <2>1, <2>2, <2>3, <2>4 DEF PromptGoesAlone
  <2>6. FilesAreItsOwn(s)'
    BY <1>5, <2>1 DEF OnItsWay, FilesAreItsOwn, IsAnswer
  <2> QED
    BY <1>5, <2>2, <2>5, <2>6, <2>1 DEF OnItsWay
<1>8. CASE FoldIn
  BY <1>5, <1>8 DEF FoldIn, OnItsWay, PromptGoesAlone
<1>9. CASE EndTurn
  <2>1. /\ turn # {} /\ unflushed' = turn /\ turn' = {}
        /\ stop' = IF queue = <<>> THEN "busy" ELSE "none"
        /\ UNCHANGED <<idle, last, typed, queue, transcript, alive, late>>
    BY <1>9 DEF EndTurn, protocol, history
  <2>2. Asked(s) /\ typed = {} /\ queue = <<>> /\ turn = {s}
    BY <1>5, <2>1 DEF OnItsWay, PromptGoesAlone
  <2>3. Asked(s)'
    BY <1>2, <2>1, <2>2 DEF Asked
  <2>4. PromptGoesAlone(s)'
    BY <2>1, <2>2, <2>3 DEF PromptGoesAlone
  <2>5. FilesAreItsOwn(s)'
    BY <1>5, <2>1, <2>2 DEF OnItsWay, FilesAreItsOwn, IsAnswer
  <2> QED
    BY <1>5, <1>6, <2>2, <2>4, <2>5 DEF OnItsWay
<1>10. CASE Flush
  <2>1. /\ unflushed # {} /\ transcript' = Append(transcript, Reply(unflushed)) /\ unflushed' = {}
        /\ UNCHANGED <<idle, last, typed, queue, turn, stop, alive, late>>
    BY <1>10 DEF Flush, protocol, history
  <2>2. Asked(s) /\ typed = {} /\ queue = <<>> /\ turn = {} /\ unflushed = {s}
    BY <1>5, <2>1 DEF OnItsWay, PromptGoesAlone
  <2>3. Replied(s)'
    BY <1>1, <1>2, <2>1, <2>2 DEF Asked, Replied, SessionTypes
  <2>4. PromptGoesAlone(s)'
    BY <2>1, <2>2, <2>3 DEF PromptGoesAlone
  <2>5. FilesAreItsOwn(s)'
    BY <1>5, <2>1 DEF OnItsWay, FilesAreItsOwn, IsAnswer
  <2> QED
    BY <1>5, <1>6, <2>2, <2>4, <2>5 DEF OnItsWay
<1>11. CASE Kill
  <2>1. /\ ~alive' /\ typed' = {} /\ queue' = <<>> /\ turn' = {} /\ unflushed' = {} /\ stop' = "none"
        /\ UNCHANGED <<last, transcript, late>>
    BY <1>11 DEF Kill, history
  <2>2. (Unasked(s)' <=> Unasked(s)) /\ (Asked(s)' <=> Asked(s)) /\ (Replied(s)' <=> Replied(s))
    BY <1>2, <2>1 DEF Unasked, Asked, Replied
  <2>3. Unasked(s) \/ Asked(s) \/ Replied(s)
    BY <1>5 DEF OnItsWay, PromptGoesAlone
  <2>4. PromptGoesAlone(s)'
    BY <2>1, <2>2, <2>3 DEF PromptGoesAlone
  <2>5. FilesAreItsOwn(s)'
    BY <1>5, <2>1 DEF OnItsWay, FilesAreItsOwn, IsAnswer
  <2> QED
    BY <1>5, <2>1, <2>2, <2>4, <2>5 DEF OnItsWay
<1>12. CASE HookClearsBusy \/ HookTouchesIdle
  <2>1. /\ stop \in {"busy", "touch"} /\ stop' \in {"extract", "none"}
        /\ UNCHANGED <<last, typed, queue, turn, unflushed, transcript, alive, late>>
        /\ idle' = idle \/ stop = "touch"
    BY <1>12 DEF HookClearsBusy, HookTouchesIdle, history
  <2>2. ~Unasked(s)
    BY <1>6, <2>1
  <2>3. (Asked(s)' <=> Asked(s)) /\ (Replied(s)' <=> Replied(s))
    BY <1>2, <2>1 DEF Asked, Replied
  <2>4. PromptGoesAlone(s)'
    BY <1>5, <2>1, <2>2, <2>3 DEF OnItsWay, PromptGoesAlone
  <2>5. FilesAreItsOwn(s)'
    BY <1>5, <2>1, <2>2 DEF OnItsWay, FilesAreItsOwn, IsAnswer
  <2> QED
    BY <1>5, <2>2, <2>4, <2>5 DEF OnItsWay
<1>13. CASE HookExtracts
  <2>1. /\ stop = "extract" /\ stop' = "touch" /\ late' = (late \/ unflushed # {})
        /\ (last' = LastTurn \/ (~SettledAfter(0) /\ last' = last))
        /\ UNCHANGED <<idle, typed, queue, turn, unflushed, transcript, alive>>
    BY <1>13 DEF HookExtracts
  <2>2. ~Unasked(s) /\ pc[s] \notin {"rmIdle", "rmRest"}
    BY <1>5, <1>6, <2>1 DEF OnItsWay
  <2>3. (Asked(s)' <=> Asked(s)) /\ (Replied(s)' <=> Replied(s))
    BY <1>2, <2>1 DEF Asked, Replied
  <2>4. PromptGoesAlone(s)'
    BY <1>5, <2>1, <2>2, <2>3 DEF OnItsWay, PromptGoesAlone
  <2>5. IsAnswer(s, last)'
    <3>1. CASE Asked(s)
      <4>1. unflushed # {}
        BY <1>1, <1>5, <2>1, <3>1, OneStage DEF OnItsWay, PromptGoesAlone
      <4>2. LastTurn = {} /\ last \in {{}, {s}}
        BY <1>1, <1>5, <2>2, <3>1, UnaskedSaysNothing DEF OnItsWay, FilesAreItsOwn
      <4> QED
        BY <2>1, <4>1, <4>2 DEF IsAnswer
    <3>2. CASE Replied(s)
      <4>1. last' = {s}
        BY <1>1, <2>1, <3>2, RepliedSays
      <4> QED
        BY <4>1 DEF IsAnswer
    <3> QED
      BY <1>5, <2>2, <3>1, <3>2 DEF OnItsWay, PromptGoesAlone
  <2>6. FilesAreItsOwn(s)'
    BY <1>2, <2>2, <2>5 DEF FilesAreItsOwn, IsAnswer
  <2> QED
    BY <1>5, <2>2, <2>4, <2>6 DEF OnItsWay
<1> QED
  BY <1>7, <1>8, <1>9, <1>10, <1>11, <1>12, <1>13 DEF Hook

\* A send that begins alone finds a quiet session, and its anchor the end of the transcript.
LEMMA BeginLone ==
    ASSUME TypeInv, NEW s \in Process, BeginSend(s), s \in alone'
    PROVE  Lone(s)'
<1>1. pc \in [Process -> Labels] /\ SessionTypes
  BY DEF TypeInv, SurvivorInv, EnteredFirst
<1>2. /\ SessionQuiet /\ Active = {} /\ anchor' = [anchor EXCEPT ![s] = Len(transcript)]
      /\ (GoTo(s, "rmIdle") \/ GoTo(s, "failed"))
      /\ UNCHANGED <<typed, queue, turn, unflushed, transcript, stop, alive>>
  BY DEF BeginSend, IfAlive, session
<1>3. \A p \in Process : pc[p] \in Ended
  BY <1>2 DEF Active
<1>4. pc'[s] \in {"rmIdle", "failed"} /\ \A p \in Process \ {s} : pc'[p] = pc[p]
  BY <1>1, <1>2 DEF GoTo
<1>5. Unasked(s)'
  BY <1>1, <1>2 DEF Unasked, SessionTypes
<1>6. typed' = {} /\ queue' = <<>> /\ turn' = {} /\ unflushed' = {} /\ stop' = "none"
  BY <1>2 DEF SessionQuiet
<1>7. PromptGoesAlone(s)'
  BY <1>5, <1>6 DEF PromptGoesAlone
<1>8. pc'[s] = "rmIdle" => OnItsWay(s)'
  BY <1>5, <1>6, <1>7 DEF OnItsWay, FilesAreItsOwn
<1> QED
  BY <1>3, <1>4, <1>8 DEF Lone, Ended

\* A send stays alone until another process begins.
LEMMA LoneInvStep == TypeInv /\ LoneInv /\ [SendNext]_sendVars => LoneInv'
<1> SUFFICES ASSUME TypeInv, LoneInv, [SendNext]_sendVars, NEW s \in alone' PROVE Lone(s)'
  BY DEF LoneInv
<1>1. ASSUME NEW p \in Process, BeginSend(p) PROVE Lone(s)'
  <2>1. s = p
    BY <1>1 DEF BeginSend
  <2> QED
    BY <1>1, <2>1, BeginLone
<1>2. ASSUME NEW p \in Process, BeginWait(p) PROVE Lone(s)'
  BY <1>2 DEF BeginWait
<1>3. ASSUME NEW p \in Process, Carry(p) \/ TmuxFails(p) \/ Expire(p) PROVE Lone(s)'
  <2>1. alone' = alone
    BY <1>3 DEF Carry, TmuxFails, Expire, ClearIdle, Poll, Report, TypePrompt, Enter, Claim, ConfirmSubmit, history
  <2> QED
    BY <1>3, <2>1, ProcessLone
<1>4. CASE StartTurn \/ FoldIn \/ EndTurn \/ Flush \/ Kill \/ Hook
  <2>1. alone' = alone
    BY <1>4 DEF StartTurn, FoldIn, EndTurn, Flush, Kill, Hook, HookClearsBusy, HookExtracts, HookTouchesIdle, history
  <2> QED
    BY <1>4, <2>1, SessionLone
<1>5. CASE UNCHANGED sendVars
  BY <1>5 DEF sendVars, session, protocol, history, LoneInv, Lone, OnItsWay, PromptGoesAlone, FilesAreItsOwn,
              IsAnswer, Unasked, Asked, Replied
<1> QED
  BY <1>1, <1>2, <1>3, <1>4, <1>5 DEF SendNext

\* A send to a quiet teammate that nobody interferes with prints the reply to its own
\* prompt, or nothing when the hook ran ahead of the transcript or the session ended,
\* for any history of the teammate, any retries and any failures (engines/claude/send.ts,
\* turn-jsonl.ts, hooks/on-stop.sh).
THEOREM LoneAnswered == SendSpec => []LoneSendRoundTrip
<1>1. SendInit => LoneInv
  BY DEF SendInit, LoneInv
<1>2. TypeInv /\ LoneInv => LoneSendRoundTrip
  BY DEF TypeInv, ProcessTypes, LoneInv, Lone, LoneSendRoundTrip, IsAnswer, At
<1> QED
  BY <1>1, <1>2, LoneInvStep, TypeInvAlways, PTL DEF SendSpec

-----------------------------------------------------------------------------
(* The history of sessions (SessionHistory)                                 *)

\* The fields of an event, a record and a row.
Fields == {"id", "engine", "name", "repo", "cwd", "slug", "status"}

\* An event, a record or a row: it has no repository without a directory.
Directed(r) == DOMAIN r = Fields /\ (r.cwd = Unknown => r.repo = Unknown)

\* Is a record one of session s, of those made and misfiled?
About(r, s, sessions, strays) ==
    /\ r.engine = sessions[s].engine
    /\ s \notin strays => r.cwd \in {Unknown, sessions[s].cwd}

\* What is folded under the id of a session is about it, and an attribution stands for a session
\* of its engine and its directory.
IndexFits(ix, sessions, strays) ==
    /\ \A s \in Session : <<"id", s>> \in DOMAIN ix.records =>
          /\ s \in DOMAIN sessions
          /\ Directed(ix.records[<<"id", s>>])
          /\ About(ix.records[<<"id", s>>], s, sessions, strays)
    /\ \A k \in DOMAIN ix.ids :
          /\ k # Unknown
          /\ ix.ids[k] \in DOMAIN sessions
          /\ k[1] = sessions[ix.ids[k]].engine
          /\ ix.ids[k] \notin strays => k[3] = sessions[ix.ids[k]].cwd

\* An event that names a session is about it.
EventFits(e, sessions, strays) ==
    /\ Directed(e)
    /\ e.id # Unknown => e.id \in DOMAIN sessions /\ About(e, e.id, sessions, strays)

\* The sessions made.
SessionsOK(sessions) ==
    /\ sessions \in Seq({sessions[s] : s \in DOMAIN sessions})
    /\ Len(sessions) <= MaxSessions
    /\ \A s \in DOMAIN sessions : sessions[s].engine \in Engine

\* The identity record of a launch, and the snapshot of one.
LaunchRecord(r) == DOMAIN r = Fields /\ r.engine \in Engine /\ r.cwd # Unknown

\* The record, the snapshot, the marker and the process of a name agree: the session a marker
\* names is one of the record, and the process runs the engine of the record.
NameFits(n) ==
    /\ identity[n] # Unknown => LaunchRecord(identity[n])
    /\ snapshot[n] # Unknown => LaunchRecord(snapshot[n])
    /\ marker[n] # Unknown =>
          /\ marker[n] \in Made /\ LaunchRecord(identity[n])
          /\ About(identity[n], marker[n], made, misfiled)
    /\ Occupied(n) =>
          /\ {"engine", "session"} \subseteq DOMAIN process[n]
          /\ LaunchRecord(identity[n]) /\ process[n].engine = identity[n].engine
          /\ process[n].session # Unknown =>
                process[n].session \in Made /\ made[process[n].session].engine = process[n].engine
          /\ process[n].engine = "codex" => marker[n] = process[n].session

\* Every name.
Names ==
    /\ DOMAIN identity = Name /\ DOMAIN snapshot = Name
    /\ DOMAIN marker = Name /\ DOMAIN process = Name
    /\ \A n \in Name : NameFits(n)

\* The inductive invariant.
HistoryInv ==
    /\ SessionsOK(made)
    /\ IndexFits(index, made, misfiled)
    /\ Names

\* A session that was made goes on to be one, of the engine and directory it had.
Grows(older, newer) ==
    /\ DOMAIN older \subseteq DOMAIN newer
    /\ \A s \in DOMAIN older : newer[s].engine = older[s].engine /\ newer[s].cwd = older[s].cwd

-----------------------------------------------------------------------------

\* Merging takes of each field what the event says, then what was known (mergeRecord).
LEMMA MergeGives ==
    ASSUME NEW base, NEW e, DOMAIN e = Fields
    PROVE  /\ DOMAIN Merge(base, e) = Fields
           /\ \A f \in Fields : Merge(base, e)[f] = Or(e[f], base[f])
BY DEF Merge

\* A record of which nothing is known.
LEMMA BlankIsDirected ==
    Directed(Blank) /\ \A f \in Fields : Blank[f] = Unknown
BY DEF Directed, Blank, SessionEvent, Fields

\* Merging an event of a session into what was known of it.
LEMMA MergeFits ==
    ASSUME NEW sessions, NEW strays, NEW s, sessions[s].engine \in Engine,
           NEW base, NEW e, Directed(e),
           e.engine = sessions[s].engine,
           Directed(base),
           \/ s \notin strays => e.cwd = sessions[s].cwd /\ e.cwd # Unknown
           \/ /\ s \notin strays => e.cwd \in {Unknown, sessions[s].cwd}
              /\ s \notin strays => base.cwd \in {Unknown, sessions[s].cwd}
    PROVE  Directed(Merge(base, e)) /\ About(Merge(base, e), s, sessions, strays)
<1>1. DOMAIN Merge(base, e) = Fields /\ \A f \in Fields : Merge(base, e)[f] = Or(e[f], base[f])
  BY MergeGives DEF Directed
<1>2. {"cwd", "repo", "engine"} \subseteq Fields
  BY DEF Fields
<1>3. Merge(base, e).engine = e.engine
  BY <1>1, <1>2, HistoryAssumption DEF Or
<1>4. Merge(base, e).cwd = Or(e.cwd, base.cwd) /\ Merge(base, e).repo = Or(e.repo, base.repo)
  BY <1>1, <1>2
<1>5. Merge(base, e).cwd = Unknown => Merge(base, e).repo = Unknown
  BY <1>4 DEF Or, Directed
<1>6. s \notin strays => Merge(base, e).cwd \in {Unknown, sessions[s].cwd}
  BY <1>4 DEF Or
<1> QED BY <1>1, <1>3, <1>5, <1>6 DEF Directed, About

\* An attribution names an engine and a directory.
LEMMA AttributionGives ==
    ASSUME NEW e, Directed(e), Attribution(e) # Unknown
    PROVE  /\ Attribution(e)[1] = e.engine
           /\ Attribution(e)[3] = e.cwd
           /\ e.engine # Unknown /\ e.cwd # Unknown
<1>1. ~(e.engine = Unknown \/ e.name = Unknown \/ Or(e.cwd, e.repo) = Unknown)
  BY DEF Attribution
<1>2. e.cwd # Unknown
  BY <1>1 DEF Or, Directed
<1>3. Or(e.cwd, e.repo) = e.cwd
  BY <1>2 DEF Or
<1>4. Attribution(e) = <<e.engine, e.name, e.cwd>>
  BY <1>1, <1>3 DEF Attribution
<1> QED BY <1>1, <1>2, <1>4

\* However an event is folded in, the records stay those of their sessions.
LEMMA FoldFits ==
    ASSUME NEW ix, NEW e, NEW sessions, NEW strays,
           SessionsOK(sessions), DOMAIN sessions \subseteq Session,
           IndexFits(ix, sessions, strays), EventFits(e, sessions, strays)
    PROVE  IndexFits(Fold(e, ix), sessions, strays)
<1> DEFINE attr == Attribution(e)
           key == IF e.id # Unknown THEN <<"id", e.id>>
                  ELSE IF attr \in DOMAIN ix.ids THEN <<"id", ix.ids[attr]>> ELSE OpenKey(e)
           absorbs == e.id # Unknown /\ attr # Unknown /\ OpenKey(e) \in DOMAIN ix.records
           known == IF absorbs
                    THEN Put(Without(ix.records, OpenKey(e)), key,
                             Absorb(Known(ix.records, key), ix.records[OpenKey(e)]))
                    ELSE ix.records
           merged == Merge(Known(known, key), e)
<1>1. /\ Fold(e, ix).records = Put(known, key, merged)
      /\ Fold(e, ix).ids = IF e.id # Unknown /\ attr # Unknown THEN Put(ix.ids, attr, e.id) ELSE ix.ids
  BY DEF Fold
<1> HIDE DEF attr, key, absorbs, known, merged
<1>2. Directed(e) /\ attr = Attribution(e)
  BY DEF EventFits, attr
<1>3. attr # Unknown => attr[1] = e.engine /\ attr[3] = e.cwd /\ e.engine # Unknown /\ e.cwd # Unknown
  BY <1>2, AttributionGives
<1>4. \A s : OpenKey(e) # <<"id", s>>
  BY DEF OpenKey
<1>5. \A s : <<"id", s>> # key =>
        /\ <<"id", s>> \in DOMAIN known <=> <<"id", s>> \in DOMAIN ix.records
        /\ <<"id", s>> \in DOMAIN known => known[<<"id", s>>] = ix.records[<<"id", s>>]
  BY <1>4 DEF known, Put, Without
<1>6. ASSUME NEW s \in Session, <<"id", s>> \in DOMAIN Fold(e, ix).records
      PROVE  /\ s \in DOMAIN sessions
             /\ Directed(Fold(e, ix).records[<<"id", s>>])
             /\ About(Fold(e, ix).records[<<"id", s>>], s, sessions, strays)
  <2>1. CASE <<"id", s>> # key
    <3>1. <<"id", s>> \in DOMAIN ix.records /\ Fold(e, ix).records[<<"id", s>>] = ix.records[<<"id", s>>]
      BY <1>1, <1>5, <1>6, <2>1 DEF Put
    <3> QED BY <3>1 DEF IndexFits
  <2>2. CASE <<"id", s>> = key
    <3>1. Fold(e, ix).records[<<"id", s>>] = merged
      BY <1>1, <2>2 DEF Put
    <3>2. CASE e.id # Unknown
      <4>1. key = <<"id", e.id>>
        BY <3>2 DEF key
      <4>2. s = e.id
        BY <4>1, <2>2
      <4>3. s \in DOMAIN sessions /\ About(e, s, sessions, strays) /\ sessions[s].engine \in Engine
        BY <4>2, <3>2 DEF EventFits, SessionsOK
      <4>4. CASE absorbs
        <5>1. attr # Unknown
          BY <4>4 DEF absorbs
        <5>2. s \notin strays => e.cwd = sessions[s].cwd /\ e.cwd # Unknown
          BY <5>1, <1>3, <4>3 DEF About
        <5>3. Known(known, key) = Absorb(Known(ix.records, key), ix.records[OpenKey(e)])
          BY <4>4 DEF known, Put, Known
        <5>4. DOMAIN merged = Fields /\ \A f \in Fields : merged[f] = Or(e[f], Known(known, key)[f])
          BY <1>2, MergeGives DEF merged, Directed
        <5>5. {"cwd", "repo", "engine"} \subseteq Fields
          BY DEF Fields
        <5>6. merged.cwd = e.cwd /\ merged.engine = e.engine /\ e.cwd # Unknown
          BY <5>1, <5>4, <5>5, <1>3 DEF Or
        <5>7. Directed(merged) /\ About(merged, s, sessions, strays)
          BY <5>4, <5>6, <4>3 DEF Directed, About
        <5> QED BY <3>1, <4>3, <5>7
      <4>5. CASE ~absorbs
        <5>1. known = ix.records
          BY <4>5 DEF known
        <5>2. /\ Directed(Known(known, key))
              /\ s \notin strays => Known(known, key).cwd \in {Unknown, sessions[s].cwd}
          <6>1. CASE key \in DOMAIN ix.records
            BY <6>1, <5>1, <2>2 DEF Known, IndexFits, About
          <6>2. CASE key \notin DOMAIN ix.records
            <7>1. Known(known, key) = Blank
              BY <6>2, <5>1 DEF Known
            <7>2. "cwd" \in Fields
              BY DEF Fields
            <7> QED BY <7>1, <7>2, BlankIsDirected
          <6> QED BY <6>1, <6>2
        <5>3. Directed(merged) /\ About(merged, s, sessions, strays)
          BY <5>2, <4>3, <1>2, MergeFits DEF merged, About
        <5> QED BY <3>1, <4>3, <5>3
      <4> QED BY <4>4, <4>5
    <3>3. CASE e.id = Unknown
      <4>1. attr \in DOMAIN ix.ids /\ key = <<"id", ix.ids[attr]>>
        BY <3>3, <2>2, <1>4 DEF key
      <4>2. s = ix.ids[attr]
        BY <4>1, <2>2
      <4>3. /\ attr # Unknown /\ s \in DOMAIN sessions
            /\ attr[1] = sessions[s].engine
            /\ s \notin strays => attr[3] = sessions[s].cwd
        BY <4>1, <4>2 DEF IndexFits
      <4>4. e.engine = sessions[s].engine /\ (s \notin strays => e.cwd = sessions[s].cwd /\ e.cwd # Unknown)
        BY <4>3, <1>3
      <4>5. known = ix.records
        BY <3>3 DEF known, absorbs
      <4>6. Directed(Known(known, key))
        <5>1. CASE key \in DOMAIN ix.records
          BY <5>1, <4>5, <2>2 DEF Known, IndexFits
        <5>2. CASE key \notin DOMAIN ix.records
          BY <5>2, <4>5, BlankIsDirected DEF Known
        <5> QED BY <5>1, <5>2
      <4>7. sessions[s].engine \in Engine
        BY <4>3 DEF SessionsOK
      <4>8. Directed(merged) /\ About(merged, s, sessions, strays)
        BY <4>4, <4>6, <4>7, <1>2, MergeFits DEF merged
      <4> QED BY <3>1, <4>3, <4>8
    <3> QED BY <3>2, <3>3
  <2> QED BY <2>1, <2>2
<1>7. ASSUME NEW k \in DOMAIN Fold(e, ix).ids
      PROVE  /\ k # Unknown
             /\ Fold(e, ix).ids[k] \in DOMAIN sessions
             /\ k[1] = sessions[Fold(e, ix).ids[k]].engine
             /\ Fold(e, ix).ids[k] \notin strays => k[3] = sessions[Fold(e, ix).ids[k]].cwd
  <2>1. CASE e.id # Unknown /\ attr # Unknown /\ k = attr
    <3>1. Fold(e, ix).ids[k] = e.id
      BY <1>1, <2>1 DEF Put
    <3>2. e.id \in DOMAIN sessions /\ About(e, e.id, sessions, strays)
      BY <2>1 DEF EventFits
    <3> QED BY <2>1, <3>1, <3>2, <1>3 DEF About
  <2>2. CASE ~(e.id # Unknown /\ attr # Unknown /\ k = attr)
    <3>1. k \in DOMAIN ix.ids /\ Fold(e, ix).ids[k] = ix.ids[k]
      BY <1>1, <1>7, <2>2 DEF Put
    <3> QED BY <3>1 DEF IndexFits
  <2> QED BY <2>1, <2>2
<1> QED BY <1>6, <1>7 DEF IndexFits

\* A session that was made, and misfilings that grow, leave the index true.
LEMMA IndexGrows ==
    ASSUME NEW ix, NEW older, NEW newer, NEW strays, NEW more,
           Grows(older, newer), strays \subseteq more, IndexFits(ix, older, strays)
    PROVE  IndexFits(ix, newer, more)
BY DEF Grows, IndexFits, About

\* The same, of one record.
LEMMA AboutGrows ==
    ASSUME NEW r, NEW s, NEW older, NEW newer, NEW strays, NEW more,
           Grows(older, newer), strays \subseteq more, s \in DOMAIN older,
           About(r, s, older, strays)
    PROVE  About(r, s, newer, more)
BY DEF Grows, About

\* A new session.
LEMMA SessionAdded ==
    ASSUME NEW sessions, SessionsOK(sessions), NEW x, x.engine \in Engine,
           Len(sessions) + 1 \in Session
    PROVE  /\ SessionsOK(Append(sessions, x)) /\ Grows(sessions, Append(sessions, x))
           /\ DOMAIN Append(sessions, x) = DOMAIN sessions \cup {Len(sessions) + 1}
           /\ Append(sessions, x)[Len(sessions) + 1] = x
           /\ Len(sessions) + 1 \notin DOMAIN sessions
<1> DEFINE S == {sessions[s] : s \in DOMAIN sessions} \cup {x}
           more == Append(sessions, x)
<1>1. sessions \in Seq(S) /\ x \in S
  <2>1. sessions \in Seq({sessions[s] : s \in DOMAIN sessions})
    BY DEF SessionsOK
  <2> QED BY <2>1, SeqMonotonic
<1> HIDE DEF S
<1>2. Len(sessions) \in Nat /\ DOMAIN sessions = 1..Len(sessions)
  BY <1>1, LenProperties
<1>3. /\ more \in Seq(S) /\ Len(more) = Len(sessions) + 1
      /\ \A i \in 1..Len(sessions) : more[i] = sessions[i]
      /\ more[Len(sessions) + 1] = x
  BY <1>1
<1>4. DOMAIN more = 1..(Len(sessions) + 1)
  BY <1>3, LenProperties
<1>5. more \in Seq({more[s] : s \in DOMAIN more})
  <2>1. more \in [1..(Len(sessions) + 1) -> {more[s] : s \in DOMAIN more}]
    <3>1. more = [i \in DOMAIN more |-> more[i]]
      BY <1>3, LenProperties
    <3> HIDE DEF more
    <3> QED BY <3>1, <1>4
  <2> HIDE DEF more
  <2> QED BY <2>1, <1>2, SeqDef
<1> HIDE DEF more
<1>6. DOMAIN more = DOMAIN sessions \cup {Len(sessions) + 1} /\ Len(sessions) + 1 \notin DOMAIN sessions
  BY <1>2, <1>4
<1>7. \A s \in DOMAIN more : more[s].engine \in Engine
  BY <1>2, <1>3, <1>4, <1>6 DEF SessionsOK
<1>8. Len(more) <= MaxSessions
  BY <1>2, <1>3, HistoryAssumption DEF Session
<1>9. SessionsOK(more) /\ Grows(sessions, more)
  BY <1>2, <1>3, <1>5, <1>6, <1>7, <1>8 DEF SessionsOK, Grows
<1> QED BY <1>3, <1>6, <1>9 DEF more

\* A session whose transcript is written.
LEMMA SessionWritten ==
    ASSUME NEW sessions, SessionsOK(sessions), NEW s
    PROVE  LET after == [sessions EXCEPT ![s].written = TRUE]
           IN  SessionsOK(after) /\ Grows(sessions, after) /\ DOMAIN after = DOMAIN sessions
<1> DEFINE after == [sessions EXCEPT ![s].written = TRUE]
           S == {sessions[i] : i \in DOMAIN sessions}
<1>1. sessions \in Seq(S)
  BY DEF SessionsOK
<1> HIDE DEF S
<1>2. Len(sessions) \in Nat /\ DOMAIN sessions = 1..Len(sessions)
  BY <1>1, LenProperties
<1>3. DOMAIN after = DOMAIN sessions
  OBVIOUS
<1>4. \A i \in DOMAIN sessions : after[i].engine = sessions[i].engine /\ after[i].cwd = sessions[i].cwd
  OBVIOUS
<1>5. after = [i \in DOMAIN after |-> after[i]]
  OBVIOUS
<1> HIDE DEF after
<1>6. after \in Seq({after[i] : i \in DOMAIN after})
  <2>1. after \in [1..Len(sessions) -> {after[i] : i \in DOMAIN after}]
    BY <1>2, <1>3, <1>5
  <2> QED BY <2>1, <1>2, SeqDef
<1>7. Len(after) = Len(sessions)
  <2>1. DOMAIN after = 1..Len(after) /\ Len(after) \in Nat
    BY <1>6, LenProperties
  <2>2. \A m, k \in Nat : 1..m = 1..k => m = k
    <3> TAKE m, k \in Nat
    <3>1. 1..m = 1..k => (k > 0 => k \in 1..m) /\ (m > 0 => m \in 1..k)
      OBVIOUS
    <3> QED BY <3>1
  <2> QED BY <2>1, <2>2, <1>2, <1>3
<1>8. SessionsOK(after) /\ Grows(sessions, after)
  BY <1>3, <1>4, <1>6, <1>7 DEF SessionsOK, Grows
<1> QED BY <1>3, <1>8 DEF after

\* The sessions made are numbered from one on.
LEMMA NumberedFromOne ==
    ASSUME SessionsOK(made)
    PROVE  /\ Next1 = Len(made) + 1 /\ Made \subseteq Session /\ Len(made) \in Nat
           /\ Unknown \notin Made \cup {Next1}
<1>1. Len(made) \in Nat /\ DOMAIN made = 1..Len(made)
  BY LenProperties DEF SessionsOK
<1>2. Cardinality(1..Len(made)) = Len(made)
  <2>1. \A m \in Nat : Cardinality(1..m) = m
    <3> TAKE m \in Nat
    <3> QED BY FS_Interval
  <2> QED BY <1>1, <2>1
<1>3. Len(made) <= MaxSessions
  BY DEF SessionsOK
<1> QED BY <1>1, <1>2, <1>3, HistoryAssumption DEF Next1, Made, Session

-----------------------------------------------------------------------------

\* A source says of a session what is so, or nothing.
SourceFits(r, s) ==
    /\ Directed(r)
    /\ r.engine \in {Unknown, made[s].engine}
    /\ s \notin misfiled => r.cwd \in {Unknown, made[s].cwd}

\* Two sources, merged.
LEMMA SourcesMerge ==
    ASSUME NEW s, NEW base, NEW r, SourceFits(base, s), SourceFits(r, s)
    PROVE  SourceFits(Merge(base, r), s)
<1>1. DOMAIN Merge(base, r) = Fields /\ \A f \in Fields : Merge(base, r)[f] = Or(r[f], base[f])
  BY MergeGives DEF SourceFits, Directed
<1>2. {"cwd", "repo", "engine"} \subseteq Fields
  BY DEF Fields
<1> QED BY <1>1, <1>2 DEF SourceFits, Directed, Or

\* A transcript names the engine that keeps it, and no directory but its own.
LEMMA TranscriptFits ==
    ASSUME HistoryInv, NEW s \in Made, NEW cwd \in {Unknown, made[s].cwd}
    PROVE  /\ SourceFits(TranscriptRow(s, cwd), s)
           /\ TranscriptRow(s, cwd).id # Unknown => TranscriptRow(s, cwd).engine = made[s].engine
BY BlankIsDirected DEF TranscriptRow, SourceFits, Directed, SessionEvent, Fields

\* The live process whose marker names a session (rowsFromListings).
LEMMA ListingFits ==
    ASSUME HistoryInv, NEW s \in Made
    PROVE  /\ SourceFits(Listing(s), s)
           /\ Listing(s).id # Unknown => Listing(s).engine = made[s].engine
<1> DEFINE ns == {n \in Name : process[n] # Unknown /\ identity[n] # Unknown /\ marker[n] = s}
<1>0. s # Unknown
  BY NumberedFromOne, HistoryAssumption DEF HistoryInv
<1>1. CASE ns = {}
  <2>1. Listing(s) = Blank
    BY <1>1 DEF Listing
  <2>2. {"id", "cwd", "engine"} \subseteq Fields
    BY DEF Fields
  <2> QED BY <2>1, <2>2, BlankIsDirected DEF SourceFits
<1>2. CASE ns # {}
  <2> DEFINE n == CHOOSE n \in ns : TRUE
  <2>1. n \in ns
    BY <1>2
  <2>2. Listing(s) = [identity[n] EXCEPT !.id = s]
    BY <1>2 DEF Listing
  <2> HIDE DEF n
  <2>3. n \in Name /\ identity[n] # Unknown /\ marker[n] = s
    BY <2>1
  <2>4. LaunchRecord(identity[n]) /\ About(identity[n], s, made, misfiled)
    BY <2>3, <1>0 DEF HistoryInv, Names, NameFits
  <2>5. /\ DOMAIN Listing(s) = Fields
        /\ Listing(s).engine = identity[n].engine /\ Listing(s).cwd = identity[n].cwd
    BY <2>2, <2>4 DEF LaunchRecord, Fields
  <2> QED BY <2>4, <2>5 DEF LaunchRecord, About, SourceFits, Directed
<1> QED BY <1>1, <1>2

\* The record the index folds to for a session (listHistoryIndexRecords).
LEMMA RecordFits ==
    ASSUME HistoryInv, NEW s \in Made
    PROVE  /\ SourceFits(Known(Records, <<"id", s>>), s)
           /\ Known(Records, <<"id", s>>).id # Unknown
                 => Known(Records, <<"id", s>>).engine = made[s].engine
<1>0. s \in Session
  BY NumberedFromOne DEF HistoryInv
<1>1. CASE <<"id", s>> \in DOMAIN Records
  BY <1>0, <1>1 DEF Known, Records, HistoryInv, IndexFits, About, SourceFits
<1>2. CASE <<"id", s>> \notin DOMAIN Records
  <2>1. Known(Records, <<"id", s>>) = Blank
    BY <1>2 DEF Known
  <2>2. {"id", "cwd", "engine"} \subseteq Fields
    BY DEF Fields
  <2> QED BY <2>1, <2>2, BlankIsDirected DEF SourceFits
<1> QED BY <1>1, <1>2

\* A row of a session is the session's, and has no repository without a directory.
LEMMA RowFits ==
    ASSUME HistoryInv, NEW s \in Made
    PROVE  /\ Directed(Row(s))
           /\ Row(s).id = s => About(Row(s), s, made, misfiled)
<1> DEFINE t == IF made[s].engine = "codex" THEN CodexRow(s) ELSE ClaudeRow(s)
           l == Listing(s)
           k == Known(Records, <<"id", s>>)
           tl == Merge(t, l)
<1>0. s # Unknown /\ made[s].engine # Unknown
  BY NumberedFromOne, HistoryAssumption DEF HistoryInv, SessionsOK, Made
<1>1. SourceFits(t, s) /\ (t.id # Unknown => t.engine = made[s].engine)
  <2>1. PICK cwd \in {Unknown, made[s].cwd} : t = TranscriptRow(s, cwd)
    BY DEF CodexRow, ClaudeRow
  <2> QED BY <2>1, TranscriptFits
<1>2. SourceFits(l, s) /\ (l.id # Unknown => l.engine = made[s].engine)
  BY ListingFits
<1>3. SourceFits(k, s) /\ (k.id # Unknown => k.engine = made[s].engine)
  BY RecordFits
<1>4. Row(s) = Merge(tl, k)
  BY DEF Row
<1> HIDE DEF t, l, k
<1>5. SourceFits(tl, s)
  BY <1>1, <1>2, SourcesMerge
<1>6. {"id", "cwd", "engine"} \subseteq Fields
  BY DEF Fields
<1>7. tl.id = Or(l.id, t.id) /\ tl.engine = Or(l.engine, t.engine)
  BY <1>2, <1>6, MergeGives DEF SourceFits, Directed
<1> HIDE DEF tl
<1>8. SourceFits(Row(s), s)
  BY <1>3, <1>4, <1>5, SourcesMerge
<1>9. Row(s).id = Or(k.id, tl.id) /\ Row(s).engine = Or(k.engine, tl.engine)
  BY <1>3, <1>4, <1>6, MergeGives DEF SourceFits, Directed
<1>10. Row(s).id = s => Row(s).engine = made[s].engine
  BY <1>0, <1>1, <1>2, <1>3, <1>5, <1>7, <1>9 DEF Or, SourceFits
<1> QED BY <1>8, <1>10 DEF SourceFits, About

-----------------------------------------------------------------------------

\* What every step does: sessions and misfilings are added.
Onward ==
    /\ SessionsOK(made') /\ DOMAIN made' \subseteq Session
    /\ Grows(made, made') /\ misfiled \subseteq misfiled'

\* What a step may write to the index: an event of a session it leaves made, or of none.
Writes(e) == EventFits(e, made', misfiled') /\ index' \in {index, Fold(e, index)}

\* A step that makes no session.
LEMMA SameSessions ==
    ASSUME HistoryInv, made' = made, misfiled \subseteq misfiled'
    PROVE  Onward
<1>1. DOMAIN made \subseteq Session
  BY NumberedFromOne DEF HistoryInv, Made
<1> QED BY <1>1 DEF Onward, HistoryInv, Grows

\* The index after a step that writes to it an event of a session, or of none.
LEMMA LogFits ==
    ASSUME HistoryInv, Onward, NEW e, EventFits(e, made', misfiled'), NEW kept, Log(e, kept)
    PROVE  IndexFits(index', made', misfiled')
<1>1. IndexFits(index, made', misfiled')
  BY IndexGrows DEF HistoryInv, Onward
<1>2. IndexFits(Fold(e, index), made', misfiled')
  BY <1>1, FoldFits DEF Onward
<1> QED BY <1>1, <1>2 DEF Log

\* A name that a step leaves alone.
LEMMA NameStays ==
    ASSUME HistoryInv, Onward, NEW n \in Name,
           identity'[n] = identity[n], snapshot'[n] = snapshot[n],
           marker'[n] = marker[n], process'[n] = process[n]
    PROVE  NameFits(n)'
<1>1. NameFits(n)
  BY DEF HistoryInv, Names
<1>2. Made \subseteq DOMAIN made' /\ \A s \in Made : made'[s].engine = made[s].engine
  BY DEF Onward, Grows, Made
<1>3. marker[n] # Unknown => About(identity[n], marker[n], made', misfiled')
  BY <1>1, AboutGrows DEF NameFits, Onward, Made
<1> QED BY <1>1, <1>2, <1>3 DEF NameFits, Occupied, Made

\* A process comes up under a name, for the session id, one of the directory home, or for none.
Launches(n, engine, id, home, repo, cwd, slug) ==
    /\ ComesUp(n, engine, id, home, repo, cwd, slug)
    /\ marker' = [marker EXCEPT ![n] = id] /\ snapshot' = snapshot
    /\ engine \in Engine /\ cwd # Unknown
    /\ IF id = Unknown THEN engine = "codex"
       ELSE id \in DOMAIN made' /\ made'[id].engine = engine /\ made'[id].cwd = home

\* The record a name has then.
LEMMA ComesUpFits ==
    ASSUME HistoryInv, SessionsOK(made'), DOMAIN made' \subseteq Session, Grows(made, made'),
           NEW n \in Name, NEW engine, NEW id, NEW home, NEW repo, NEW cwd, NEW slug,
           Launches(n, engine, id, home, repo, cwd, slug)
    PROVE  /\ Onward /\ Names'
           /\ engine = "codex" /\ id \notin misfiled' => cwd = home
<1>0. /\ ComesUp(n, engine, id, home, repo, cwd, slug)
      /\ marker' = [marker EXCEPT ![n] = id] /\ snapshot' = snapshot
      /\ engine \in Engine /\ cwd # Unknown
      /\ id # Unknown => id \in DOMAIN made' /\ made'[id].engine = engine /\ made'[id].cwd = home
  BY DEF Launches
<1>1. /\ DOMAIN identity = Name /\ DOMAIN snapshot = Name /\ DOMAIN marker = Name /\ DOMAIN process = Name
      /\ NameFits(n)
  BY DEF HistoryInv, Names
<1> DEFINE new == SessionEvent(Unknown, engine, n, repo, cwd, slug)
<1>2. LaunchRecord(new) /\ new.engine = engine /\ new.cwd = cwd
  BY <1>0, HistoryAssumption DEF LaunchRecord, SessionEvent, Fields
<1> HIDE DEF new
<1>3. /\ identity' = identity /\ identity[n] # Unknown /\ engine = "claude"
      \/ identity' = [identity EXCEPT ![n] = new]
  BY <1>0 DEF ComesUp, Claims, new
<1>4. identity[n] # Unknown => identity[n].engine \in {Unknown, engine}
  BY <1>0 DEF ComesUp, Claims, Or
<1>5. LaunchRecord(identity'[n]) /\ identity'[n].engine = engine
  BY <1>1, <1>2, <1>3, <1>4, HistoryAssumption DEF NameFits, LaunchRecord
<1>6. misfiled' = Misfiles(id, identity'[n], home)
  BY <1>0 DEF ComesUp
<1>7. misfiled \subseteq misfiled' /\ (id \notin misfiled' => identity'[n].cwd = home)
  BY <1>6 DEF Misfiles
<1>8. Onward
  BY <1>7 DEF Onward
<1>9. process' = [process EXCEPT ![n] = [engine |-> engine, session |-> id, cwd |-> cwd,
                                         at |-> WorksIn(engine, repo, cwd, slug)]]
  BY <1>0 DEF ComesUp
<1>10. /\ process'[n].engine = engine /\ process'[n].session = id /\ marker'[n] = id
       /\ {"engine", "session"} \subseteq DOMAIN process'[n]
  BY <1>0, <1>1, <1>9
<1>11. id # Unknown => About(identity'[n], id, made', misfiled')
  BY <1>0, <1>5, <1>7 DEF About
<1>12. NameFits(n)'
  BY <1>0, <1>1, <1>5, <1>10, <1>11 DEF NameFits, Occupied, Made
<1>13. ASSUME NEW m \in Name, m # n PROVE NameFits(m)'
  BY <1>0, <1>1, <1>3, <1>8, <1>9, <1>13, NameStays
<1>14. DOMAIN identity' = Name /\ DOMAIN snapshot' = Name /\ DOMAIN marker' = Name /\ DOMAIN process' = Name
  BY <1>0, <1>1, <1>3, <1>9
<1>15. Names'
  BY <1>12, <1>13, <1>14 DEF Names
<1>16. engine = "codex" /\ id \notin misfiled' => cwd = home
  BY <1>0, <1>1, <1>2, <1>3, <1>7
<1> QED BY <1>8, <1>15, <1>16

-----------------------------------------------------------------------------

\* The events the verbs write.
LEMMA EventFields ==
    ASSUME NEW id, NEW engine, NEW name, NEW repo, NEW cwd, NEW x
    PROVE  LET open == SessionEvent(id, engine, name, repo, cwd, x)
               close == CloseEvent(id, engine, name, repo, cwd, x)
           IN  /\ open.id = id /\ open.engine = engine /\ open.cwd = cwd /\ open.status = Unknown
               /\ close.id = id /\ close.engine = engine /\ close.cwd = cwd /\ close.name = name
               /\ close.status = x
               /\ (cwd = Unknown => repo = Unknown) => Directed(open) /\ Directed(close)
BY DEF SessionEvent, CloseEvent, Directed, Fields

\* A spawn writes down the session it makes, or a name without one (spawnVerb).
LEMMA SpawnKeeps ==
    ASSUME HistoryInv, NEW n \in Name, NEW engine \in Engine, NEW repo \in Repo,
           NEW slug \in {Unknown, n}, NEW prompted \in BOOLEAN, NEW kept,
           Spawn(n, engine, repo, slug, prompted, kept)
    PROVE  HistoryInv' /\ Onward /\ \E e : Writes(e) /\ e.status = Unknown
<1> DEFINE cwd == Tree(repo, slug)
           id == IF engine = "codex" /\ ~prompted THEN Unknown ELSE Next1
           e == SessionEvent(id, engine, n, repo, cwd, slug)
<1>0. Next1 = Len(made) + 1 /\ Made \subseteq Session /\ SessionsOK(made)
  BY NumberedFromOne DEF HistoryInv
<1>1. cwd # Unknown
  BY HistoryAssumption DEF Tree
<1>2. /\ IF id = Unknown THEN UNCHANGED made ELSE Opens(engine, cwd, prompted)
      /\ ComesUp(n, engine, id, cwd, repo, cwd, slug)
      /\ marker' = [marker EXCEPT ![n] = id]
      /\ Log(e, kept) /\ snapshot' = snapshot
  BY DEF Spawn
<1> HIDE DEF cwd, e
<1>3. /\ SessionsOK(made') /\ DOMAIN made' \subseteq Session /\ Grows(made, made')
      /\ id # Unknown => id \in DOMAIN made' /\ made'[id].engine = engine /\ made'[id].cwd = cwd
  <2>1. CASE id = Unknown
    BY <1>0, <1>2, <2>1 DEF Grows, Made
  <2>2. CASE id # Unknown
    <3> DEFINE x == [engine |-> engine, cwd |-> cwd, written |-> prompted]
    <3>1. id = Len(made) + 1 /\ Len(made) + 1 \in Session /\ made' = Append(made, x)
      BY <1>0, <1>2, <2>2 DEF Opens
    <3>2. x.engine \in Engine /\ x.engine = engine /\ x.cwd = cwd
      OBVIOUS
    <3> HIDE DEF x, id
    <3> QED BY <1>0, <3>1, <3>2, SessionAdded DEF Made
  <2> QED BY <2>1, <2>2
<1>4. id = Unknown => engine = "codex"
  <2>1. CASE engine = "codex"
    BY <2>1
  <2>2. CASE engine # "codex"
    BY <2>2, NumberedFromOne DEF HistoryInv
  <2> QED BY <2>1, <2>2
<1> HIDE DEF id
<1>5. Onward /\ Names'
  <2>1. Launches(n, engine, id, cwd, repo, cwd, slug)
    BY <1>1, <1>2, <1>3, <1>4 DEF Launches
  <2> QED BY <1>3, <2>1, ComesUpFits
<1>6. EventFits(e, made', misfiled')
  BY <1>1, <1>3, EventFields DEF e, EventFits, About
<1>7. IndexFits(index', made', misfiled')
  BY <1>2, <1>5, <1>6, LogFits
<1>8. Writes(e) /\ e.status = Unknown
  BY <1>2, <1>6, EventFields DEF e, Writes, Log
<1> QED BY <1>3, <1>5, <1>7, <1>8 DEF HistoryInv

\* A send logs the session of the marker, which a first prompt may make (sendVerb).
LEMMA SendKeeps ==
    ASSUME HistoryInv, NEW n \in Name, NEW kept, Send(n, kept)
    PROVE  HistoryInv' /\ Onward /\ \E e : Writes(e) /\ e.status = Unknown
<1> DEFINE p == process[n]
           r == identity[n]
           s == Or(p.session, Next1)
           e == SessionEvent(marker'[n], p.engine, n, r.repo, r.cwd, r.slug)
<1>1. /\ IF p.session = Unknown THEN Opens(p.engine, p.at, TRUE)
         ELSE made' = [made EXCEPT ![s].written = TRUE]
      /\ process' = [process EXCEPT ![n].session = s]
      /\ marker' = IF p.engine = "codex" THEN [marker EXCEPT ![n] = s] ELSE marker
      /\ Log(e, kept)
      /\ misfiled' = IF p.session = Unknown THEN Misfiles(s, r, p.at) ELSE misfiled
      /\ identity' = identity /\ snapshot' = snapshot /\ Occupied(n)
  BY DEF Send
<1> HIDE DEF e
<1>2. /\ Next1 = Len(made) + 1 /\ Made \subseteq Session /\ Unknown \notin Made \cup {Next1}
      /\ SessionsOK(made)
  BY NumberedFromOne DEF HistoryInv
<1>3. /\ DOMAIN identity = Name /\ DOMAIN snapshot = Name /\ DOMAIN marker = Name /\ DOMAIN process = Name
      /\ NameFits(n)
  BY DEF HistoryInv, Names
<1>4. /\ LaunchRecord(r) /\ p.engine = r.engine /\ p.engine \in Engine
      /\ {"engine", "session"} \subseteq DOMAIN p
      /\ p.session # Unknown => p.session \in Made /\ made[p.session].engine = p.engine
      /\ p.engine = "codex" => marker[n] = p.session
  BY <1>1, <1>3 DEF NameFits, LaunchRecord
<1>5. /\ Onward /\ s # Unknown /\ s \in DOMAIN made' /\ made'[s].engine = p.engine
      /\ p.session = Unknown /\ s \notin misfiled' => r.cwd = made'[s].cwd
  <2>1. CASE p.session = Unknown
    <3> DEFINE x == [engine |-> p.engine, cwd |-> p.at, written |-> TRUE]
    <3>1. s = Len(made) + 1 /\ Len(made) + 1 \in Session /\ made' = Append(made, x)
      BY <1>1, <1>2, <2>1 DEF Opens, Or
    <3>2. x.engine \in Engine /\ x.engine = p.engine /\ x.cwd = p.at
      BY <1>4
    <3>3. misfiled \subseteq misfiled' /\ (s \notin misfiled' => r.cwd = p.at)
      BY <1>1, <2>1 DEF Misfiles
    <3>4. s # Unknown
      BY <1>2, <2>1 DEF Or
    <3> HIDE DEF x, s, p, r
    <3>5. /\ SessionsOK(made') /\ Grows(made, made') /\ DOMAIN made' = Made \cup {s} /\ made'[s] = x
      BY <1>2, <3>1, <3>2, SessionAdded DEF Made
    <3> QED BY <1>2, <3>1, <3>2, <3>3, <3>4, <3>5 DEF Onward
  <2>2. CASE p.session # Unknown
    <3>1. s = p.session /\ made' = [made EXCEPT ![s].written = TRUE] /\ misfiled' = misfiled
      BY <1>1, <2>2 DEF Or
    <3> HIDE DEF s, p, r
    <3>2. SessionsOK(made') /\ Grows(made, made') /\ DOMAIN made' = DOMAIN made
      BY <1>2, <3>1, SessionWritten
    <3>3. made'[s].engine = p.engine /\ s \in Made
      BY <1>4, <2>2, <3>1, <3>2 DEF Grows, Made
    <3> QED BY <1>2, <2>2, <3>1, <3>2, <3>3 DEF Onward, Made
  <2> QED BY <2>1, <2>2
<1>6. marker'[n] # Unknown => marker'[n] \in DOMAIN made' /\ About(r, marker'[n], made', misfiled')
  <2>1. marker[n] # Unknown => marker[n] \in DOMAIN made' /\ About(r, marker[n], made', misfiled')
    BY <1>3, <1>5, AboutGrows DEF NameFits, Onward, Grows, Made
  <2>2. CASE marker'[n] = marker[n]
    BY <2>1, <2>2
  <2>3. CASE marker'[n] # marker[n]
    <3>1. marker'[n] = s /\ p.engine = "codex"
      BY <1>1, <1>3, <2>3
    <3>2. p.session = Unknown
      BY <1>4, <2>3, <3>1 DEF Or
    <3> QED BY <1>4, <1>5, <3>1, <3>2 DEF About
  <2> QED BY <2>2, <2>3
<1>7. /\ process'[n].engine = p.engine /\ process'[n].session = s
      /\ {"engine", "session"} \subseteq DOMAIN process'[n]
      /\ p.engine = "codex" => marker'[n] = s
  BY <1>1, <1>3, <1>4
<1>8. NameFits(n)'
  BY <1>1, <1>3, <1>4, <1>5, <1>6, <1>7 DEF NameFits, Made
<1>9. ASSUME NEW m \in Name, m # n PROVE NameFits(m)'
  <2>1. process'[m] = process[m] /\ marker'[m] = marker[m]
    BY <1>1, <1>3, <1>9
  <2> QED BY <1>1, <1>5, <2>1, NameStays
<1>10. Names'
  BY <1>1, <1>3, <1>8, <1>9 DEF Names
<1>11. EventFits(e, made', misfiled')
  <2>1. r.cwd # Unknown /\ p.engine = r.engine
    BY <1>4 DEF LaunchRecord
  <2> QED BY <2>1, <1>6, EventFields DEF e, EventFits, About
<1>12. IndexFits(index', made', misfiled')
  BY <1>1, <1>5, <1>11, LogFits
<1>13. Writes(e) /\ e.status = Unknown
  BY <1>1, <1>11, EventFields DEF e, Writes, Log
<1> QED BY <1>5, <1>10, <1>12, <1>13 DEF HistoryInv, Onward

\* A /clear moves the marker to the new session, or leaves it (on-session-start.sh).
LEMMA ClearKeeps ==
    ASSUME HistoryInv, NEW n \in Name, Clear(n)
    PROVE  HistoryInv' /\ Onward
<1> DEFINE p == process[n]
           x == [engine |-> "claude", cwd |-> p.at, written |-> FALSE]
<1>1. /\ Occupied(n) /\ p.engine = "claude" /\ Next1 \in Session /\ made' = Append(made, x)
      /\ process' = [process EXCEPT ![n].session = Next1]
      /\ \/ marker' = [marker EXCEPT ![n] = Next1] /\ misfiled' = Misfiles(Next1, identity[n], p.at)
         \/ misfiled' = misfiled \cup {Next1, marker[n]} /\ marker' = marker
      /\ index' = index /\ identity' = identity /\ snapshot' = snapshot
  BY DEF Clear, Opens
<1>2. /\ Next1 = Len(made) + 1 /\ Made \subseteq Session /\ Unknown \notin Made \cup {Next1}
      /\ SessionsOK(made)
  BY NumberedFromOne DEF HistoryInv
<1>3. x.engine \in Engine /\ x.engine = "claude" /\ x.cwd = p.at
  BY DEF Engine
<1>4. /\ SessionsOK(made') /\ Grows(made, made') /\ DOMAIN made' = Made \cup {Next1} /\ made'[Next1] = x
  <2> HIDE DEF x
  <2> QED BY <1>1, <1>2, <1>3, SessionAdded DEF Made
<1> HIDE DEF x
<1>5. Onward
  BY <1>1, <1>2, <1>4 DEF Onward, Misfiles
<1>6. /\ DOMAIN identity = Name /\ DOMAIN snapshot = Name /\ DOMAIN marker = Name /\ DOMAIN process = Name
      /\ NameFits(n)
  BY DEF HistoryInv, Names
<1>7. /\ LaunchRecord(identity[n]) /\ identity[n].engine = "claude"
      /\ {"engine", "session"} \subseteq DOMAIN p
  BY <1>1, <1>6 DEF NameFits
<1>8. marker'[n] # Unknown => marker'[n] \in DOMAIN made' /\ About(identity[n], marker'[n], made', misfiled')
  <2>1. CASE marker'[n] = marker[n]
    BY <1>5, <1>6, <2>1, AboutGrows DEF NameFits, Onward, Grows, Made
  <2>2. CASE marker'[n] # marker[n]
    <3>1. marker'[n] = Next1 /\ misfiled' = Misfiles(Next1, identity[n], p.at)
      BY <1>1, <1>6, <2>2
    <3> QED BY <1>3, <1>4, <1>7, <3>1 DEF Misfiles, About
  <2> QED BY <2>1, <2>2
<1>9. /\ process'[n].engine = "claude" /\ process'[n].session = Next1
      /\ {"engine", "session"} \subseteq DOMAIN process'[n]
  BY <1>1, <1>6, <1>7
<1>10. NameFits(n)'
  BY <1>1, <1>3, <1>4, <1>6, <1>7, <1>8, <1>9 DEF NameFits, Made
<1>11. ASSUME NEW m \in Name, m # n PROVE NameFits(m)'
  <2>1. process'[m] = process[m] /\ marker'[m] = marker[m]
    BY <1>1, <1>6, <1>11
  <2> QED BY <1>1, <1>5, <2>1, NameStays
<1>12. Names'
  BY <1>1, <1>6, <1>10, <1>11 DEF Names
<1>13. IndexFits(index', made', misfiled')
  BY <1>1, <1>5, IndexGrows DEF HistoryInv, Onward
<1> QED BY <1>4, <1>5, <1>12, <1>13 DEF HistoryInv

\* A process that dies leaves its files.
LEMMA DiesKeeps ==
    ASSUME HistoryInv, NEW n \in Name, Dies(n)
    PROVE  HistoryInv' /\ Onward
<1>1. /\ process' = [process EXCEPT ![n] = Unknown]
      /\ UNCHANGED <<index, identity, snapshot, marker, made, misfiled>>
  BY DEF Dies
<1>2. Onward
  BY <1>1, SameSessions
<1>3. DOMAIN process = Name /\ NameFits(n)
  BY DEF HistoryInv, Names
<1>4. NameFits(n)'
  BY <1>1, <1>3 DEF NameFits, Occupied, Made
<1>5. ASSUME NEW m \in Name, m # n PROVE NameFits(m)'
  BY <1>1, <1>2, <1>3, <1>5, NameStays
<1>6. Names'
  BY <1>1, <1>4, <1>5 DEF HistoryInv, Names
<1> QED BY <1>1, <1>2, <1>6 DEF HistoryInv

\* A kill closes the session of the marker, wherever it is cut off (killVerb).
LEMMA KillKeeps ==
    ASSUME HistoryInv, NEW n \in Name, NEW status, NEW upTo, NEW kept, KillName(n, status, upTo, kept)
    PROVE  /\ HistoryInv' /\ Onward
           /\ LET r == Or(identity[n], Blank)
                  engine == IF Occupied(n) THEN process[n].engine ELSE r.engine
              IN  EventFits(CloseEvent(marker[n], engine, n, r.repo, r.cwd, status), made', misfiled')
<1> DEFINE r == Or(identity[n], Blank)
           engine == IF Occupied(n) THEN process[n].engine ELSE r.engine
           e == CloseEvent(marker[n], engine, n, r.repo, r.cwd, status)
<1>1. /\ Occupied(n) \/ identity[n] # Unknown
      /\ process' = [process EXCEPT ![n] = Unknown]
      /\ marker' = [marker EXCEPT ![n] = Unknown]
      /\ snapshot' = snapshot \/ (identity[n] # Unknown /\ snapshot' = [snapshot EXCEPT ![n] = identity[n]])
      /\ identity' = identity \/ identity' = [identity EXCEPT ![n] = Unknown]
      /\ made' = made /\ misfiled' = misfiled
  BY DEF KillName
<1>0. index' = index \/ Log(e, kept)
  BY Zenon DEF KillName, CloseId
<1> HIDE DEF e
<1>2. Onward
  BY <1>1, SameSessions
<1>3. /\ DOMAIN identity = Name /\ DOMAIN snapshot = Name /\ DOMAIN marker = Name /\ DOMAIN process = Name
      /\ NameFits(n)
  BY DEF HistoryInv, Names
<1>4. NameFits(n)'
  BY <1>1, <1>3 DEF NameFits, Occupied, LaunchRecord
<1>5. ASSUME NEW m \in Name, m # n PROVE NameFits(m)'
  BY <1>1, <1>2, <1>3, <1>5, NameStays
<1>6. Names'
  BY <1>1, <1>3, <1>4, <1>5 DEF Names
<1>7. ASSUME identity[n] # Unknown PROVE EventFits(e, made', misfiled')
  <2>1. r = identity[n] /\ LaunchRecord(r) /\ engine = r.engine
    BY <1>3, <1>7 DEF NameFits, Or
  <2>2. marker[n] # Unknown => marker[n] \in DOMAIN made /\ About(r, marker[n], made, misfiled)
    BY <1>3, <2>1 DEF NameFits, Made
  <2>3. r.cwd # Unknown
    BY <2>1 DEF LaunchRecord
  <2> HIDE DEF r, engine
  <2> QED BY <1>1, <2>1, <2>2, <2>3, EventFields DEF e, EventFits, About
<1>8. ASSUME identity[n] = Unknown PROVE EventFits(e, made', misfiled')
  <2>1. r = Blank /\ engine = identity[n].engine
    BY <1>1, <1>3, <1>8 DEF NameFits, Or
  <2>2. marker[n] # Unknown => marker[n] \in DOMAIN made /\ engine = made[marker[n]].engine
    BY <1>3, <2>1 DEF NameFits, About, Made
  <2>3. r.cwd = Unknown /\ r.repo = Unknown
    BY <2>1 DEF Blank, SessionEvent
  <2> HIDE DEF r, engine
  <2> QED BY <1>1, <2>2, <2>3, EventFields DEF e, EventFits, About
<1>9. EventFits(e, made', misfiled')
  BY <1>7, <1>8
<1>10. IndexFits(index', made', misfiled')
  BY <1>0, <1>1, <1>2, <1>9, LogFits DEF HistoryInv
<1> QED BY <1>1, <1>2, <1>6, <1>9, <1>10 DEF HistoryInv, e

\* A close by id takes the engine and the directory from the row.
LEMMA CloseByIdKeeps ==
    ASSUME HistoryInv, NEW s \in Made, NEW status, NEW kept, CloseById(s, status, kept)
    PROVE  HistoryInv' /\ Onward /\ \E e : Writes(e) /\ e.id = s /\ e.status = status
<1> DEFINE row == Row(s)
           e == CloseEvent(s, row.engine, row.name, row.repo, row.cwd, status)
<1>1. /\ row.id = s /\ Log(e, kept)
      /\ UNCHANGED <<identity, snapshot, marker, process, made, misfiled>>
  BY DEF CloseById
<1>2. Onward
  BY <1>1, SameSessions
<1>3. Directed(row) /\ About(row, s, made, misfiled)
  BY <1>1, RowFits
<1> HIDE DEF row, e
<1>4. EventFits(e, made', misfiled')
  BY <1>1, <1>3, EventFields DEF e, EventFits, About, Directed, Made
<1>5. IndexFits(index', made', misfiled')
  BY <1>1, <1>2, <1>4, LogFits
<1>6. Names'
  <2>1. ASSUME NEW m \in Name PROVE NameFits(m)'
    BY <1>1, <1>2, NameStays
  <2> QED BY <1>1, <2>1 DEF HistoryInv, Names
<1>7. Writes(e) /\ e.id = s /\ e.status = status
  BY <1>1, <1>4, EventFields DEF e, Writes, Log
<1> QED BY <1>1, <1>2, <1>5, <1>6, <1>7 DEF HistoryInv

\* A resume by a row takes up the session the row names (resume.ts).
LEMMA ResumeRowKeeps ==
    ASSUME HistoryInv, NEW s \in Made, NEW n \in Name, NEW kept, ResumeRow(s, n, kept)
    PROVE  HistoryInv' /\ Onward /\ \E e : Writes(e) /\ e.status = Unknown
<1> DEFINE row == Row(s)
           engine == row.engine
           home == made[s].cwd
           repo == Or(row.repo, row.cwd)
           cwd == Or(row.cwd, repo)
           slug == SlugFor(n, row.slug)
           e == SessionEvent(s, row.engine, n, repo, cwd, slug)
<1>1. /\ row.id = s /\ repo # Unknown /\ engine = made[s].engine
      /\ engine = "claude" => cwd = home
      /\ ComesUp(n, engine, s, home, repo, cwd, slug)
      /\ marker' = [marker EXCEPT ![n] = s]
      /\ Log(e, kept) /\ snapshot' = snapshot /\ made' = made
  BY DEF ResumeRow
<1>2. Made \subseteq Session /\ Unknown \notin Made /\ SessionsOK(made)
  BY NumberedFromOne DEF HistoryInv
<1>3. Directed(row) /\ About(row, s, made, misfiled)
  BY <1>1, RowFits
<1>4. cwd # Unknown
  BY <1>1 DEF Or
<1>5. engine \in Engine
  BY <1>1, <1>2 DEF SessionsOK, Made
<1>6. SessionsOK(made') /\ DOMAIN made' \subseteq Session /\ Grows(made, made')
  BY <1>1, <1>2 DEF Grows, Made
<1> HIDE DEF row, engine, home, repo, cwd, slug, e
<1>7. Onward /\ Names' /\ (engine = "codex" /\ s \notin misfiled' => cwd = home)
  <2>1. s \in DOMAIN made' /\ made'[s].engine = engine /\ made'[s].cwd = home /\ s # Unknown
    BY <1>1, <1>2 DEF Made, home
  <2>2. Launches(n, engine, s, home, repo, cwd, slug)
    BY <1>1, <1>4, <1>5, <2>1 DEF Launches
  <2> QED BY <1>6, <2>2, ComesUpFits
<1>8. EventFits(e, made', misfiled')
  <2>1. s \notin misfiled' => cwd = home
    BY <1>1, <1>5, <1>7 DEF Engine
  <2>2. e.id = s /\ e.engine = engine /\ e.cwd = cwd /\ Directed(e)
    BY <1>4, EventFields DEF e, engine
  <2> QED BY <1>1, <2>1, <2>2 DEF home, EventFits, About, Made
<1>9. IndexFits(index', made', misfiled')
  BY <1>1, <1>7, <1>8, LogFits
<1>10. Writes(e) /\ e.status = Unknown
  BY <1>1, <1>8, EventFields DEF e, Writes, Log
<1> QED BY <1>6, <1>7, <1>9, <1>10 DEF HistoryInv

\* A resume by a name takes up the latest session of a directory (resume.ts).
LEMMA ResumeLatestKeeps ==
    ASSUME HistoryInv, NEW n \in Name, NEW s \in Made, NEW kept, ResumeLatest(n, s, kept)
    PROVE  HistoryInv' /\ Onward /\ \E e : Writes(e) /\ e.status = Unknown
<1> DEFINE r == Or(identity[n], snapshot[n])
           engine == IF identity[n] # Unknown THEN r.engine ELSE made[s].engine
           id == IF engine = "codex" THEN s ELSE Unknown
           home == made[s].cwd
           repo == r.repo
           cwd == r.cwd
           slug == r.slug
           e == SessionEvent(id, engine, n, repo, cwd, slug)
<1>1. /\ r # Unknown /\ s \in RanAt(engine, WorksIn(engine, repo, cwd, slug))
      /\ ComesUp(n, engine, s, home, repo, cwd, slug)
      /\ marker' = [marker EXCEPT ![n] = s]
      /\ Log(e, kept) /\ snapshot' = snapshot /\ made' = made
  BY DEF ResumeLatest
<1>2. Made \subseteq Session /\ Unknown \notin Made /\ SessionsOK(made)
  BY NumberedFromOne DEF HistoryInv
<1>3. made[s].engine = engine
  BY <1>1 DEF RanAt
<1>4. cwd # Unknown
  BY <1>1 DEF Or, HistoryInv, Names, NameFits, LaunchRecord
<1>5. engine \in Engine
  BY <1>2, <1>3 DEF SessionsOK, Made
<1>6. SessionsOK(made') /\ DOMAIN made' \subseteq Session /\ Grows(made, made')
  BY <1>1, <1>2 DEF Grows, Made
<1> HIDE DEF r, engine, home, repo, cwd, slug, id, e
<1>7. Onward /\ Names' /\ (engine = "codex" /\ s \notin misfiled' => cwd = home)
  <2>1. s \in DOMAIN made' /\ made'[s].engine = engine /\ made'[s].cwd = home /\ s # Unknown
    BY <1>1, <1>2, <1>3 DEF Made, home
  <2>2. Launches(n, engine, s, home, repo, cwd, slug)
    BY <1>1, <1>4, <1>5, <2>1 DEF Launches
  <2> QED BY <1>6, <2>2, ComesUpFits
<1>8. EventFits(e, made', misfiled')
  <2>1. id # Unknown => id = s /\ (s \notin misfiled' => cwd = home)
    BY <1>7 DEF id
  <2> QED BY <1>1, <1>3, <1>4, <2>1, EventFields DEF e, home, EventFits, About, Made
<1>9. IndexFits(index', made', misfiled')
  BY <1>1, <1>7, <1>8, LogFits
<1>10. Writes(e) /\ e.status = Unknown
  BY <1>1, <1>8, EventFields DEF e, Writes, Log
<1> QED BY <1>6, <1>7, <1>9, <1>10 DEF HistoryInv

\* Every step keeps the invariant, and what was made.
LEMMA HistoryStep ==
    ASSUME HistoryInv, [HistoryNext]_historyVars
    PROVE  HistoryInv' /\ Onward
<1>1. CASE UNCHANGED historyVars
  <2>1. HistoryInv'
    BY <1>1 DEF historyVars, HistoryInv, Names, NameFits, Occupied, Made
  <2> QED BY <1>1, <2>1, SameSessions DEF historyVars
<1>2. CASE HistoryNext
  BY <1>2, SpawnKeeps, SendKeeps, KillKeeps, ResumeRowKeeps, ResumeLatestKeeps, ClearKeeps,
     DiesKeeps, CloseByIdKeeps DEF HistoryNext
<1> QED BY <1>1, <1>2

\* The invariant holds in every state of every history (history-index.ts,
\* identity-store.ts and the verbs that write to them).
THEOREM HistoryStays == HistorySpec => []HistoryInv
<1>1. HistoryInit => HistoryInv
  <2> SUFFICES ASSUME HistoryInit PROVE HistoryInv
    OBVIOUS
  <2>1. made = <<>> /\ index.records = <<>> /\ index.ids = <<>>
    BY DEF HistoryInit
  <2>2. DOMAIN made = {} /\ DOMAIN index.records = {} /\ DOMAIN index.ids = {}
    BY <2>1
  <2>3. SessionsOK(made)
    <3>1. made \in Seq({made[s] : s \in DOMAIN made}) /\ Len(made) = 0
      BY <2>1, EmptySeq
    <3> QED BY <2>2, <3>1, HistoryAssumption DEF SessionsOK
  <2>4. IndexFits(index, made, misfiled)
    BY <2>2 DEF IndexFits
  <2>5. Names
    BY DEF HistoryInit, Names, NameFits, Occupied
  <2> QED BY <2>3, <2>4, <2>5 DEF HistoryInv
<1>2. HistoryInv /\ [HistoryNext]_historyVars => HistoryInv'
  BY HistoryStep
<1> QED BY <1>1, <1>2, PTL DEF HistorySpec

\* However the index, the listing and the transcript are merged, a row has the engine of its
\* session, and its directory if it has one (history-query.ts, history-index.ts).
THEOREM RowsAreTheirSessions == HistorySpec => []RowsNameTheirSession
<1>1. HistoryInv => RowsNameTheirSession
  BY RowFits DEF RowsNameTheirSession, About
<1> QED BY <1>1, HistoryStays, PTL

-----------------------------------------------------------------------------
(* The statuses of sessions                                                 *)

\* A status that is none, was given to the session, or to one of a name, engine and directory
\* that had no id.
Told(status, s, sessions, gave, gaveNameless) ==
    \/ status = Unknown
    \/ status \in gave[s]
    \/ \E n \in Name : <<sessions[s].engine, n, sessions[s].cwd, status>> \in gaveNameless

\* The statuses of the records, of sessions and of what has no id yet.
StatusesFit(ix, sessions, strays, gave, gaveNameless) ==
    /\ \A s \in DOMAIN sessions \ strays : <<"id", s>> \in DOMAIN ix.records =>
          Told(ix.records[<<"id", s>>].status, s, sessions, gave, gaveNameless)
    /\ \A engine, name, cwd : <<"open", engine, name, cwd>> \in DOMAIN ix.records =>
          LET r == ix.records[<<"open", engine, name, cwd>>]
          IN  /\ DOMAIN r = Fields
              /\ \/ r.status = Unknown
                 \/ name \in Name /\ <<engine, name, cwd, r.status>> \in gaveNameless

\* An event says a status that was given.
EventTold(e, strays, gave, gaveNameless) ==
    \/ e.status = Unknown
    \/ e.id # Unknown /\ (e.id \notin strays => e.status \in gave[e.id])
    \/ e.id = Unknown /\ e.name \in Name /\ <<e.engine, e.name, e.cwd, e.status>> \in gaveNameless

\* A record has no status, and the marker names the session of the process unless it is misfiled.
\* Claude always has a session.
NameSays(n) ==
    /\ identity[n] # Unknown => identity[n].status = Unknown
    /\ Occupied(n) =>
          /\ marker[n] = process[n].session \/ (marker[n] # Unknown /\ marker[n] \in misfiled)
          /\ process[n].engine = "claude" => process[n].session # Unknown

NamesSay == \A n \in Name : NameSays(n)

StatusInv ==
    /\ HistoryInv
    /\ DOMAIN given = Session
    /\ StatusesFit(index, made, misfiled, given, nameless)
    /\ NamesSay

\* The status of a record an event is folded into.
LEMMA FoldTold ==
    ASSUME NEW ix, NEW e, NEW sessions, NEW strays, NEW gave, NEW gaveNameless,
           SessionsOK(sessions), DOMAIN sessions \subseteq Session,
           IndexFits(ix, sessions, strays), EventFits(e, sessions, strays),
           StatusesFit(ix, sessions, strays, gave, gaveNameless),
           EventTold(e, strays, gave, gaveNameless)
    PROVE  StatusesFit(Fold(e, ix), sessions, strays, gave, gaveNameless)
<1> DEFINE attr == Attribution(e)
           key == IF e.id # Unknown THEN <<"id", e.id>>
                  ELSE IF attr \in DOMAIN ix.ids THEN <<"id", ix.ids[attr]>> ELSE OpenKey(e)
           absorbs == e.id # Unknown /\ attr # Unknown /\ OpenKey(e) \in DOMAIN ix.records
           known == IF absorbs
                    THEN Put(Without(ix.records, OpenKey(e)), key,
                             Absorb(Known(ix.records, key), ix.records[OpenKey(e)]))
                    ELSE ix.records
           merged == Merge(Known(known, key), e)
<1>1. Fold(e, ix).records = Put(known, key, merged)
  BY DEF Fold
<1> HIDE DEF attr, key, absorbs, known, merged
<1>2. Directed(e) /\ attr = Attribution(e)
  BY DEF EventFits, attr
<1>3. attr # Unknown => attr[1] = e.engine /\ attr[3] = e.cwd /\ e.engine # Unknown /\ e.cwd # Unknown
  BY <1>2, AttributionGives
<1>4. /\ \A s : OpenKey(e) # <<"id", s>>
      /\ OpenKey(e) = <<"open", e.engine, e.name, e.cwd>>
  <2>1. Or(e.cwd, e.repo) = e.cwd
    BY <1>2 DEF Or, Directed
  <2> QED BY <2>1 DEF OpenKey
<1>5. "status" \in Fields /\ \A k : Known(ix.records, k).status = IF k \in DOMAIN ix.records
                                                               THEN ix.records[k].status ELSE Unknown
  BY BlankIsDirected DEF Known, Fields
<1>6. DOMAIN merged = Fields /\ merged.status = Or(e.status, Known(known, key).status)
  BY <1>2, <1>5, MergeGives DEF merged, Directed
<1>7. ASSUME NEW s \in DOMAIN sessions \ strays, <<"id", s>> \in DOMAIN Fold(e, ix).records
      PROVE  Told(Fold(e, ix).records[<<"id", s>>].status, s, sessions, gave, gaveNameless)
  <2>1. CASE <<"id", s>> # key
    <3>1. <<"id", s>> \in DOMAIN ix.records /\ Fold(e, ix).records[<<"id", s>>] = ix.records[<<"id", s>>]
      BY <1>1, <1>4, <1>7, <2>1 DEF Put, known, Without
    <3> QED BY <1>7, <3>1 DEF StatusesFit
  <2>2. CASE <<"id", s>> = key
    <3>1. Fold(e, ix).records[<<"id", s>>] = merged
      BY <1>1, <2>2 DEF Put
    <3>2. Told(Known(ix.records, key).status, s, sessions, gave, gaveNameless)
      BY <1>5, <2>2 DEF StatusesFit, Told
    <3>3. Told(e.status, s, sessions, gave, gaveNameless)
      <4>1. CASE e.id # Unknown
        <5>1. s = e.id
          BY <2>2, <4>1 DEF key
        <5> QED BY <4>1, <5>1 DEF EventTold, Told
      <4>2. CASE e.id = Unknown
        <5>1. attr \in DOMAIN ix.ids /\ s = ix.ids[attr]
          BY <1>4, <2>2, <4>2 DEF key
        <5>2. e.engine = sessions[s].engine /\ e.cwd = sessions[s].cwd
          BY <1>3, <5>1 DEF IndexFits
        <5> QED BY <4>2, <5>2 DEF EventTold, Told
      <4> QED BY <4>1, <4>2
    <3>4. CASE absorbs
      <4>1. Known(known, key) = Absorb(Known(ix.records, key), ix.records[OpenKey(e)])
        BY <3>4 DEF known, Put, Known
      <4>2. e.id # Unknown /\ attr # Unknown /\ OpenKey(e) \in DOMAIN ix.records
        BY <3>4 DEF absorbs
      <4>3. s = e.id /\ e.engine = sessions[s].engine /\ e.cwd = sessions[s].cwd
        BY <1>3, <2>2, <4>2 DEF key, EventFits, About
      <4>4. Told(ix.records[OpenKey(e)].status, s, sessions, gave, gaveNameless)
        BY <1>4, <4>2, <4>3 DEF StatusesFit, Told
      <4>5. Known(known, key).status \in {ix.records[OpenKey(e)].status, Known(ix.records, key).status}
        <5>1. DOMAIN ix.records[OpenKey(e)] = Fields
          BY <1>4, <4>2 DEF StatusesFit
        <5> QED BY <1>5, <4>1, <5>1 DEF Absorb, Or
      <4> QED BY <1>6, <3>1, <3>2, <3>3, <4>4, <4>5 DEF Or
    <3>5. CASE ~absorbs
      <4>1. known = ix.records
        BY <3>5 DEF known
      <4> QED BY <1>6, <3>1, <3>2, <3>3, <4>1 DEF Or
    <3> QED BY <3>4, <3>5
  <2> QED BY <2>1, <2>2
<1>8. ASSUME NEW engine, NEW name, NEW cwd, <<"open", engine, name, cwd>> \in DOMAIN Fold(e, ix).records
      PROVE  LET r == Fold(e, ix).records[<<"open", engine, name, cwd>>]
             IN  /\ DOMAIN r = Fields
                 /\ \/ r.status = Unknown
                    \/ name \in Name /\ <<engine, name, cwd, r.status>> \in gaveNameless
  <2> DEFINE k == <<"open", engine, name, cwd>>
  <2>0. \A s : k # <<"id", s>>
    OBVIOUS
  <2>1. CASE k # key
    <3>1. k \in DOMAIN ix.records /\ Fold(e, ix).records[k] = ix.records[k]
      BY <1>1, <1>8, <2>1 DEF Put, known, Without
    <3> QED BY <3>1 DEF StatusesFit
  <2>2. CASE k = key
    <3>1. e.id = Unknown /\ k = OpenKey(e) /\ ~absorbs
      BY <2>0, <2>2 DEF key, absorbs
    <3>2. engine = e.engine /\ name = e.name /\ cwd = e.cwd
      BY <1>4, <3>1
    <3>3. Fold(e, ix).records[k] = merged /\ known = ix.records
      BY <1>1, <2>2, <3>1 DEF Put, known
    <3>4. CASE e.status # Unknown
      BY <1>6, <3>1, <3>2, <3>3, <3>4 DEF EventTold, Or
    <3>5. CASE e.status = Unknown
      <4>1. merged.status = Known(ix.records, k).status
        BY <1>6, <2>2, <3>3, <3>5 DEF Or
      <4>2. \/ Known(ix.records, k).status = Unknown
            \/ name \in Name /\ <<engine, name, cwd, Known(ix.records, k).status>> \in gaveNameless
        BY <1>5 DEF StatusesFit
      <4> QED BY <1>6, <3>3, <4>1, <4>2
    <3> QED BY <3>4, <3>5
  <2> QED BY <2>1, <2>2
<1> QED BY <1>7, <1>8 DEF StatusesFit

\* Statuses are only ever given, and what is written says one that was.
LEMMA StatusesKept ==
    ASSUME HistoryInv, Onward, StatusesFit(index, made, misfiled, given, nameless),
           nameless \subseteq nameless', \A s \in Session : given[s] \subseteq given'[s],
           \/ index' = index
           \/ \E e : Writes(e) /\ EventTold(e, misfiled', given', nameless')
    PROVE  StatusesFit(index', made', misfiled', given', nameless')
<1>1. StatusesFit(index, made', misfiled', given', nameless')
  <2>1. ASSUME NEW s \in DOMAIN made' \ misfiled', <<"id", s>> \in DOMAIN index.records
        PROVE  Told(index.records[<<"id", s>>].status, s, made', given', nameless')
    <3>1. s \in Session /\ s \in DOMAIN made \ misfiled
      BY <2>1 DEF HistoryInv, IndexFits, Onward
    <3>2. made'[s].engine = made[s].engine /\ made'[s].cwd = made[s].cwd
      BY <3>1 DEF Onward, Grows
    <3>3. Told(index.records[<<"id", s>>].status, s, made, given, nameless)
      BY <2>1, <3>1 DEF StatusesFit
    <3> QED BY <3>1, <3>2, <3>3 DEF Told
  <2> QED BY <2>1 DEF StatusesFit
<1>2. CASE index' = index
  BY <1>1, <1>2
<1>3. CASE \E e : Writes(e) /\ EventTold(e, misfiled', given', nameless')
  <2>1. PICK e : Writes(e) /\ EventTold(e, misfiled', given', nameless')
    BY <1>3
  <2>2. IndexFits(index, made', misfiled')
    BY IndexGrows DEF HistoryInv, Onward
  <2>3. StatusesFit(Fold(e, index), made', misfiled', given', nameless')
    BY <1>1, <2>1, <2>2, FoldTold DEF Writes, Onward
  <2> QED BY <1>1, <2>1, <2>3 DEF Writes
<1> QED BY <1>2, <1>3

\* A name that a step leaves alone says what it said.
LEMMA NameSaysStill ==
    ASSUME NamesSay, misfiled \subseteq misfiled', NEW n \in Name,
           identity'[n] = identity[n], marker'[n] = marker[n], process'[n] = process[n]
    PROVE  NameSays(n)'
BY DEF NamesSay, NameSays, Occupied

\* What comes up has its session on file, and a record without a status.
LEMMA ComesUpSays ==
    ASSUME HistoryInv, NamesSay, Onward, NEW n \in Name, NEW engine, NEW id, NEW home, NEW repo,
           NEW cwd, NEW slug, ComesUp(n, engine, id, home, repo, cwd, slug),
           marker' = [marker EXCEPT ![n] = id], engine = "claude" => id # Unknown
    PROVE  NamesSay'
<1> DEFINE new == SessionEvent(Unknown, engine, n, repo, cwd, slug)
<1>1. DOMAIN identity = Name /\ DOMAIN marker = Name /\ DOMAIN process = Name /\ misfiled \subseteq misfiled'
  BY DEF HistoryInv, Names, Onward
<1>2. new.status = Unknown
  BY DEF SessionEvent
<1> HIDE DEF new
<1>3. identity' = identity \/ identity' = [identity EXCEPT ![n] = new]
  BY DEF ComesUp, Claims, new
<1>4. process' = [process EXCEPT ![n] = [engine |-> engine, session |-> id, cwd |-> cwd,
                                         at |-> WorksIn(engine, repo, cwd, slug)]]
  BY DEF ComesUp
<1>5. process'[n].engine = engine /\ process'[n].session = id /\ marker'[n] = id
  BY <1>1, <1>4
<1>6. identity'[n] # Unknown => identity'[n].status = Unknown
  BY <1>1, <1>2, <1>3 DEF NamesSay, NameSays
<1>7. NameSays(n)'
  BY <1>5, <1>6 DEF NameSays
<1>8. ASSUME NEW m \in Name, m # n PROVE NameSays(m)'
  <2>1. identity'[m] = identity[m] /\ marker'[m] = marker[m] /\ process'[m] = process[m]
    BY <1>1, <1>3, <1>4, <1>8
  <2> QED BY <1>1, <2>1, NameSaysStill
<1> QED BY <1>7, <1>8 DEF NamesSay

\* The statuses after a step that gives none.
LEMMA NoneGiven ==
    ASSUME StatusInv, Onward, given' = given, nameless' = nameless,
           index' = index \/ \E e : Writes(e) /\ e.status = Unknown
    PROVE  DOMAIN given' = Session /\ StatusesFit(index', made', misfiled', given', nameless')
<1>1. \A e : e.status = Unknown => EventTold(e, misfiled', given', nameless')
  BY DEF EventTold
<1>2. index' = index \/ \E e : Writes(e) /\ EventTold(e, misfiled', given', nameless')
  BY <1>1
<1>3. nameless \subseteq nameless' /\ \A s \in Session : given[s] \subseteq given'[s]
  OBVIOUS
<1> QED BY <1>2, <1>3, StatusesKept DEF StatusInv

\* A send moves the marker of a Codex teammate to the session it makes; Claude has one.
LEMMA SendSays ==
    ASSUME StatusInv, NEW n \in Name, NEW kept, Send(n, kept)
    PROVE  StatusInv'
<1> DEFINE s == Or(process[n].session, Next1)
<1>1. HistoryInv' /\ Onward /\ \E e : Writes(e) /\ e.status = Unknown
  BY SendKeeps DEF StatusInv
<1>2. /\ process' = [process EXCEPT ![n].session = s]
      /\ marker' = IF process[n].engine = "codex" THEN [marker EXCEPT ![n] = s] ELSE marker
      /\ identity' = identity /\ given' = given /\ nameless' = nameless /\ Occupied(n)
  BY DEF Send
<1>3. DOMAIN given' = Session /\ StatusesFit(index', made', misfiled', given', nameless')
  BY <1>1, <1>2, NoneGiven
<1>4. /\ DOMAIN marker = Name /\ DOMAIN process = Name /\ misfiled \subseteq misfiled'
      /\ {"engine", "session"} \subseteq DOMAIN process[n]
      /\ process[n].engine \in Engine
  BY <1>1, <1>2 DEF StatusInv, HistoryInv, Names, NameFits, LaunchRecord, Onward
<1>5. process'[n].session = s /\ process'[n].engine = process[n].engine
  BY <1>2, <1>4
<1>6. s # Unknown
  BY NumberedFromOne DEF StatusInv, HistoryInv, Or
<1>7. CASE process[n].engine = "codex"
  <2>1. marker'[n] = s
    BY <1>2, <1>4, <1>7
  <2>2. NameSays(n)
    BY DEF StatusInv, NamesSay
  <2>3. NameSays(n)'
    BY <1>2, <1>5, <1>6, <2>1, <2>2 DEF NameSays
  <2>4. ASSUME NEW m \in Name, m # n PROVE NameSays(m)'
    <3>1. process'[m] = process[m] /\ marker'[m] = marker[m]
      BY <1>2, <1>4, <2>4
    <3> QED BY <1>2, <1>4, <3>1, NameSaysStill DEF StatusInv
  <2> QED BY <1>1, <1>3, <2>3, <2>4 DEF StatusInv, NamesSay
<1>8. CASE process[n].engine = "claude"
  <2>1. marker' = marker
    BY <1>2, <1>8
  <2>2. NameSays(n)
    BY DEF StatusInv, NamesSay
  <2>3. s = process[n].session
    BY <1>2, <1>8, <2>2 DEF NameSays, Or
  <2>4. NameSays(n)'
    BY <1>2, <1>4, <1>5, <1>6, <2>1, <2>2, <2>3 DEF NameSays
  <2>5. ASSUME NEW m \in Name, m # n PROVE NameSays(m)'
    <3>1. process'[m] = process[m]
      BY <1>2, <1>4, <2>5
    <3> QED BY <1>2, <1>4, <2>1, <3>1, NameSaysStill DEF StatusInv
  <2> QED BY <1>1, <1>3, <2>4, <2>5 DEF StatusInv, NamesSay
<1> QED BY <1>4, <1>7, <1>8 DEF Engine

\* A /clear that the hook does not follow leaves the marker to a session that is misfiled.
LEMMA ClearSays ==
    ASSUME StatusInv, NEW n \in Name, Clear(n)
    PROVE  StatusInv'
<1>1. HistoryInv' /\ Onward
  BY ClearKeeps DEF StatusInv
<1>2. /\ Occupied(n) /\ process[n].engine = "claude"
      /\ process' = [process EXCEPT ![n].session = Next1]
      /\ \/ marker' = [marker EXCEPT ![n] = Next1]
         \/ marker[n] \in misfiled' /\ marker' = marker
      /\ index' = index /\ identity' = identity /\ given' = given /\ nameless' = nameless
  BY DEF Clear
<1>3. DOMAIN given' = Session /\ StatusesFit(index', made', misfiled', given', nameless')
  BY <1>1, <1>2, NoneGiven
<1>4. /\ DOMAIN marker = Name /\ DOMAIN process = Name /\ misfiled \subseteq misfiled'
      /\ {"engine", "session"} \subseteq DOMAIN process[n]
      /\ NameSays(n)
  BY <1>1, <1>2 DEF StatusInv, HistoryInv, Names, NameFits, Onward, NamesSay
<1>5. process'[n].session = Next1 /\ Next1 # Unknown
  BY <1>2, <1>4, NumberedFromOne DEF StatusInv, HistoryInv
<1>6. marker[n] # Unknown
  BY <1>2, <1>4 DEF NameSays
<1>7. marker'[n] = Next1 \/ (marker'[n] # Unknown /\ marker'[n] \in misfiled')
  BY <1>2, <1>4, <1>6
<1>8. NameSays(n)'
  BY <1>2, <1>4, <1>5, <1>7 DEF NameSays
<1>9. ASSUME NEW m \in Name, m # n PROVE NameSays(m)'
  <2>1. process'[m] = process[m] /\ marker'[m] = marker[m]
    BY <1>2, <1>4, <1>9
  <2> QED BY <1>2, <1>4, <2>1, NameSaysStill DEF StatusInv
<1> QED BY <1>1, <1>3, <1>8, <1>9 DEF StatusInv, NamesSay

\* A process that dies gives no status.
LEMMA DiesSays ==
    ASSUME StatusInv, NEW n \in Name, Dies(n)
    PROVE  StatusInv'
<1>1. HistoryInv' /\ Onward
  BY DiesKeeps DEF StatusInv
<1>2. process' = [process EXCEPT ![n] = Unknown]
      /\ UNCHANGED <<index, identity, marker, given, nameless, misfiled>>
  BY DEF Dies
<1>3. DOMAIN given' = Session /\ StatusesFit(index', made', misfiled', given', nameless')
  BY <1>1, <1>2, NoneGiven
<1>4. DOMAIN process = Name
  BY DEF StatusInv, HistoryInv, Names
<1>5. NameSays(n)'
  BY <1>2, <1>4 DEF StatusInv, NamesSay, NameSays, Occupied
<1>6. ASSUME NEW m \in Name, m # n PROVE NameSays(m)'
  <2>1. process'[m] = process[m]
    BY <1>2, <1>4, <1>6
  <2> QED BY <1>2, <2>1, NameSaysStill DEF StatusInv
<1> QED BY <1>1, <1>3, <1>5, <1>6 DEF StatusInv, NamesSay

\* A kill gives its status to the session it ends, or to the name that has none yet; the
\* session of the marker is that one unless it is misfiled.
LEMMA KillSays ==
    ASSUME StatusInv, NEW n \in Name, NEW status, NEW upTo, NEW kept, KillName(n, status, upTo, kept)
    PROVE  StatusInv'
<1> DEFINE r == Or(identity[n], Blank)
           engine == IF Occupied(n) THEN process[n].engine ELSE r.engine
           s == IF Occupied(n) THEN process[n].session ELSE marker[n]
           e == CloseEvent(marker[n], engine, n, r.repo, r.cwd, status)
<1>1. HistoryInv' /\ Onward /\ EventFits(e, made', misfiled')
  BY KillKeeps DEF StatusInv
<1>2. /\ process' = [process EXCEPT ![n] = Unknown]
      /\ marker' = [marker EXCEPT ![n] = Unknown]
      /\ identity' = identity \/ identity' = [identity EXCEPT ![n] = Unknown]
      /\ misfiled' = misfiled
  BY DEF KillName
<1>3. \/ index' = index /\ given' = given /\ nameless' = nameless
      \/ /\ Log(e, kept)
         /\ given' = IF s = Unknown THEN given ELSE [given EXCEPT ![s] = @ \cup {status}]
         /\ nameless' = IF s # Unknown THEN nameless ELSE nameless \cup {<<engine, n, r.cwd, status>>}
  BY Zenon DEF KillName, CloseId
<1>4. /\ DOMAIN identity = Name /\ DOMAIN marker = Name /\ DOMAIN process = Name
      /\ DOMAIN given = Session /\ NameFits(n) /\ NameSays(n) /\ Made \subseteq Session
  BY NumberedFromOne DEF StatusInv, HistoryInv, Names, NamesSay
<1>5. e.id = marker[n] /\ e.engine = engine /\ e.name = n /\ e.cwd = r.cwd /\ e.status = status
  BY EventFields
<1>6. marker[n] # Unknown => marker[n] \in Session
  BY <1>4 DEF NameFits
<1>7. s = marker[n] \/ (marker[n] # Unknown /\ marker[n] \in misfiled)
  BY <1>4 DEF NameSays
<1> HIDE DEF r, engine, s, e
<1>8. nameless \subseteq nameless' /\ DOMAIN given' = Session /\ \A z \in Session : given[z] \subseteq given'[z]
  <2>1. CASE given' = given
    BY <1>3, <1>4, <2>1
  <2>2. CASE s # Unknown /\ given' = [given EXCEPT ![s] = @ \cup {status}]
    BY <1>3, <1>4, <2>2
  <2> QED BY <1>3, <2>1, <2>2
<1>9. index' = index \/ \E x : Writes(x) /\ EventTold(x, misfiled', given', nameless')
  <2>1. CASE index' = index
    BY <2>1
  <2>2. CASE index' # index
    <3>1. /\ index' = Fold(e, index)
          /\ given' = IF s = Unknown THEN given ELSE [given EXCEPT ![s] = @ \cup {status}]
          /\ nameless' = IF s # Unknown THEN nameless ELSE nameless \cup {<<engine, n, r.cwd, status>>}
      BY <1>3, <2>2 DEF Log
    <3>2. EventTold(e, misfiled', given', nameless')
      <4>1. CASE marker[n] = Unknown
        <5>1. <<engine, n, r.cwd, status>> \in nameless'
          BY <1>7, <3>1, <4>1
        <5> QED BY <1>5, <4>1, <5>1 DEF EventTold
      <4>2. CASE marker[n] # Unknown
        <5>1. marker[n] \notin misfiled' => status \in given'[marker[n]]
          BY <1>2, <1>4, <1>6, <1>7, <3>1, <4>2
        <5> QED BY <1>5, <4>2, <5>1 DEF EventTold
      <4> QED BY <4>1, <4>2
    <3> QED BY <1>1, <3>1, <3>2 DEF Writes
  <2> QED BY <2>1, <2>2
<1>10. StatusesFit(index', made', misfiled', given', nameless')
  BY <1>1, <1>8, <1>9, StatusesKept DEF StatusInv
<1>11. NameSays(n)'
  <2>1. ~Occupied(n)'
    BY <1>2, <1>4 DEF Occupied
  <2>2. identity'[n] \in {identity[n], Unknown}
    BY <1>2, <1>4
  <2> QED BY <1>4, <2>1, <2>2 DEF NameSays
<1>12. ASSUME NEW m \in Name, m # n PROVE NameSays(m)'
  <2>1. identity'[m] = identity[m] /\ marker'[m] = marker[m] /\ process'[m] = process[m]
    BY <1>2, <1>4, <1>12
  <2> QED BY <1>2, <2>1, NameSaysStill DEF StatusInv
<1> QED BY <1>1, <1>8, <1>10, <1>11, <1>12 DEF StatusInv, NamesSay

\* A close by id gives its status to the session it names.
LEMMA CloseByIdSays ==
    ASSUME StatusInv, NEW s \in Made, NEW status, NEW kept, CloseById(s, status, kept)
    PROVE  StatusInv'
<1>1. HistoryInv' /\ Onward /\ \E e : Writes(e) /\ e.id = s /\ e.status = status
  BY CloseByIdKeeps DEF StatusInv
<1>2. /\ given' = [given EXCEPT ![s] = @ \cup {status}]
      /\ UNCHANGED <<identity, marker, process, nameless, misfiled>>
  BY DEF CloseById
<1>3. s \in Session /\ s # Unknown /\ DOMAIN given = Session
  BY NumberedFromOne DEF StatusInv, HistoryInv
<1>4. DOMAIN given' = Session /\ status \in given'[s] /\ \A z \in Session : given[z] \subseteq given'[z]
  BY <1>2, <1>3
<1>5. \E e : Writes(e) /\ EventTold(e, misfiled', given', nameless')
  <2>1. PICK e : Writes(e) /\ e.id = s /\ e.status = status
    BY <1>1
  <2>2. EventTold(e, misfiled', given', nameless')
    BY <1>3, <1>4, <2>1 DEF EventTold
  <2> QED BY <2>1, <2>2
<1>6. StatusesFit(index', made', misfiled', given', nameless')
  BY <1>1, <1>2, <1>4, <1>5, StatusesKept DEF StatusInv
<1>7. NamesSay'
  BY <1>2 DEF StatusInv, NamesSay, NameSays, Occupied
<1> QED BY <1>1, <1>4, <1>6, <1>7 DEF StatusInv

\* The verbs that bring a process up.
LEMMA LaunchSays ==
    ASSUME StatusInv, NEW n \in Name, NEW kept,
           \/ \E engine \in Engine, repo \in Repo, slug \in {Unknown, n}, prompted \in BOOLEAN :
                 Spawn(n, engine, repo, slug, prompted, kept)
           \/ \E s \in Made : ResumeRow(s, n, kept) \/ ResumeLatest(n, s, kept)
    PROVE  StatusInv'
<1>1. Next1 # Unknown /\ Unknown \notin Made
  BY NumberedFromOne DEF StatusInv, HistoryInv
<1>2. ASSUME NEW engine \in Engine, NEW repo \in Repo, NEW slug \in {Unknown, n}, NEW prompted \in BOOLEAN,
             Spawn(n, engine, repo, slug, prompted, kept)
      PROVE  StatusInv'
  <2> DEFINE id == IF engine = "codex" /\ ~prompted THEN Unknown ELSE Next1
  <2>1. HistoryInv' /\ Onward /\ \E e : Writes(e) /\ e.status = Unknown
    BY <1>2, SpawnKeeps DEF StatusInv
  <2>2. /\ ComesUp(n, engine, id, Tree(repo, slug), repo, Tree(repo, slug), slug)
        /\ marker' = [marker EXCEPT ![n] = id] /\ given' = given /\ nameless' = nameless
    BY <1>2 DEF Spawn
  <2>3. engine = "claude" => id # Unknown
    BY <1>1
  <2> HIDE DEF id
  <2>4. NamesSay'
    BY <2>1, <2>2, <2>3, ComesUpSays DEF StatusInv
  <2>5. DOMAIN given' = Session /\ StatusesFit(index', made', misfiled', given', nameless')
    BY <2>1, <2>2, NoneGiven
  <2> QED BY <2>1, <2>4, <2>5 DEF StatusInv
<1>3. ASSUME NEW s \in Made, ResumeRow(s, n, kept) PROVE StatusInv'
  <2>1. HistoryInv' /\ Onward /\ \E e : Writes(e) /\ e.status = Unknown
    BY <1>3, ResumeRowKeeps DEF StatusInv
  <2>2. /\ \E engine, repo, cwd, slug : ComesUp(n, engine, s, made[s].cwd, repo, cwd, slug)
        /\ marker' = [marker EXCEPT ![n] = s] /\ given' = given /\ nameless' = nameless
    BY <1>3, Zenon DEF ResumeRow
  <2>3. s # Unknown
    BY <1>1
  <2>4. NamesSay'
    BY <2>1, <2>2, <2>3, ComesUpSays DEF StatusInv
  <2>5. DOMAIN given' = Session /\ StatusesFit(index', made', misfiled', given', nameless')
    BY <2>1, <2>2, NoneGiven
  <2> QED BY <2>1, <2>4, <2>5 DEF StatusInv
<1>4. ASSUME NEW s \in Made, ResumeLatest(n, s, kept) PROVE StatusInv'
  <2>1. HistoryInv' /\ Onward /\ \E e : Writes(e) /\ e.status = Unknown
    BY <1>4, ResumeLatestKeeps DEF StatusInv
  <2>2. /\ \E engine, repo, cwd, slug : ComesUp(n, engine, s, made[s].cwd, repo, cwd, slug)
        /\ marker' = [marker EXCEPT ![n] = s] /\ given' = given /\ nameless' = nameless
    BY <1>4, Zenon DEF ResumeLatest
  <2>3. s # Unknown
    BY <1>1
  <2>4. NamesSay'
    BY <2>1, <2>2, <2>3, ComesUpSays DEF StatusInv
  <2>5. DOMAIN given' = Session /\ StatusesFit(index', made', misfiled', given', nameless')
    BY <2>1, <2>2, NoneGiven
  <2> QED BY <2>1, <2>4, <2>5 DEF StatusInv
<1> QED BY <1>2, <1>3, <1>4

\* The status of a row comes from the index alone.
LEMMA RowTold ==
    ASSUME StatusInv, NEW s \in Made \ misfiled
    PROVE  Told(Row(s).status, s, made, given, nameless)
<1> DEFINE t == IF made[s].engine = "codex" THEN CodexRow(s) ELSE ClaudeRow(s)
           l == Listing(s)
           k == Known(Records, <<"id", s>>)
<1>0. HistoryInv /\ NamesSay /\ s \in Made
  BY DEF StatusInv
<1>1. "status" \in Fields /\ Blank.status = Unknown
  BY BlankIsDirected DEF Fields
<1>2. t.status = Unknown
  BY <1>1 DEF CodexRow, ClaudeRow, TranscriptRow, SessionEvent
<1>3. l.status = Unknown
  <2> DEFINE ns == {n \in Name : process[n] # Unknown /\ identity[n] # Unknown /\ marker[n] = s}
  <2>1. CASE ns = {}
    BY <1>1, <2>1 DEF Listing
  <2>2. CASE ns # {}
    <3> DEFINE n == CHOOSE n \in ns : TRUE
    <3>1. n \in ns
      BY <2>2
    <3>2. l = [identity[n] EXCEPT !.id = s]
      BY <2>2 DEF Listing
    <3> HIDE DEF n, l
    <3>3. n \in Name /\ identity[n] # Unknown /\ marker[n] = s /\ Occupied(n)
      BY <3>1 DEF Occupied
    <3>4. "status" \in DOMAIN identity[n]
      BY <1>0, <1>1, <3>3 DEF HistoryInv, Names, NameFits, LaunchRecord
    <3>5. l.status = identity[n].status
      BY <3>2, <3>4
    <3> QED BY <1>0, <3>3, <3>5 DEF NamesSay, NameSays
  <2> QED BY <2>1, <2>2
<1>4. DOMAIN l = Fields /\ DOMAIN k = Fields
  BY <1>0, ListingFits, RecordFits DEF SourceFits, Directed
<1>5. Told(k.status, s, made, given, nameless)
  <2>1. CASE <<"id", s>> \in DOMAIN Records
    BY <2>1 DEF Known, Records, StatusInv, StatusesFit, Made
  <2>2. CASE <<"id", s>> \notin DOMAIN Records
    BY <1>1, <2>2 DEF Known, Told
  <2> QED BY <2>1, <2>2
<1>6. Row(s) = Merge(Merge(t, l), k)
  BY DEF Row
<1> HIDE DEF t, l, k
<1>7. Merge(t, l).status = Unknown
  BY <1>1, <1>2, <1>3, <1>4, MergeGives DEF Or
<1>8. Row(s).status = Or(k.status, Unknown)
  BY <1>1, <1>4, <1>6, <1>7, MergeGives
<1> QED BY <1>5, <1>8 DEF Or

\* A session reads as closed only if the user said so of it, or of one of its name, engine and
\* directory that had no id then (recordHistoryClose, closeIdFor).
THEOREM StatusesWereGiven == HistorySpec => []StatusWasGiven
<1>1. HistoryInit => DOMAIN given = Session /\ StatusesFit(index, made, misfiled, given, nameless) /\ NamesSay
  <2> SUFFICES ASSUME HistoryInit
               PROVE  DOMAIN given = Session /\ StatusesFit(index, made, misfiled, given, nameless) /\ NamesSay
    OBVIOUS
  <2>1. DOMAIN given = Session
    BY DEF HistoryInit
  <2>2. DOMAIN index.records = {}
    <3>1. index.records = <<>>
      BY DEF HistoryInit
    <3> QED BY <3>1
  <2>3. StatusesFit(index, made, misfiled, given, nameless)
    BY <2>2 DEF StatusesFit
  <2>4. NamesSay
    BY DEF HistoryInit, NamesSay, NameSays, Occupied
  <2> QED BY <2>1, <2>3, <2>4
<1>2. HistoryInv /\ HistoryInit => StatusInv
  BY <1>1 DEF StatusInv
<1>3. StatusInv /\ [HistoryNext]_historyVars => StatusInv'
  <2> SUFFICES ASSUME StatusInv, [HistoryNext]_historyVars PROVE StatusInv'
    OBVIOUS
  <2>1. CASE UNCHANGED historyVars
    <3>1. HistoryInv'
      BY HistoryStep DEF StatusInv
    <3>2. UNCHANGED <<index, identity, marker, process, made, given, nameless, misfiled>>
      BY <2>1 DEF historyVars
    <3>3. NamesSay' /\ StatusesFit(index', made', misfiled', given', nameless')
      BY <3>2 DEF StatusInv, NamesSay, NameSays, Occupied
    <3> QED BY <3>1, <3>2, <3>3 DEF StatusInv
  <2>2. CASE HistoryNext
    BY <2>2, LaunchSays, SendSays, KillSays, ClearSays, DiesSays, CloseByIdSays DEF HistoryNext
  <2> QED BY <2>1, <2>2
<1>4. StatusInv => StatusWasGiven
  BY RowTold DEF StatusWasGiven, Told
<1> QED BY <1>2, <1>3, <1>4, HistoryStays, PTL DEF HistorySpec

=============================================================================
