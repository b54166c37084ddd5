------------------------------ MODULE ImMessage ------------------------------
(***************************************************************************)
(* The handlers of inbound events (handlers/im-message.ts and              *)
(* handlers/bot-member.ts), with the access file and the per-chat state of *)
(* peer bots they read and write (access-store.ts, chat-bots-store.ts,     *)
(* bot-discovery.ts).                                                      *)
(*                                                                         *)
(* A handler runs to its first await in one step: it reads the files, gates*)
(* the message and saves.  Then a pairing code is sent, or the delivery is *)
(* formatted and stored, while other events are handled and the operator   *)
(* edits the access file.  The operator edits in two steps, a read and a   *)
(* write; a file that cannot be parsed is moved aside when next read.      *)
(***************************************************************************)
EXTENDS AccessGate, Sequences

CONSTANTS
    MaxMessages,    \* bound on messages handled
    MaxEdits        \* bound on the operator's edits

ASSUME ImBoundsAssumption == {MaxMessages, MaxEdits} \subseteq Nat

VARIABLES
    access,     \* the content of access.json
    botId,      \* botOpenId: Self, or Unfetched
    expired,    \* codes past their expiresAt
    bots,       \* per group, its chat-bots file
    awaiting,   \* handlers at their await
    editing,    \* the content an edit was made of and its result, or none
    handled, edits,
    shown,      \* history: the codes that may have been sent, with their chats
    announced,  \* history: per group, the bots shown in a delivery that was stored
    decided     \* history: what the operator's last edit says of each sender

accessFiles == <<access, bots>>
imVars == <<access, botId, expired, bots, awaiting, editing, handled, edits,
            shown, announced, decided>>

Unused == {c \in Code : \A x \in shown \cup awaiting : x.code # c}

\* A code drawn at random is a new one, and one is like another.
FreshCode == CHOOSE c \in Unused : TRUE

\* A message, and whether it is the command /introduce.
InboundMessage ==
    {m \in [sender : Human \cup Bot, chat : Chat, introduces : BOOLEAN,
            mentions : SUBSET (Human \cup Bot \cup {Self})] :
        m.chat \in Group \/ (m.chat = m.sender /\ m.mentions = {})}

-----------------------------------------------------------------------------
(* The chat-bots file                                                       *)

\* recordChatMember and enqueuePendingNewBot: a bot new to the chat is queued.
Learn(state, bs) ==
    [state EXCEPT !.openIds = @ \cup bs, !.pendingNewBots = @ \cup (bs \ state.openIds)]

Introduce(state, bs) == [Learn(state, bs) EXCEPT !.introduced = @ \cup bs]

Peers(S) == S \ {botId}

ShowsBaseline(state) == state.needsBaseline /\ ~state.injected

\* buildDiscoveryContext: what the delivery shows, and what its commit will clear.
Discovery(state) ==
    IF ShowsBaseline(state)
    THEN [baseline |-> TRUE, shows |-> Peers(state.openIds), clears |-> state.pendingNewBots]
    ELSE [baseline |-> FALSE, shows |-> Peers(state.pendingNewBots), clears |-> Peers(state.pendingNewBots)]

\* A plausible bug: the commit clears whatever is queued by then.
CommitAll(state, d) ==
    [state EXCEPT !.pendingNewBots = {},
                  !.injected = @ \/ d.baseline, !.needsBaseline = @ /\ ~d.baseline]

Commit(state, d) ==
    [state EXCEPT !.pendingNewBots = @ \ d.clears,
                  !.injected = @ \/ d.baseline, !.needsBaseline = @ /\ ~d.baseline]

-----------------------------------------------------------------------------
(* Handlers                                                                 *)

\* What the handler learns before it gates: a bot's message in an authorised group
\* makes it known, and its /introduce makes it trusted.
Observed(m) ==
    IF m.sender \in Bot /\ GroupAuthorized(access, m.chat, m.sender)
    THEN [bots EXCEPT ![m.chat] = IF m.introduces THEN Introduce(@, {m.sender})
                                  ELSE Learn(@, {m.sender})]
    ELSE bots

\* The code goes out before the pairing is recorded.
Prompt(m, code, saved) == access' = access /\ awaiting' = awaiting \cup
    {[does |-> "sends", code |-> code, chat |-> m.chat, saves |-> saved]}

\* A handler up to its first await.
Receive(m) ==
    LET seen == Observed(m)
        trusted == IF m.chat \in Group THEN seen[m.chat].introduced ELSE {}
        d == Gate(access, expired, m, botId, trusted, FreshCode)
    IN  /\ Unused # {} /\ handled < MaxMessages /\ handled' = handled + 1
        /\ CASE m.introduces ->
                /\ access' = IF d.action = "deliver" THEN d.access ELSE access
                /\ bots' = IF d.action = "deliver" /\ m.chat \in Group
                           THEN [seen EXCEPT ![m.chat] = Introduce(@, Peers(m.mentions))]
                           ELSE seen
                /\ UNCHANGED awaiting
             [] ~m.introduces /\ d.action = "deliver" ->
                /\ access' = d.access
                /\ bots' = seen
                /\ awaiting' = IF m.chat \in Group
                               THEN awaiting \cup {[does |-> "delivers", code |-> "none", chat |-> m.chat,
                                                    finds |-> Discovery(seen[m.chat])]}
                               ELSE awaiting
             [] ~m.introduces /\ d.action = "drop" ->
                access' = d.access /\ bots' = seen /\ UNCHANGED awaiting
             [] ~m.introduces /\ d.action = "pair" ->
                Prompt(m, d.code, d.access) /\ bots' = seen
        /\ UNCHANGED <<botId, expired, editing, edits, shown, announced, decided>>

\* The pairing code has been sent, and the content the gate returned is saved.
PromptSent(h) ==
    /\ h \in awaiting /\ h.does = "sends"
    /\ awaiting' = awaiting \ {h}
    /\ shown' = shown \cup {[code |-> h.code, chat |-> h.chat]}
    /\ access' = h.saves
    /\ UNCHANGED <<botId, expired, bots, editing, handled, edits, announced, decided>>

\* The send fails, whether the code got through or not.
PromptFails(h) ==
    /\ h \in awaiting /\ h.does = "sends"
    /\ awaiting' = awaiting \ {h}
    /\ shown' \in {shown, shown \cup {[code |-> h.code, chat |-> h.chat]}}
    /\ UNCHANGED <<access, botId, expired, bots, editing, handled, edits, announced, decided>>

\* handleEvent: the delivery is stored, and its commit runs.
Stored(h) ==
    /\ h \in awaiting /\ h.does = "delivers"
    /\ awaiting' = awaiting \ {h}
    /\ bots' = [bots EXCEPT ![h.chat] = Commit(@, h.finds)]
    /\ announced' = [announced EXCEPT ![h.chat] = @ \cup h.finds.shows]
    /\ UNCHANGED <<access, botId, expired, editing, handled, edits, shown, decided>>

\* The delivery cannot be stored: the handler throws and nothing is committed.
NotStored(h) ==
    /\ h \in awaiting /\ h.does = "delivers"
    /\ awaiting' = awaiting \ {h}
    /\ UNCHANGED <<accessFiles, botId, expired, editing, handled, edits, shown, announced, decided>>

\* The daemon dies at its awaits and another one starts.
Restart ==
    /\ awaiting # {}
    /\ awaiting' = {}
    /\ shown' = shown \cup {[code |-> h.code, chat |-> h.chat] : h \in {x \in awaiting : x.does = "sends"}}
    /\ UNCHANGED <<accessFiles, botId, expired, editing, handled, edits, announced, decided>>

\* im.chat.member.bot.added_v1; a redelivered one changes nothing.
Joined(g) ==
    /\ ~bots[g].joined
    /\ bots' = [bots EXCEPT ![g] = [@ EXCEPT !.joined = TRUE, !.needsBaseline = TRUE]]
    /\ UNCHANGED <<access, botId, expired, awaiting, editing, handled, edits, shown, announced, decided>>

-----------------------------------------------------------------------------
(* Time and the operator                                                    *)

Expire(c) ==
    /\ c \in DOMAIN access.pending \ expired
    /\ expired' = expired \cup {c}
    /\ UNCHANGED <<accessFiles, botId, awaiting, editing, handled, edits, shown, announced, decided>>

BeginEdit ==
    /\ editing = {} /\ edits < MaxEdits /\ edits' = edits + 1
    /\ \E a \in Edits(access) : editing' = {[of |-> access, to |-> a]}
    /\ UNCHANGED <<accessFiles, botId, expired, awaiting, handled, shown, announced, decided>>

\* What an edit decides: the senders it lets in or keeps out.
Decides(e) ==
    [s \in Human |-> IF s \in e.to.allowFrom \ e.of.allowFrom THEN "in"
                     ELSE IF s \in e.of.allowFrom \ e.to.allowFrom THEN "out" ELSE decided[s]]

FinishEdit ==
    /\ \E e \in editing : access' = e.to /\ decided' = Decides(e)
    /\ editing' = {}
    /\ UNCHANGED <<botId, expired, bots, awaiting, handled, edits, shown, announced>>

\* The operator leaves a file that cannot be parsed: the next read starts from defaults.
SpoilFile ==
    /\ editing # {} /\ editing' = {}
    /\ access' = DefaultAccess
    /\ decided' = [s \in Human |-> "unset"]
    /\ UNCHANGED <<botId, expired, bots, awaiting, handled, edits, shown, announced>>

ImInit ==
    /\ \E p \in DmPolicy, q \in GroupPolicy :
           access = [DefaultAccess EXCEPT !.dmPolicy = p, !.groupPolicy = q]
    /\ botId \in {Self, Unfetched}
    /\ expired = {} /\ awaiting = {} /\ editing = {}
    /\ bots = [g \in Group |-> [openIds |-> {}, introduced |-> {}, pendingNewBots |-> {},
                                injected |-> FALSE, needsBaseline |-> FALSE, joined |-> FALSE]]
    /\ handled = 0 /\ edits = 0
    /\ shown = {} /\ announced = [g \in Group |-> {}]
    /\ decided = [s \in Human |-> "unset"]

ImNext ==
    \/ \E m \in InboundMessage : Receive(m)
    \/ \E h \in awaiting : PromptSent(h) \/ PromptFails(h) \/ Stored(h) \/ NotStored(h)
    \/ Restart
    \/ \E g \in Group : Joined(g)
    \/ \E c \in Code : Expire(c)
    \/ BeginEdit \/ FinishEdit \/ SpoilFile

ImSpec == ImInit /\ [][ImNext]_imVars

-----------------------------------------------------------------------------
(* Properties                                                               *)

ImTypeOK ==
    /\ IsAccess(access)
    /\ \A e \in editing : IsAccess(e.to)
    /\ \A g \in Group : bots[g].introduced \cup bots[g].pendingNewBots \subseteq bots[g].openIds

\* However handlers, failing sends, restarts, expiry and edits interleave, a pairing
\* that blocks further ones is one whose code someone has seen, and the code was seen
\* only in the chat that approving it opens: the direct chat of the sender it lets in,
\* or the group (im-message.ts:139-215, access.ts:104-116).
CodesAreShownWhereTheyCount ==
    \A c \in DOMAIN access.pending :
        /\ \E x \in shown : x.code = c
        /\ \A x \in shown : x.code = c => x.chat = access.pending[c].chat

\* No peer bot is lost to the session: one known in a group has been shown in a
\* delivery that was stored, is queued for the next one, or is to come in the
\* baseline, although a delivery that shows some may fail or overlap with the
\* arrival of others (bot-discovery.ts:93-160).
PeersAreAnnounced ==
    \A g \in Group : \A b \in Peers(bots[g].openIds) :
        b \in announced[g] \/ b \in bots[g].pendingNewBots \/ ShowsBaseline(bots[g])

\* skills/access/SKILL.md:28-29: an edit takes effect on the next message.  The
\* senders the operator has let in or kept out stay so.
EditsTakeEffect ==
    editing = {} => \A s \in Human :
        /\ decided[s] = "in" => s \in access.allowFrom
        /\ decided[s] = "out" => s \notin access.allowFrom
=============================================================================
