----------------------------- MODULE AccessGate -----------------------------
(***************************************************************************)
(* The gate an inbound chat message passes before it reaches the session   *)
(* (access.ts), and the file it decides from (access-store.ts).  Gate is a *)
(* pure function of the file's content, the message and a fresh code; who  *)
(* calls it saves the content it returns.                                  *)
(***************************************************************************)
EXTENDS Naturals, FiniteSets, Functions

CONSTANTS
    Human,          \* senders that are users; one's direct chat has the name of its sender
    Bot,            \* senders that are bots of other apps
    Self,           \* this bot
    Group,          \* group chats
    Code,           \* pairing codes
    Unfetched,      \* botOpenId when it could not be fetched
    MaxPending,     \* MAX_PENDING
    MaxReplies      \* MAX_PAIRING_REPLIES

ASSUME GateAssumption ==
    /\ Self \notin Human \cup Bot /\ Unfetched \notin Human \cup Bot \cup {Self}
    /\ Human \cap Bot = {} /\ Group \cap Human = {}
    /\ {MaxPending, MaxReplies} \subseteq Nat \ {0}

Chat == Human \cup Group
DmPolicy == {"pairing", "allowlist", "disabled"}
GroupPolicy == {"block", "allowlist", "follow-user"}
GroupEntry == [requireMention : BOOLEAN, allowFrom : SUBSET (Human \cup Bot)]
PendingEntry == [kind : {"dm", "group"}, sender : Human \cup Bot, chat : Chat, replies : 1..MaxReplies]

None == CHOOSE f \in [{} -> {}] : TRUE
DefaultAccess == [dmPolicy |-> "pairing", groupPolicy |-> "allowlist", allowFrom |-> {},
                  groups |-> None, pending |-> None]

With(f, x, y) == [z \in DOMAIN f \cup {x} |-> IF z = x THEN y ELSE f[z]]
Only(f, S) == [z \in DOMAIN f \cap S |-> f[z]]

-----------------------------------------------------------------------------
(* The gate.  A message has a sender, a chat and the ids it mentions.        *)

Drop(access)          == [action |-> "drop", access |-> access]
Deliver(access)       == [action |-> "deliver", access |-> access]
Pair(access, code, e) == [action |-> "pair", code |-> code,
                          access |-> [access EXCEPT !.pending = With(@, code, e)]]

\* pruneExpiredPending
Prune(access, expired) == [access EXCEPT !.pending = Only(@, Code \ expired)]

NewPairing(access, kind, m, newCode) ==
    IF Cardinality(DOMAIN access.pending) >= MaxPending
    THEN Drop(access)
    ELSE Pair(access, newCode, [kind |-> kind, sender |-> m.sender, chat |-> m.chat, replies |-> 1])

\* A plausible bug: any pairing the sender has started is repeated to it.
PairingOfAnyKind(access, s) == {c \in DOMAIN access.pending : access.pending[c].sender = s}

\* The codes of a sender's own direct pairing.
PairingOf(access, s) ==
    {c \in DOMAIN access.pending : access.pending[c].kind = "dm" /\ access.pending[c].sender = s}

GateDirect(access, m, newCode) ==
    IF access.dmPolicy = "disabled" THEN Drop(access)
    ELSE IF m.sender \in access.allowFrom THEN Deliver(access)
    ELSE IF access.dmPolicy = "allowlist" THEN Drop(access)
    ELSE IF PairingOf(access, m.sender) = {} THEN NewPairing(access, "dm", m, newCode)
    ELSE LET code == CHOOSE c \in PairingOf(access, m.sender) : TRUE
             entry == access.pending[code]
         IN  IF entry.replies >= MaxReplies THEN Drop(access)
             ELSE Pair(access, code, [entry EXCEPT !.replies = @ + 1])

\* isBotMentioned; an unknown open_id is in no mention.
Mentioned(m, botId) == botId # Unfetched /\ botId \in m.mentions

GateFollowUser(access, m, botId, introduced) ==
    IF /\ Mentioned(m, botId)
       /\ m.sender \in access.allowFrom \/ m.sender \in Bot \cap introduced
    THEN Deliver(access) ELSE Drop(access)

GateConfigured(access, m, botId) ==
    LET policy == access.groups[m.chat]
    IN  IF /\ policy.allowFrom = {} \/ m.sender \in policy.allowFrom
           /\ policy.requireMention => Mentioned(m, botId)
        THEN Deliver(access) ELSE Drop(access)

GateUnconfigured(access, m, botId, newCode) ==
    IF /\ Mentioned(m, botId)
       /\ \A c \in DOMAIN access.pending :
              ~(access.pending[c].kind = "group" /\ access.pending[c].chat = m.chat)
    THEN NewPairing(access, "group", m, newCode) ELSE Drop(access)

GateGroup(access, m, botId, introduced, newCode) ==
    CASE access.groupPolicy = "block" -> Drop(access)
      [] access.groupPolicy = "follow-user" -> GateFollowUser(access, m, botId, introduced)
      [] access.groupPolicy = "allowlist" ->
             IF m.chat \in DOMAIN access.groups THEN GateConfigured(access, m, botId)
             ELSE GateUnconfigured(access, m, botId, newCode)

Gate(access, expired, m, botId, introduced, newCode) ==
    LET pruned == Prune(access, expired)
    IN  IF m.chat \in Group THEN GateGroup(pruned, m, botId, introduced, newCode)
        ELSE GateDirect(pruned, m, newCode)

\* isGroupAuthorized
GroupAuthorized(access, chat, sender) ==
    /\ chat \in Group
    /\ \/ access.groupPolicy = "follow-user"
       \/ /\ access.groupPolicy = "allowlist"
          /\ chat \in DOMAIN access.groups
          /\ access.groups[chat].allowFrom = {} \/ sender \in access.groups[chat].allowFrom

-----------------------------------------------------------------------------
(* The operator's edits (access-store.ts, scripts/configure.ts, skills/access) *)

\* Approving a code.
Approve(access, code) ==
    LET e == access.pending[code]
        rest == [access EXCEPT !.pending = Only(@, Code \ {code})]
    IN  IF e.kind = "dm" THEN [rest EXCEPT !.allowFrom = @ \cup {e.sender}]
        ELSE [rest EXCEPT !.groups =
                  With(@, e.chat, [requireMention |-> TRUE, allowFrom |-> {}])]

Block(access, s) == [access EXCEPT !.allowFrom = @ \ {s}]

SetGroupPolicy(access, p) == [access EXCEPT !.groupPolicy = p]

Edits(access) ==
    {Approve(access, c) : c \in DOMAIN access.pending}
        \cup {Block(access, s) : s \in access.allowFrom}
        \cup {SetGroupPolicy(access, p) : p \in GroupPolicy \ {access.groupPolicy}}

IsAccess(a) ==
    /\ DOMAIN a = DOMAIN DefaultAccess
    /\ a.dmPolicy \in DmPolicy /\ a.groupPolicy \in GroupPolicy
    /\ a.allowFrom \subseteq Human \cup Bot
    /\ DOMAIN a.groups \subseteq Group /\ \A g \in DOMAIN a.groups : a.groups[g] \in GroupEntry
    /\ DOMAIN a.pending \subseteq Code
    /\ Cardinality(DOMAIN a.pending) <= MaxPending
    /\ \A c \in DOMAIN a.pending : a.pending[c] \in PendingEntry
=============================================================================
