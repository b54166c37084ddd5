---------------------------- MODULE OutboundReply ----------------------------
(***************************************************************************)
(* The tools with which Claude writes to Feishu: reply, react and          *)
(* edit_message (server.ts, handleTool), and what the transport makes of   *)
(* them (feishu.ts, sendText, addReaction, editText).  A reply is one card *)
(* or several, sent one after the other; the calls of several sessions are *)
(* under way at once.                                                      *)
(*                                                                         *)
(* Feishu is external: it takes a request or refuses it, and its answer    *)
(* may be lost although the request was taken.  ReceivedReactions has what *)
(* clearing a chat does; here it is that it is done, and for which chat.   *)
(***************************************************************************)
EXTENDS Naturals, Sequences

CONSTANTS
    ToolCall,   \* calls of a tool
    Place,      \* chats
    Posted,     \* messages that exist, which a reply follows or an edit changes
    NoMessage,
    PlaceOf,    \* the chat of a message
    LegacyText, \* those of them that are no cards
    MaxCards    \* bound: cards of one reply

ASSUME ReplyAssumption ==
    /\ PlaceOf \in [Posted -> Place] /\ LegacyText \subseteq Posted /\ NoMessage \notin Posted
    /\ Place # {} /\ MaxCards \in Nat \ {0}

VARIABLES
    tool,       \* a call: its step, its arguments and how far it is
    feed,       \* the cards of a chat, in order: [by, n]
    shows,      \* whose text a message shows, NoMessage for its first
    answered    \* chats whose indicators a call had taken off: [by, chat]

replyVars == <<tool, feed, shows, answered>>

Idle == [step |-> "idle", chat |-> CHOOSE p \in Place : TRUE, follows |-> NoMessage, cards |-> 0, sent |-> 0]

ReplyInit ==
    /\ tool = [c \in ToolCall |-> Idle]
    /\ feed = [p \in Place |-> <<>>]
    /\ shows = [m \in Posted |-> NoMessage]
    /\ answered = {}

Step(c, step) == tool' = [tool EXCEPT ![c].step = step]

-----------------------------------------------------------------------------
(* reply                                                                    *)

\* An empty argument is an error, before anything is sent.
CallReply(c) ==
    /\ tool[c].step = "idle"
    /\ \E p \in Place, m \in Posted \cup {NoMessage}, n \in 0..MaxCards :
         tool' = [tool EXCEPT ![c] = [step |-> IF n = 0 THEN "error" ELSE "sending",
                                      chat |-> p, follows |-> m, cards |-> n, sent |-> 0]]
    /\ UNCHANGED <<feed, shows, answered>>

\* Variation: the chat that was named is taken to be the one that was written to.
LandsInNamed(c) == tool[c].chat

\* The chat the call says it wrote to: the one in Feishu's answer to a reply, the
\* one that was named otherwise.
Lands(c) == IF tool[c].follows = NoMessage THEN tool[c].chat ELSE PlaceOf[tool[c].follows]

\* Where a card ends up (Feishu): with the message it replies to, whatever chat is
\* named.
Goes(c) == IF tool[c].follows = NoMessage THEN tool[c].chat ELSE PlaceOf[tool[c].follows]

Appears(c) == feed' = [feed EXCEPT ![Goes(c)] = Append(@, [by |-> c, n |-> tool[c].sent + 1])]

SendCard(c) ==
    /\ tool[c].step = "sending" /\ tool[c].sent < tool[c].cards
    /\ Appears(c)
    /\ tool' = [tool EXCEPT ![c].sent = @ + 1]
    /\ UNCHANGED <<shows, answered>>

\* A card is refused, or its answer is lost or does not name the chat: the call
\* fails, with the cards before it on show.
CardFails(c) ==
    /\ tool[c].step = "sending" /\ tool[c].sent < tool[c].cards
    /\ Step(c, "error")
    /\ Appears(c) \/ UNCHANGED feed
    /\ UNCHANGED <<shows, answered>>

\* All of it is sent: the chat counts as answered.
FinishReply(c) ==
    /\ tool[c].step = "sending" /\ tool[c].sent = tool[c].cards
    /\ Step(c, "sent")
    /\ answered' = answered \cup {[by |-> c, chat |-> Lands(c)]}
    /\ UNCHANGED <<feed, shows>>

-----------------------------------------------------------------------------
(* edit_message and react                                                   *)

\* A text for more than one card, or too large for one request, is not sent.
CallEdit(c) ==
    /\ tool[c].step = "idle"
    /\ \E m \in Posted, fits \in BOOLEAN :
         tool' = [tool EXCEPT ![c] = [Idle EXCEPT !.step = IF fits THEN "patch" ELSE "error", !.follows = m]]
    /\ UNCHANGED <<feed, shows, answered>>

\* A card is patched; Feishu does not patch what is no card.
Patch(c) ==
    /\ tool[c].step = "patch" /\ tool[c].follows \notin LegacyText
    /\ shows' = [shows EXCEPT ![tool[c].follows] = c]
    /\ Step(c, "edited") \/ Step(c, "update")
    /\ UNCHANGED <<feed, answered>>

PatchFails(c) ==
    /\ tool[c].step = "patch"
    /\ Step(c, "update")
    /\ UNCHANGED <<feed, shows, answered>>

\* The second try, for a message that is text, is not accepted for a card.
UpdateText(c) ==
    /\ tool[c].step = "update" /\ tool[c].follows \in LegacyText
    /\ shows' = [shows EXCEPT ![tool[c].follows] = c]
    /\ Step(c, "edited") \/ Step(c, "error")
    /\ UNCHANGED <<feed, answered>>

UpdateFails(c) ==
    /\ tool[c].step = "update"
    /\ Step(c, "error")
    /\ UNCHANGED <<feed, shows, answered>>

CallReact(c) ==
    /\ tool[c].step = "idle"
    /\ Step(c, "reacted") \/ Step(c, "error")
    /\ UNCHANGED <<feed, shows, answered>>

ReplyNext ==
    \E c \in ToolCall :
        \/ CallReply(c) \/ SendCard(c) \/ CardFails(c) \/ FinishReply(c)
        \/ CallEdit(c) \/ Patch(c) \/ PatchFails(c) \/ UpdateText(c) \/ UpdateFails(c)
        \/ CallReact(c)

ReplySpec == ReplyInit /\ [][ReplyNext]_replyVars

-----------------------------------------------------------------------------
(* Properties                                                               *)

\* Among the cards of a chat, those of call c, by their places.
CardsOf(c, cards) == {i \in DOMAIN cards : cards[i].by = c}

\* They are the first `count` of its answer, each once and in order.
InOrder(c, cards, count) ==
    /\ {cards[i].n : i \in CardsOf(c, cards)} = 1 .. count
    /\ \A i, j \in CardsOf(c, cards) : i < j => cards[i].n < cards[j].n

\* A chat counts as answered only if the whole answer is in it, each card once
\* and in order, whatever chat the call named and however other calls were
\* mixed with it (server.ts, reply; feishu.ts, sendText).
AnswerLandsWhole ==
    \A a \in answered : InOrder(a.by, feed[a.chat], tool[a.by].cards)
=============================================================================
