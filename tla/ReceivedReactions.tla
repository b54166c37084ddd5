-------------------------- MODULE ReceivedReactions --------------------------
(***************************************************************************)
(* The "received" reaction the daemon puts on an inbound chat message and  *)
(* takes off when Claude replies in its chat (server.ts: markReceived,     *)
(* clearReceived, the reply tool).  Adding and removing a reaction are     *)
(* remote calls; deliveries, redeliveries and replies interleave while they*)
(* are under way.                                                          *)
(***************************************************************************)
EXTENDS Naturals, Sequences, SequencesExt

CONSTANTS
    Message,        \* inbound chat messages
    ChatOf,         \* the chat of each one
    Reply,          \* replies Claude sends
    Cap,            \* CLEARED_TOMBSTONE_CAP
    MaxDeliveries,  \* bound on deliveries, redeliveries included
    MaxRestarts,    \* bound on restarts of the daemon
    MaxFailures     \* bound on remote calls that fail

ASSUME CapAssumption == Cap \in Nat \ {0}
ASSUME BoundsAssumption == {MaxDeliveries, MaxRestarts, MaxFailures} \subseteq Nat

\* A reaction on a message; its reaction_id is the number of its delivery.
Reaction == [m : Message, id : 1..MaxDeliveries]

VARIABLES
    arriving,    \* deliveries handed to the session and not yet marked
    pending,     \* pendingReactions, in insertion order
    adding,      \* inFlightAdds, in insertion order
    tombstones,  \* clearedMessages, in insertion order
    reactions,   \* the reactions on messages at Feishu
    undoing,     \* reactions that a cleared add removes again
    clearing,    \* per reply, the reactions left of its snapshot; the removal
                 \* of the first one is awaited
    unsent,      \* replies not sent yet
    deliveries,
    restarts,
    failed,      \* remote calls that have failed
    marked,      \* history: messages whose marking has begun
    answered,    \* history: marked messages a reply in their chat came after
    unadded,     \* history: messages whose addReaction has failed
    evicted,     \* history: messages whose tombstone went past the cap
    abandoned,   \* history: reactions the daemon gave up on
    lost         \* history: reactions that a restart forgot

history      == <<marked, answered, unadded, evicted, abandoned, lost>>
bounds       == <<deliveries, restarts, failed>>
reactionVars == <<arriving, pending, adding, tombstones, reactions, undoing,
                  clearing, unsent, bounds, history>>

-----------------------------------------------------------------------------

IsIn(m, s) == \E x \in ToSet(s) : x.m = m

\* The entries of a Map, or of a Set, that are of these messages, in their order.
Only(s, messages) ==
    LET upTo[i \in 0..Len(s)] ==
            IF i = 0 THEN <<>>
            ELSE IF s[i].m \in messages THEN Append(upTo[i - 1], s[i]) ELSE upTo[i - 1]
    IN  upTo[Len(s)]

Without(s, m) == Only(s, Message \ {m})

InChat(s, c) == Only(s, {m \in Message : ChatOf[m] = c})

\* rememberCleared: the newest tombstone goes last, the oldest goes past the cap.
Remember(s, x) ==
    LET t == Append(Without(s, x.m), [m |-> x.m])
    IN  IF Len(t) > Cap THEN Tail(t) ELSE t

RememberAll(s, xs) == FoldLeft(Remember, s, xs)

-----------------------------------------------------------------------------

Fails == failed < MaxFailures /\ failed' = failed + 1

\* handleEvent up to the end of its notify: the message is in the session, for
\* the first time or again, and what follows is still to run.
Notify(m) ==
    /\ deliveries < MaxDeliveries /\ deliveries' = deliveries + 1
    /\ arriving' = arriving \cup {[m |-> m, id |-> deliveries']}
    /\ UNCHANGED <<pending, adding, tombstones, reactions, undoing, clearing, unsent,
                   restarts, failed, history>>

\* Faulty: an add that is under way does not count.
MarkReceivedTwice(x) ==
    /\ x \in arriving
    /\ arriving' = arriving \ {x}
    /\ marked' = marked \cup {x.m}
    /\ adding' = IF IsIn(x.m, pending) \/ IsIn(x.m, tombstones) THEN adding
                 ELSE Append(adding, [m |-> x.m, id |-> x.id, cleared |-> FALSE])
    /\ UNCHANGED <<pending, tombstones, reactions, undoing, clearing, unsent, bounds,
                   answered, unadded, evicted, abandoned, lost>>

\* markReceived up to its call of addReaction.
MarkReceived(x) ==
    /\ x \in arriving
    /\ arriving' = arriving \ {x}
    /\ marked' = marked \cup {x.m}
    /\ adding' = IF IsIn(x.m, pending) \/ IsIn(x.m, adding) \/ IsIn(x.m, tombstones) THEN adding
                 ELSE Append(adding, [m |-> x.m, id |-> x.id, cleared |-> FALSE])
    /\ UNCHANGED <<pending, tombstones, reactions, undoing, clearing, unsent, bounds,
                   answered, unadded, evicted, abandoned, lost>>

Awaited(x) == x \in ToSet(adding) /\ [m |-> x.m, id |-> x.id] \notin undoing

\* Faulty: the clear that came while the add was under way goes unnoticed.
AddResolvesUncleared(x) ==
    LET r == [m |-> x.m, id |-> x.id] IN
    /\ Awaited(x)
    /\ reactions' = reactions \cup {r}
    /\ adding' = Without(adding, x.m)
    /\ pending' = Append(pending, r)
    /\ UNCHANGED <<arriving, tombstones, undoing, clearing, unsent, bounds, history>>

\* addReaction resolves: the reaction is recorded, or removed again when a
\* reply has cleared it in the meantime.
AddResolves(x) ==
    LET r == [m |-> x.m, id |-> x.id] IN
    /\ Awaited(x)
    /\ reactions' = reactions \cup {r}
    /\ IF x.cleared
         THEN undoing' = undoing \cup {r} /\ UNCHANGED <<pending, adding>>
         ELSE /\ adding' = Without(adding, x.m)
              /\ pending' = Append(pending, r)
              /\ UNCHANGED undoing
    /\ UNCHANGED <<arriving, tombstones, clearing, unsent, bounds, history>>

\* addReaction rejects, or resolves without the id of the reaction it added.
AddReactionFails(x) ==
    LET r == [m |-> x.m, id |-> x.id] IN
    /\ Fails
    /\ Awaited(x)
    /\ adding' = Without(adding, x.m)
    /\ unadded' = unadded \cup {x.m}
    /\ \/ UNCHANGED <<reactions, abandoned>>
       \/ reactions' = reactions \cup {r} /\ abandoned' = abandoned \cup {r}
    /\ UNCHANGED <<arriving, pending, tombstones, undoing, clearing, unsent,
                   deliveries, restarts, marked, answered, evicted, lost>>

\* removeReaction resolves or rejects; the reaction is not tried again.
Removed(r) ==
    \/ reactions' = reactions \ {r} /\ UNCHANGED <<failed, abandoned>>
    \/ Fails /\ abandoned' = abandoned \cup {r} /\ UNCHANGED reactions

UndoResolves(r) ==
    /\ r \in undoing
    /\ Removed(r)
    /\ undoing' = undoing \ {r}
    /\ adding' = Without(adding, r.m)
    /\ UNCHANGED <<arriving, pending, tombstones, clearing, unsent,
                   deliveries, restarts, marked, answered, unadded, evicted, lost>>

\* The tombstones of what is cleared go in, older ones go past the cap.
Entomb(cleared) ==
    /\ tombstones' = RememberAll(tombstones, cleared)
    /\ evicted' = evicted \cup
           {m \in Message : (IsIn(m, tombstones) \/ IsIn(m, cleared)) /\ ~IsIn(m, tombstones')}

\* The loop of clearReceived moves to the first of what is left: its message
\* is dropped and remembered, and the removal of its reaction begun.
Advance(w, left, cleared) ==
    /\ clearing' = [clearing EXCEPT ![w] = left]
    /\ pending' = IF left = <<>> THEN pending ELSE Without(pending, Head(left).m)
    /\ Entomb(IF left = <<>> THEN cleared ELSE Append(cleared, Head(left)))

\* A reply has been sent into chat c: clearReceived flags and remembers the
\* adds under way there and begins with the reactions pending there.
ReplyLands(w, c) ==
    /\ w \in unsent
    /\ unsent' = unsent \ {w}
    /\ answered' = answered \cup {m \in marked : ChatOf[m] = c}
    /\ adding' = [i \in 1..Len(adding) |->
                      IF ChatOf[adding[i].m] = c THEN [adding[i] EXCEPT !.cleared = TRUE]
                      ELSE adding[i]]
    /\ Advance(w, InChat(pending, c), InChat(adding, c))
    /\ UNCHANGED <<arriving, reactions, undoing, bounds, marked, unadded, abandoned, lost>>

RemovalResolves(w) ==
    /\ clearing[w] # <<>>
    /\ Removed(Head(clearing[w]))
    /\ Advance(w, Tail(clearing[w]), <<>>)
    /\ UNCHANGED <<arriving, adding, undoing, unsent, deliveries, restarts,
                   marked, answered, unadded, lost>>

\* The daemon dies and another takes over: the calls under way may or may not
\* have reached Feishu, the maps start empty, and the session of Claude, a
\* process of its own, goes on.
RestartDaemon ==
    /\ restarts < MaxRestarts /\ restarts' = restarts + 1
    /\ arriving' = {} /\ pending' = <<>> /\ adding' = <<>> /\ tombstones' = <<>>
    /\ undoing' = {} /\ clearing' = [w \in Reply |-> <<>>]
    /\ \E added \in SUBSET {[m |-> x.m, id |-> x.id] : x \in ToSet(adding)},
          removed \in SUBSET (undoing \cup {Head(clearing[w]) : w \in {v \in Reply : clearing[v] # <<>>}}) :
         reactions' = (reactions \cup added) \ removed
    /\ lost' = reactions'
    /\ UNCHANGED <<unsent, deliveries, failed, marked, answered, unadded,
                   evicted, abandoned>>

-----------------------------------------------------------------------------

ReactionInit ==
    /\ arriving = {} /\ pending = <<>> /\ adding = <<>> /\ tombstones = <<>>
    /\ reactions = {} /\ undoing = {}
    /\ clearing = [w \in Reply |-> <<>>]
    /\ unsent = Reply /\ deliveries = 0 /\ restarts = 0 /\ failed = 0
    /\ marked = {} /\ answered = {} /\ unadded = {} /\ evicted = {} /\ abandoned = {} /\ lost = {}

RemoteCall ==
    \/ \E x \in ToSet(adding) : AddResolves(x) \/ AddReactionFails(x)
    \/ \E r \in undoing : UndoResolves(r)
    \/ \E w \in Reply : RemovalResolves(w)

ReactionNext ==
    \/ \E m \in Message : Notify(m)
    \/ \E x \in arriving : MarkReceived(x)
    \/ \E w \in Reply, m \in Message : ReplyLands(w, ChatOf[m])
    \/ RemoteCall
    \/ RestartDaemon

ReactionSpec == ReactionInit /\ [][ReactionNext]_reactionVars

\* Every remote call returns.
ReactionFairness == WF_reactionVars(RemoteCall)

FairReactionSpec == ReactionSpec /\ ReactionFairness

-----------------------------------------------------------------------------
(* Properties                                                               *)

\* Type correctness; each list holds a message once.
ReactionTypeOK ==
    /\ arriving \subseteq Reaction
    /\ ToSet(pending) \subseteq Reaction
    /\ ToSet(adding) \subseteq [m : Message, id : 1..MaxDeliveries, cleared : BOOLEAN]
    /\ ToSet(tombstones) \subseteq [m : Message]
    /\ \A s \in {pending, adding, tombstones} : \A i, j \in 1..Len(s) : s[i].m = s[j].m => i = j
    /\ Len(tombstones) <= Cap
    /\ reactions \subseteq Reaction /\ undoing \subseteq reactions
    /\ \A w \in Reply : ToSet(clearing[w]) \subseteq Reaction
    /\ unsent \subseteq Reply
    /\ deliveries \in 0..MaxDeliveries /\ restarts \in 0..MaxRestarts /\ failed \in 0..MaxFailures
    /\ answered \cup unadded \cup evicted \subseteq marked /\ marked \subseteq Message

\* "One received indicator per message" (server.ts:402-406): no interleaving of
\* redeliveries with calls under way puts a second reaction beside one that the
\* daemon still has in hand, while the message's tombstone is kept.
OneIndicator ==
    \A r, s \in reactions \ (abandoned \cup lost) :
        r.m = s.m /\ r.m \notin evicted => r = s

\* Every reaction at Feishu is one the daemon will still remove, now or on the
\* next reply, or one it has logged that it cannot, or one it forgot when it
\* was restarted.  A message whose tombstone is dropped may be marked again while
\* a reply has its first reaction still on its list: the reply then drops the
\* second one from the map, and nothing removes it.
NoneStranded ==
    \A r \in reactions :
        \/ r \in ToSet(pending) \cup undoing \cup abandoned \cup lost
        \/ \E w \in Reply : r \in ToSet(clearing[w])
        \/ r.m \in evicted

\* A marked message that has been answered is not waiting for a reply any more,
\* whether its add resolves or it is delivered again after the reply.  (A
\* reply that is still being processed may have it on its list; a failed add
\* leaves no tombstone, the cap drops the oldest one, a restart all of them.)
AnsweredIsNotPending ==
    \A r \in ToSet(pending) :
        r.m \in answered \ (unadded \cup evicted) /\ restarts = 0
            => \E w \in Reply : r \in ToSet(clearing[w])

\* Once a marked message is answered its reaction goes away, unless a call
\* fails, its tombstone is dropped at the cap or the daemon restarts.
AnsweredIsCleared ==
    \A m \in Message :
        m \in answered ~> \/ ~\E r \in reactions : r.m = m
                          \/ m \in evicted
                          \/ failed + restarts > 0

=============================================================================
