--------------------------- MODULE MCChannelState ---------------------------
(* Parts of the channel that keep state of their own and share none: who owns *)
(* it, its queue file, its access and chat stores, the doctor's view of it,   *)
(* comments that come in, and what Claude writes.  A behaviour is one of      *)
(* them, the rest stays as it is at first.                                    *)
EXTENDS ChannelOwner, QueueFile, ImMessage, ChannelDoctor, DocComment, OutboundReply, TLC

CONSTANTS h1, h2, k1, k2, k3, b1, g1, d1, d2, s1, s2, c1, c2, c3, c4, l1, x1, x2, w1, e1, e2, a1, o1, o2, m1, m2

VARIABLE part

MCConn        == {c1, c2, c3, c4}
MCSession     == {d1, d2, s1, s2}
MCDispatchers == {d1, d2}
MCSidOf       == c1 :> d1 @@ c2 :> d2 @@ c3 :> s1 @@ c4 :> s2

MCHuman == {h1, h2}
MCCode  == {k1, k2, k3}

\* Senders and pairing codes are interchangeable.
Symmetry == Permutations(MCHuman) \cup Permutations(MCCode)

MCPlaceOf == m1 :> c1 @@ m2 :> c2

MCServerVersion == d1 :> 1 @@ d2 :> 2 @@ l1 :> 1 @@ x1 :> 2 @@ x2 :> 2
Registered2(first, second, own, dis) ==
    [reg |-> x1 :> first @@ x2 :> second, owner |-> own, dispatcher |-> dis]
MCOwnerships ==
    { Registered2("dispatcher", "session", x1, x1),
      Registered2("dispatcher", "session", x2, x1),
      Registered2("none", "dispatcher", x2, x2),
      Registered2("none", "none", NoServer, NoServer) }

MCInit ==
    /\ part \in {"owner", "queue", "messages", "doctor", "comments", "tools"}
    /\ OwnerInit /\ QueueInit /\ ImInit /\ DoctorInit /\ CommentInit /\ ReplyInit
    /\ part # "comments" => ownId = ThisBot
    /\ part # "messages" => access = DefaultAccess /\ botId = Self
    \* A fault of the files only adds to a report, in a check of its own.
    /\ files = "sound"
    /\ part # "doctor" =>
           /\ alive = {} /\ listening = NoServer /\ ~socket /\ pidfile = NoServer
           /\ pinned = 1

MCNext ==
    /\ part' = part
    /\ \/ part = "owner" /\ OwnerNext
          /\ UNCHANGED <<queueVars, imVars, doctorVars, commentVars, replyVars>>
       \/ part = "queue" /\ QueueNext
          /\ UNCHANGED <<ownerVars, imVars, doctorVars, commentVars, replyVars>>
       \/ part = "messages" /\ ImNext
          /\ UNCHANGED <<ownerVars, queueVars, doctorVars, commentVars, replyVars>>
       \/ part = "doctor" /\ DoctorNext
          /\ UNCHANGED <<ownerVars, queueVars, imVars, commentVars, replyVars>>
       \/ part = "comments" /\ CommentNext
          /\ UNCHANGED <<ownerVars, queueVars, imVars, doctorVars, replyVars>>
       \/ part = "tools" /\ ReplyNext
          /\ UNCHANGED <<ownerVars, queueVars, imVars, doctorVars, commentVars>>

MCSpec == MCInit /\ [][MCNext]_<<part, ownerVars, queueVars, imVars, doctorVars, commentVars, replyVars>>
=============================================================================
