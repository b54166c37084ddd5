--------------------------- MODULE InboundDelivery ---------------------------
(***************************************************************************)
(* The way of an inbound Feishu event to a Claude session and back: the    *)
(* standing daemon persists it, routes it to the proxy of the channel      *)
(* owner, the proxy writes it to Claude and acknowledges it, the daemon    *)
(* marks its row delivered (daemon.ts, daemon-queue.ts, daemon-routing.ts, *)
(* daemon-connection.ts, proxy-client.ts).  Composed with ChannelOwner,    *)
(* whose every hand-off replays the undelivered rows to the new owner.     *)
(*                                                                         *)
(* An event here is one the access gate lets through.  The queue file is   *)
(* its meaning under readRows (the undelivered rows in file order, and the *)
(* ids marked delivered); QueueFile models its bytes.                      *)
(***************************************************************************)
EXTENDS ChannelOwner, Sequences

CONSTANTS
    Event,          \* Feishu events, one idempotency key each
    MaxFaults,      \* bound on crashes, closed connections and other failures
    MaxCalls        \* bound on ownership tool calls

ASSUME EventAssumption == IsFiniteSet(Event)
ASSUME BoundAssumption == MaxFaults \in Nat /\ MaxCalls \in Nat

VARIABLES
    acked,      \* events the SDK has acknowledged: Feishu sends the others, and again
    phase,      \* of the daemon: down, serving proxies, or open to Feishu too
    handling,   \* events persisted by an event handler that has not returned
    pending,    \* undelivered rows of the queue file, in file order
    delivered,  \* ids of the rows marked delivered
    toProxy,    \* deliver frames on their way, per connection
    acks,       \* ack frames on their way, per connection
    rendered,   \* events written to a Claude session
    dropped,    \* history: events whose write or delivered mark has failed
    swallowed,  \* history: events whose handler has thrown
    faults,     \* failures so far
    calls       \* ownership tool calls so far

fileVars     == <<pending, delivered>>
deliveryVars == <<acked, phase, handling, fileVars, toProxy, acks, rendered>>
failures     == <<dropped, swallowed>>
counters     == <<faults, calls>>
inboundVars  == <<ownerVars, deliveryVars, failures, counters>>

-----------------------------------------------------------------------------

Elems(s) == {s[i] : i \in 1..Len(s)}

\* All rows of the file.
Persisted == Elems(pending) \cup delivered

\* s without its entry e.
Drop(s, e) ==
    LET k == CHOOSE i \in 1..Len(s) : s[i] = e
    IN  IF e \in Elems(s)
          THEN [i \in 1..Len(s) - 1 |-> IF i < k THEN s[i] ELSE s[i + 1]]
          ELSE s

\* Frames written to the socket of connection c, which may be Nobody.
Frames(c, s) == [toProxy EXCEPT ![c] = @ \o s]

Route(c, s) == toProxy' = IF c = Nobody THEN toProxy ELSE Frames(c, s)

Fault == faults < MaxFaults /\ faults' = faults + 1 /\ UNCHANGED calls
Call  == calls < MaxCalls /\ calls' = calls + 1 /\ UNCHANGED faults

-----------------------------------------------------------------------------
(* Feishu, and the daemon's handling of its events                          *)

\* handleEvent up to the return of notify: the row is appended unless the
\* file has it, and routed even if the file had it already.
Receive(e) ==
    /\ phase = "open" /\ e \notin acked \cup handling
    /\ pending' = IF e \in Persisted THEN pending ELSE Append(pending, e)
    /\ Route(Select, <<e>>)
    /\ handling' = handling \cup {e}
    /\ UNCHANGED <<ownerVars, acked, phase, delivered, acks, rendered, failures, counters>>

\* handleEvent returns and the SDK acknowledges the event.
AckFeishu(e) ==
    /\ e \in handling
    /\ handling' = handling \ {e}
    /\ acked' = acked \cup {e}
    /\ UNCHANGED <<ownerVars, phase, fileVars, toProxy, acks, rendered, failures, counters>>

\* The acknowledgement is lost or late: Feishu sends the event again.
LoseFeishuAck(e) ==
    /\ Fault
    /\ e \in handling
    /\ handling' = handling \ {e}
    /\ UNCHANGED <<ownerVars, acked, phase, fileVars, toProxy, acks, rendered, failures>>

\* An event handler throws, say while saving the access file: the error is
\* logged and handleEvent returns as if the event were dealt with.
HandlerFails(e) ==
    /\ Fault
    /\ phase = "open" /\ e \notin acked \cup handling
    /\ acked' = acked \cup {e}
    /\ swallowed' = swallowed \cup {e}
    /\ UNCHANGED <<ownerVars, phase, handling, fileVars, toProxy, acks, rendered, dropped>>

-----------------------------------------------------------------------------
(* The daemon process                                                       *)

\* The socket server listens first; the Feishu connection is opened last and
\* the rows left by an earlier daemon are replayed after it.
Start ==
    /\ phase = "down"
    /\ phase' = "serving"
    /\ UNCHANGED <<ownerVars, acked, handling, fileVars, toProxy, acks, rendered, failures, counters>>

Open ==
    /\ phase = "serving"
    /\ phase' = "open"
    /\ Route(Select, pending)
    /\ UNCHANGED <<ownerVars, acked, handling, fileVars, acks, rendered, failures, counters>>

\* The process ends, by a crash or by close(): the sockets and the memory go.
Crash ==
    /\ Fault
    /\ phase # "down"
    /\ DaemonRestart
    /\ phase' = "down"
    /\ handling' = {}
    /\ toProxy' = [c \in Conn |-> <<>>]
    /\ acks' = [c \in Conn |-> {}]
    /\ UNCHANGED <<acked, fileVars, rendered, failures>>

-----------------------------------------------------------------------------
(* Proxies and their connections                                            *)

ProxyConnect(c) ==
    /\ phase # "down"
    /\ Connect(c)
    /\ UNCHANGED <<deliveryVars, failures, counters>>

ProxyClose(c) ==
    /\ Fault
    /\ Close(c)
    /\ toProxy' = [toProxy EXCEPT ![c] = <<>>]
    /\ acks' = [acks EXCEPT ![c] = {}]
    /\ UNCHANGED <<acked, phase, handling, fileVars, rendered, failures>>

\* Faulty: only a change of the owner replays the pending rows.
RegisterReplaysOnChangeOnly(c) ==
    /\ Register(c)
    /\ Route(Select', IF IsDispatcher(c) /\ FollowsDispatcher THEN pending ELSE <<>>)
    /\ UNCHANGED <<acked, phase, handling, fileVars, acks, rendered, failures, counters>>

\* Faulty: the pending rows are replayed to whoever registers.
RegisterReplaysToNewcomer(c) ==
    /\ Register(c)
    /\ Route(c, pending)
    /\ UNCHANGED <<acked, phase, handling, fileVars, acks, rendered, failures, counters>>

\* onRegister replays the pending rows after the owner state has seen the
\* proxy.  When that changed the owner, onChanged has replayed them already.
ProxyRegister(c) ==
    /\ Register(c)
    /\ LET changed == IsDispatcher(c) /\ FollowsDispatcher
       IN  Route(Select', IF changed THEN pending \o pending ELSE pending)
    /\ UNCHANGED <<acked, phase, handling, fileVars, acks, rendered, failures, counters>>

\* Every hand-off of the channel replays the pending rows to its new owner.
HandOff ==
    /\ Call
    /\ \E c \in Conn : \/ ReturnToDispatcher(c)
                       \/ Reclaim(c)
                       \/ \E t \in Session : Acquire(c, t)
    /\ Route(Select', pending)
    /\ UNCHANGED <<acked, phase, handling, fileVars, acks, rendered, failures>>

GrantCall ==
    /\ Call
    /\ \E c \in Conn, t \in Session : Grant(c, t)
    /\ UNCHANGED <<deliveryVars, failures>>

\* The proxy writes the frame to Claude, then acknowledges it.
Render(c) ==
    /\ toProxy[c] # <<>>
    /\ toProxy' = [toProxy EXCEPT ![c] = Tail(@)]
    /\ rendered' = rendered \cup {Head(toProxy[c])}
    /\ acks' = [acks EXCEPT ![c] = @ \cup {Head(toProxy[c])}]
    /\ UNCHANGED <<ownerVars, acked, phase, handling, fileVars, failures, counters>>

\* The write to Claude fails: no acknowledgement, and nothing else.
RenderFails(c) ==
    /\ Fault
    /\ toProxy[c] # <<>>
    /\ toProxy' = [toProxy EXCEPT ![c] = Tail(@)]
    /\ dropped' = dropped \cup {Head(toProxy[c])}
    /\ UNCHANGED <<ownerVars, acked, phase, handling, fileVars, acks, rendered, swallowed>>

\* Faulty: the row is removed from the file instead of being marked.
HandleAckRemovesRow(c, e) ==
    /\ e \in acks[c]
    /\ acks' = [acks EXCEPT ![c] = @ \ {e}]
    /\ pending' = Drop(pending, e)
    /\ UNCHANGED <<ownerVars, acked, phase, handling, delivered, toProxy, rendered, failures, counters>>

\* markDelivered: unknown and delivered rows are left alone.
HandleAck(c, e) ==
    /\ e \in acks[c]
    /\ acks' = [acks EXCEPT ![c] = @ \ {e}]
    /\ delivered' = IF e \in Elems(pending) THEN delivered \cup {e} ELSE delivered
    /\ pending' = Drop(pending, e)
    /\ UNCHANGED <<ownerVars, acked, phase, handling, toProxy, rendered, failures, counters>>

\* The append of the delivered mark fails: logged, and the row stays pending.
MarkFails(c, e) ==
    /\ Fault
    /\ e \in acks[c]
    /\ acks' = [acks EXCEPT ![c] = @ \ {e}]
    /\ dropped' = dropped \cup {e}
    /\ UNCHANGED <<ownerVars, acked, phase, handling, fileVars, toProxy, rendered, swallowed>>

-----------------------------------------------------------------------------

InboundInit ==
    /\ OwnerInit
    /\ acked = {} /\ phase = "down" /\ handling = {}
    /\ pending = <<>> /\ delivered = {}
    /\ toProxy = [c \in Conn |-> <<>>] /\ acks = [c \in Conn |-> {}]
    /\ rendered = {} /\ dropped = {} /\ swallowed = {}
    /\ faults = 0 /\ calls = 0

InboundNext ==
    \/ \E e \in Event : \/ Receive(e)
                        \/ AckFeishu(e)
                        \/ LoseFeishuAck(e)
                        \/ HandlerFails(e)
    \/ Start \/ Open \/ Crash
    \/ \E c \in Conn : \/ ProxyConnect(c)
                       \/ ProxyClose(c)
                       \/ ProxyRegister(c)
                       \/ Render(c)
                       \/ RenderFails(c)
                       \/ \E e \in Event : HandleAck(c, e) \/ MarkFails(c, e)
    \/ HandOff \/ GrantCall

InboundSpec == InboundInit /\ [][InboundNext]_inboundVars

\* What keeps going while the processes live: Feishu redelivers, the daemon
\* finishes opening and reads its sockets, a proxy handles its frames.  Nobody
\* is assumed to connect, to register or to call a tool.
Progress ==
    /\ WF_inboundVars(Open)
    /\ \A e \in Event : WF_inboundVars(Receive(e)) /\ WF_inboundVars(AckFeishu(e))
    /\ \A c \in Conn : /\ WF_inboundVars(Render(c))
                       /\ \A e \in Event : WF_inboundVars(HandleAck(c, e))

FairInboundSpec == InboundSpec /\ Progress

-----------------------------------------------------------------------------
(* Properties                                                               *)

\* Type correctness, with the rows of the file distinct and a down daemon
\* holding no connection.
InboundTypeOK ==
    /\ OwnerTypeOK
    /\ acked \subseteq Event
    /\ phase \in {"down", "serving", "open"}
    /\ handling \subseteq Event
    /\ pending \in Seq(Event) /\ delivered \subseteq Event
    /\ toProxy \in [Conn -> Seq(Event)]
    /\ acks \in [Conn -> SUBSET Event]
    /\ rendered \cup dropped \cup swallowed \subseteq Event
    /\ faults \in 0..MaxFaults /\ calls \in 0..MaxCalls

\* An event Feishu will not send again is in the durable queue, whatever
\* crashed, was lost or was sent twice in between (createDurableNotifier); only
\* a handler that throws makes an exception.
AckedIsPersisted == acked \ swallowed \subseteq Persisted

\* While the owner is connected, no undelivered row is stranded: each one is
\* in a frame to the owner's proxy or in an acknowledgement from it, so it
\* needs no further trigger to be delivered (onRegister, onChanged, startDaemon
\* and notify replay enough between them), unless its own write or mark failed.
PendingInFlight ==
    \A e \in Elems(pending) \ dropped :
        Select # Nobody => e \in Elems(toProxy[Select]) \cup acks[Select]

\* Hand-offs, restarts and replays never show Claude an event before one that
\* was received earlier and is still undelivered.
RenderedInOrder ==
    \A i, j \in 1..Len(pending) :
        i < j /\ pending[j] \in rendered => pending[i] \in rendered \cup dropped

\* A frame is only ever written to a dispatcher or to a session a dispatcher
\* has named since the channel was last returned or reclaimed.
DeliveredToAuthorised ==
    [][\A c \in Conn : Len(toProxy'[c]) > Len(toProxy[c]) =>
           SidOf[c] \in Dispatchers \cup authorised']_inboundVars

\* The promise of the queue's header, over whole behaviours, for the events
\* whose handler does not throw.
Promise == INSTANCE AtLeastOnce WITH
    stored    <- Persisted,
    shown     <- rendered,
    confirmed <- delivered,
    acked     <- acked \ swallowed

KeepsPromise == Promise!Spec

\* As long as the channel's owner stays connected from some point on, every
\* event Feishu has is delivered, with nobody asking for a replay, unless one
\* of its own calls failed.
EventuallyDelivered ==
    <>[](Select # Nobody) =>
        \A e \in Event : <>(e \in delivered \cup dropped \cup swallowed)

\* "An ACKed-before-persist loss is not possible" (daemon-queue.ts:8).
NothingAckedUnstored == acked \subseteq Persisted

=============================================================================
