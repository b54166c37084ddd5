------------------------ MODULE InboundDeliveryProofs ------------------------
(***************************************************************************)
(* Proofs about InboundDelivery, for any events, connections and sessions  *)
(* and any bounds.  The queue and the frames are sequences of any length.  *)
(***************************************************************************)
EXTENDS InboundDelivery, ChannelOwnerProofs, SequenceTheorems, WellFoundedInduction

-----------------------------------------------------------------------------
(* The sequence operators of the model                                      *)

\* No entry twice: the rows of the queue file have one id each.
Distinct(s) == \A i, j \in 1..Len(s) : s[i] = s[j] => i = j

LEMMA ElemsAppend ==
    ASSUME NEW S, NEW s \in Seq(S), NEW e \in S
    PROVE  /\ Append(s, e) \in Seq(S)
           /\ Elems(Append(s, e)) = Elems(s) \cup {e}
           /\ Distinct(s) /\ e \notin Elems(s) => Distinct(Append(s, e))
<1>1. /\ Append(s, e) \in Seq(S)
      /\ Len(Append(s, e)) = Len(s) + 1
      /\ \A i \in 1..Len(s) : Append(s, e)[i] = s[i]
      /\ Append(s, e)[Len(s) + 1] = e
  OBVIOUS
<1>2. Len(s) \in Nat
  OBVIOUS
<1>3. 1..Len(s) + 1 = 1..Len(s) \cup {Len(s) + 1}
  BY <1>2
<1> QED
  BY <1>1, <1>2, <1>3 DEF Elems, Distinct

LEMMA ElemsConcat ==
    ASSUME NEW S, NEW s \in Seq(S), NEW t \in Seq(S)
    PROVE  s \o t \in Seq(S) /\ Elems(s \o t) = Elems(s) \cup Elems(t)
<1>1. /\ s \o t \in Seq(S)
      /\ Len(s \o t) = Len(s) + Len(t)
      /\ \A i \in 1 .. Len(s) + Len(t) :
            (s \o t)[i] = IF i <= Len(s) THEN s[i] ELSE t[i - Len(s)]
  BY ConcatProperties
<1>2. Len(s) \in Nat /\ Len(t) \in Nat
  OBVIOUS
<1>3. ASSUME NEW x \in Elems(s \o t) PROVE x \in Elems(s) \cup Elems(t)
  <2>1. PICK i \in 1 .. Len(s) + Len(t) : x = (s \o t)[i]
    BY <1>1 DEF Elems
  <2>2. CASE i <= Len(s)
    BY <1>1, <1>2, <2>1, <2>2 DEF Elems
  <2>3. CASE i > Len(s)
    <3>1. i - Len(s) \in 1..Len(t) /\ x = t[i - Len(s)]
      BY <1>1, <1>2, <2>1, <2>3
    <3> QED
      BY <3>1 DEF Elems
  <2> QED
    BY <1>2, <2>2, <2>3
<1>4. ASSUME NEW x \in Elems(s) PROVE x \in Elems(s \o t)
  BY <1>1, <1>2 DEF Elems
<1>5. ASSUME NEW x \in Elems(t) PROVE x \in Elems(s \o t)
  <2>1. PICK i \in 1..Len(t) : x = t[i]
    BY DEF Elems
  <2>2. i + Len(s) \in 1 .. Len(s) + Len(t) /\ x = (s \o t)[i + Len(s)]
    BY <1>1, <1>2, <2>1
  <2> QED
    BY <1>1, <2>2 DEF Elems
<1> QED
  BY <1>1, <1>3, <1>4, <1>5

LEMMA EventConcat ==
    \A s, t \in Seq(Event) : s \o t \in Seq(Event) /\ Elems(s \o t) = Elems(s) \cup Elems(t)
BY ElemsConcat

LEMMA ElemsOne == ASSUME NEW e PROVE Elems(<<e>>) = {e}
BY DEF Elems

LEMMA ElemsTail ==
    ASSUME NEW S, NEW s \in Seq(S), s # <<>>
    PROVE  /\ Head(s) \in S /\ Tail(s) \in Seq(S)
           /\ Elems(s) = {Head(s)} \cup Elems(Tail(s))
<1>1. /\ Head(s) \in S /\ Tail(s) \in Seq(S)
      /\ Len(Tail(s)) = Len(s) - 1
      /\ \A i \in 1 .. Len(Tail(s)) : Tail(s)[i] = s[i + 1]
  BY HeadTailProperties
<1>2. Head(s) = s[1] /\ Len(s) \in Nat \ {0}
  BY EmptySeq
<1>3. ASSUME NEW x \in Elems(s) PROVE x \in {Head(s)} \cup Elems(Tail(s))
  <2>1. PICK i \in 1..Len(s) : x = s[i]
    BY DEF Elems
  <2>2. CASE i = 1
    BY <1>2, <2>1, <2>2
  <2>3. CASE i # 1
    <3>1. i - 1 \in 1 .. Len(Tail(s)) /\ x = Tail(s)[i - 1]
      BY <1>1, <1>2, <2>1, <2>3
    <3> QED
      BY <3>1 DEF Elems
  <2> QED
    BY <2>2, <2>3
<1>4. Head(s) \in Elems(s)
  BY <1>2 DEF Elems
<1>5. ASSUME NEW x \in Elems(Tail(s)) PROVE x \in Elems(s)
  <2>1. PICK i \in 1 .. Len(Tail(s)) : x = Tail(s)[i]
    BY DEF Elems
  <2>2. i + 1 \in 1..Len(s) /\ x = s[i + 1]
    BY <1>1, <1>2, <2>1
  <2> QED
    BY <2>2 DEF Elems
<1> QED
  BY <1>1, <1>3, <1>4, <1>5

\* Drop takes out one entry and keeps the order of the others.
LEMMA DropKeepsOrder ==
    ASSUME NEW S, NEW s \in Seq(S), NEW e \in Elems(s)
    PROVE  \E k \in 1..Len(s) :
              /\ s[k] = e
              /\ Drop(s, e) \in Seq(S) /\ Len(Drop(s, e)) = Len(s) - 1
              /\ \A i \in 1 .. Len(s) - 1 :
                    Drop(s, e)[i] = IF i < k THEN s[i] ELSE s[i + 1]
<1> DEFINE k == CHOOSE i \in 1..Len(s) : s[i] = e
           d == [i \in 1..Len(s) - 1 |-> IF i < k THEN s[i] ELSE s[i + 1]]
<1>1. k \in 1..Len(s) /\ s[k] = e
  BY DEF Elems
<1>2. Len(s) \in Nat /\ Len(s) - 1 \in Nat
  BY <1>1
<1>3. Drop(s, e) = d
  BY DEF Drop
<1>4. \A i \in 1 .. Len(s) - 1 : (IF i < k THEN s[i] ELSE s[i + 1]) \in S
  <2> TAKE i \in 1 .. Len(s) - 1
  <2>1. i \in 1..Len(s) /\ i + 1 \in 1..Len(s)
    BY <1>2
  <2>2. s[i] \in S /\ s[i + 1] \in S
    BY <2>1, ElementOfSeq
  <2> QED
    BY <2>2
<1>5. d \in [1 .. Len(s) - 1 -> S]
  BY <1>4
<1> HIDE DEF k, d
<1>6. d \in Seq(S) /\ Len(d) = Len(s) - 1
  BY <1>2, <1>5, SeqDef
<1>7. \A i \in 1 .. Len(s) - 1 : d[i] = IF i < k THEN s[i] ELSE s[i + 1]
  BY DEF d
<1> QED
  BY <1>1, <1>3, <1>6, <1>7

LEMMA DropElems ==
    ASSUME NEW S, NEW s \in Seq(S), NEW e
    PROVE  /\ Drop(s, e) \in Seq(S)
           /\ Elems(Drop(s, e)) \subseteq Elems(s)
           /\ Elems(s) \subseteq Elems(Drop(s, e)) \cup {e}
           /\ Distinct(s) => Distinct(Drop(s, e)) /\ e \notin Elems(Drop(s, e))
<1>1. CASE e \notin Elems(s)
  BY <1>1 DEF Drop
<1>2. CASE e \in Elems(s)
  <2>1. PICK k \in 1..Len(s) :
            /\ s[k] = e
            /\ Drop(s, e) \in Seq(S) /\ Len(Drop(s, e)) = Len(s) - 1
            /\ \A i \in 1 .. Len(s) - 1 :
                  Drop(s, e)[i] = IF i < k THEN s[i] ELSE s[i + 1]
    BY <1>2, DropKeepsOrder
  <2>2. Len(s) \in Nat
    OBVIOUS
  <2> DEFINE d == Drop(s, e)
             at(i) == IF i < k THEN i ELSE i + 1
  <2>3. \A i \in 1..Len(d) : at(i) \in 1..Len(s) /\ at(i) # k /\ d[i] = s[at(i)]
    BY <2>1, <2>2
  <2>4. Elems(d) \subseteq Elems(s)
    BY <2>3 DEF Elems
  <2>5. ASSUME NEW x \in Elems(s), x # e PROVE x \in Elems(d)
    <3>1. PICK i \in 1..Len(s) : x = s[i]
      BY DEF Elems
    <3>2. i # k
      BY <2>1, <2>5, <3>1
    <3>3. CASE i < k
      <4>1. i \in 1..Len(d) /\ d[i] = x
        BY <2>1, <2>2, <3>1, <3>3
      <4> QED
        BY <4>1 DEF Elems
    <3>4. CASE i > k
      <4>1. i - 1 \in 1..Len(d) /\ d[i - 1] = x
        BY <2>1, <2>2, <3>1, <3>4
      <4> QED
        BY <4>1 DEF Elems
    <3> QED
      BY <2>2, <3>2, <3>3, <3>4
  <2>6. ASSUME Distinct(s) PROVE Distinct(d) /\ e \notin Elems(d)
    <3>1. e \notin Elems(d)
      BY <2>1, <2>3, <2>6 DEF Elems, Distinct
    <3>2. ASSUME NEW i \in 1..Len(d), NEW j \in 1..Len(d), d[i] = d[j] PROVE i = j
      <4>1. at(i) = at(j)
        BY <2>3, <2>6, <3>2 DEF Distinct
      <4> QED
        BY <2>1, <2>2, <4>1
    <3> QED
      BY <3>1, <3>2 DEF Distinct
  <2> QED
    BY <2>1, <2>4, <2>5, <2>6
<1> QED
  BY <1>1, <1>2

-----------------------------------------------------------------------------
(* The daemon's ownership state inside InboundDelivery                      *)

\* Whatever happens to an event, the ownership state makes one of its own
\* steps or none.
LEMMA OwnerStep == [InboundNext]_inboundVars => [OwnerNext]_ownerVars
<1> SUFFICES ASSUME [InboundNext]_inboundVars, ~ UNCHANGED ownerVars PROVE OwnerNext
  OBVIOUS
<1> USE DEF OwnerNext
<1>1. CASE \E e \in Event : Receive(e) \/ AckFeishu(e) \/ LoseFeishuAck(e) \/ HandlerFails(e)
  BY <1>1 DEF Receive, AckFeishu, LoseFeishuAck, HandlerFails
<1>2. CASE Start \/ Open \/ Crash
  BY <1>2 DEF Start, Open, Crash
<1>3. CASE \E c \in Conn : ProxyConnect(c) \/ ProxyClose(c) \/ ProxyRegister(c)
  BY <1>3 DEF ProxyConnect, ProxyClose, ProxyRegister
<1>4. CASE \E c \in Conn : \/ Render(c) \/ RenderFails(c)
                           \/ \E e \in Event : HandleAck(c, e) \/ MarkFails(c, e)
  BY <1>4 DEF Render, RenderFails, HandleAck, MarkFails
<1>5. CASE HandOff \/ GrantCall
  BY <1>5 DEF HandOff, GrantCall
<1>6. CASE UNCHANGED inboundVars
  BY <1>6 DEF inboundVars
<1> QED
  BY <1>1, <1>2, <1>3, <1>4, <1>5, <1>6 DEF InboundNext

LEMMA InboundHasOwnerInv == InboundSpec => []OwnerInv
<1>1. InboundInit => OwnerInv
  BY OwnerInvInit DEF InboundInit
<1>2. OwnerInv /\ [InboundNext]_inboundVars => OwnerInv'
  BY OwnerStep, OwnerInvStep
<1> QED
  BY <1>1, <1>2, PTL DEF InboundSpec

-----------------------------------------------------------------------------
(* What flows where                                                         *)

\* An event is shown only when it is stored and marked only when it was shown;
\* what is on its way, or inside a handler, is stored already.
FlowInv ==
    /\ InboundTypeOK
    /\ Distinct(pending)
    /\ handling \subseteq Persisted \ acked
    /\ swallowed \subseteq acked
    /\ AckedIsPersisted
    /\ \A c \in Conn : Elems(toProxy[c]) \subseteq Persisted
    /\ \A c \in Conn : acks[c] \subseteq rendered
    /\ delivered \subseteq rendered /\ rendered \subseteq Persisted

\* What Route writes: the frames go to one connection, or nowhere.
LEMMA RouteTo ==
    ASSUME toProxy \in [Conn -> Seq(Event)], NEW c, NEW s \in Seq(Event), Route(c, s)
    PROVE  /\ toProxy' \in [Conn -> Seq(Event)]
           /\ \A d \in Conn : toProxy'[d] = IF d = c THEN toProxy[d] \o s ELSE toProxy[d]
           /\ \A d \in Conn : Elems(toProxy'[d]) \subseteq Elems(toProxy[d]) \cup Elems(s)
<1>1. \A d \in Conn : toProxy'[d] = IF d = c THEN toProxy[d] \o s ELSE toProxy[d]
  BY ConnAssumption DEF Route, Frames
<1>2. \A d \in Conn : /\ toProxy[d] \o s \in Seq(Event)
                      /\ Elems(toProxy[d] \o s) = Elems(toProxy[d]) \cup Elems(s)
  BY EventConcat
<1>3. toProxy' \in [Conn -> Seq(Event)]
  BY <1>1, <1>2 DEF Route, Frames
<1> QED
  BY <1>1, <1>2, <1>3

LEMMA FlowInvInit == InboundInit => FlowInv
<1> SUFFICES ASSUME InboundInit PROVE FlowInv
  OBVIOUS
<1>1. OwnerTypeOK
  BY OwnerInvInit DEF InboundInit, OwnerInv
<1>2. Elems(<<>>) = {} /\ Distinct(<<>>) /\ <<>> \in Seq(Event)
  BY DEF Elems, Distinct
<1> QED
  BY <1>1, <1>2, BoundAssumption
  DEF InboundInit, FlowInv, InboundTypeOK, AckedIsPersisted, Persisted

\* Receive stores the event, unless it was stored.
LEMMA ReceiveStores ==
    ASSUME FlowInv, NEW e \in Event, Receive(e)
    PROVE  /\ pending' \in Seq(Event) /\ Distinct(pending')
           /\ Persisted' = Persisted \cup {e}
           /\ Elems(pending) \subseteq Elems(pending')
<1>1. CASE e \in Persisted
  BY <1>1 DEF Receive, FlowInv, InboundTypeOK, Persisted
<1>2. CASE e \notin Persisted
  <2>1. pending \in Seq(Event) /\ e \notin Elems(pending) /\ Distinct(pending)
    BY <1>2 DEF FlowInv, InboundTypeOK, Persisted
  <2>2. pending' = Append(pending, e) /\ delivered' = delivered
    BY <1>2 DEF Receive
  <2> QED
    BY <2>1, <2>2, ElemsAppend DEF Persisted
<1> QED
  BY <1>1, <1>2

\* HandleAck turns an undelivered row into a delivered one.
LEMMA HandleAckMarks ==
    ASSUME FlowInv, NEW c \in Conn, NEW e \in Event, HandleAck(c, e)
    PROVE  /\ pending' \in Seq(Event) /\ Distinct(pending')
           /\ Persisted' = Persisted
           /\ Elems(pending') = Elems(pending) \ {e}
<1>1. pending \in Seq(Event) /\ Distinct(pending)
  BY DEF FlowInv, InboundTypeOK
<1>2. pending' = Drop(pending, e)
      /\ delivered' = IF e \in Elems(pending) THEN delivered \cup {e} ELSE delivered
  BY DEF HandleAck
<1> QED
  BY <1>1, <1>2, DropElems DEF Persisted

LEMMA FlowInvStep == FlowInv /\ OwnerInv' /\ [InboundNext]_inboundVars => FlowInv'
<1> SUFFICES ASSUME FlowInv, OwnerInv', [InboundNext]_inboundVars PROVE FlowInv'
  OBVIOUS
<1>0. OwnerTypeOK'
  BY DEF OwnerInv
<1> USE DEF FlowInv
<1>1. ASSUME NEW e \in Event, Receive(e) PROVE FlowInv'
  <2>1. /\ pending' \in Seq(Event) /\ Distinct(pending')
        /\ Persisted' = Persisted \cup {e}
    BY <1>1, ReceiveStores
  <2>2. <<e>> \in Seq(Event) /\ Elems(<<e>>) = {e}
    BY ElemsOne
  <2>3. /\ toProxy' \in [Conn -> Seq(Event)]
        /\ \A d \in Conn : Elems(toProxy'[d]) \subseteq Elems(toProxy[d]) \cup {e}
    BY <1>1, <2>2, RouteTo DEF Receive, InboundTypeOK
  <2>4. InboundTypeOK'
    BY <1>0, <1>1, <2>1, <2>3 DEF Receive, InboundTypeOK, failures, counters
  <2> QED
    BY <1>1, <2>1, <2>3, <2>4 DEF Receive, AckedIsPersisted, failures
<1>2. ASSUME NEW e \in Event, AckFeishu(e) \/ LoseFeishuAck(e) \/ HandlerFails(e) PROVE FlowInv'
  BY <1>0, <1>2, BoundAssumption
  DEF AckFeishu, LoseFeishuAck, HandlerFails, InboundTypeOK, AckedIsPersisted, Persisted,
      fileVars, failures, counters, Fault
<1>3. CASE Start
  BY <1>0, <1>3 DEF Start, InboundTypeOK, AckedIsPersisted, Persisted, fileVars, failures, counters
<1>4. CASE Open
  <2>1. /\ toProxy' \in [Conn -> Seq(Event)]
        /\ \A d \in Conn : Elems(toProxy'[d]) \subseteq Elems(toProxy[d]) \cup Elems(pending)
    BY <1>4, RouteTo DEF Open, InboundTypeOK
  <2> QED
    BY <1>0, <1>4, <2>1
    DEF Open, InboundTypeOK, AckedIsPersisted, Persisted, fileVars, failures, counters
<1>5. CASE Crash
  <2>1. /\ toProxy' \in [Conn -> Seq(Event)] /\ acks' \in [Conn -> SUBSET Event]
        /\ \A d \in Conn : Elems(toProxy'[d]) = {} /\ acks'[d] = {}
    BY <1>5 DEF Crash, Elems
  <2> QED
    BY <1>0, <1>5, <2>1, BoundAssumption
    DEF Crash, InboundTypeOK, AckedIsPersisted, Persisted, fileVars, failures, Fault
<1>6. ASSUME NEW c \in Conn, ProxyConnect(c) PROVE FlowInv'
  BY <1>0, <1>6
  DEF ProxyConnect, InboundTypeOK, AckedIsPersisted, Persisted, deliveryVars, fileVars,
      failures, counters
<1>7. ASSUME NEW c \in Conn, ProxyClose(c) PROVE FlowInv'
  <2>1. <<>> \in Seq(Event) /\ Elems(<<>>) = {}
    BY DEF Elems
  <2>2. /\ toProxy' \in [Conn -> Seq(Event)] /\ acks' \in [Conn -> SUBSET Event]
        /\ \A d \in Conn : /\ Elems(toProxy'[d]) \subseteq Elems(toProxy[d])
                           /\ acks'[d] \subseteq acks[d]
    BY <1>7, <2>1 DEF ProxyClose, InboundTypeOK
  <2> QED
    BY <1>0, <1>7, <2>2, BoundAssumption
    DEF ProxyClose, InboundTypeOK, AckedIsPersisted, Persisted, fileVars, failures, Fault
<1>8. ASSUME NEW c \in Conn, ProxyRegister(c) PROVE FlowInv'
  <2>1. PICK s \in {pending, pending \o pending} : Route(Select', s)
    BY <1>8 DEF ProxyRegister
  <2>2. s \in Seq(Event) /\ Elems(s) = Elems(pending)
    <3>1. pending \in Seq(Event)
      BY DEF InboundTypeOK
    <3>2. pending \o pending \in Seq(Event) /\ Elems(pending \o pending) = Elems(pending)
      BY <3>1, EventConcat
    <3> QED
      BY <3>1, <3>2
  <2>3. /\ toProxy' \in [Conn -> Seq(Event)]
        /\ \A d \in Conn : Elems(toProxy'[d]) \subseteq Elems(toProxy[d]) \cup Elems(pending)
    BY <2>1, <2>2, RouteTo DEF InboundTypeOK
  <2> QED
    BY <1>0, <1>8, <2>3
    DEF ProxyRegister, InboundTypeOK, AckedIsPersisted, Persisted, fileVars, failures, counters
<1>9. CASE HandOff
  <2>1. /\ toProxy' \in [Conn -> Seq(Event)]
        /\ \A d \in Conn : Elems(toProxy'[d]) \subseteq Elems(toProxy[d]) \cup Elems(pending)
    BY <1>9, RouteTo DEF HandOff, InboundTypeOK
  <2> QED
    BY <1>0, <1>9, <2>1, BoundAssumption
    DEF HandOff, InboundTypeOK, AckedIsPersisted, Persisted, fileVars, failures, Call
<1>10. CASE GrantCall
  BY <1>0, <1>10, BoundAssumption
  DEF GrantCall, InboundTypeOK, AckedIsPersisted, Persisted, deliveryVars, fileVars, failures, Call
<1>11. ASSUME NEW c \in Conn, Render(c) \/ RenderFails(c) PROVE FlowInv'
  <2>1. /\ Head(toProxy[c]) \in Event /\ Tail(toProxy[c]) \in Seq(Event)
        /\ Elems(toProxy[c]) = {Head(toProxy[c])} \cup Elems(Tail(toProxy[c]))
    BY <1>11, ElemsTail DEF Render, RenderFails, InboundTypeOK
  <2>2. /\ toProxy' \in [Conn -> Seq(Event)]
        /\ \A d \in Conn : Elems(toProxy'[d]) \subseteq Elems(toProxy[d])
    BY <1>11, <2>1 DEF Render, RenderFails, InboundTypeOK
  <2>3. CASE Render(c)
    <3>1. /\ acks' \in [Conn -> SUBSET Event]
          /\ \A d \in Conn : acks'[d] \subseteq acks[d] \cup {Head(toProxy[c])}
      BY <2>1, <2>3 DEF Render, InboundTypeOK
    <3> QED
      BY <1>0, <2>1, <2>2, <2>3, <3>1
      DEF Render, InboundTypeOK, AckedIsPersisted, Persisted, fileVars, failures, counters
  <2>4. CASE RenderFails(c)
    BY <1>0, <2>1, <2>2, <2>4, BoundAssumption
    DEF RenderFails, InboundTypeOK, AckedIsPersisted, Persisted, fileVars, Fault
  <2> QED
    BY <1>11, <2>3, <2>4
<1>12. ASSUME NEW c \in Conn, NEW e \in Event, HandleAck(c, e) PROVE FlowInv'
  <2>1. pending' \in Seq(Event) /\ Distinct(pending') /\ Persisted' = Persisted
    BY <1>12, HandleAckMarks
  <2>2. acks' \in [Conn -> SUBSET Event] /\ \A d \in Conn : acks'[d] \subseteq acks[d]
    BY <1>12 DEF HandleAck, InboundTypeOK
  <2>3. delivered' \subseteq rendered /\ delivered' \subseteq Event
    BY <1>12 DEF HandleAck, InboundTypeOK
  <2>4. InboundTypeOK'
    BY <1>0, <1>12, <2>1, <2>2, <2>3 DEF HandleAck, InboundTypeOK, failures, counters
  <2> QED
    BY <1>12, <2>1, <2>2, <2>3, <2>4 DEF HandleAck, AckedIsPersisted, failures
<1>13. ASSUME NEW c \in Conn, NEW e \in Event, MarkFails(c, e) PROVE FlowInv'
  <2>1. acks' \in [Conn -> SUBSET Event] /\ \A d \in Conn : acks'[d] \subseteq acks[d]
    BY <1>13 DEF MarkFails, InboundTypeOK
  <2> QED
    BY <1>0, <1>13, <2>1, BoundAssumption
    DEF MarkFails, InboundTypeOK, AckedIsPersisted, Persisted, fileVars, Fault
<1>14. CASE UNCHANGED inboundVars
  BY <1>0, <1>14
  DEF inboundVars, deliveryVars, InboundTypeOK, AckedIsPersisted, Persisted, fileVars,
      failures, counters
<1> QED
  BY <1>1, <1>2, <1>3, <1>4, <1>5, <1>6, <1>7, <1>8, <1>9, <1>10, <1>11, <1>12, <1>13, <1>14
  DEF InboundNext

LEMMA FlowInvAlways == InboundSpec => []FlowInv
BY InboundHasOwnerInv, FlowInvInit, FlowInvStep, PTL DEF InboundSpec

-----------------------------------------------------------------------------
(* To whom frames are written                                               *)

LEMMA LeastNatural ==
    ASSUME NEW T \in SUBSET Nat, T # {}
    PROVE  \E m \in T : \A n \in T : m <= n
<1>1. PICK m \in T : \A n \in T : ~ (<<n, m>> \in OpToRel(<, Nat))
  BY WFMin, NatLessThanWellFounded, Zenon
<1>2. \A n \in T : ~ (n < m)
  BY <1>1, Zenon DEF OpToRel
<1> QED
  BY <1>2

\* One of a set of connections comes first.
LEMMA FirstExists ==
    ASSUME NEW place \in [Conn -> Nat], NEW C \in SUBSET Conn, C # {}
    PROVE  (CHOOSE c \in C : \A d \in C : place[c] <= place[d]) \in C
<1> DEFINE T == {place[c] : c \in C}
<1>1. T \in SUBSET Nat /\ T # {}
  OBVIOUS
<1> HIDE DEF T
<1>2. PICK m \in T : \A n \in T : m <= n
  BY <1>1, LeastNatural
<1>3. PICK c \in C : place[c] = m
  BY DEF T
<1>4. \A d \in C : place[c] <= place[d]
  BY <1>2, <1>3 DEF T
<1> QED
  BY <1>4

\* The connection of the owner is a registered one, and carries its id.
LEMMA SelectIsLive ==
    ASSUME OwnerTypeOK, Select # Nobody
    PROVE  /\ Select \in registered /\ Select \in Conn
           /\ SidOf[Select] = IF owner # Nobody THEN owner ELSE dispatcher
<1> DEFINE s == IF owner # Nobody THEN owner ELSE dispatcher
<1>1. Live(s) \subseteq Conn /\ pos \in [Conn -> Nat]
  BY DEF Live, OwnerTypeOK, Connected
<1>2. Live(s) # {} /\ Select = FirstOf(Live(s))
  BY DEF Select, FindLive
<1>3. Select \in Live(s)
  BY <1>1, <1>2, FirstExists DEF FirstOf
<1> QED
  BY <1>1, <1>3 DEF Live

LEMMA SelectIsLiveNext ==
    ASSUME OwnerTypeOK', Select' # Nobody
    PROVE  /\ Select' \in registered' /\ Select' \in Conn
           /\ SidOf[Select'] = IF owner' # Nobody THEN owner' ELSE dispatcher'
<1> DEFINE s == IF owner' # Nobody THEN owner' ELSE dispatcher'
           L == {c \in registered' : SidOf[c] = s}
<1>1. L \subseteq Conn /\ pos' \in [Conn -> Nat]
  BY DEF OwnerTypeOK, Connected
<1>2. L # {} /\ Select' = CHOOSE c \in L : \A d \in L : pos'[c] <= pos'[d]
  BY DEF Select, FindLive, Live, FirstOf
<1>3. Select' \in L
  BY <1>1, <1>2, FirstExists
<1> QED
  BY <1>1, <1>3

\* The owner's connection is the same in two states that agree on these.
LEMMA SameSelect == UNCHANGED <<pos, registered, owner, dispatcher>> => Select' = Select
BY DEF Select, FindLive, Live, FirstOf

\* Frames are only ever added for the owner, as it is after the step.
LEMMA OnlyOwnerGrows ==
    ASSUME FlowInv, [InboundNext]_inboundVars,
           NEW c \in Conn, Len(toProxy'[c]) > Len(toProxy[c])
    PROVE  c = Select'
<1>1. toProxy \in [Conn -> Seq(Event)] /\ pending \in Seq(Event)
  BY DEF FlowInv, InboundTypeOK
<1>2. Len(toProxy[c]) \in Nat
  BY <1>1
<1>3. toProxy'[c] # toProxy[c]
  BY <1>2
<1>4. CASE \E e \in Event : Receive(e)
  <2>1. PICK e \in Event : Receive(e)
    BY <1>4
  <2>2. <<e>> \in Seq(Event)
    OBVIOUS
  <2>3. c = Select
    BY <1>1, <1>3, <2>1, <2>2, RouteTo DEF Receive
  <2> QED
    BY <2>1, <2>3, SameSelect DEF Receive, ownerVars, connVars, leaseVars
<1>5. CASE Open
  <2>1. c = Select
    BY <1>1, <1>3, <1>5, RouteTo DEF Open
  <2> QED
    BY <1>5, <2>1, SameSelect DEF Open, ownerVars, connVars, leaseVars
<1>6. CASE \E d \in Conn : ProxyRegister(d)
  <2>1. PICK s \in {pending, pending \o pending} : Route(Select', s)
    BY <1>6 DEF ProxyRegister
  <2>2. pending \o pending \in Seq(Event)
    BY <1>1, EventConcat
  <2>3. s \in Seq(Event)
    BY <1>1, <2>2
  <2> QED
    BY <1>1, <1>3, <2>1, <2>3, RouteTo
<1>7. CASE HandOff
  BY <1>1, <1>3, <1>7, RouteTo DEF HandOff
<1>8. CASE \E d \in Conn : Render(d) \/ RenderFails(d)
  <2>1. PICK d \in Conn : Render(d) \/ RenderFails(d)
    BY <1>8
  <2>2. toProxy[d] # <<>> /\ toProxy' = [toProxy EXCEPT ![d] = Tail(@)]
    BY <2>1 DEF Render, RenderFails
  <2>3. Len(Tail(toProxy[d])) = Len(toProxy[d]) - 1
    BY <1>1, <2>2, HeadTailProperties
  <2> QED
    BY <1>1, <1>2, <2>2, <2>3
<1>9. CASE Crash \/ \E d \in Conn : ProxyClose(d)
  <2>1. toProxy'[c] = toProxy[c] \/ toProxy'[c] = <<>>
    BY <1>1, <1>9 DEF Crash, ProxyClose
  <2> QED
    BY <1>2, <2>1
<1>10. CASE UNCHANGED toProxy
  BY <1>3, <1>10
<1> QED
  BY <1>4, <1>5, <1>6, <1>7, <1>8, <1>9, <1>10
  DEF InboundNext, AckFeishu, LoseFeishuAck, HandlerFails, Start, ProxyConnect, HandleAck,
      MarkFails, GrantCall, inboundVars, deliveryVars

LEMMA GrowsForAuthorised ==
    ASSUME FlowInv, OwnerInv', [InboundNext]_inboundVars,
           NEW c \in Conn, Len(toProxy'[c]) > Len(toProxy[c])
    PROVE  SidOf[c] \in Dispatchers \cup authorised'
<1>1. c = Select' /\ Select' # Nobody
  BY OnlyOwnerGrows, ConnAssumption
<1>2. OwnerTypeOK' /\ OwnerIsAuthorised'
  BY DEF OwnerInv
<1>3. SidOf[c] = IF owner' # Nobody THEN owner' ELSE dispatcher'
  BY <1>1, <1>2, SelectIsLiveNext
<1>4. SidOf[c] # Nobody
  BY SidAssumption, SessionAssumption
<1> QED
  BY <1>2, <1>3, <1>4 DEF OwnerTypeOK, OwnerIsAuthorised

-----------------------------------------------------------------------------
(* The promise of AtLeastOnce                                               *)

LEMMA PromiseInit == InboundInit => Promise!Init
<1>1. Elems(<<>>) = {}
  BY DEF Elems
<1> QED
  BY <1>1 DEF InboundInit, Promise!Init, Persisted

\* Every step stores, shows, confirms or acknowledges one event, or none.
LEMMA PromiseStep ==
    FlowInv /\ [InboundNext]_inboundVars => [Promise!Next]_(Promise!promise)
<1> SUFFICES ASSUME FlowInv, [InboundNext]_inboundVars
             PROVE  Promise!Next \/ UNCHANGED Promise!promise
  OBVIOUS
<1> DEFINE told == acked \ swallowed
<1> USE DEF Promise!promise, Promise!Next, Promise!Store, Promise!Show, Promise!Confirm,
            Promise!Acknowledge
<1>1. ASSUME NEW e \in Event, Receive(e) PROVE Promise!Store(e)
  BY <1>1, ReceiveStores DEF Receive, failures
<1>2. ASSUME NEW e \in Event, AckFeishu(e) PROVE Promise!Acknowledge(e)
  <2>1. e \in Persisted /\ told' = told \cup {e}
    BY <1>2 DEF AckFeishu, FlowInv, failures
  <2> QED
    BY <1>2, <2>1 DEF AckFeishu, Persisted, fileVars
<1>3. ASSUME NEW e \in Event, LoseFeishuAck(e) \/ HandlerFails(e) PROVE UNCHANGED Promise!promise
  <2>1. told' = told
    BY <1>3 DEF LoseFeishuAck, HandlerFails, FlowInv, failures
  <2> QED
    BY <1>3, <2>1 DEF LoseFeishuAck, HandlerFails, Persisted, fileVars
<1>4. ASSUME NEW c \in Conn, Render(c) PROVE Promise!Show(Head(toProxy[c])) /\ Head(toProxy[c]) \in Event
  <2>1. toProxy[c] \in Seq(Event) /\ toProxy[c] # <<>>
    BY <1>4 DEF Render, FlowInv, InboundTypeOK
  <2>2. Head(toProxy[c]) \in Elems(toProxy[c]) /\ Head(toProxy[c]) \in Event
    BY <2>1, ElemsTail
  <2>3. Head(toProxy[c]) \in Persisted
    BY <2>2 DEF FlowInv
  <2> QED
    BY <1>4, <2>2, <2>3 DEF Render, Persisted, fileVars, failures
<1>5. ASSUME NEW c \in Conn, NEW e \in Event, HandleAck(c, e)
      PROVE  Promise!Confirm(e) \/ UNCHANGED Promise!promise
  <2>1. e \in rendered /\ Persisted' = Persisted
    BY <1>5, HandleAckMarks DEF HandleAck, FlowInv
  <2> QED
    BY <1>5, <2>1 DEF HandleAck, failures
<1>6. CASE \/ Start \/ Open \/ Crash \/ HandOff \/ GrantCall
           \/ \E c \in Conn : \/ ProxyConnect(c) \/ ProxyClose(c) \/ ProxyRegister(c) \/ RenderFails(c)
                              \/ \E e \in Event : MarkFails(c, e)
           \/ UNCHANGED inboundVars
  BY <1>6
  DEF Start, Open, Crash, HandOff, GrantCall, ProxyConnect, ProxyClose, ProxyRegister, RenderFails,
      MarkFails, inboundVars, deliveryVars, fileVars, failures, Persisted
<1>7. CASE \E e \in Event : Receive(e) \/ AckFeishu(e) \/ LoseFeishuAck(e) \/ HandlerFails(e)
  BY <1>1, <1>2, <1>3, <1>7
<1>8. CASE \E c \in Conn : Render(c) \/ \E e \in Event : HandleAck(c, e)
  BY <1>4, <1>5, <1>8
<1> QED
  BY <1>6, <1>7, <1>8 DEF InboundNext

-----------------------------------------------------------------------------
(* No row is stranded                                                       *)

\* Each proxy has a session id of its own.  With a shared id a row may be
\* stranded when the older of two connections closes.
UniqueIds == \A c, d \in Conn : SidOf[c] = SidOf[d] => c = d

LEMMA InFlightInit == InboundInit => PendingInFlight
BY DEF InboundInit, PendingInFlight, Elems

\* While ids are unique the owner's connection only changes with its owner,
\* or by its own close.
LEMMA SelectStays ==
    ASSUME UniqueIds, OwnerTypeOK, OwnerTypeOK', UNCHANGED <<owner, dispatcher>>,
           registered' \subseteq registered, Select' # Nobody
    PROVE  Select' = Select
<1>1. Select' \in registered /\ Select' \in Conn
      /\ SidOf[Select'] = IF owner # Nobody THEN owner ELSE dispatcher
  BY SelectIsLiveNext
<1>2. Select # Nobody
  <2> DEFINE L == Live(IF owner # Nobody THEN owner ELSE dispatcher)
  <2>1. L # {}
    BY <1>1 DEF Live
  <2>2. L \in SUBSET Conn /\ pos \in [Conn -> Nat]
    BY DEF Live, OwnerTypeOK, Connected
  <2>3. Select = FirstOf(L)
    BY <2>1 DEF Select, FindLive
  <2> HIDE DEF L
  <2>4. FirstOf(L) \in L
    BY <2>1, <2>2, FirstExists DEF FirstOf
  <2> QED
    BY <2>2, <2>3, <2>4, ConnAssumption
<1>3. Select \in Conn /\ SidOf[Select] = IF owner # Nobody THEN owner ELSE dispatcher
  BY <1>2, SelectIsLive
<1> QED
  BY <1>1, <1>3 DEF UniqueIds

\* A hand-off, a registration or the start replays the rows to the owner.
LEMMA ReplayReaches ==
    ASSUME FlowInv, OwnerTypeOK', NEW s \in Seq(Event), Elems(pending) \subseteq Elems(s),
           Route(Select', s), pending' = pending
    PROVE  PendingInFlight'
<1> SUFFICES ASSUME Select' # Nobody PROVE Elems(pending) \subseteq Elems(toProxy'[Select'])
  BY DEF PendingInFlight
<1>1. Select' \in Conn
  BY SelectIsLiveNext
<1>2. toProxy \in [Conn -> Seq(Event)]
  BY DEF FlowInv, InboundTypeOK
<1>3. toProxy'[Select'] = toProxy[Select'] \o s
  BY <1>1, <1>2, RouteTo
<1> QED
  BY <1>1, <1>2, <1>3, EventConcat

LEMMA InFlightStep ==
    ASSUME UniqueIds
    PROVE  PendingInFlight /\ FlowInv /\ OwnerInv /\ OwnerInv' /\ [InboundNext]_inboundVars
              => PendingInFlight'
<1> SUFFICES ASSUME PendingInFlight, FlowInv, OwnerInv, OwnerInv', [InboundNext]_inboundVars
             PROVE  PendingInFlight'
  OBVIOUS
<1>0. OwnerTypeOK /\ OwnerTypeOK'
  BY DEF OwnerInv
<1>a. /\ toProxy \in [Conn -> Seq(Event)] /\ acks \in [Conn -> SUBSET Event]
      /\ pending \in Seq(Event) /\ Distinct(pending)
  BY DEF FlowInv, InboundTypeOK
<1>b. Select # Nobody => Select \in Conn
  BY <1>0, SelectIsLive
<1>1. ASSUME NEW e \in Event, Receive(e) PROVE PendingInFlight'
  <2>1. Select' = Select
    BY <1>1, SameSelect DEF Receive, ownerVars, connVars, leaseVars
  <2>2. Elems(pending') \subseteq Elems(pending) \cup {e}
    BY <1>1, <1>a, ElemsAppend DEF Receive
  <2> SUFFICES ASSUME Select # Nobody
               PROVE  Elems(pending') \ dropped \subseteq Elems(toProxy'[Select]) \cup acks[Select]
    BY <1>1, <2>1 DEF PendingInFlight, Receive, failures
  <2>3. <<e>> \in Seq(Event) /\ Elems(<<e>>) = {e}
    BY ElemsOne
  <2>4. toProxy'[Select] = toProxy[Select] \o <<e>>
    BY <1>1, <1>a, <1>b, <2>3, RouteTo DEF Receive
  <2>5. Elems(toProxy'[Select]) = Elems(toProxy[Select]) \cup {e}
    <3>1. toProxy[Select] \in Seq(Event)
      BY <1>a, <1>b
    <3> QED
      BY <2>3, <2>4, <3>1, EventConcat
  <2> QED
    BY <2>2, <2>5 DEF PendingInFlight
<1>2. ASSUME NEW e \in Event, AckFeishu(e) \/ LoseFeishuAck(e) \/ HandlerFails(e)
      PROVE  PendingInFlight'
  <2>1. Select' = Select
    BY <1>2, SameSelect DEF AckFeishu, LoseFeishuAck, HandlerFails, ownerVars, connVars, leaseVars
  <2> QED
    BY <1>2, <2>1
    DEF AckFeishu, LoseFeishuAck, HandlerFails, PendingInFlight, fileVars, failures
<1>3. CASE Start
  <2>1. Select' = Select
    BY <1>3, SameSelect DEF Start, ownerVars, connVars, leaseVars
  <2> QED
    BY <1>3, <2>1 DEF Start, PendingInFlight, fileVars, failures
<1>4. CASE Open
  <2>1. Select' = Select
    BY <1>4, SameSelect DEF Open, ownerVars, connVars, leaseVars
  <2>2. Route(Select', pending) /\ pending' = pending
    BY <1>4, <2>1 DEF Open, fileVars
  <2> QED
    BY <1>0, <1>a, <2>2, ReplayReaches
<1>5. CASE Crash
  <2>1. Select' = Nobody
    BY <1>5, <1>0, SelectIsLiveNext DEF Crash, DaemonRestart
  <2> QED
    BY <2>1 DEF PendingInFlight
<1>6. ASSUME NEW c \in Conn, ProxyConnect(c) PROVE PendingInFlight'
  <2>1. Select' # Nobody => Select' = Select
    BY <1>0, <1>6, SelectStays DEF ProxyConnect, Connect, leaseVars
  <2> QED
    BY <1>6, <2>1 DEF ProxyConnect, PendingInFlight, deliveryVars, fileVars, failures
<1>7. ASSUME NEW c \in Conn, ProxyClose(c) PROVE PendingInFlight'
  <2> SUFFICES ASSUME Select' # Nobody
               PROVE  Elems(pending) \ dropped \subseteq Elems(toProxy'[Select']) \cup acks'[Select']
    BY <1>7 DEF PendingInFlight, ProxyClose, fileVars, failures
  <2>1. Select' = Select
    BY <1>0, <1>7, SelectStays DEF ProxyClose, Close, leaseVars
  <2>2. Select' # c
    BY <1>0, <1>7, SelectIsLiveNext DEF ProxyClose, Close
  <2>3. toProxy'[Select] = toProxy[Select] /\ acks'[Select] = acks[Select]
    BY <1>7, <1>a, <1>b, <2>1, <2>2 DEF ProxyClose
  <2> QED
    BY <2>1, <2>3 DEF PendingInFlight
<1>8. ASSUME NEW c \in Conn, ProxyRegister(c) PROVE PendingInFlight'
  <2>1. PICK s \in {pending, pending \o pending} : Route(Select', s)
    BY <1>8 DEF ProxyRegister
  <2>2. pending \o pending \in Seq(Event) /\ Elems(pending \o pending) = Elems(pending)
    <3>1. pending \in Seq(Event)
      BY <1>a
    <3> QED
      BY <3>1, EventConcat
  <2>3. s \in Seq(Event) /\ Elems(pending) \subseteq Elems(s)
    BY <1>a, <2>2
  <2>4. pending' = pending
    BY <1>8 DEF ProxyRegister, fileVars
  <2> QED
    BY <1>0, <2>1, <2>3, <2>4, ReplayReaches
<1>9. CASE HandOff
  <2>1. Route(Select', pending) /\ pending' = pending
    BY <1>9 DEF HandOff, fileVars
  <2> QED
    BY <1>0, <1>a, <2>1, ReplayReaches
<1>10. CASE GrantCall
  <2>1. Select' = Select
    BY <1>10, SameSelect DEF GrantCall, Grant, connVars
  <2> QED
    BY <1>10, <2>1 DEF GrantCall, PendingInFlight, deliveryVars, fileVars, failures
<1>11. ASSUME NEW c \in Conn, Render(c) \/ RenderFails(c) PROVE PendingInFlight'
  <2>1. Select' = Select
    BY <1>11, SameSelect DEF Render, RenderFails, ownerVars, connVars, leaseVars
  <2>2. Elems(toProxy[c]) = {Head(toProxy[c])} \cup Elems(Tail(toProxy[c]))
    BY <1>11, <1>a, ElemsTail DEF Render, RenderFails
  <2>3. ASSUME NEW d \in Conn
        PROVE  Elems(toProxy[d]) \cup acks[d] \subseteq Elems(toProxy'[d]) \cup acks'[d] \cup dropped'
    <3>1. CASE d = c /\ Render(c)
      BY <1>a, <2>2, <3>1 DEF Render
    <3>2. CASE d = c /\ RenderFails(c)
      BY <1>a, <2>2, <3>2 DEF RenderFails
    <3>3. CASE d # c
      BY <1>11, <1>a, <3>3 DEF Render, RenderFails
    <3> QED
      BY <1>11, <3>1, <3>2, <3>3
  <2>4. pending' = pending /\ dropped \subseteq dropped'
    BY <1>11 DEF Render, RenderFails, fileVars, failures
  <2> QED
    BY <1>b, <2>1, <2>3, <2>4 DEF PendingInFlight
<1>12. ASSUME NEW c \in Conn, NEW e \in Event, HandleAck(c, e) PROVE PendingInFlight'
  <2>1. Select' = Select
    BY <1>12, SameSelect DEF HandleAck, ownerVars, connVars, leaseVars
  <2>2. Elems(pending') = Elems(pending) \ {e}
    BY <1>12, HandleAckMarks
  <2>3. \A d \in Conn : acks[d] \ {e} \subseteq acks'[d]
    BY <1>12, <1>a DEF HandleAck
  <2> QED
    BY <1>12, <1>b, <2>1, <2>2, <2>3 DEF HandleAck, PendingInFlight, failures
<1>13. ASSUME NEW c \in Conn, NEW e \in Event, MarkFails(c, e) PROVE PendingInFlight'
  <2>1. Select' = Select
    BY <1>13, SameSelect DEF MarkFails, ownerVars, connVars, leaseVars
  <2>2. \A d \in Conn : acks[d] \ {e} \subseteq acks'[d]
    BY <1>13, <1>a DEF MarkFails
  <2> QED
    BY <1>13, <1>b, <2>1, <2>2 DEF MarkFails, PendingInFlight, fileVars
<1>14. CASE UNCHANGED inboundVars
  <2>1. Select' = Select
    BY <1>14, SameSelect DEF inboundVars, ownerVars, connVars, leaseVars
  <2> QED
    BY <1>14, <2>1 DEF inboundVars, deliveryVars, fileVars, failures, PendingInFlight
<1> QED
  BY <1>1, <1>2, <1>3, <1>4, <1>5, <1>6, <1>7, <1>8, <1>9, <1>10, <1>11, <1>12, <1>13, <1>14
  DEF InboundNext

-----------------------------------------------------------------------------
(* Order                                                                    *)

\* In s, every b comes after an a.
Follows(s, a, b) == \A k \in 1..Len(s) : s[k] = b => \E l \in 1 .. k - 1 : s[l] = a

\* Both rows are undelivered, and a was received first.
Earlier(a, b) == \E i, j \in 1..Len(pending) : i < j /\ pending[i] = a /\ pending[j] = b

\* Claude has been shown a, or a call for it has failed.
Seen(a) == a \in rendered \cup dropped

\* What makes RenderedInOrder inductive: also in the frames on their way, no
\* event runs ahead of an earlier one.
OrderInv ==
    \A a, b \in Event : Earlier(a, b) =>
        \/ Seen(a)
        \/ b \notin rendered /\ \A c \in Conn : Follows(toProxy[c], a, b)

LEMMA FollowsConcat ==
    ASSUME NEW s \in Seq(Event), NEW t \in Seq(Event), NEW a, NEW b,
           Follows(s, a, b), Follows(t, a, b) \/ a \in Elems(s)
    PROVE  Follows(s \o t, a, b)
<1>1. /\ Len(s \o t) = Len(s) + Len(t)
      /\ \A i \in 1 .. Len(s) + Len(t) :
            (s \o t)[i] = IF i <= Len(s) THEN s[i] ELSE t[i - Len(s)]
  BY ConcatProperties
<1>2. Len(s) \in Nat /\ Len(t) \in Nat
  OBVIOUS
<1>3. SUFFICES ASSUME NEW k \in 1 .. Len(s) + Len(t), (s \o t)[k] = b
               PROVE  \E l \in 1 .. k - 1 : (s \o t)[l] = a
  BY <1>1 DEF Follows
<1>4. CASE k <= Len(s)
  <2>1. k \in 1..Len(s) /\ s[k] = b
    BY <1>1, <1>2, <1>3, <1>4
  <2>2. PICK l \in 1 .. k - 1 : s[l] = a
    BY <2>1 DEF Follows
  <2>3. l \in 1 .. Len(s) + Len(t) /\ l <= Len(s)
    BY <1>2, <1>4, <2>2
  <2> QED
    BY <1>1, <2>2, <2>3
<1>5. CASE k > Len(s) /\ a \in Elems(s)
  <2>1. PICK l \in 1..Len(s) : s[l] = a
    BY <1>5 DEF Elems
  <2>2. l \in 1 .. k - 1 /\ l \in 1 .. Len(s) + Len(t) /\ l <= Len(s)
    BY <1>2, <1>5, <2>1
  <2> QED
    BY <1>1, <2>1, <2>2
<1>6. CASE k > Len(s) /\ Follows(t, a, b)
  <2>1. k - Len(s) \in 1..Len(t) /\ t[k - Len(s)] = b
    BY <1>1, <1>2, <1>3, <1>6
  <2>2. PICK l \in 1 .. (k - Len(s)) - 1 : t[l] = a
    BY <1>6, <2>1 DEF Follows
  <2> DEFINE m == l + Len(s)
  <2>3. /\ m \in 1 .. k - 1 /\ m \in 1 .. Len(s) + Len(t)
        /\ ~ (m <= Len(s)) /\ m - Len(s) = l
    BY <1>2, <1>6, <2>2
  <2> HIDE DEF m
  <2>4. (s \o t)[m] = t[m - Len(s)]
    BY <1>1, <2>3
  <2>5. (s \o t)[m] = a
    BY <2>2, <2>3, <2>4
  <2> QED
    BY <2>3, <2>5
<1>7. k <= Len(s) \/ k > Len(s)
  BY <1>2
<1> QED
  BY <1>4, <1>5, <1>6, <1>7

LEMMA FollowsTail ==
    ASSUME NEW s \in Seq(Event), s # <<>>, NEW a, NEW b, Follows(s, a, b)
    PROVE  Head(s) # b /\ (Head(s) = a \/ Follows(Tail(s), a, b))
<1>1. /\ Len(Tail(s)) = Len(s) - 1
      /\ \A i \in 1 .. Len(Tail(s)) : Tail(s)[i] = s[i + 1]
  BY HeadTailProperties
<1>2. Head(s) = s[1] /\ Len(s) \in Nat \ {0}
  BY EmptySeq
<1>3. Head(s) # b
  BY <1>2 DEF Follows
<1>4. ASSUME Head(s) # a, NEW k \in 1 .. Len(Tail(s)), Tail(s)[k] = b
      PROVE  \E l \in 1 .. k - 1 : Tail(s)[l] = a
  <2>1. k + 1 \in 1..Len(s) /\ s[k + 1] = b
    BY <1>1, <1>2, <1>4
  <2>2. PICK l \in 1 .. (k + 1) - 1 : s[l] = a
    BY <2>1 DEF Follows
  <2>3. l # 1
    BY <1>2, <1>4, <2>2
  <2>4. l - 1 \in 1 .. k - 1 /\ l - 1 \in 1 .. Len(Tail(s)) /\ (l - 1) + 1 = l
    BY <1>1, <1>2, <2>2, <2>3
  <2> QED
    BY <1>1, <2>2, <2>4
<1> QED
  BY <1>3, <1>4 DEF Follows

\* The rows of the file, replayed, keep their order.
LEMMA PendingFollows ==
    ASSUME pending \in Seq(Event), Distinct(pending), NEW a, NEW b, Earlier(a, b)
    PROVE  /\ Follows(pending, a, b) /\ Follows(pending \o pending, a, b)
           /\ a \in Elems(pending) /\ b \in Elems(pending) /\ a # b
<1>1. PICK i, j \in 1..Len(pending) : i < j /\ pending[i] = a /\ pending[j] = b
  BY DEF Earlier
<1>2. Follows(pending, a, b)
  <2> SUFFICES ASSUME NEW k \in 1..Len(pending), pending[k] = b
               PROVE  \E l \in 1 .. k - 1 : pending[l] = a
    BY DEF Follows
  <2>1. k = j
    BY <1>1 DEF Distinct
  <2> QED
    BY <1>1, <2>1
<1>3. a \in Elems(pending) /\ b \in Elems(pending)
  BY <1>1 DEF Elems
<1>4. a # b
  BY <1>1 DEF Distinct
<1> QED
  BY <1>2, <1>3, <1>4, FollowsConcat

LEMMA FollowsAbsent == ASSUME NEW s, NEW a, NEW b, b \notin Elems(s) PROVE Follows(s, a, b)
BY DEF Follows, Elems

\* A step that leaves the rows, and frames of the rows to one connection.
LEMMA OrderReplay ==
    ASSUME OrderInv, FlowInv, NEW d, NEW s \in {<<>>, pending, pending \o pending}, Route(d, s),
           UNCHANGED <<pending, rendered, dropped>>
    PROVE  OrderInv'
<1>1. toProxy \in [Conn -> Seq(Event)] /\ pending \in Seq(Event) /\ Distinct(pending)
  BY DEF FlowInv, InboundTypeOK
<1>2. s \in Seq(Event)
  <2>1. pending \o pending \in Seq(Event) /\ <<>> \in Seq(Event)
    BY <1>1, EventConcat
  <2> QED
    BY <1>1, <2>1
<1> SUFFICES ASSUME NEW a \in Event, NEW b \in Event, Earlier(a, b), ~ Seen(a)
             PROVE  b \notin rendered /\ \A c \in Conn : Follows(toProxy'[c], a, b)
  BY DEF OrderInv, Earlier, Seen
<1>3. b \notin rendered /\ \A c \in Conn : Follows(toProxy[c], a, b)
  BY DEF OrderInv
<1>4. Follows(s, a, b)
  <2>1. Follows(<<>>, a, b)
    BY DEF Follows
  <2> QED
    BY <1>1, <2>1, PendingFollows
<1>5. ASSUME NEW c \in Conn PROVE Follows(toProxy'[c], a, b)
  <2>1. toProxy[c] \in Seq(Event)
    BY <1>1
  <2>2. Follows(toProxy[c] \o s, a, b)
    BY <1>2, <1>3, <1>4, <2>1, FollowsConcat
  <2>3. toProxy'[c] = toProxy[c] \/ toProxy'[c] = toProxy[c] \o s
    BY <1>1, <1>2, RouteTo
  <2> QED
    BY <1>3, <2>2, <2>3
<1> QED
  BY <1>3, <1>5

\* An event that arrives, or arrives again, goes behind every earlier row that
\* is still undelivered: those are in flight to the same connection.
LEMMA OrderReceive ==
    ASSUME OrderInv, FlowInv, OwnerTypeOK, PendingInFlight, NEW e \in Event, Receive(e)
    PROVE  OrderInv'
<1>1. /\ toProxy \in [Conn -> Seq(Event)] /\ pending \in Seq(Event) /\ Distinct(pending)
      /\ acks \in [Conn -> SUBSET Event]
  BY DEF FlowInv, InboundTypeOK
<1>2. UNCHANGED <<rendered, dropped>>
  BY DEF Receive, failures
<1>3. <<e>> \in Seq(Event) /\ Elems(<<e>>) = {e}
  BY ElemsOne
<1> SUFFICES ASSUME NEW a \in Event, NEW b \in Event, Earlier(a, b)', ~ Seen(a)
             PROVE  b \notin rendered /\ \A c \in Conn : Follows(toProxy'[c], a, b)
  BY <1>2 DEF OrderInv, Seen
<1>4. a \in Elems(pending) /\ (Earlier(a, b) \/ (b = e /\ e \notin Persisted)) /\ a # b
  <2>1. CASE e \in Persisted
    <3>1. pending' = pending
      BY <2>1 DEF Receive
    <3>2. Earlier(a, b)
      BY <3>1 DEF Earlier
    <3> QED
      BY <1>1, <3>2, PendingFollows
  <2>2. CASE e \notin Persisted
    <3>1. pending' = Append(pending, e) /\ e \notin Elems(pending)
      BY <2>2 DEF Receive, Persisted
    <3>2. /\ Len(pending') = Len(pending) + 1 /\ Len(pending) \in Nat
          /\ pending'[Len(pending) + 1] = e
          /\ \A i \in 1..Len(pending) : pending'[i] = pending[i]
      BY <1>1, <3>1
    <3>3. PICK i, j \in 1..Len(pending) + 1 : i < j /\ pending'[i] = a /\ pending'[j] = b
      BY <3>2 DEF Earlier
    <3>4. i \in 1..Len(pending) /\ pending[i] = a
      BY <3>2, <3>3
    <3>5. a \in Elems(pending)
      BY <3>4 DEF Elems
    <3>6. CASE j \in 1..Len(pending)
      <4>1. Earlier(a, b)
        BY <3>2, <3>3, <3>4, <3>6 DEF Earlier
      <4> QED
        BY <1>1, <4>1, PendingFollows
    <3>7. CASE j = Len(pending) + 1
      <4>1. b = e
        BY <3>2, <3>3, <3>7
      <4> QED
        BY <2>2, <3>1, <3>5, <4>1
    <3> QED
      BY <3>2, <3>6, <3>7
  <2> QED
    BY <2>1, <2>2
<1>5. b \notin rendered /\ \A c \in Conn : Follows(toProxy[c], a, b)
  <2>1. CASE Earlier(a, b)
    BY <2>1 DEF OrderInv
  <2>2. CASE b = e /\ e \notin Persisted
    <3>1. b \notin rendered /\ \A c \in Conn : b \notin Elems(toProxy[c])
      BY <2>2 DEF FlowInv
    <3> QED
      BY <3>1, FollowsAbsent
  <2> QED
    BY <1>4, <2>1, <2>2
<1>6. ASSUME NEW c \in Conn PROVE Follows(toProxy'[c], a, b)
  <2>1. CASE c # Select
    <3>1. toProxy'[c] = toProxy[c]
      BY <1>1, <1>3, <2>1, RouteTo DEF Receive
    <3> QED
      BY <1>5, <3>1
  <2>2. CASE c = Select
    <3>1. toProxy'[c] = toProxy[c] \o <<e>> /\ toProxy[c] \in Seq(Event)
      BY <1>1, <1>3, <2>2, RouteTo DEF Receive
    <3>2. c # Nobody
      BY ConnAssumption
    <3>3. a \in Elems(toProxy[c]) \cup acks[c]
      BY <1>4, <2>2, <3>2 DEF PendingInFlight, Seen
    <3>4. a \in Elems(toProxy[c])
      BY <3>3 DEF FlowInv, Seen
    <3>5. Follows(toProxy[c], a, b)
      BY <1>5
    <3> QED
      BY <1>3, <3>1, <3>4, <3>5, FollowsConcat
  <2> QED
    BY <2>1, <2>2
<1> QED
  BY <1>5, <1>6

\* The head of a connection's frames is read; nothing behind it overtakes.
LEMMA OrderRead ==
    ASSUME OrderInv, FlowInv, NEW c \in Conn, Render(c) \/ RenderFails(c)
    PROVE  OrderInv'
<1>1. toProxy \in [Conn -> Seq(Event)] /\ toProxy[c] \in Seq(Event) /\ toProxy[c] # <<>>
  BY DEF FlowInv, InboundTypeOK, Render, RenderFails
<1>2. /\ pending' = pending
      /\ toProxy' = [toProxy EXCEPT ![c] = Tail(@)]
      /\ rendered \cup dropped \cup {Head(toProxy[c])} = rendered' \cup dropped'
      /\ rendered' \subseteq rendered \cup {Head(toProxy[c])}
  BY DEF Render, RenderFails, fileVars, failures
<1> SUFFICES ASSUME NEW a \in Event, NEW b \in Event, Earlier(a, b), ~ Seen(a)'
             PROVE  b \notin rendered' /\ \A d \in Conn : Follows(toProxy'[d], a, b)
  BY <1>2 DEF OrderInv, Earlier
<1>3. ~ Seen(a) /\ Head(toProxy[c]) # a
  BY <1>2 DEF Seen
<1>4. b \notin rendered /\ \A d \in Conn : Follows(toProxy[d], a, b)
  BY <1>3 DEF OrderInv
<1>5. Head(toProxy[c]) # b /\ Follows(Tail(toProxy[c]), a, b)
  BY <1>1, <1>3, <1>4, FollowsTail
<1> QED
  BY <1>1, <1>2, <1>4, <1>5

\* A row leaves the file; the others keep their order.
LEMMA OrderMark ==
    ASSUME OrderInv, FlowInv, NEW c \in Conn, NEW e \in Event, HandleAck(c, e)
    PROVE  OrderInv'
<1>1. pending \in Seq(Event)
  BY DEF FlowInv, InboundTypeOK
<1>2. UNCHANGED <<toProxy, rendered, dropped>> /\ pending' = Drop(pending, e)
  BY DEF HandleAck, failures
<1>3. ASSUME NEW a, NEW b, Earlier(a, b)' PROVE Earlier(a, b)
  <2>1. CASE e \notin Elems(pending)
    BY <1>2, <1>3, <2>1 DEF Drop, Earlier
  <2>2. CASE e \in Elems(pending)
    <3>1. PICK k \in 1..Len(pending) :
             /\ Len(pending') = Len(pending) - 1
             /\ \A i \in 1 .. Len(pending) - 1 :
                   pending'[i] = IF i < k THEN pending[i] ELSE pending[i + 1]
      <4>1. \E k \in 1..Len(pending) :
               /\ Len(Drop(pending, e)) = Len(pending) - 1
               /\ \A i \in 1 .. Len(pending) - 1 :
                     Drop(pending, e)[i] = IF i < k THEN pending[i] ELSE pending[i + 1]
        BY <1>1, <2>2, DropKeepsOrder
      <4> QED
        BY <1>2, <4>1
    <3>2. PICK i, j \in 1 .. Len(pending) - 1 : i < j /\ pending'[i] = a /\ pending'[j] = b
      BY <1>3, <3>1 DEF Earlier
    <3>3. Len(pending) \in Nat
      BY <1>1
    <3> DEFINE at(n) == IF n < k THEN n ELSE n + 1
    <3>4. at(i) \in 1..Len(pending) /\ at(j) \in 1..Len(pending) /\ at(i) < at(j)
      BY <3>2, <3>3
    <3>5. pending[at(i)] = a /\ pending[at(j)] = b
      BY <3>1, <3>2
    <3> QED
      BY <3>4, <3>5 DEF Earlier
  <2> QED
    BY <2>1, <2>2
<1> QED
  BY <1>2, <1>3 DEF OrderInv, Seen

LEMMA OrderStep ==
    OrderInv /\ PendingInFlight /\ FlowInv /\ OwnerInv /\ [InboundNext]_inboundVars => OrderInv'
<1> SUFFICES ASSUME OrderInv, PendingInFlight, FlowInv, OwnerInv, [InboundNext]_inboundVars
             PROVE  OrderInv'
  OBVIOUS
<1>0. OwnerTypeOK /\ toProxy \in [Conn -> Seq(Event)]
  BY DEF OwnerInv, FlowInv, InboundTypeOK
<1>1. CASE \E e \in Event : Receive(e)
  BY <1>0, <1>1, OrderReceive
<1>2. CASE Open \/ HandOff
  <2>1. /\ \E d : Route(d, pending)
        /\ UNCHANGED <<pending, rendered, dropped>>
    BY <1>2 DEF Open, HandOff, fileVars, failures
  <2> QED
    BY <2>1, OrderReplay
<1>3. CASE \E c \in Conn : ProxyRegister(c)
  <2>1. /\ \E s \in {pending, pending \o pending} : Route(Select', s)
        /\ UNCHANGED <<pending, rendered, dropped>>
    BY <1>3 DEF ProxyRegister, fileVars, failures
  <2> QED
    BY <2>1, OrderReplay
<1>4. CASE \E c \in Conn : Render(c) \/ RenderFails(c)
  BY <1>4, OrderRead
<1>5. CASE \E c \in Conn, e \in Event : HandleAck(c, e)
  BY <1>5, OrderMark
<1>6. CASE Crash \/ \E c \in Conn : ProxyClose(c)
  <2>1. /\ \A c \in Conn : toProxy'[c] \in {toProxy[c], <<>>}
        /\ UNCHANGED <<pending, rendered, dropped>>
    BY <1>0, <1>6 DEF Crash, ProxyClose, fileVars, failures
  <2>2. \A a, b : Follows(<<>>, a, b)
    BY DEF Follows
  <2> QED
    BY <2>1, <2>2 DEF OrderInv, Earlier, Seen
<1>7. CASE /\ UNCHANGED <<pending, toProxy, rendered>>
           /\ dropped \subseteq dropped'
  BY <1>7 DEF OrderInv, Earlier, Seen
<1> QED
  BY <1>1, <1>2, <1>3, <1>4, <1>5, <1>6, <1>7
  DEF InboundNext, AckFeishu, LoseFeishuAck, HandlerFails, Start, ProxyConnect, MarkFails,
      GrantCall, inboundVars, deliveryVars, fileVars, failures

LEMMA OrderInit == InboundInit => OrderInv
BY DEF InboundInit, OrderInv, Earlier

-----------------------------------------------------------------------------

\* Type correctness of the events' way through the daemon (daemon.ts).
THEOREM InboundTypeCorrect == InboundSpec => []InboundTypeOK
<1>1. FlowInv => InboundTypeOK
  BY DEF FlowInv
<1> QED
  BY <1>1, FlowInvAlways, PTL

\* Nothing Feishu will not send again is missing from the queue file, through
\* any number of crashes and lost messages (createDurableNotifier).
THEOREM AckedPersisted == InboundSpec => []AckedIsPersisted
<1>1. FlowInv => AckedIsPersisted
  BY DEF FlowInv
<1> QED
  BY <1>1, FlowInvAlways, PTL

\* The daemon and its proxies implement the promise of the queue's header:
\* stored, shown, confirmed, in this order and never taken back.
THEOREM PromiseKept == InboundSpec => KeepsPromise
BY PromiseInit, PromiseStep, FlowInvAlways, PTL DEF InboundSpec, KeepsPromise, Promise!Spec

\* No frame is written to a session that no dispatcher has named since the
\* last return (daemon-routing.ts, over every replay).
THEOREM DeliveredAuthorised == InboundSpec => DeliveredToAuthorised
<1>1. FlowInv /\ OwnerInv' /\ [InboundNext]_inboundVars =>
         [\A c \in Conn : Len(toProxy'[c]) > Len(toProxy[c]) =>
              SidOf[c] \in Dispatchers \cup authorised']_inboundVars
  BY GrowsForAuthorised
<1> QED
  BY <1>1, FlowInvAlways, InboundHasOwnerInv, PTL DEF InboundSpec, DeliveredToAuthorised

\* No undelivered row waits for a trigger that may not come while the owner is
\* connected, if every proxy has an id of its own (onRegister, onChanged,
\* startDaemon, notify).
THEOREM NothingStranded ==
    ASSUME UniqueIds
    PROVE  InboundSpec => []PendingInFlight
BY InFlightInit, InFlightStep, FlowInvAlways, InboundHasOwnerInv, PTL DEF InboundSpec

\* Claude never sees an event before one that was received earlier and is
\* still undelivered, through replays, hand-offs and restarts, if every proxy
\* has an id of its own (replayPending, createDurableNotifier).
THEOREM ShownInOrder ==
    ASSUME UniqueIds
    PROVE  InboundSpec => []RenderedInOrder
<1>1. OrderInv /\ FlowInv => RenderedInOrder
  BY ElementOfSeq
  DEF OrderInv, FlowInv, InboundTypeOK, RenderedInOrder, Earlier, Seen
<1> QED
  BY <1>1, OrderInit, OrderStep, NothingStranded, FlowInvAlways, InboundHasOwnerInv, PTL
  DEF InboundSpec

=============================================================================
