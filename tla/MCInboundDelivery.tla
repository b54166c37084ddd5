-------------------------- MODULE MCInboundDelivery --------------------------
(* A dispatcher and an ordinary session, one proxy each.                     *)
EXTENDS InboundDelivery, TLC

CONSTANTS d1, s1, c1, c2, e1, e2

MCConn        == {c1, c2}
MCSession     == {d1, s1}
MCDispatchers == {d1}
MCSidOf       == c1 :> d1 @@ c2 :> s1
MCEvent       == {e1, e2}
MCOneEvent    == {e1}

=============================================================================
