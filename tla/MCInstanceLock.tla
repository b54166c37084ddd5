---------------------------- MODULE MCInstanceLock ----------------------------
(* The process that holds the lock, and one or two that come after it.  Only  *)
(* a process of another plugin version may be evicted: p1 and p2 are of the   *)
(* same version, later than the holder's.                                     *)
EXTENDS InstanceLock

CONSTANTS p0, p1, p2

Three      == {p0, p1, p2}
Upgrade    == {<<p1, p0>>, <<p2, p0>>}
=============================================================================
