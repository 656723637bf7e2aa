------------------------------ MODULE MCStickyBind ------------------------------
(* Peers and interfaces of the sticky bind as model values.                *)
EXTENDS StickyBind, TLC

CONSTANTS p1, p2, i1, i2

MCPeers1 == {p1}
MCPeers2 == {p1, p2}
MCIfaces == {i1, i2}
=============================================================================
