----------------------------- MODULE MCBodySync -----------------------------
(***************************************************************************)
(* BodySync for TLC: two peers, a short chain, small caps.                 *)
(***************************************************************************)
EXTENDS BodySync, Functions

CONSTANTS p1, p2

\* p1 serves the block history, p2 only recent blocks.
MCPeerCaps == (p1 :> {"BLOCK_HIST", "HEADER_HIST"}) @@ (p2 :> {"HEADER_HIST"})

\* The same, for a run with p1 alone.
MCOnePeerCaps == Restrict(MCPeerCaps, {p1})

=============================================================================
