--------------------------- MODULE MCSyncManager ----------------------------
(***************************************************************************)
(* SyncManager for TLC: two peers and the live_info they may advertise.    *)
(***************************************************************************)
EXTENDS SyncManager

CONSTANTS p1, p2

\* Every peer is at height 1.
MCOneLiveInfo == { [height |-> 1, total_difficulty |-> 1] }

\* A peer has not told its height yet, or it is on one of two chains, of
\* which the longer one has less work.
MCForkLiveInfos ==
    { [height |-> 0, total_difficulty |-> 0],
      [height |-> 1, total_difficulty |-> 2],
      [height |-> 2, total_difficulty |-> 1] }

=============================================================================
