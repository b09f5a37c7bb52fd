----------------------------- MODULE SyncPeers ------------------------------
(***************************************************************************)
(* SyncPeers: the score a syncer keeps of every peer.                      *)
(*                                                                         *)
(* sync_peers.rs is not among the sources of this repository snapshot;     *)
(* the operators are written from section 4.2 of the specification.  The   *)
(* accumulated error strings are dropped, the two counters saturate at     *)
(* MaxScore so that the ledger has finitely many values.                   *)
(***************************************************************************)
EXTENDS Integers, FiniteSetsExt

CONSTANTS
    PeerAddrs,      \* the peers a ledger scores
    BanThreshold,   \* err_count at which a peer is marked for ban
    MaxScore        \* bound: the counters stop counting here

\* A threshold above MaxScore is never reached: no peer is banned.
ASSUME /\ MaxScore \in Nat \ {0}
       /\ BanThreshold \in Nat \ {0}

Ledgers ==
    [ ok  : [PeerAddrs -> 0..MaxScore],
      err : [PeerAddrs -> 0..MaxScore],
      ban : SUBSET PeerAddrs ]

\* SyncPeers::new()
NewSyncPeers ==
    [ ok  |-> [p \in PeerAddrs |-> 0],
      err |-> [p \in PeerAddrs |-> 0],
      ban |-> {} ]

\* report_ok_response
ReportOkResponse(sp, peer) ==
    [sp EXCEPT !.ok[peer] = Min({@ + 1, MaxScore})]

\* n calls of report_error_response for one peer: counts them and marks the
\* peer for ban when the count reaches the threshold.
ReportErrors(sp, peer, n) ==
    LET count == Min({sp.err[peer] + n, MaxScore})
    IN  [sp EXCEPT !.err[peer] = count,
                   !.ban = IF n > 0 /\ count >= BanThreshold
                           THEN @ \cup {peer} ELSE @]

\* report_error_response
ReportErrorResponse(sp, peer) == ReportErrors(sp, peer, 1)

\* apply_peers_status hands the pending bans to the transport and forgets
\* them.
ApplyPeersStatus(sp) == [sp EXCEPT !.ban = {}]

\* reset
Reset == NewSyncPeers

=============================================================================
