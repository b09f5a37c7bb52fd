----------------------------- MODULE HeaderSync -----------------------------
(***************************************************************************)
(* HeaderSync: the second stage.  It appends headers up to the archive     *)
(* point, verified against the committed header hashes, and then on to the *)
(* tip while state sync and body sync run.                                 *)
(*                                                                         *)
(* header_sync.rs is not among the sources of this repository snapshot:    *)
(* the operators are written from section 4.5 of the specification and     *)
(* from the calls sync_manager.rs makes.  A batch of headers is valid or   *)
(* not, and reaches the next milestone (archive point, tip) or not.        *)
(***************************************************************************)
EXTENDS Integers

Stages == {"Syncing", "HeadersPibdReady", "HeadersReady"}

States ==
    [ stage   : Stages,
      suspect : BOOLEAN ]   \* batches failed against the committed root

\* HeaderSync::new
New == [stage |-> "Syncing", suspect |-> FALSE]

\* What request answers.  Below the archive point the batches need the
\* header hashes; failures there put the committed root in doubt.
Answer(hs, has_hashes, peers) ==
    CASE hs.stage = "HeadersReady"       -> "HeadersReady"
      [] hs.stage = "HeadersPibdReady"   -> "HeadersPibdReady"
      [] ~has_hashes                     -> "WaitingForHeadersHash"
      [] hs.suspect \/ peers = {}        -> "WaitingForPeers"
      [] OTHER                           -> "Syncing"

\* What request does: the doubt is raised to the manager once.
Request(hs, has_hashes, peers) ==
    IF Answer(hs, has_hashes, peers) = "WaitingForPeers"
    THEN [hs EXCEPT !.suspect = FALSE]
    ELSE hs

\* receive_headers: a valid batch is stored and may reach the archive point
\* or the tip; an invalid batch below the archive point casts doubt on the
\* root.
ReceiveHeaders(hs, valid, reaches) ==
    CASE valid /\ reaches /\ hs.stage = "Syncing" ->
             [hs EXCEPT !.stage = "HeadersPibdReady"]
      [] valid /\ reaches /\ hs.stage = "HeadersPibdReady" ->
             [hs EXCEPT !.stage = "HeadersReady"]
      [] ~valid /\ hs.stage = "Syncing" ->
             [hs EXCEPT !.suspect = TRUE]
      [] OTHER -> hs

=============================================================================
