----------------------------- MODULE StateSync ------------------------------
(***************************************************************************)
(* StateSync: the third stage, PIBD.  It downloads the four MMRs of the    *)
(* state at the archive height, has the chain validate them and installs   *)
(* the txhashset.                                                          *)
(*                                                                         *)
(* state_sync.rs is not among the sources of this repository snapshot: the *)
(* operators are written from section 4.6 of the specification and from    *)
(* the calls sync_manager.rs makes.  The five validation phases are one    *)
(* stage, a segment is valid or not and completes its MMR or not.          *)
(***************************************************************************)
EXTENDS Integers, FiniteSets

MMRs == {"bitmap", "output", "rangeproof", "kernel"}

Stages == {"WaitingForStatus", "Downloading", "Validating", "StatePibdReady"}

States ==
    [ stage   : Stages,
      whole   : SUBSET MMRs,    \* the MMRs that are complete
      another : BOOLEAN ]       \* an alternate archive header is on record

\* StateSync::new
New == [stage |-> "WaitingForStatus", whole |-> {}, another |-> FALSE]

\* The answers of request while the state is not installed.  A failed
\* validation answers WaitingForPeers or, as section 4.6 allows, BadState.
Answer(st, headers_known, peers) ==
    CASE st.stage = "StatePibdReady" -> "StatePibdReady"
      [] ~headers_known              -> "WaitingForHeaders"
      [] peers = {}                  -> "WaitingForPeers"
      [] OTHER                       -> "Syncing"

\* reset_desegmenter_data: the partial MMRs are wiped, PIBD starts again.
ResetDesegmenterData(st) == New

\* What request does in the stage Validating: the chain validates the MMRs
\* (valid) and the state is installed, or not; either way the desegmenter
\* data is dropped.
Validate(st, valid) ==
    IF valid THEN [New EXCEPT !.stage = "StatePibdReady"]
             ELSE ResetDesegmenterData(st)

\* recieve_pibd_status: a peer declares the state it serves; the quorum that
\* commits the bitmap root is abstracted to one declaration.
RecievePibdStatus(st) ==
    IF st.stage = "WaitingForStatus"
    THEN [st EXCEPT !.stage = "Downloading"]
    ELSE st

\* recieve_another_archive_header
RecieveAnotherArchiveHeader(st) ==
    IF st.stage = "StatePibdReady" THEN st ELSE [st EXCEPT !.another = TRUE]

\* receive_bitmap_segment and its three siblings: a valid segment goes to
\* the desegmenter and may complete its MMR; with the four MMRs whole the
\* validation starts.
ReceiveSegment(st, mmr, valid, last) ==
    IF st.stage # "Downloading" \/ ~valid \/ ~last
    THEN st
    ELSE LET whole == st.whole \cup {mmr}
         IN  [st EXCEPT !.whole = whole,
                        !.stage = IF whole = MMRs THEN "Validating" ELSE @]

=============================================================================
