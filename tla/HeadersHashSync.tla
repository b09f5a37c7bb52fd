-------------------------- MODULE HeadersHashSync ---------------------------
(***************************************************************************)
(* HeadersHashSync: the first stage of the pipeline.  It commits to one    *)
(* headers hash root by the votes of the peers and downloads the MMR of    *)
(* header hashes that HeaderSync verifies its batches against.             *)
(*                                                                         *)
(* header_hashes_sync.rs is not among the sources of this repository       *)
(* snapshot: the operators are written from section 4.4 of the             *)
(* specification and from the calls sync_manager.rs makes.  The roots, the *)
(* segments and their proofs are abstracted: a vote agrees with the root   *)
(* that wins or it does not, a segment is valid or not and is the last one *)
(* or not.                                                                 *)
(***************************************************************************)
EXTENDS Integers, FiniteSets

CONSTANTS
    PeerAddrs,      \* the peers that vote
    Quorum          \* the matching votes that commit a root

ASSUME Quorum \in Nat \ {0}

Stages == {"AwaitingRootVotes", "RootCommitted", "SegmentsDownloading",
           "HeadersHashReady", "HeadersPibdReady"}

States ==
    [ stage   : Stages,
      votes   : SUBSET PeerAddrs,   \* the peers that voted for the winning root
      dissent : SUBSET PeerAddrs,   \* the peers charged for another root
      another : BOOLEAN ]           \* an alternate archive header is on record

\* HeadersHashSync::new
New ==
    [ stage |-> "AwaitingRootVotes", votes |-> {}, dissent |-> {},
      another |-> FALSE ]

\* The MMR of header hashes is whole: HeaderSync can verify against it.
HasHashes(hh) == hh.stage = "HeadersHashReady"

\* What request answers.
Answer(hh, peers) ==
    CASE hh.stage = "HeadersPibdReady" -> "HeadersPibdReady"
      [] hh.stage = "HeadersHashReady" -> "HeadersHashReady"
      [] peers = {}                    -> "WaitingForPeers"
      [] OTHER                         -> "Syncing"

\* What request does: once the root is committed the segments are asked for.
Request(hh, peers) ==
    IF hh.stage = "RootCommitted" /\ peers # {}
    THEN [hh EXCEPT !.stage = "SegmentsDownloading"]
    ELSE hh

\* receive_headers_hash_response: one vote.  The root is committed when
\* Quorum peers agree; a vote that comes later is not counted.
ReceiveHeadersHashResponse(hh, peer, agrees) ==
    IF hh.stage # "AwaitingRootVotes"
    THEN hh
    ELSE LET votes == IF agrees THEN hh.votes \cup {peer} ELSE hh.votes
         IN  [hh EXCEPT !.votes   = votes,
                        !.dissent = IF agrees THEN @ ELSE @ \cup {peer},
                        !.stage   = IF Cardinality(votes) >= Quorum
                                    THEN "RootCommitted" ELSE @]

\* receive_header_hashes_segment: a valid segment is kept, the last one
\* completes the MMR, and the alternate proposals have served.
ReceiveHeaderHashesSegment(hh, valid, last) ==
    IF hh.stage = "SegmentsDownloading" /\ valid /\ last
    THEN [hh EXCEPT !.stage = "HeadersHashReady", !.another = FALSE]
    ELSE hh

\* recieve_another_archive_header
RecieveAnotherArchiveHeader(hh) ==
    IF hh.stage \in {"HeadersHashReady", "HeadersPibdReady"}
    THEN hh
    ELSE [hh EXCEPT !.another = TRUE]

\* reset_hash_data: the headers reached the archive point, the hashes are
\* dropped.
ResetHashData(hh) == [New EXCEPT !.stage = "HeadersPibdReady"]

\* reset_ban_commited_to_hash: the committed root is given up and the vote
\* starts again; the peers banned for contradicting it are unbanned.
ResetBanCommitedToHash(hh) == New

Unbanned(hh) == hh.dissent

=============================================================================
