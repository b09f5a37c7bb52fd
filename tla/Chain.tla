------------------------------- MODULE Chain --------------------------------
(***************************************************************************)
(* The Chain as the sync core sees it: the read-mostly oracle of section 6 *)
(* of the specification.  The chain crate is not among the sources of this *)
(* repository snapshot; the operators are written from the interface the   *)
(* specification lists and from the calls body_sync.rs makes.              *)
(*                                                                         *)
(* The header chain starts on one branch and may leave it once for a       *)
(* branch with more work (a reorganisation).  The block of the first       *)
(* branch at height h has the hash h, the block of the other branch the    *)
(* hash MaxHeight + h; above fork_at the headers are those of the other    *)
(* branch.  The body chain is the blocks of the header chain up to head,   *)
(* and the headers reach header_head >= head.  best_height is what the     *)
(* best peer advertises: it follows the peers, not the chain, and may be   *)
(* below either head.                                                      *)
(***************************************************************************)
EXTENDS Integers, FiniteSetsExt

CONSTANTS
    MaxHeight,      \* bound: the height the network reaches
    ArchiveMode,    \* chain.archive_mode(): the node keeps the full history
    Horizon,        \* blocks below the best height that are not archived
    HeadersAtStart, \* the headers header sync has stored when body sync starts
    PeerHeights,    \* the heights a best peer may advertise
    ReorgDepth      \* bound: the headers a change of branch replaces (0: none)

ASSUME /\ MaxHeight \in Nat \ {0}
       /\ ArchiveMode \in BOOLEAN
       /\ Horizon \in Nat
       /\ HeadersAtStart \in 0..MaxHeight
       /\ PeerHeights \in SUBSET (1..MaxHeight) \ {{}}
       /\ ReorgDepth \in 0..MaxHeight

VARIABLES
    head,           \* chain.head().height
    header_head,    \* chain.header_head().height
    orphans,        \* the hashes held in the orphan pool
    best_height,    \* the height advertised by the best peer
    fork_at         \* the height above which the headers left the first branch

chainVars == <<head, header_head, orphans, best_height, fork_at>>

Hashes == 1..(IF ReorgDepth > 0 THEN 2 * MaxHeight ELSE MaxHeight)

\* header.height of the block with this hash
HeightOf(hash) == IF hash > MaxHeight THEN hash - MaxHeight ELSE hash

\* chain.get_header_by_height(h).hash(), with the branch point f
HeaderByHeight(f, h) == IF h > f THEN MaxHeight + h ELSE h

\* The block is on the header chain whose branch point is f.
OnHeaderChain(f, hash) == hash = HeaderByHeight(f, HeightOf(hash))

\* Chain::height_2_archive_height
ArchiveHeightOf(height) == Max({height - Horizon, 0})

ArchiveHeight == ArchiveHeightOf(best_height)

\* chain.fork_point(): the body chain is a prefix of the header chain, so the
\* body head is on it.
ForkPoint == head

\* chain.block_exists
BlockExists(c, hash) == OnHeaderChain(c.fork_at, hash) /\ HeightOf(hash) <= c.head

\* chain.is_orphan and chain.get_orphan(..).is_some()
IsOrphan(c, hash) == hash \in c.orphans

\* The chain state an operator of the syncer reads.
Now == [head |-> head, orphans |-> orphans, fork_at |-> fork_at]

\* The orphans that line up directly above the header at `height'.
OrphanRun(height) ==
    {k \in 0..(MaxHeight - height) :
        \A i \in 1..k : HeaderByHeight(fork_at, height + i) \in orphans}

\* The block h, the one the header chain has above the head, becomes the
\* head.  check_orphans then takes k of the orphans that line up above it: an
\* orphan that was added while its parent was being processed is passed over
\* and stays stuck (k is not the longest run).
Accept(h, k) ==
    /\ h = HeaderByHeight(fork_at, head + 1)
    /\ k \in OrphanRun(head + 1)
    /\ head' = head + 1 + k
    /\ orphans' = {o \in orphans : ~BlockExists([Now EXCEPT !.head = head'], o)}
    /\ UNCHANGED <<header_head, best_height, fork_at>>

\* chain.process_block on a block received from a peer, and its verdict.
Verdict(h, good) ==
    CASE ~good                                -> "rejected"
      [] BlockExists(Now, h)                  -> "known"
      [] h = HeaderByHeight(fork_at, head + 1) -> "accepted"
      [] OTHER                                -> "orphan"

ProcessBlock(h, good, k) ==
    CASE Verdict(h, good) = "accepted" -> Accept(h, k)
      [] Verdict(h, good) = "orphan"   -> /\ orphans' = orphans \cup {h}
                                          /\ UNCHANGED <<head, header_head, best_height,
                                                          fork_at>>
      [] OTHER                         -> UNCHANGED chainVars

\* The orphan pool drops a block it has held for too long.
EvictOrphan(h) ==
    /\ h \in orphans
    /\ orphans' = orphans \ {h}
    /\ UNCHANGED <<head, header_head, best_height, fork_at>>

\* Another peer is the best one, or the best one advertises another height.
BestPeerChanges(h) ==
    /\ h \in PeerHeights \ {best_height}
    /\ best_height' = h
    /\ UNCHANGED <<head, header_head, orphans, fork_at>>

\* Header sync, which runs beside body sync, or a broadcast appends a header.
HeaderAppend ==
    /\ header_head < MaxHeight
    /\ header_head' = header_head + 1
    /\ UNCHANGED <<head, orphans, best_height, fork_at>>

\* A branch with more work wins: the headers above f, a height the body chain
\* has not passed and at most ReorgDepth of them, are replaced by those of the
\* other branch, which reaches at least as high.
HeaderReorg(f, hh) ==
    /\ fork_at = MaxHeight
    /\ f \in Max({head, header_head - ReorgDepth})..(header_head - 1)
    /\ hh \in header_head..MaxHeight
    /\ fork_at' = f
    /\ header_head' = hh
    /\ UNCHANGED <<head, orphans, best_height>>

\* State sync installs the txhashset of the archive header: the body head
\* jumps to the archive height.
TxHashsetInstall ==
    /\ ~ArchiveMode
    /\ head < ArchiveHeight
    /\ ArchiveHeight <= header_head
    /\ head' = ArchiveHeight
    /\ orphans' = {o \in orphans : HeightOf(o) > ArchiveHeight}
    /\ UNCHANGED <<header_head, best_height, fork_at>>

ChainInit ==
    /\ head = 0
    /\ header_head = HeadersAtStart
    /\ orphans = {}
    /\ best_height \in PeerHeights
    /\ fork_at = MaxHeight

ChainTypeOK ==
    /\ head \in 0..MaxHeight
    /\ header_head \in head..MaxHeight
    /\ best_height \in PeerHeights
    /\ fork_at \in 0..MaxHeight
    /\ orphans \in SUBSET {o \in Hashes : ~BlockExists(Now, o)}

=============================================================================
