---------------------------- MODULE BodyDownload ----------------------------
(***************************************************************************)
(* What body sync promises, without the tracker, the series, the ledger    *)
(* and the peers (section 4.7 of the specification): the body chain grows  *)
(* block by block towards the header head; the blocks that came too early  *)
(* are held; and the blocks asked for are blocks that are still missing,   *)
(* at most Window ahead of the body head and at most Limit at a time.      *)
(* The header chain may leave its branch for another one.  BodySync        *)
(* implements this specification with, of the blocks of the header chain,  *)
(*    held  <- the orphan pool,   asked <- the keys of the request tracker.*)
(***************************************************************************)
EXTENDS Integers, FiniteSets

CONSTANTS
    MaxHeight,      \* bound: the height the network reaches
    Window,         \* how far ahead of the body head a block may be asked for
    Limit           \* how many blocks may be asked for at a time

VARIABLES
    head,           \* the height of the body chain
    header_head,    \* the height of the header chain
    held,           \* the blocks that wait for their parent
    asked           \* the blocks asked for and not yet answered or given up

vars == <<head, header_head, held, asked>>

Blocks == 1..MaxHeight

Init ==
    /\ head = 0
    /\ header_head \in 0..MaxHeight
    /\ held = {}
    /\ asked = {}

\* The held blocks that line up directly above h.
Run(h) == {k \in 0..(MaxHeight - h) : \A i \in 1..k : h + i \in held}

\* The next block is accepted, and with it some of the held blocks above it.
Advance ==
    /\ head < header_head
    /\ \E k \in Run(head + 1) :
           /\ head' = head + 1 + k
           /\ held' = {b \in held : b > head + 1 + k}
    /\ UNCHANGED header_head

\* A block comes before its parent.
Hold ==
    \E b \in (head + 2)..header_head :
        /\ b <= head + Window
        /\ held' = held \cup {b}
        /\ UNCHANGED <<head, header_head>>

\* A held block is given up.
Drop == \E b \in held : held' = held \ {b} /\ UNCHANGED <<head, header_head>>

\* The header chain grows.
Extend ==
    /\ header_head < MaxHeight
    /\ header_head' = header_head + 1
    /\ UNCHANGED <<head, held>>

\* The state at a later height is installed in place of the blocks below it.
Install ==
    \E h \in (head + 1)..header_head :
        /\ head' = h
        /\ held' = {b \in held : b > h}
        /\ UNCHANGED header_head

\* The header chain moves to a branch that leaves it above a height the body
\* chain has not passed: the blocks held above it are no blocks of the chain
\* any more.
Rebranch ==
    \E f \in head..(header_head - 1), hh \in header_head..MaxHeight :
        /\ header_head' = hh
        /\ held' = {b \in held : b <= f}
        /\ UNCHANGED head

ChainStep ==
    Advance \/ Hold \/ Drop \/ Extend \/ Install \/ Rebranch
        \/ UNCHANGED <<head, header_head, held>>

\* What may be asked for once the chain has moved: a block of a known header
\* that is neither on the body chain nor held, inside the window.
Askable ==
    {b \in Blocks : /\ head' < b /\ b <= header_head'
                    /\ b <= head' + Window
                    /\ b \notin held'}

\* Blocks are given up or answered at any time; blocks are asked for within
\* the window and the limit.
Track ==
    /\ asked' \in SUBSET Blocks
    /\ (asked' \ asked) \subseteq Askable
    /\ Cardinality(asked') <= Limit

Next == ChainStep /\ Track

Safety == Init /\ [][Next]_vars

\* In the end the body chain has caught up with the headers.
Completes == <>[](head = header_head)

Spec == Safety /\ Completes

=============================================================================
