----------------------------- MODULE SyncStatus -----------------------------
(***************************************************************************)
(* The basic status view of the TUI (src/bin/tui/status.rs): the sync core *)
(* publishes a SyncStatus, TUIStatusView::create lays out the named fields *)
(* of the view and TUIStatusListener::update fills them from the server    *)
(* stats.  The wording of the status line is left out: a rendering is the  *)
(* sync step it names and the percentage it shows; the other fields show   *)
(* which value of the stats they were given.                               *)
(***************************************************************************)
EXTENDS Integers, TLC

CONSTANTS
    MaxCount,           \* bound: the heights and counters of a status
    Gauges              \* bound: the values of the other server stats

ASSUME MaxCount \in Nat \ {0} /\ Gauges \subseteq Nat \ {0}

VARIABLES
    sync_status,        \* the status the sync core published last
    view                \* the content of every named field of the view

vars == <<sync_status, view>>

Counts == 0..MaxCount

\* A status without percentage, and the total the PIBD status carries while
\* the root hash is not known.
NoPercent == -1
UnknownTotal == 100

\* The kinds rendered without a percentage (HeaderHashSync shows its two
\* counters as they are).
PlainKinds ==
    {"Initial", "NoSync", "AwaitingPeers", "HeaderHashSync",
     "ValidatingKernelsHistory", "Shutdown"}

\* The kinds that carry a counter `part' of a `total', under the names the
\* variants give them.
RatioKinds ==
    {"HeaderSync", "TxHashsetPibd", "TxHashsetHeadersValidation",
     "TxHashsetKernelsPosValidation", "TxHashsetRangeProofsValidation",
     "TxHashsetKernelsValidation"}

\* enum SyncStatus, with counters up to MaxCount.
Statuses ==
    [kind : PlainKinds]
        \cup [kind : RatioKinds, part : Counts, total : Counts]
        \cup [kind : {"TxHashsetPibd"}, part : Counts, total : {UnknownTotal}]
        \cup [kind : {"BodySync"}, archive_height : Counts,
              current_height : Counts, highest_height : Counts]

SaturatingSubPlain(a, b) == a - b

\* u64::saturating_sub
SaturatingSub(a, b) == IF a > b THEN a - b ELSE 0

PercentOfDividesFirst(part, total) ==
    IF total = 0 THEN 0 ELSE (part \div total) * 100

\* part * 100 / total, and 0 for a total of 0.  (The counters are heights
\* and numbers of segments: part * 100 stays far below 2^64.)
PercentOf(part, total) ==
    IF total = 0 THEN 0 ELSE (part * 100) \div total

BodySyncPercentOfHighest(s) ==
    PercentOf(SaturatingSub(s.current_height, s.archive_height), s.highest_height)

\* The arm SyncStatus::BodySync: the blocks above the archive height.
BodySyncPercent(s) ==
    PercentOf(SaturatingSub(s.current_height, s.archive_height),
              SaturatingSub(s.highest_height, s.archive_height))

\* The "Sync step n/7" a status is rendered with, 0 for a line without.
Step(s) ==
    CASE s.kind \in {"HeaderHashSync", "HeaderSync"}     -> 1
      [] s.kind = "TxHashsetPibd"                        -> 2
      [] s.kind \in {"ValidatingKernelsHistory",
                     "TxHashsetHeadersValidation"}       -> 3
      [] s.kind = "TxHashsetKernelsPosValidation"        -> 4
      [] s.kind = "TxHashsetRangeProofsValidation"       -> 5
      [] s.kind = "TxHashsetKernelsValidation"           -> 6
      [] s.kind = "BodySync"                             -> 7
      [] OTHER                                           -> 0

SelectingPeersAnyPart(s) ==
    s.kind = "TxHashsetPibd" /\ s.total = UnknownTotal

\* PIBD waits for the root hash: no segment of UnknownTotal.
SelectingPeers(s) ==
    s.kind = "TxHashsetPibd" /\ s.part = 0 /\ s.total = UnknownTotal

\* TUIStatusView::update_sync_status
UpdateSyncStatus(s) ==
    [ step    |-> Step(s),
      percent |-> CASE s.kind = "BodySync" -> BodySyncPercent(s)
                    [] s.kind \in RatioKinds /\ ~SelectingPeers(s) ->
                           PercentOf(s.part, s.total)
                    [] OTHER -> NoPercent ]

-----------------------------------------------------------------------------

(* The view *)

\* stats.tx_stats is None.
NoTxStats == 0
Blank == [of |-> "create", field |-> "", value |-> 0]

CreateMisnamed ==
    "basic_current_status" :> "Current Status" @@
    "connected_peers" :> "Connected Peers" @@ "disk_usage" :> "Disk Usage (GB)" @@
    "basic_header_tip_hash" :> "Header Tip Hash" @@
    "basic_header_chain_height" :> "Header Chain Height" @@
    "basic_header_total_difficulty" :> "Header Cumulative Difficulty" @@
    "basic_header_timestamp" :> "Header Tip Timestamp" @@
    "tip_hash" :> "Chain Tip Hash" @@ "chain_height" :> "Chain Height" @@
    "total_difficulty" :> "Chain Cumulative Difficulty" @@
    "chain_timestamp" :> "Chain Tip Timestamp" @@
    "tx_pool_size" :> "Transaction Pool Size" @@
    "tx_pool_kernels" :> "Transaction Pool Size ()" @@
    "stem_pool_size" :> "Stem Pool Size" @@ "stem_pool_kernels" :> "Stem Pool Size ()" @@
    "basic_mining_config_status" :> "" @@ "basic_mining_status" :> "" @@
    "basic_network_info" :> ""

\* TUIStatusView::create: the names of the fields, each with the label that
\* stands before it (a second field of a line has the label with "()").
Create ==
    "basic_current_status" :> "Current Status" @@
    "connected_peers" :> "Connected Peers" @@ "disk_usage" :> "Disk Usage (GB)" @@
    "basic_header_tip_hash" :> "Header Tip Hash" @@
    "basic_header_chain_height" :> "Header Chain Height" @@
    "basic_header_total_difficulty" :> "Header Cumulative Difficulty" @@
    "basic_header_timestamp" :> "Header Tip Timestamp" @@
    "tip_hash" :> "Chain Tip Hash" @@ "chain_height" :> "Chain Height" @@
    "basic_total_difficulty" :> "Chain Cumulative Difficulty" @@
    "chain_timestamp" :> "Chain Tip Timestamp" @@
    "tx_pool_size" :> "Transaction Pool Size" @@
    "tx_pool_kernels" :> "Transaction Pool Size ()" @@
    "stem_pool_size" :> "Stem Pool Size" @@ "stem_pool_kernels" :> "Stem Pool Size ()" @@
    "basic_mining_config_status" :> "" @@ "basic_mining_status" :> "" @@
    "basic_network_info" :> ""

\* struct ServerStats, as far as the view reads it: tx_stats is an Option.
ServerStats(s) ==
    [sync_status : {s}, peer_count : Gauges, disk_usage_gb : Gauges,
     chain_stats : Gauges, header_stats : Gauges, tx_stats : Gauges \cup {NoTxStats}]

\* The fields update sets whatever the stats are, with what it reads.
Shows ==
    "connected_peers" :> <<"peer_count", "">> @@
    "disk_usage" :> <<"disk_usage_gb", "">> @@
    "tip_hash" :> <<"chain_stats", "last_block_h">> @@
    "chain_height" :> <<"chain_stats", "height">> @@
    "basic_total_difficulty" :> <<"chain_stats", "total_difficulty">> @@
    "chain_timestamp" :> <<"chain_stats", "latest_timestamp">> @@
    "basic_header_tip_hash" :> <<"header_stats", "last_block_h">> @@
    "basic_header_chain_height" :> <<"header_stats", "height">> @@
    "basic_header_total_difficulty" :> <<"header_stats", "total_difficulty">> @@
    "basic_header_timestamp" :> <<"header_stats", "latest_timestamp">>

\* The fields update sets when the stats have tx_stats.
ShowsPool ==
    "tx_pool_size" :> <<"tx_stats", "tx_pool_size">> @@
    "stem_pool_size" :> <<"tx_stats", "stem_pool_size">> @@
    "tx_pool_kernels" :> <<"tx_stats", "tx_pool_kernels">> @@
    "stem_pool_kernels" :> <<"tx_stats", "stem_pool_kernels">>

\* to_string of one value of the stats.
Content(stats, read) == [of |-> read[1], field |-> read[2], value |-> stats[read[1]]]

\* What update writes: a call_on_name for a name the view does not have
\* changes nothing.
Written(stats) ==
    ("basic_current_status" :> UpdateSyncStatus(stats.sync_status))
        @@ [n \in DOMAIN Shows |-> Content(stats, Shows[n])]
        @@ IF stats.tx_stats = NoTxStats THEN <<>>
           ELSE [n \in DOMAIN ShowsPool |-> Content(stats, ShowsPool[n])]

-----------------------------------------------------------------------------

\* SyncState::update: a stage publishes its status.
Update(s) ==
    /\ s # sync_status
    /\ sync_status' = s
    /\ UNCHANGED view

\* TUIStatusListener::update: the view is filled from the stats of the
\* server, which carry the status of this moment.
Render ==
    \E stats \in ServerStats(sync_status) :
        \E written \in {Written(stats)} :
            /\ view' = [n \in DOMAIN view |->
                           IF n \in DOMAIN written THEN written[n] ELSE view[n]]
            /\ UNCHANGED sync_status

Init ==
    /\ sync_status = [kind |-> "Initial"]
    /\ view = [n \in DOMAIN Create |-> Blank]

Next == Render \/ \E s \in Statuses : Update(s)

Spec == Init /\ [][Next]_vars

-----------------------------------------------------------------------------
(* Properties                                                              *)

IsBodySync(s) == s.kind = "BodySync"

TypeOK ==
    /\ sync_status \in Statuses
    /\ DOMAIN view = DOMAIN Create
    /\ view["basic_current_status"] \in
           {Blank} \cup [step : 0..7, percent : {NoPercent} \cup 0..(100 * MaxCount)]
    /\ \A n \in DOMAIN view \ {"basic_current_status"} :
           view[n] \in [of : STRING, field : STRING, value : {0} \cup Gauges]

\* update_sync_status against the definition of a percentage: the number
\* shown for part of total is the integer p with p/100 <= part/total <
\* (p+1)/100, for every arm that divides (the multiplication comes before the
\* division), and a total of zero shows 0; with them the two renderings
\* test_status_txhashset_kernels and test_status_txhashset_rproofs expect.
PercentIsFloor ==
    /\ PercentOf(201, 5000) = 4
    /\ PercentOf(643, 1000) = 64
    /\ \A part, total \in Counts :
           LET shown == UpdateSyncStatus([kind |-> sync_status.kind,
                                          part |-> part, total |-> total]).percent
           IN  sync_status.kind \in RatioKinds =>
                   /\ total = 0 => shown = 0
                   /\ total > 0 => /\ shown * total <= 100 * part
                                   /\ 100 * part < (shown + 1) * total

\* The line of body sync, as section 8 of the specification has it: the
\* blocks above the archive height count, so the view shows 0% at the archive
\* height and below it, 100% when the body head has reached the highest
\* height, and in between a percentage that only grows with the head.
BodySyncPercentSpansTheRange ==
    LET s == sync_status
        at(h) == UpdateSyncStatus([s EXCEPT !.current_height = h]).percent
    IN  IsBodySync(s) /\ s.archive_height < s.highest_height =>
            /\ \A h \in 0..s.archive_height : at(h) = 0
            /\ at(s.highest_height) = 100
            /\ \A h \in 1..s.highest_height : at(h - 1) <= at(h)

\* The PIBD arm of update_sync_status: "selecting peers, waiting for PIBD root
\* hash" stands for the one status that says no root hash is known yet, 0
\* segments of 100.  A download under way is not hidden behind that line:
\* with the total the status has, every number of received segments from the
\* first one on shows a percentage, and the percentage does not fall as the
\* segments arrive.
PibdProgressIsShown ==
    LET s == sync_status
        at(n) == UpdateSyncStatus([s EXCEPT !.part = n]).percent
    IN  s.kind = "TxHashsetPibd" =>
            /\ at(0) = NoPercent <=> s.total = UnknownTotal
            /\ \A n \in 1..MaxCount : at(n) # NoPercent /\ at(n - 1) <= at(n)

\* What the label before a field promises: the value of the stats a user
\* reads there.
Promised ==
    "Connected Peers" :> <<"peer_count", "">> @@
    "Disk Usage (GB)" :> <<"disk_usage_gb", "">> @@
    "Header Tip Hash" :> <<"header_stats", "last_block_h">> @@
    "Header Chain Height" :> <<"header_stats", "height">> @@
    "Header Cumulative Difficulty" :> <<"header_stats", "total_difficulty">> @@
    "Header Tip Timestamp" :> <<"header_stats", "latest_timestamp">> @@
    "Chain Tip Hash" :> <<"chain_stats", "last_block_h">> @@
    "Chain Height" :> <<"chain_stats", "height">> @@
    "Chain Cumulative Difficulty" :> <<"chain_stats", "total_difficulty">> @@
    "Chain Tip Timestamp" :> <<"chain_stats", "latest_timestamp">> @@
    "Transaction Pool Size" :> <<"tx_stats", "tx_pool_size">> @@
    "Transaction Pool Size ()" :> <<"tx_stats", "tx_pool_kernels">> @@
    "Stem Pool Size" :> <<"tx_stats", "stem_pool_size">> @@
    "Stem Pool Size ()" :> <<"tx_stats", "stem_pool_kernels">>

\* The names create gives the fields and the names update writes to are the
\* same names (call_on_name of TUIStatusListener::update does nothing for a
\* name the view lacks): once the view was updated, every labelled field
\* shows the value its label promises, the header fields the header chain
\* and the chain fields the body chain; only the four pool fields may still
\* be as create left them, while no stats had tx_stats.
FieldsShowWhatTheirLabelsSay ==
    \A n \in DOMAIN Create :
        Create[n] \in DOMAIN Promised =>
            /\ view[n] # Blank => <<view[n].of, view[n].field>> = Promised[Create[n]]
            /\ (view["basic_current_status"] # Blank /\ view[n] = Blank)
                   => Promised[Create[n]][1] = "tx_stats"

=============================================================================
