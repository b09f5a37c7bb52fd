------------------------------ MODULE BodySync ------------------------------
(***************************************************************************)
(* Body sync: the last stage of the sync pipeline, which downloads the     *)
(* full blocks between the body head and the header head                   *)
(* (servers/src/grin/sync/body_sync.rs).                                   *)
(*                                                                         *)
(* The module holds the state of struct BodySync, the SyncPeers ledger the *)
(* manager lends to it, and the three things it talks to: the chain, the   *)
(* connected peers and the requests that travel to them.  BodySync::request*)
(* is the tick of the sync thread, recieve_block_reporting is the call a   *)
(* transport thread makes after the chain has processed a block; both run  *)
(* under the lock of the syncer, so they exclude each other.  The chain is *)
(* changed by the transport threads outside that lock: a block is          *)
(* processed in one step (BlockArrives) and reported in a later one, and   *)
(* the tick is split where it reads the chain again (pc): after the test   *)
(* for BodyReady and before the kick of the stuck orphan, so that blocks   *)
(* and headers arrive while a tick holds what it read before.              *)
(* The chain itself, its constants and its variables, comes from Chain.    *)
(***************************************************************************)
EXTENDS Integers, FiniteSets, Sequences, SequencesExt, TLC, Chain

CONSTANTS
    Peers,                      \* the peers the transport may connect
    PeerCaps,                   \* the capability bits each peer advertises
    BadPeers,                   \* the peers that may send an invalid block
    BLOCKS_REQUEST_PER_PEER,    \* pibd_params: the queue depth of one peer
    BLOCKS_REQUEST_LIMIT,       \* pibd_params: the requests in flight
    SeriesWindow,               \* 500 in the code: blocks kept ahead of the fork point
    NextAskPeriod,              \* the countdown a refill starts
    BanThreshold, MaxScore,
    FlakySend,                  \* TRUE when send_block_request may fail
    Churn,                      \* TRUE when a peer may drop its connection
    MaxPending                  \* bound: verdicts that wait for the manager's lock

VARIABLES
    connected,                  \* the peers that are connected
    sent,                       \* <<peer, hash>>: requests a peer may still answer
    reports,                    \* verdicts of the chain not yet reported to the syncer
    request_tracker,            \* BodySync.request_tracker
    request_series,             \* BodySync.request_series: hashes, highest first
    required_capabilities,      \* BodySync.required_capabilities
    sync_peers,                 \* the state_sync_peers ledger of the manager
    sync_status,                \* the SyncStatus::BodySync last published
    response,                   \* what the last tick answered
    pc,                         \* where the tick of the sync thread stands
    tick                        \* the locals a tick carries to its second half

RT == INSTANCE RequestTracker WITH PeerAddrs <- Peers, Keys <- Hashes
SP == INSTANCE SyncPeers WITH PeerAddrs <- Peers

syncerVars == <<request_tracker, request_series, required_capabilities,
                sync_peers, sync_status, response, pc, tick>>
netVars    == <<connected, sent, reports>>
vars       == <<chainVars, netVars, syncerVars>>

UNKNOWN     == {}
HEADER_HIST == {"HEADER_HIST"}
BLOCK_HIST  == {"BLOCK_HIST"}

ASSUME /\ PeerCaps \in [Peers -> SUBSET (HEADER_HIST \cup BLOCK_HIST)]
       /\ BadPeers \subseteq Peers
       /\ BLOCKS_REQUEST_PER_PEER \in Nat \ {0}
       /\ BLOCKS_REQUEST_LIMIT \in Nat \ {0}
       /\ SeriesWindow \in Nat \ {0}
       /\ NextAskPeriod \in Nat
       /\ FlakySend \in BOOLEAN
       /\ Churn \in BOOLEAN
       /\ MaxPending \in Nat \ {0}

Responses == {"BodyReady", "BadState", "WaitingForPeers", "Syncing"}

Reports == [accepted : BOOLEAN, hash : Hashes, peer : Peers]

NoStatus == [archive_height |-> 0, current_height |-> 0, highest_height |-> 0]

\* The locals of BodySync::request that outlive the first send_requests:
\* fork_point and header_head as read at lines 68-70, need_request and peers.
NoTick == [fork_point |-> 0, header_head |-> 0, need |-> 0, peers |-> {}]

-----------------------------------------------------------------------------
(* Helpers of body_sync.rs and sync_utils.rs                               *)

\* sync_utils::get_sync_peers: the connected peers that advertise the
\* capabilities and still have room in their queue, and the number of tracked
\* requests owed by everybody else.  The code hands it head.height as well
\* (lines 94 and 235); what the function does with it is not in the
\* specification, and the peers here have no height of their own.
GetSyncPeers(capabilities, t) ==
    LET free == {p \in connected : /\ capabilities \subseteq PeerCaps[p]
                                   /\ t.queue[p] < BLOCKS_REQUEST_PER_PEER}
    IN  [ peers             |-> free,
          excluded_requests |-> MapThenSumSet(LAMBDA p : t.queue[p], Peers \ free) ]

\* The capabilities a tick asks of the peers, and the ones it publishes.
PeerCapabilities ==
    IF ArchiveMode /\ head <= ArchiveHeight THEN BLOCK_HIST ELSE UNKNOWN

RequiredCapabilities ==
    IF ArchiveMode /\ head <= ArchiveHeight
    THEN BLOCK_HIST \cup HEADER_HIST
    ELSE HEADER_HIST

IsNeedRequestBlockNoTracker(t, c, hash) ==
    ~(IsOrphan(c, hash) \/ BlockExists(c, hash))

\* is_need_request_block
IsNeedRequestBlock(t, c, hash) ==
    ~(RT!HasRequest(t, hash) \/ IsOrphan(c, hash) \/ BlockExists(c, hash))

NeedRequestCapsSwapped(t, found) ==
    RT!CalculateNeededRequests(t, Cardinality(found.peers), found.excluded_requests,
                               BLOCKS_REQUEST_LIMIT, BLOCKS_REQUEST_PER_PEER)

\* need_request: what the per-peer cap and the global cap leave to ask for.
NeedRequest(t, found) ==
    RT!CalculateNeededRequests(t, Cardinality(found.peers), found.excluded_requests,
                               BLOCKS_REQUEST_PER_PEER, BLOCKS_REQUEST_LIMIT)

\* What the random generator and the socket decide for one request: the
\* send to a peer that dropped its connection since get_sync_peers fails.
SendChoices(peers) ==
    {c \in [peer : peers, sent_ok : BOOLEAN] :
        IF c.sent_ok THEN c.peer \in connected
                     ELSE FlakySend \/ c.peer \notin connected}

\* One choice for every block of the series that is still needed.
Picks(t, c, series, peers) ==
    [{i \in DOMAIN series : IsNeedRequestBlock(t, c, series[i])} -> SendChoices(peers)]

SendOneRegistersFirst(st, c, hash, choice) ==
    LET reg == [st EXCEPT !.tracker = RT!RegisterRequest(@, hash, choice.peer),
                          !.need    = @ - 1]
    IN  IF ~choice.sent_ok
        THEN [reg EXCEPT !.sync_peers = SP!ReportErrorResponse(@, choice.peer)]
        ELSE [reg EXCEPT !.sent = @ \cup {<<choice.peer, hash>>}]

\* The body of the loop of send_requests for one needed block: a failed send
\* is charged to the peer, a successful one is registered and counted.
SendOne(st, c, hash, choice) ==
    IF ~choice.sent_ok
    THEN [st EXCEPT !.sync_peers = SP!ReportErrorResponse(@, choice.peer)]
    ELSE [st EXCEPT !.tracker = RT!RegisterRequest(@, hash, choice.peer),
                    !.sent    = @ \cup {<<choice.peer, hash>>},
                    !.need    = @ - 1]

\* send_requests: walks the series from its last element to its first and
\* stops when need_request reaches zero.  st carries the tracker, the ledger,
\* the wire and need_request through the loop.
SendRequests(st, c, series, pick) ==
    LET Visit(i, acc) ==
            IF acc.need = 0 \/ ~IsNeedRequestBlock(acc.tracker, c, series[i])
            THEN acc
            ELSE SendOne(acc, c, series[i], pick[i])
    IN  FoldRight(Visit, [i \in DOMAIN series |-> i], st)

\* The headers from max_height down to lowest that are not orphans: the loop
\* over get_previous_header.
HeadersDown(max_height, lowest, orphaned) ==
    SelectSeq([i \in 1..(max_height - lowest + 1) |->
                  HeaderByHeight(fork_at, max_height - i + 1)],
              LAMBDA h : h \notin orphaned)

NewRequestSeriesInclusive(fork_point, hdr_head, orphaned) ==
    HeadersDown(Min({fork_point + SeriesWindow, hdr_head}), fork_point, orphaned)

NewRequestSeriesUnbounded(fork_point, hdr_head, orphaned) ==
    HeadersDown(hdr_head, fork_point + 1, orphaned)

\* The refresh of request_series: the headers from
\* min(fork_point + 500, header_head) down to fork_point + 1.
NewRequestSeries(fork_point, hdr_head, orphaned) ==
    HeadersDown(Min({fork_point + SeriesWindow, hdr_head}), fork_point + 1, orphaned)

\* The tail of the series is processed (or there is no series): more can be
\* asked for.
SeriesTailDone(t, c) ==
    \/ request_series = <<>>
    \/ ~IsNeedRequestBlock(t, c, Last(request_series))

StuckOrphanNever == FALSE

\* There is a header above the fork point the tick read, and its block sits
\* in the orphan pool now.
StuckOrphan ==
    /\ tick.fork_point + 1 <= header_head
    /\ IsOrphan(Now, HeaderByHeight(fork_at, tick.fork_point + 1))

Commit(st) ==
    /\ request_tracker' = st.tracker
    /\ sync_peers' = st.sync_peers
    /\ sent' = st.sent

\* retain_expired charges one error for every expired request to its peer.
ChargeExpired(sp, t) ==
    FoldSet(LAMBDA p, acc : SP!ReportErrors(acc, p, RT!ExpiredOwedBy(t, p)), sp, Peers)

-----------------------------------------------------------------------------
(* BodySync::request                                                       *)

\* The tick returns resp.
Return(resp) ==
    /\ response' = resp
    /\ pc' = "idle"
    /\ tick' = NoTick

\* Lines 58-64.  head == header_head: sync is done.  Otherwise the tick goes
\* on to read the chain again.
RequestBodyReady ==
    /\ pc = "idle"
    /\ \/ head = header_head /\ Return("BodyReady")
       \/ head # header_head /\ pc' = "read" /\ UNCHANGED <<response, tick>>
    /\ UNCHANGED <<chainVars, netVars, request_tracker, request_series,
                   required_capabilities, sync_peers, sync_status>>

BelowHorizon == ~ArchiveMode /\ ForkPoint < ArchiveHeight

\* Full blocks below the horizon cannot be synced: the txhashset is needed.
RequestBadState ==
    /\ pc = "read"
    /\ BelowHorizon
    /\ Return("BadState")
    /\ UNCHANGED <<chainVars, netVars, request_tracker, request_series,
                   required_capabilities, sync_peers, sync_status>>

\* No peer can take a request.
RequestNoPeers ==
    LET found == GetSyncPeers(PeerCapabilities, request_tracker)
    IN  /\ pc = "read"
        /\ ~BelowHorizon
        /\ found.peers = {}
        /\ required_capabilities' = RequiredCapabilities
        /\ Return(IF found.excluded_requests = 0
                  THEN "WaitingForPeers" ELSE "Syncing")
        /\ UNCHANGED <<chainVars, netVars, request_tracker, request_series,
                       sync_peers, sync_status>>

\* What a tick that reaches the peers starts to send from: the expired
\* requests are swept and charged, the countdown is reset and need_request
\* is computed.
AfterSweep(found) ==
    LET swept == RT!RetainExpired(request_tracker)
    IN  [ tracker    |-> RT!ResetNextAsk(swept, NextAskPeriod),
          sync_peers |-> ChargeExpired(sync_peers, request_tracker),
          sent       |-> sent,
          need       |-> NeedRequest(swept, found) ]

\* The tick goes on to line 137 with need_request left, or returns.
GoOn(st, peers) ==
    IF st.need = 0
    THEN Return("Syncing")
    ELSE /\ pc' = "refill"
         /\ tick' = [fork_point |-> ForkPoint, header_head |-> header_head,
                     need |-> st.need, peers |-> peers]
         /\ UNCHANGED response

\* The tick that reaches the peers: expired requests are swept, the status is
\* published, and up to need_request blocks of the series are asked for.
\* (The values a tick computes once are bound as the one element of a set.)
RequestBlocks ==
    \E found \in {GetSyncPeers(PeerCapabilities, request_tracker)} :
    \E st0 \in {AfterSweep(found)} :
        /\ pc = "read"
        /\ ~BelowHorizon
        /\ found.peers # {}
        /\ required_capabilities' = RequiredCapabilities
        /\ sync_status' = [ archive_height |-> IF ArchiveMode THEN 0 ELSE ArchiveHeight,
                            current_height |-> ForkPoint,
                            highest_height |-> best_height ]
        /\ \E pick \in Picks(st0.tracker, Now, request_series, found.peers) :
               \E st1 \in {SendRequests(st0, Now, request_series, pick)} :
                   Commit(st1) /\ GoOn(st1, found.peers)
        /\ UNCHANGED <<chainVars, connected, reports, request_series>>

\* Lines 137-199, with what the tick read at lines 68-70: the stuck orphan is
\* kicked (kick_ok: process_block succeeds), the series is refreshed when
\* its tail is done or the kick went through, and the rest of need_request
\* is sent.
RequestRefill(kick_ok) ==
    \E tail_done \in {SeriesTailDone(request_tracker, Now)} :
        /\ pc = "refill"
        /\ kick_ok => StuckOrphan
        /\ IF kick_ok
           THEN \E k \in OrphanRun(tick.fork_point + 1) :
                    Accept(HeaderByHeight(fork_at, tick.fork_point + 1), k)
           ELSE UNCHANGED chainVars
        /\ request_series' =
               IF tail_done \/ kick_ok
               THEN NewRequestSeries(tick.fork_point, tick.header_head, orphans')
               ELSE request_series
        /\ \E after \in {[Now EXCEPT !.head = head', !.orphans = orphans']} :
           \E st \in {[tracker |-> request_tracker, sync_peers |-> sync_peers,
                       sent |-> sent, need |-> tick.need]} :
               \E pick \in Picks(st.tracker, after, request_series', tick.peers) :
                   Commit(SendRequests(st, after, request_series', pick))
        /\ Return("Syncing")
        /\ UNCHANGED <<connected, reports, required_capabilities, sync_status>>

Request ==
    \/ RequestBodyReady
    \/ RequestBadState
    \/ RequestNoPeers
    \/ RequestBlocks
    \/ \E kick_ok \in BOOLEAN : RequestRefill(kick_ok)

-----------------------------------------------------------------------------
(* BodySync::recieve_block_reporting                                       *)

\* The refill a response triggers when the countdown has reached zero.
RefillOnResponse(t, sp) ==
    \E found \in {GetSyncPeers(required_capabilities, t)} :
    \E st0 \in {[ tracker    |-> RT!ResetNextAsk(t, NextAskPeriod),
                  sync_peers |-> sp,
                  sent       |-> sent,
                  need       |-> NeedRequest(t, found) ]} :
        \/ /\ found.peers = {}
           /\ Commit([st0 EXCEPT !.tracker = t])
        \/ /\ found.peers # {}
           /\ st0.need = 0
           /\ Commit(st0)
        \/ /\ found.peers # {}
           /\ st0.need > 0
           /\ \E pick \in Picks(st0.tracker, Now, request_series, found.peers) :
                  Commit(SendRequests(st0, Now, request_series, pick))

CreditAnyReporter(t, sp, r) ==
    IF r.accepted /\ RT!OwingPeer(t, r.hash) # {}
    THEN SP!ReportOkResponse(sp, r.peer)
    ELSE sp

\* An accepted block is credited to the reporter when the tracker says the
\* reporter owed it.
Credit(t, sp, r) ==
    IF r.accepted /\ RT!OwingPeer(t, r.hash) = {r.peer}
    THEN SP!ReportOkResponse(sp, r.peer)
    ELSE sp

\* A rejected block is charged to the reporter.
Charge(sp, r) ==
    IF r.accepted THEN sp ELSE SP!ReportErrorResponse(sp, r.peer)

RecieveBlockReporting(r) ==
    \E t1 \in {RT!GetUpdateRequestsToNextAsk(RT!RemoveRequest(request_tracker, r.hash))},
       sp \in {Charge(Credit(request_tracker, sync_peers, r), r)} :
        /\ pc = "idle"
        /\ r \in reports
        /\ reports' = reports \ {r}
        /\ \/ /\ t1.to_next_ask # 0
              /\ Commit([tracker |-> t1, sync_peers |-> sp, sent |-> sent])
           \/ /\ t1.to_next_ask = 0
              /\ RefillOnResponse(t1, sp)
        /\ UNCHANGED <<chainVars, connected, request_series,
                       required_capabilities, sync_status, response, pc, tick>>

-----------------------------------------------------------------------------
(* The manager, the transport and the clock                                *)

\* SyncManager::request applies the ledger before it runs the stages: the
\* peers marked for ban are banned, which disconnects them.
ApplyPeersStatus ==
    /\ pc = "idle"
    /\ sync_peers.ban # {}
    /\ connected' = connected \ sync_peers.ban
    /\ sent' = {m \in sent : m[1] \notin sync_peers.ban}
    /\ sync_peers' = SP!ApplyPeersStatus(sync_peers)
    /\ UNCHANGED <<chainVars, reports, request_tracker, request_series,
                   required_capabilities, sync_status, response, pc, tick>>

\* A peer answers a request for a block of the header chain: the chain
\* processes the block, and the verdict waits for the lock of the manager.
BlockArrives(p, h, good) ==
    /\ <<p, h>> \in sent
    /\ OnHeaderChain(fork_at, h)
    /\ good \/ p \in BadPeers
    /\ Cardinality(reports) < MaxPending
    /\ sent' = sent \ {<<p, h>>}
    /\ reports' = reports \cup
           {[accepted |-> Verdict(h, good) # "rejected", hash |-> h, peer |-> p]}
    /\ \E k \in OrphanRun(HeightOf(h)) : ProcessBlock(h, good, k)
    /\ UNCHANGED <<connected, syncerVars>>

\* A request has been in the tracker for SEGMENT_REQUEST_TIMEOUT_SECS.
Timeout(h) ==
    /\ RT!HasRequest(request_tracker, h)
    /\ ~request_tracker.requested[h].expired
    /\ request_tracker' = RT!Age(request_tracker, h)
    /\ UNCHANGED <<chainVars, netVars, request_series, required_capabilities,
                   sync_peers, sync_status, response, pc, tick>>

Connect(p) ==
    /\ p \notin connected
    /\ connected' = connected \cup {p}
    /\ UNCHANGED <<chainVars, sent, reports, syncerVars>>

\* A connection drops: what the peer had not answered is never answered.
Disconnect(p) ==
    /\ Churn
    /\ p \in connected
    /\ connected' = connected \ {p}
    /\ sent' = {m \in sent : m[1] # p}
    /\ UNCHANGED <<chainVars, reports, syncerVars>>

\* The manager answers BadState by running state sync again.
StateSyncAgain ==
    /\ pc = "idle"
    /\ response = "BadState"
    /\ TxHashsetInstall
    /\ UNCHANGED <<netVars, syncerVars>>

\* SyncManager::request hands the height of its best peer to the tick; it
\* finds it anew before every tick, so it is another one, higher or lower,
\* when the best peer has gone or another peer has more work.
BestHeightChanges(h) ==
    pc = "idle" /\ BestPeerChanges(h) /\ UNCHANGED <<netVars, syncerVars>>

\* Header sync, which runs beside body sync, stores one more header.
HeaderArrives == HeaderAppend /\ UNCHANGED <<netVars, syncerVars>>

\* The network moves to a branch with more work.  The peers follow it: the
\* requests for blocks of the branch they left are never answered.
HeadersReorg(f, hh) ==
    /\ HeaderReorg(f, hh)
    /\ sent' = {m \in sent : OnHeaderChain(f, m[2])}
    /\ UNCHANGED <<connected, reports, syncerVars>>

\* The orphan pool drops the block h.
OrphanEvicted(h) == EvictOrphan(h) /\ UNCHANGED <<netVars, syncerVars>>

-----------------------------------------------------------------------------

\* BodySync::new
Init ==
    /\ ChainInit
    /\ connected = {}
    /\ sent = {}
    /\ reports = {}
    /\ request_tracker = RT!NewTracker
    /\ request_series = <<>>
    /\ required_capabilities = UNKNOWN
    /\ sync_peers = SP!NewSyncPeers
    /\ sync_status = NoStatus
    /\ response = "Syncing"
    /\ pc = "idle"
    /\ tick = NoTick

Environment ==
    \/ \E h \in PeerHeights : BestHeightChanges(h)
    \/ HeaderArrives
    \/ \E f, hh \in 0..MaxHeight : HeadersReorg(f, hh)
    \/ \E h \in Hashes : OrphanEvicted(h)
    \/ StateSyncAgain
    \/ \E p \in Peers : Connect(p)
    \/ \E p \in Peers : Disconnect(p)
    \/ \E p \in Peers, h \in Hashes, good \in BOOLEAN : BlockArrives(p, h, good)
    \/ \E h \in Hashes : Timeout(h)

Next ==
    \/ Request
    \/ \E r \in reports : RecieveBlockReporting(r)
    \/ ApplyPeersStatus
    \/ Environment

Spec == Init /\ [][Next]_vars

\* The sync thread runs SyncManager::request in a loop: weak fairness of the
\* tick, whose next step is enabled until it is taken.  A transport thread
\* that waits for the lock of the syncer gets it between two ticks, where the
\* sync thread sleeps: strong fairness of the report, which every tick
\* disables while it runs.  The transport connects the peers it knows.  A
\* block that is asked for again and again arrives in the end from one of
\* the peers: strong fairness of the good answer, which a verdict waiting
\* for the lock disables for a while.  The orphans of this model are good
\* blocks: the kick of one succeeds in the end.
Fairness ==
    /\ WF_vars(Request)
    /\ SF_vars(RequestRefill(TRUE))
    /\ SF_vars(\E r \in reports : RecieveBlockReporting(r))
    /\ \A p \in Peers : WF_vars(Connect(p))
    /\ \A h \in Hashes : SF_vars(\E p \in Peers : BlockArrives(p, h, TRUE))

FairSpec == Spec /\ Fairness

\* Time passes: a request that nobody answers reaches its timeout.
TimelyFairSpec == FairSpec /\ \A h \in Hashes : WF_vars(Timeout(h))

\* The least of it: the request for a block of an abandoned branch, which no
\* peer serves, reaches its timeout.
ForkFairSpec ==
    FairSpec /\ \A h \in Hashes : WF_vars(~OnHeaderChain(fork_at, h) /\ Timeout(h))

-----------------------------------------------------------------------------
(* Properties                                                              *)

TypeOK ==
    /\ ChainTypeOK
    /\ connected \subseteq Peers
    /\ sent \subseteq Peers \X Hashes
    /\ reports \subseteq Reports
    /\ DOMAIN request_tracker.requested \subseteq Hashes
    /\ \A h \in DOMAIN request_tracker.requested :
           request_tracker.requested[h] \in RT!RequestRecords
    /\ request_tracker.queue \in [Peers -> 0..Cardinality(Hashes)]
    /\ request_tracker.to_next_ask \in 0..NextAskPeriod
    /\ request_series \in Seq(Hashes)
    /\ required_capabilities \subseteq HEADER_HIST \cup BLOCK_HIST
    /\ sync_peers \in SP!Ledgers
    /\ sync_status \in [ archive_height : 0..MaxHeight,
                         current_height : 0..MaxHeight,
                         highest_height : 0..MaxHeight ]
    /\ response \in Responses
    /\ pc \in {"idle", "read", "refill"}
    /\ tick \in [ fork_point : 0..MaxHeight, header_head : 0..MaxHeight,
                   need : 0..BLOCKS_REQUEST_LIMIT, peers : SUBSET Peers ]

\* The requests in flight never pass BLOCKS_REQUEST_LIMIT: need_request of
\* BodySync::request and of recieve_block_reporting is what the limit leaves,
\* and send_requests counts every request it registers against it, across the
\* send before and the send after the refresh of the series.
GlobalCapRespected ==
    RT!GetRequestsNum(request_tracker) <= BLOCKS_REQUEST_LIMIT

\* The tracker and the wire agree on what one call of send_requests did,
\* although every send of its loop may fail by itself: a request that left
\* for a peer is in the tracker as owed by that peer, a request that enters
\* the tracker has left for the peer it names, and the block whose send
\* failed is not tracked, so that the next draw of the loop or the next tick
\* asks for it again.  (A request nobody tracks is never swept, charged or
\* credited; a request tracked and never sent blocks its block and its peer
\* until the timeout.)
SentRequestsAreTracked ==
    [][/\ \A m \in sent' \ sent :
              RT!OwingPeer(request_tracker', m[2]) = {m[1]}
       /\ \A h \in Hashes :
              \A p \in RT!OwingPeer(request_tracker', h)
                          \ RT!OwingPeer(request_tracker, h) :
                  <<p, h>> \in sent']_vars

\* send_requests asks only for what is_need_request_block allows: a block
\* that the chain does not have, that is not an orphan, that the send before
\* the refresh of the series has not asked for in the same tick, and that no
\* request covers which is still in the tracker after this step has swept the
\* expired requests or removed the one that was answered.
OnlyNeededBlocksRequested ==
    [][\A m \in sent' \ sent :
          /\ ~BlockExists(Now', m[2])
          /\ ~IsOrphan(Now', m[2])
          /\ \A n \in sent' \ sent : n[2] = m[2] => n = m
          /\ RT!HasRequest(request_tracker, m[2]) =>
                \/ request_tracker.requested[m[2]].expired
                \/ \E r \in reports \ reports' : r.hash = m[2]]_vars

\* recieve_block_reporting credits a peer only for a block the tracker says
\* that peer owed: the late answer of a peer whose request expired and went
\* to somebody else earns nothing.
CreditOnlyTheOwner ==
    [][\A p \in Peers :
          sync_peers'.ok[p] > sync_peers.ok[p] =>
              \E r \in reports \ reports' :
                  /\ r.peer = p
                  /\ r.accepted
                  /\ RT!OwingPeer(request_tracker, r.hash) = {p}]_vars

\* The heights of those of the blocks that are on the header chain.
HeightsOnChain(blocks) ==
    {HeightOf(h) : h \in {b \in blocks : OnHeaderChain(fork_at, b)}}

\* The abstract body download, of which the orphan pool is the held blocks
\* and the keys of the tracker are the blocks asked for, as far as the header
\* chain still has them.
BD == INSTANCE BodyDownload
          WITH Window <- SeriesWindow, Limit <- BLOCKS_REQUEST_LIMIT,
               held <- HeightsOnChain(orphans),
               asked <- HeightsOnChain(DOMAIN request_tracker.requested)

\* BodySync::request and recieve_block_reporting implement the safety part of
\* BodyDownload: every step of the tick, of a report and of the chain is a
\* step of the abstract download, so whatever is registered in the tracker
\* is a block that is missing at that moment, inside the window of the body
\* head of that moment and within BLOCKS_REQUEST_LIMIT, also when the series
\* and the fork point of the tick are older than the chain.
DownloadsAsPromised == BD!Safety

\* Body sync implements BodyDownload with its liveness: in the end the body
\* chain has the block of every header the chain has stored, and it stays
\* so, when the peers keep their connections, send good blocks and take
\* every request.  Ticks, blocks that arrive within a tick, answers, late
\* answers, expiries and their charges, evictions from the orphan pool and
\* the kick of a stuck orphan may come in any order.
BodySyncCompletes == BD!Spec

\* Section 1 of the specification: the core tolerates forks, and section 4.7:
\* request_series covers the blocks ahead of the current fork point.  So the
\* body chain gets the block of every header in the end, also when the header
\* chain moves to another branch while BodySync::request holds a series: the
\* tick rebuilds the series from the headers the chain has now.
ForksAreTolerated == BD!Completes

\* Section 5 of the specification: request expiry is enforced lazily on each
\* tick, and requests to vanished peers expire normally.  So a request that
\* is older than the timeout leaves the tracker, at the latest when the peers
\* are connected for good and BodySync::request runs again and again.
ExpiredRequestsAreSwept ==
    <>[](connected = Peers) =>
        \A h \in Hashes :
            (RT!HasRequest(request_tracker, h) /\ request_tracker.requested[h].expired)
                ~> ~RT!HasRequest(request_tracker, h)

\* Section 3 and section 4.7 (step 3, and the refill "from step 3") of the
\* specification: the core requests only from peers whose mask is a superset
\* of what the stage requires, which for the blocks of an archive node at or
\* below the archive height is BLOCK_HIST.  The refill of
\* recieve_block_reporting selects the peers with the required_capabilities
\* the last tick stored.
HistoryFromHistoryPeers ==
    [][\A m \in sent' \ sent :
          (ArchiveMode /\ m[2] <= ArchiveHeight) =>
              BLOCK_HIST \subseteq PeerCaps[m[1]]]_vars

\* Section 3 of the specification: the queue depth of a peer never exceeds
\* BLOCKS_REQUEST_PER_PEER.  send_requests picks the peer of every request at
\* random among the peers that had room when the tick began.
PerPeerCapRespected ==
    \A p \in Peers : request_tracker.queue[p] <= BLOCKS_REQUEST_PER_PEER

\* The view of the status line, which reads the status body sync publishes.
SS == INSTANCE SyncStatus WITH MaxCount <- MaxHeight, Gauges <- {}, view <- <<>>

\* Section 7 of the specification: the status the view shows reflects the
\* stage and its progress percentage.  BodySync::request
\* publishes the fork point of the tick as current_height and the height of
\* the best peer, as SyncManager::request found it for this tick, as
\* highest_height; TUIStatusView::update_sync_status divides the one by the
\* other.  So the line of body sync shows at most 100%.
ProgressIsAPercentage ==
    SS!UpdateSyncStatus([kind |-> "BodySync"] @@ sync_status).percent \in 0..100

=============================================================================
