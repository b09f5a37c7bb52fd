# TLA+ models of the mwc-node sync core

This directory holds TLA+ specifications of the synchronisation core of
mwc-node, of its status view and of its HTTP surface, the TLC configurations
that check them, and `PROJECT.json`, which records for every definition the
source lines it models, for every run what it checks, and the hazards and
findings met on the way. Section numbers (§) refer
to `spec.md`; line numbers to the files under `src/`.

## 1. The system

A node that joins the network goes through four stages, driven by one
orchestrator that the sync thread calls in a loop (the *tick*):

| part | code | state | operations |
|---|---|---|---|
| SyncManager | `servers/src/mwc/sync/sync_manager.rs` | the four stage objects, two peer ledgers (`headers_sync_peers`, `state_sync_peers`), the cached `SyncDone` answer | `new`, `request` (the tick), ten `receive_*` methods called by the transport threads |
| BodySync | `servers/src/grin/sync/body_sync.rs` | `request_tracker`, `request_series`, `required_capabilities` | `new`, `request`, `recieve_block_reporting`, `send_requests`, `is_need_request_block` |
| RequestTracker, SyncPeers, `get_sync_peers` | `sync_utils.rs`, `sync_peers.rs` (not among the sources; §4.1 - §4.3) | requests in flight per key and per peer; a score per peer and the peers to ban | register / remove / expire a request; report ok / error; apply bans |
| HeadersHashSync, HeaderSync, StateSync | not among the sources; §4.4 - §4.6 | a stage each | `request` and the `receive_*` methods the manager forwards to |
| Chain | the chain crate (not among the sources) | head, header head, the branch the headers are on, orphan pool | `process_block`, `block_exists`, `is_orphan`, fork point, archive height |
| TUI status | `src/bin/tui/status.rs` | the `SyncStatus` the syncers publish, the named fields of the view | `update_sync_status`, `create`, `TUIStatusListener::update` |
| Node API | `api/src/handlers.rs` | the router with its routes and middlewares, the server, the `api_monitor` thread, the requests in flight | `node_apis`, `build_router`, `post` and `options` of the three JSON-RPC handlers, the response builders |
| router, middlewares, v1 handlers, RPC traits | `router.rs`, `auth.rs`, `rest.rs`, `*_api.rs` (not among the sources; §6, §9) | | route lookup, the credentials test, the upgrade of a weak reference |
| others | `api/src/lib.rs`, `keychain/src/lib.rs`, `core/src/pow/error.rs`, two test files, one fuzz target | none | declarations and tests of code that is not among the sources |

How they interact. `SyncManager::request` runs the stages in order and returns
at the first that is not ready; header sync runs on beside state sync and body
sync. The transport threads deliver what the peers send through the
`receive_*` methods, each of which takes the lock of the stage it forwards to.
BodySync asks the chain what it has, asks `get_sync_peers` who has room, and
registers every request in its tracker; the verdict of the chain on a block
comes back through `recieve_block_reporting`, which credits or charges the
peer in the ledger and refills the queue. The ledger collects the peers to ban
and the next tick of the manager hands them to the transport. Every syncer
publishes a `SyncStatus`, which the TUI renders. The HTTP server answers
requests on threads of its own; its handlers reach the chain, the pool and the
peers through weak references, and a monitor thread stops it when the node is
told to stop.

What makes it hard: ticks interleave with deliveries; answers are late, lost
or invalid; requests expire and are sent again to another peer while the first
answer is still on its way; blocks arrive out of order and wait as orphans;
peers disconnect and are banned; a failed validation or a chain below the
horizon sends the pipeline back to an earlier stage; the answer `SyncDone` is
cached for three minutes; the chain moves while a tick of body sync runs; the
best peer of one tick is not the best peer of the next; the headers move to a
branch with more work while the download holds a list of the old ones; a
request waits for its body while the node shuts down.

## 2. Modules

| module | models | from |
|---|---|---|
| `SyncManager` | the orchestrator: `Init` is `new`, `Request` is the tick, one action per `receive_*` method | `sync_manager.rs` |
| `BodySync` | body sync with its tracker, its ledger, the chain and two peers | `body_sync.rs` |
| `RequestTracker`, `SyncPeers` | the two helpers, as operators on a record | §4.1, §4.2 |
| `HeadersHashSync`, `HeaderSync`, `StateSync` | the three other stages, as operators on a record | §4.4 - §4.6 |
| `Chain` | a chain of headers that may change its branch once, the body head, the orphan pool, the height of the best peer | the calls `body_sync.rs` makes |
| `BodyDownload` | what body sync promises: the abstract specification `BodySync` implements | §4.7 |
| `SyncStatus` | `update_sync_status`, the fields of the view and their update | `status.rs` |
| `NodeApis` | the HTTP surface: setup, routes, middlewares, JSON-RPC handlers, shutdown | `handlers.rs` |
| `MCBodySync`, `MCSyncManager`, `MCNodeApis` | the values of the constants for TLC | |

`BodySync` extends `Chain` and instantiates `RequestTracker`, `SyncPeers` and,
for what the user sees of the download, `SyncStatus`;
`SyncManager` instantiates the three stage modules and `SyncPeers` twice (one
ledger per pair of stages, as lines 41-45 of `sync_manager.rs` say). In
`SyncManager` body sync is its answer only (`BodyAnswer`, from lines 58-104 of
`body_sync.rs`): what the download does inside is the subject of `BodySync`.

### SyncManager

The state is the fields of the struct (`headers_hashes`, `headers`, `state`,
`body`, the two ledgers, `cached_response`), the peers the transport knows
(`connected`, `banned`, `live`) and three observers (`response`,
`best_height`, `asserted`). `Request` is the whole of `SyncManager::request`:
the cache test (69-75), `apply_peers_status` of both ledgers (77-79), the best
peers and their height (81-119), then the four `match` blocks in order with
their early returns, the resets of a stage by another
(`reset_hash_data`, `reset_ban_commited_to_hash`, `reset_desegmenter_data`),
and the fall-through to `debug_assert!(false)` (223), which sets `asserted`. It
is one step because the code holds the lock of the manager for the tick. The
environment connects and disconnects peers, lets a ban and the cache expire,
lets a peer advertise another height and difficulty, and lets the network grow
past the horizon (`MaxGrowth` times).

### BodySync

`Request` is `BodySync::request`. The code holds the lock of the syncer for the
tick, but the chain is written by the transport threads without it, and the
tick reads the chain at three places. The tick is therefore three steps, with
the arrival of blocks between them (`pc` says where the tick stands, `tick`
holds its locals):

| step | lines | what it does |
|---|---|---|
| `RequestBodyReady` | 58-64 | reads head and header head; `BodyReady` if they are equal |
| `RequestBadState`, `RequestNoPeers`, `RequestBlocks` | 66-135 | reads head, header head and fork point again; bad state below the horizon; no peers with room; else the sweep of the expired requests with the charge of their peers, the status, `need_request` and the first `send_requests` |
| `RequestRefill` | 136-202 | with `need_request` left: the test of the tail of the series, the kick of a stuck orphan (151-176, reads the chain again), the refresh of `request_series` from the header head and the fork point *of the step before* (178-195), the second `send_requests` |

The methods that need the lock of the syncer (`RecieveBlockReporting`,
`ApplyPeersStatus`, `StateSyncAgain`) wait for `pc = "idle"`, and so does
`BestHeightChanges`: `best_height` is an argument of the tick, which
`SyncManager::request` (80-111) takes from the peer with the most work before
every tick, so it may rise or fall from one tick to the next (`PeerHeights`).
`BlockArrives`, `HeaderArrives`, `HeadersReorg`, `OrphanEvicted`, `Timeout`,
`Connect` and `Disconnect` happen at any `pc`.
`send_requests` draws a peer per block (`Picks`), registers what was sent and
charges a peer whose send failed (`FlakySend`) or that is gone by now.
`RecieveBlockReporting` is the whole method: credit for the peer that owed the
block, charge for an invalid block, the countdown, and the refill from the
series and with the `required_capabilities` of the last tick. `Timeout` turns a
request into an expired one; the age of a request is that flag.

`HeadersReorg(f, hh)` is a reorganisation of the headers: those above `f`, a
height the body chain has not passed, are replaced by the headers of another
branch that reaches `hh`; `ReorgDepth` bounds how many headers are
replaced. The block of the first branch at height h has the
hash h, the one of the other branch the hash `MaxHeight` + h
(`HeaderByHeight`). The peers follow the new branch: a request for a block of
the branch they left is not answered. `request_series`, the tracker and the
orphan pool keep the hashes they hold.

The status the tick publishes is read through an instance of `SyncStatus`
(`SS!UpdateSyncStatus`): the percentage of `ProgressIsAPercentage` is the one
`status.rs` computes from the status `body_sync.rs` wrote.

### BodyDownload

The promise of body sync without its machinery. The state is the two heads,
the blocks `held` for their parent, and the blocks `asked` for. The chain moves
by `Advance`, `Hold`, `Drop`, `Extend`, `Install` and `Rebranch` (the headers
leave their branch above a height the body chain has not passed, and the
blocks held above it are no blocks of the chain any more); `Track` says what may be
asked for in the same step: only blocks above the body head, of a known header,
at most `Window` above the head, not held, and never more than `Limit` at a
time. `Completes` says the body chain catches up with the headers in the end.
`BodySync` instantiates it with `held <-` the heights of the orphans and
`asked <-` the heights of the keys of the request tracker, of both those that
are on the header chain (`HeightsOnChain`); the series, the ledger, the peers,
`pc` and what is left of an abandoned branch are hidden.

### SyncStatus

`UpdateSyncStatus` maps a status to the step (n of 7) and the percentage that
`update_sync_status` formats; the wording is left out. `PercentOf` is the
expression of six arms (`part * 100 / total`, 0 for a total of 0),
`BodySyncPercent` that of the last arm with its two `saturating_sub`.
`Create` is the table of `TUIStatusView::create`: every named field with the
label that stands before it. `Shows` and `ShowsPool` are the `call_on_name`
calls of `TUIStatusListener::update`: which value of the stats goes to which
name, the four pool fields only when the stats have `tx_stats`. `Update`
publishes a status; `Render` is `update`: the fields of the view that have one
of the written names get their content, all others keep theirs.

### NodeApis

`NodeApis` is the whole of `node_apis`: the router of `build_router`
(`V1Routes`: sixteen routes, each with the weak references its handler
holds), the owner middleware when `api_secret` is set (every path but
`/v2/foreign`), the three JSON-RPC routes, the foreign middleware when
`foreign_api_secret` is set (`/v2/foreign` alone), the start of the server
(which may fail) and the spawn of `api_monitor`. `Monitor` is the loop of that
thread. `Accept` takes a request through the router (`Dispatch`: unknown route
404, refused by a middleware 401, a v1 handler, `options`, or `post`, which
waits for the body). `OwnerPost`, `ForeignPost` and `StratumPost` are the
futures of the three `post` methods: a body that cannot be parsed is answered
with `create_error_response` (500); else `handle_request` answers a call with
its result or with the error of a reference that is gone, a notification with
an empty batch, and `json_response_pretty` makes a 200 of it or a 500 when it
cannot be serialised. `Stop` and `Drop` are the node: it is told to stop and
drops, one by one, the chain, the pool, the peers and the sync state.

## 3. Runs

| run | configuration | result | what it shows |
|---|---|---|---|
| `body_archive` | `BodySync_archive.cfg` | passes, 1,135,936 states | `TypeOK`, `SentRequestsAreTracked`, `OnlyNeededBlocksRequested`, `CreditOnlyTheOwner`, `DownloadsAsPromised`: under failing sends, bad blocks, timeouts, bans, disconnects and blocks that arrive within a tick, the tracker names the peer a request went to and nothing that did not go out, only missing blocks are asked for, only the owner of a request is credited, and every step is a step of `BodyDownload` |
| `body_pruned` | `BodySync_pruned.cfg` | passes, 1,743,996 states | `GlobalCapRespected`: with the global limit below the per-peer limit, a best peer whose height changes between ticks and headers that change their branch at any depth, ticks and refills never pass `BLOCKS_REQUEST_LIMIT` (the requests for blocks of the abandoned branch count), also across the return to state sync |
| `body_live` | `BodySync_live.cfg` | passes, 181,143 states | `BodySyncCompletes`: under fairness `BodySync` implements `BodyDownload` with its liveness, the body chain reaches the header head and stays there, also when the last header is replaced by the one of another branch while the series holds the old one |
| `body_perpeer` | `BodySync_perpeer.cfg` | violated | `PerPeerCapRespected` (§3): one call of `send_requests` gives one peer three requests with a cap of two |
| `body_expiry` | `BodySync_expiry.cfg` | violated | `ExpiredRequestsAreSwept` (§5): with the only peer gone the tick returns before `retain_expired`, for ever |
| `body_history` | `BodySync_history.cfg` | violated | `HistoryFromHistoryPeers` (§3, §4.7): a refill asks a peer without `BLOCK_HIST` for a block below the archive height |
| `manager_pipeline` | `SyncManager_pipeline.cfg` | passes, 158,911 states | `TypeOK`, `AssertNeverFires`, `BansAreFlushed`, `SyncCompletes` with a good and a bad peer that stay connected |
| `manager_churn` | `SyncManager_churn.cfg` | passes, 112,392 states | `SyncDoneOnlyWhenAllReady` with an outbound and an inbound peer that come and go and advertise no height or one of two forks: ticks end at the height test, at a stage without peers and at the reset of the committed root, and `SyncDone` is answered only by a tick that found every stage ready |
| `body_progress` | `BodySync_progress.cfg` | violated | `ProgressIsAPercentage` (§7): with a best peer below the fork point the status line of body sync shows 200% |
| `body_forks` | `BodySync_forks.cfg` | violated | `ForksAreTolerated` (§1, §4.7): after both headers were replaced by those of another branch the ticks ask for the two old hashes for ever and never rebuild the series |
| `status_render` | `SyncStatus_render.cfg` | passes, 52,910 states | `TypeOK`, `PercentIsFloor`, `BodySyncPercentSpansTheRange`, `PibdProgressIsShown` (only 0 segments of 100 is shown as waiting for the root hash; from the first segment on the line shows a percentage that does not fall), `FieldsShowWhatTheirLabelsSay` |
| `api_serve` | `NodeApis_serve.cfg` | passes, 793,700 states | `TypeOK`, `AuthorisedExactly`, `ServerStops`, `EveryRequestAnswered` with every combination of the two secrets, while the node stops |

Every property of a passing run has a mutant in `PROJECT.json`: a definition
changed the way a slip in that code would change it (a guard dropped, two caps
swapped, a request registered before it is sent, the division before the
multiplication, a field renamed on one side, the path a middleware skips
forgotten), under which TLC finds the property violated.

`SentRequestsAreTracked` is about the loop of `send_requests` (274-297), of
which every send may fail by itself: it relates what a step put on the wire
to what it put into the tracker, in both directions. It needs the test of
`is_need_request_block` against the tracker as much as the order of send and
register: without either, TLC finds a request on its way to one peer and
tracked for another, or tracked and never sent.

The refinement. `DownloadsAsPromised` is the safety part of `BodyDownload`
(`Init /\ [][Next]_vars` under the mapping above), checked as a property of
`body_archive`; `BodySyncCompletes` is its whole specification, liveness
included, checked in `body_live`. What the refinement says of the code: in
whatever order ticks, reports, arrivals and expiries happen, and wherever
within a tick the chain moves, a request is only ever added for a block that
is, after that very step, still missing and inside the window, and the
tracker never holds more than the limit. In `body_live` the headers change
their branch (`Rebranch`): what the refinement says there is said of the
blocks of the header chain of the moment, and the requests and orphans of the
abandoned branch are outside of it (they are the subject of
`GlobalCapRespected`, which counts them, and of finding 11).

### Bounds

* Two peers: one owes a block and the other answers late, one is good and one
  bad, one serves the history and one does not. A third peer adds symmetric
  cases only. The two peers differ in capabilities or in honesty in every run,
  so no symmetry set is declared.
* `MaxHeight = 3` (2 in the liveness runs): enough for a block to arrive
  before its parent and its grandparent, for the series to be cut by
  `SeriesWindow = 2`, and for the horizon to pass the body head.
* `BLOCKS_REQUEST_PER_PEER` and `BLOCKS_REQUEST_LIMIT` of 1 to 3 in the three
  orders (limit above, equal to, below the sum of the peers' room).
* `BanThreshold = 1`, `MaxScore = 1`: the first error marks a peer for ban.
  `body_live`, `body_expiry` and `body_forks` have `BanThreshold = 2` with
  `MaxScore = 1`: the score stops below the threshold and no peer is banned
  there (bans are part of `body_archive`, `body_pruned` and
  `manager_pipeline`). In `body_live` this is a premise of the result, as
  are peers that keep their connections: a ban drops the requests that are
  on their way to the peer, and once every peer owes a request that is
  never answered the tick returns before the sweep (finding 2). With
  `MaxScore = 2` TLC finds `BodySyncCompletes` violated that way: the
  request of the banned peer and the request for a block of the abandoned
  branch fill the queues of both peers.
* `MaxPending = 1`: one verdict waits for the lock of the syncer at a time
  (the answer of the owner of a request and a late answer are reported in
  either order, one after the other); `MaxGrowth = 1`: the network passes
  the horizon once, which is what sends body sync back to state sync;
  `NextAskPeriod` 1 or 2.
* `PeerHeights`: the heights the best peer of a tick may have. `{2, 3}` in
  `body_pruned` moves the archive height between 0 and 1 from one tick to the
  next, and with it the test for `BadState`; `{1, 3}` in `body_progress` puts
  the best peer below the headers the node has stored (in the code that takes
  two peers, one that serves the blocks and one with more work on a shorter
  chain, which is finding 4; the configuration has both); one height where the
  run is about something else (in `body_live` a second height is four times
  the states and no other behaviour of the download: the horizon is below
  every height).
* `ReorgDepth`: how many headers a change of branch replaces; 0 (no change of
  branch) where the run is about something else. 3 in `body_pruned`: any
  header above the body head may be the last one kept. 1 in `body_live`: the
  last header is replaced, fewer headers than
  `need_request` lets a tick ask for (2 in `body_live`), which is the case
  the code recovers from. 2 in `body_forks`: both headers of a chain of two
  are replaced, as many as `BLOCKS_REQUEST_LIMIT = 2` lets a tick ask for;
  `BLOCKS_REQUEST_PER_PEER = 2` leaves room on a peer whatever the spread of
  the two requests, so the early return of finding 2 is not in the way.
* `MaxHeight = 4` in `body_history`: the archive height has to pass the head a
  second time after a tick stored the capabilities of the header stages.
* `MaxCount = 4` in `SyncStatus`: all parts and totals from 0 to 4, which
  includes totals of zero, parts above the total and heads below the archive
  height; two renderings the tests of `status.rs` expect are part of
  `PercentIsFloor`. `Gauges = {1}`: a field shows from which group and field
  of the stats its content came, so one value tells the fields apart; stats
  without `tx_stats` are the second case of the pool fields.
* `NodeApis`: two requests (one waits for its body while the other is
  accepted or refused), five paths (a v1 route, the three JSON-RPC routes, a
  path that is no route), the three credentials a header can carry (none, the
  owner's, the foreign one), all four configurations of the two secrets, the
  server start failing or not. `SpawnMayFail = FALSE`: when the monitor thread cannot be spawned
  nothing stops the server, and `ServerStops` does not hold (listed among the
  hazards of `PROJECT.json`).

### Fairness

* `WF` of the tick: the sync thread calls `SyncManager::request` in a loop.
* `SyncManager`: `WF` of the report, of a ban's end, of the expiry of the
  cache, of `Connect`: a thread that waits for a lock gets it, clocks run, the
  transport dials the peers it knows. `WF` of the valid deliveries of a good
  capable peer. Of these at most the one of the current stage changes the
  state, so weak fairness says: a good peer that stays connected answers in
  the end. No fairness for bad peers.
* `BodySync`: `SF` of the report. With the tick in steps the report is
  disabled while a tick runs and enabled between two ticks, again and again;
  the transport thread that waits for the lock gets it between two ticks.
  `SF` of the kick (`RequestRefill(TRUE)`): `process_block` of an orphan whose
  parent is on the chain succeeds, for the blocks of the model are good
  blocks; it is strong because the refill is a step of some ticks only.
  `SF` of the arrival of a good block, per hash (a fair-loss network: a block
  that is asked for again and again arrives in the end). `WF` of `Connect`.
  `body_live` adds `WF` of the `Timeout` of a request for a block of the
  abandoned branch (`ForkFairSpec`): no peer serves that block, and the
  request expires because time passes. A request for a block of the header
  chain needs no timeout: without a change of branch `ForkFairSpec` is
  `FairSpec`. `body_forks` has `WF` of every `Timeout` (`TimelyFairSpec`), the
  most the code justifies: the ticks of its counterexample do sweep and ask
  again.
* `SyncCompletes` is conditional: from the moment no new ban is marked and no
  peer loses its connection. Without that premise a bad peer can force revotes
  for ever, which the code allows.
* `NodeApis`: `WF` of `Monitor` (the thread wakes every 100 ms) and, per
  request, of its `post` future (the executor polls a task whose body has
  come). Nothing is assumed of the clients and of the node: a request need not
  come, the node need not stop.
* `api_serve` has `CHECK_DEADLOCK FALSE`: a stopped server with every request
  answered and everything dropped is where the system ends.

## 4. Assumptions of the models

* The headers change their branch at most once, above the body head: the body
  chain is a prefix of the header chain and the fork point is the body head.
  After the change no peer serves a block of the abandoned branch (a peer
  that has it could; the block would be stored beside the chain, which the
  model of the chain does not have).
* `best_height` follows the peers, not the chain: any height of `PeerHeights`
  before any tick. `HeaderArrives` is not bounded by it.
* `sync_utils.rs` is not among the sources. `GetSyncPeers` is what the two
  calls of `body_sync.rs` and §3 and §4.1 of the specification say of it: the
  connected peers with the capabilities and with room in their queue, and
  the requests of everybody else. `head.height`, which the code hands to it
  as well (lines 94 and 235), plays no part, for the specification does not
  say what the function does with it, and the peers of `BodySync` have no
  height; neither does a preference for outbound peers. The countdown of
  `get_update_requests_to_next_ask` "resets when refill runs" (§4.1):
  `body_sync.rs` has no call that resets it, so the reset is part of
  `calculate_needed_requests`, in the tick as in the refill of a response.
* A peer answers only what it was asked for, with a block of the header
  chain (`BlockArrives`); an unsolicited block does not reach
  `recieve_block_reporting`. The verdict reported as `accepted` is "not
  rejected": a block that went to the orphan pool or that the chain already
  had counts as accepted, which is what the caller of
  `recieve_block_reporting`, outside the sources, is taken to do.
* The lookups of the chain succeed in `BodySync`: the `?` of `head()`,
  `header_head()`, `fork_point()`, `block_exists`, `get_header_by_height`
  and `get_previous_header` (lines 58-59, 68-70, 143, 154, 182, 189, 262)
  and the `Err` of `chain.head()` at line 230 are left out. An `Err` of
  `BodySync::request` is part of `SyncManager` (`ChainFails`, finding 5).
* A tick of `SyncManager` is one step: the code holds the lock of the manager
  for the tick. A tick of `BodySync` is three steps, split where it reads the
  chain; within a step the reads of the chain are of one moment.
* Invalid data comes from the peers of `BadPeers` only.
* In `SyncManager` a stage is its answer and its resets; the votes, segments
  and batches are valid or not, last or not. The five validation phases of
  state sync are one stage. Only the PIBD path is modelled.
* The ledger is one saturating score per peer (0..`MaxScore`); latency
  statistics and error strings are left out.
* Counters in `SyncStatus` stay far below 2^64, so `part * 100` does not wrap.
* `NodeApis`: a request addresses one route (the matching of a path against
  the patterns is in `router.rs`); the two secrets are different strings;
  whether a middleware lets an `OPTIONS` request through without credentials
  is in `auth.rs`, and the model allows both; a server that is stopped
  accepts no request and lets the requests in flight finish; `handle_request`
  is one step (it does not await). `build_router` and `addr.parse()` do not
  fail (the `.expect` at lines 100 and 158 would end the process at start),
  and neither does `add_route` (the `?` at lines 129, 132 and 154).
  `V1Routes` is the whole table of `build_router`, sixteen routes with the
  weak references of their handlers; the run addresses one of them, for the
  routes differ in the handler and not in what a request does to the server.

## 5. Findings

All are disagreements between the code and `spec.md`; `PROJECT.json` has the
details. Those without a run of their own say where the difference shows.

1. `body_sync.rs:277` - the per-peer cap is not enforced within one call of
   `send_requests` (run `body_perpeer`).
2. `body_sync.rs:98` - the tick returns before the sweep of expired requests
   when no peer has room (run `body_expiry`).
3. `body_sync.rs:234` - the refill of `recieve_block_reporting` selects peers
   with `required_capabilities`, which the last tick stored for the header
   stages, not with the `peer_capabilities` of body sync: once the archive
   height has passed the head again, a peer without `BLOCK_HIST` is asked for
   a block of the history (run `body_history`).
4. `sync_manager.rs:86` - `best_height` is the height of the peer with the
   most work, not the maximum height, and the inbound peers are looked at
   only when no outbound peer is connected, not when none has a height: with
   the outbound peer at height 0 and the inbound one at height 1 the tick
   answers `WaitingForPeers`. Both are states of `manager_churn`
   (`MCForkLiveInfos`); the statement of §4.8 is not among the properties of
   a run, for it fails in two steps. What the lower `best_height` does to
   the status of body sync is finding 10.
5. `sync_manager.rs:220` - an error of `BodySync::request` reaches
   `debug_assert!(false)`. With `ChainFails = TRUE` in
   `SyncManager_pipeline.cfg` TLC finds `AssertNeverFires` violated.
6. `sync_manager.rs:179` - a `BadState` answer of state sync reaches
   `debug_assert!(false)`. No run of its own: with `StateAnswersBadState =
   TRUE` in `SyncManager_pipeline.cfg` TLC finds `AssertNeverFires` violated.
7. `sync_manager.rs:68` - `stop_state` is never read by the tick.
8. `body_sync.rs:274` - the series is walked from the fork point up, not
   "distant blocks first".
9. `sync_manager.rs:187` - the ledgers are shared by pairs of stages, not
   owned by one syncer.
10. `body_sync.rs:117` - the status of body sync divides the fork point by the
    height of the best peer of the tick, which may be below it: the status
    line shows more than 100% (run `body_progress`; a consequence of 4).
11. `body_sync.rs:137` - `request_series` is rebuilt only by a tick that has
    `need_request` left after its first `send_requests`. After a
    reorganisation of the headers the hashes of the abandoned branch are
    asked for again and again; when there are as many of them as
    `need_request` allows and no peer serves them, the series is never
    rebuilt, the peers are charged for the timeouts, and the body chain never
    reaches the header head (run `body_forks`). With fewer of them a tick
    has `need_request` left after its first send, and the series is rebuilt
    (run `body_live`).

## 6. Not modelled

* `api/src/lib.rs`, `keychain/src/lib.rs`, `core/src/pow/error.rs`: module
  declarations, re-exports and an error enum; no state and no behaviour.
* `core/tests/consensus_automated.rs`, `pool/tests/nrd_kernels_enabled.rs`,
  `core/fuzz/.../compact_block_read_v2.rs`: tests of code that is not among the
  sources.
* The difficulty engine (§4.3): `consensus.rs` is not among the sources, and
  the specification leaves out the constants and the padding of a short
  window on which the expected values of `consensus_automated.rs` depend; a
  model of it could not be held against the code.
* The wording of the status lines, the geometry of the TUI, HTTP headers, TLS,
  the text of JSON bodies.
* Segment contents, Merkle proofs, header difficulty: data the properties do
  not tell apart.
* A body chain that is itself on the abandoned branch (a fork point below
  the body head) and blocks of a side branch that `process_block` stores: both
  are behaviour of the chain crate, which is not among the sources, and the
  specification says of it only that `fork_point()` exists.
* `SyncManager` composed with the whole of `BodySync` in one state space: the
  two meet through `best_height`, the answer and the ledger. The first is an
  input of `BodySync` (`BestHeightChanges`), the second is `BodyAnswer` in
  `SyncManager`; the product of the two models is out of TLC's reach at
  bounds where either is interesting.

## 7. Plan

Done: `RequestTracker`, `SyncPeers`, `Chain`, `BodySync` with its tick in
steps; `BodyDownload` and the refinement; the three stage modules;
`SyncManager`; `SyncStatus` with the view; `NodeApis`; `best_height` as the
input of a tick and the status of body sync as the view shows it; a
reorganisation of the headers above the body head, `BodyDownload` with a
change of branch, and the download that completes after a reorganisation
that leaves `need_request` room.

Next, in this order:

1. The ages of requests as a clock instead of a flag, for the latency the
   tracker keeps (§4.1).
2. A second change of branch, and peers that still serve the branch the
   headers left, once the chain crate is among the sources.
3. The peers of `BodySync` with a height and a total difficulty of their
   own, so that `best_height` is computed as `SyncManager::request` does it
   and the statement of §4.8 on it gets a run (finding 4), and
   `get_sync_peers` with its `head.height` once `sync_utils.rs` is among the
   sources.
4. The totals state sync publishes in `TxHashsetPibd`, once `state_sync.rs`
   is among the sources: whether 0 of 100 can be a real download
   (`PibdProgressIsShown` says what the view does with it).
