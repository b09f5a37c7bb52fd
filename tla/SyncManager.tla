---------------------------- MODULE SyncManager -----------------------------
(***************************************************************************)
(* SyncManager: the orchestration of the four staged syncers               *)
(* (servers/src/mwc/sync/sync_manager.rs).                                 *)
(*                                                                         *)
(* SyncManager::request is the tick of the sync thread.  It serves the     *)
(* cached SyncDone, flushes the pending bans of the two ledgers, finds the *)
(* best height among the peers and consults HeadersHashSync, HeaderSync,   *)
(* StateSync and BodySync in that order; every stage either returns an     *)
(* answer to the caller or lets the tick go on.  The receive_* methods are *)
(* called by the transport threads.  Every call holds the lock of the      *)
(* manager, so each is one step.                                           *)
(*                                                                         *)
(* The three first stages are the operators of HeadersHashSync, HeaderSync *)
(* and StateSync.  Body sync is here the stage it is in (the detailed      *)
(* model is the module BodySync).                                          *)
(***************************************************************************)
EXTENDS Integers, FiniteSets, FiniteSetsExt, TLC

CONSTANTS
    Peers,              \* the peers the transport knows
    Outbound,           \* the peers this node dials
    Capable,            \* the peers that serve what the stages ask for
    BadPeers,           \* the peers that may send invalid data
    LiveInfos,          \* the [height, total_difficulty] a peer may advertise
    Quorum,             \* the votes that commit a headers hash root
    BanThreshold, MaxScore,
    StateAnswersBadState,   \* TRUE: a failed validation may answer BadState
    ChainFails,         \* TRUE: the chain may fail in BodySync::request
    Churn,              \* TRUE: a peer may drop its connection
    MaxGrowth           \* bound: times the network moves on

ASSUME /\ Outbound \subseteq Peers
       /\ Capable \subseteq Peers
       /\ BadPeers \subseteq Peers
       /\ \A i \in LiveInfos : i.height \in Nat /\ i.total_difficulty \in Nat
       /\ StateAnswersBadState \in BOOLEAN
       /\ ChainFails \in BOOLEAN
       /\ Churn \in BOOLEAN
       /\ MaxGrowth \in Nat

VARIABLES
    connected,          \* the peers that are connected
    banned,             \* the peers the transport has banned
    live,               \* live_info of every peer
    headers_hashes,     \* SyncManager.headers_hashes
    headers,            \* SyncManager.headers
    state,              \* SyncManager.state
    body,               \* SyncManager.body: the stage body sync is in
    headers_sync_peers, \* the ledger of the header stages
    state_sync_peers,   \* the ledger of state sync and body sync
    cached_response,    \* "None", or the cached SyncDone: "Fresh", "Expired"
    response,           \* what the last tick answered
    best_height,        \* the best height of the last tick
    asserted,           \* a debug_assert!(false) was reached
    grown               \* how many times the network moved on

HH == INSTANCE HeadersHashSync WITH PeerAddrs <- Peers
HS == INSTANCE HeaderSync
ST == INSTANCE StateSync
SP == INSTANCE SyncPeers WITH PeerAddrs <- Peers

transportVars == <<connected, banned, live>>
stageVars     == <<headers_hashes, headers, state, body>>
ledgerVars    == <<headers_sync_peers, state_sync_peers>>
tickVars      == <<cached_response, response, best_height, asserted>>
vars == <<transportVars, stageVars, ledgerVars, tickVars, grown>>

BodyStages == {"BelowHorizon", "Downloading", "BodyReady"}

SyncRequestResponses ==
    {"WaitingForPeers", "Syncing", "WaitingForHeadersHash", "WaitingForHeaders",
     "HeadersHashReady", "HeadersPibdReady", "HeadersReady", "StatePibdReady",
     "BodyReady", "SyncDone", "BadState"}

\* What request returns to its caller: the Ready answers of the stages are
\* taken by the matches.
Answers ==
    {"WaitingForPeers", "Syncing", "WaitingForHeadersHash", "WaitingForHeaders",
     "SyncDone", "BadState"}

Heights == {i.height : i \in LiveInfos}

-----------------------------------------------------------------------------
(* The tick, stage by stage.  A tick carries the record m: the state of    *)
(* the manager, the answer `out' it returns ("continue" while it has not   *)
(* returned) and the local headers_ready.                                  *)

Snapshot ==
    [ connected |-> connected, banned |-> banned,
      headers_hashes |-> headers_hashes, headers |-> headers,
      state |-> state, body |-> body,
      headers_sync_peers |-> headers_sync_peers,
      state_sync_peers |-> state_sync_peers,
      cached_response |-> "None", asserted |-> asserted,
      headers_ready |-> FALSE, out |-> "continue" ]

Return(m, resp) == [m EXCEPT !.out = resp]

\* debug_assert!(false): recorded, and the tick goes on as a release build
\* does.
DebugAssert(m) == [m EXCEPT !.asserted = TRUE]

\* What the tick leaves to chance: the bad peers whose segments spoil the
\* validation and the answer after a failed one, a chain error, whether body
\* sync finds a peer with room, and the peers whose block requests expired.
Luck ==
    [ spoiled    : SUBSET BadPeers,
      state_fail : {"WaitingForPeers"}
                     \cup (IF StateAnswersBadState THEN {"BadState"} ELSE {}),
      chain_ok   : IF ChainFails THEN BOOLEAN ELSE {TRUE},
      body_idle  : {"Syncing", "WaitingForPeers"},
      slow       : SUBSET BadPeers ]

CacheIsFreshNoExpiry == cached_response # "None"

\* The cached response is there and !cached_response.is_expired().
CacheIsFresh == cached_response = "Fresh"

\* apply_peers_status of both ledgers: the pending bans go to the transport,
\* which drops the peers.
FlushBans(m) ==
    LET bans == m.headers_sync_peers.ban \cup m.state_sync_peers.ban
    IN  [m EXCEPT !.connected = @ \ bans,
                  !.banned = @ \cup bans,
                  !.headers_sync_peers = SP!ApplyPeersStatus(@),
                  !.state_sync_peers = SP!ApplyPeersStatus(@)]

\* The key of max_by_key: the total difficulty of a peer that advertises a
\* height.
DifficultyKey(p) ==
    IF live[p].height > 0 THEN live[p].total_difficulty ELSE 0

\* The peers max_by_key may return from a pool.
MaxByKey(pool) == {p \in pool : \A q \in pool : DifficultyKey(q) <= DifficultyKey(p)}

\* The best peer: among the outbound connected peers, and among all connected
\* peers only when no outbound peer is connected.
BestPeers(conn) ==
    IF Outbound \cap conn # {} THEN MaxByKey(Outbound \cap conn) ELSE MaxByKey(conn)

\* The heights best_height can take: the height of a best peer, 0 without.
BestHeights(conn) ==
    IF conn = {} THEN {0} ELSE {live[p].height : p \in BestPeers(conn)}

\* The peers a stage can ask.
Eligible(m) == m.connected \cap Capable

HeadersHashStagePassesSyncing(m, luck) ==
    LET resp == HH!Answer(m.headers_hashes, Eligible(m))
        m1   == [m EXCEPT !.headers_hashes = HH!Request(@, Eligible(m))]
    IN  CASE resp = "WaitingForPeers" -> Return(m1, resp)
          [] OTHER -> m1

\* headers_hashes.request and the match on its answer.
HeadersHashStage(m, luck) ==
    LET resp == HH!Answer(m.headers_hashes, Eligible(m))
        m1   == [m EXCEPT !.headers_hashes = HH!Request(@, Eligible(m))]
    IN  CASE resp \in {"WaitingForPeers", "Syncing"} -> Return(m1, resp)
          [] resp \in {"HeadersPibdReady", "HeadersHashReady"} -> m1
          [] OTHER -> DebugAssert(m1)

\* headers.request and the match on its answer.
HeadersStage(m, luck) ==
    LET has_hashes == HH!HasHashes(m.headers_hashes)
        resp == HS!Answer(m.headers, has_hashes, Eligible(m))
        m1   == [m EXCEPT !.headers = HS!Request(@, has_hashes, Eligible(m))]
    IN  CASE resp = "WaitingForPeers" ->
                 Return([m1 EXCEPT
                            !.banned = @ \ HH!Unbanned(m.headers_hashes),
                            !.headers_hashes = HH!ResetBanCommitedToHash(@),
                            !.headers_sync_peers = SP!Reset], resp)
          [] resp = "Syncing" -> Return(m1, resp)
          [] resp = "WaitingForHeadersHash" -> Return(DebugAssert(m1), resp)
          [] resp = "HeadersPibdReady" ->
                 [m1 EXCEPT !.headers_hashes = HH!ResetHashData(@)]
          [] resp = "HeadersReady" -> [m1 EXCEPT !.headers_ready = TRUE]
          [] OTHER -> DebugAssert(m1)

\* state.request: in the stage Validating the chain validates the MMRs; a
\* success installs the txhashset, which puts the body head at the archive
\* height, a failure charges the connected peers that spoiled the data.
StateRequest(m, luck) ==
    LET spoilers == luck.spoiled \cap m.connected
    IN  IF m.state.stage # "Validating"
        THEN [m EXCEPT !.out = ST!Answer(m.state, m.headers.stage # "Syncing",
                                         Eligible(m))]
        ELSE IF spoilers = {}
        THEN [m EXCEPT !.state = ST!Validate(@, TRUE),
                       !.body = IF @ = "BelowHorizon" THEN "Downloading" ELSE @,
                       !.out = "StatePibdReady"]
        ELSE [m EXCEPT !.state = ST!Validate(@, FALSE),
                       !.state_sync_peers =
                           FoldSet(LAMBDA p, sp : SP!ReportErrorResponse(sp, p),
                                   @, spoilers),
                       !.out = luck.state_fail]

StateStageReturnsReady(m, luck) == StateRequest(m, luck)

\* state.request and the match on its answer.
StateStage(m, luck) ==
    LET m1   == StateRequest(m, luck)
        resp == m1.out
    IN  CASE resp \in {"Syncing", "WaitingForPeers", "WaitingForHeaders"} -> m1
          [] resp = "StatePibdReady" -> [m1 EXCEPT !.out = "continue"]
          [] OTHER -> DebugAssert([m1 EXCEPT !.out = "continue"])

\* What BodySync::request answers in the stage body sync is in.
BodyAnswer(m, luck) ==
    CASE m.body = "BodyReady"    -> "BodyReady"
      [] m.body = "BelowHorizon" -> "BadState"
      [] Eligible(m) = {}        -> luck.body_idle
      [] OTHER                   -> "Syncing"

\* BodySync::request charges the peers whose requests expired when it
\* reaches retain_expired.
BodyRequest(m, luck) ==
    IF m.body = "Downloading" /\ Eligible(m) # {}
    THEN [m EXCEPT !.state_sync_peers =
              FoldSet(LAMBDA p, sp : SP!ReportErrorResponse(sp, p), @,
                      luck.slow \cap m.connected)]
    ELSE m

OnBodyReadyIgnoresHeaders(m) ==
    Return([m EXCEPT !.cached_response = "Fresh"], "SyncDone")

\* BodyReady: the sync is done when the headers are ready too, and the
\* SyncDone is cached for 180 seconds; else more headers are expected.
OnBodyReady(m) ==
    IF m.headers_ready
    THEN Return([m EXCEPT !.cached_response = "Fresh"], "SyncDone")
    ELSE Return(m, "Syncing")

OnBadStateKeepsState(m) == Return(m, "BadState")

\* BadState: state sync has to run again.
OnBadState(m) ==
    Return([m EXCEPT !.state = ST!ResetDesegmenterData(@)], "BadState")

\* body.request and the match on its result.  An Err is logged and the tick
\* goes on to the end of the function.
BodyStage(m, luck) ==
    LET resp == BodyAnswer(m, luck)
        m1   == BodyRequest(m, luck)
    IN  CASE ~luck.chain_ok -> m
          [] resp \in {"Syncing", "WaitingForPeers"} -> Return(m1, resp)
          [] resp = "BodyReady" -> OnBodyReady(m1)
          [] resp = "BadState" -> OnBadState(m1)
          [] OTHER -> DebugAssert(m1)

\* The end of the function: debug_assert!(false) and "Invalid state".
InvalidState(m, luck) == Return(DebugAssert(m), "Syncing")

\* A stage runs when no stage before it has returned.
Then(m, Stage(_, _), luck) ==
    IF m.out # "continue" THEN m ELSE Stage(m, luck)

\* "Peers height is 0"
HeightCheck(m, best) ==
    IF best = 0 THEN Return(m, "WaitingForPeers") ELSE m

\* The stages in the order of the function.  Each stage is bound to its
\* value before the next one reads it.
Pipeline(m, best, luck) ==
    LET Run(Stage(_, _), before) == {Then(before, Stage, luck)}
    IN  UNION { UNION { UNION { UNION { Run(InvalidState, m4)
                  : m4 \in Run(BodyStage, m3) }
                  : m3 \in Run(StateStage, m2) }
                  : m2 \in Run(HeadersStage, m1) }
                  : m1 \in Run(HeadersHashStage, HeightCheck(m, best)) }

Commit(m, best) ==
    /\ connected' = m.connected
    /\ banned' = m.banned
    /\ headers_hashes' = m.headers_hashes
    /\ headers' = m.headers
    /\ state' = m.state
    /\ body' = m.body
    /\ headers_sync_peers' = m.headers_sync_peers
    /\ state_sync_peers' = m.state_sync_peers
    /\ cached_response' = m.cached_response
    /\ asserted' = m.asserted
    /\ response' = m.out
    /\ best_height' = best
    /\ UNCHANGED <<live, grown>>

\* The tick that finds a cached SyncDone that is not expired.
RequestCached ==
    /\ CacheIsFresh
    /\ response' = "SyncDone"
    /\ UNCHANGED <<transportVars, stageVars, ledgerVars, cached_response,
                   best_height, asserted, grown>>

\* The tick that consults the stages.
RequestStages ==
    /\ ~CacheIsFresh
    /\ \E m0 \in {FlushBans(Snapshot)}, luck \in Luck :
           \E best \in BestHeights(m0.connected) :
               \E m \in Pipeline(m0, best, luck) : Commit(m, best)

Request == RequestCached \/ RequestStages

-----------------------------------------------------------------------------
(* The receive_* methods.  Invalid data comes from the peers of BadPeers.  *)

Sends(p, valid) == p \in connected /\ (valid \/ p \in BadPeers)

\* What a delivery does to the ledger of its stage.  The ok counters decide
\* nothing in the manager and are left out here; the module BodySync has
\* them.
Penalize(sp, p, valid) == IF valid THEN sp ELSE SP!ReportErrorResponse(sp, p)

ReceiveHeadersHashResponse(p, agrees) ==
    /\ Sends(p, agrees)
    /\ headers_hashes' = HH!ReceiveHeadersHashResponse(headers_hashes, p, agrees)
    /\ headers_sync_peers' = Penalize(headers_sync_peers, p, agrees)
    /\ UNCHANGED <<transportVars, headers, state, body, state_sync_peers,
                   tickVars, grown>>

ReceiveHeaderHashesSegment(p, valid, last) ==
    /\ Sends(p, valid)
    /\ headers_hashes' = HH!ReceiveHeaderHashesSegment(headers_hashes, valid, last)
    /\ headers_sync_peers' = Penalize(headers_sync_peers, p, valid)
    /\ UNCHANGED <<transportVars, headers, state, body, state_sync_peers,
                   tickVars, grown>>

ReceiveHeaders(p, valid, reaches) ==
    /\ Sends(p, valid)
    /\ headers' = HS!ReceiveHeaders(headers, valid, reaches)
    /\ headers_sync_peers' = Penalize(headers_sync_peers, p, valid)
    /\ UNCHANGED <<transportVars, headers_hashes, state, body, state_sync_peers,
                   tickVars, grown>>

RecievePibdStatus(p) ==
    /\ p \in connected
    /\ state' = ST!RecievePibdStatus(state)
    /\ UNCHANGED <<transportVars, headers_hashes, headers, body, ledgerVars,
                   tickVars, grown>>

RecieveAnotherArchiveHeader(p) ==
    /\ p \in connected
    /\ headers_hashes' = HH!RecieveAnotherArchiveHeader(headers_hashes)
    /\ state' = ST!RecieveAnotherArchiveHeader(state)
    /\ UNCHANGED <<transportVars, headers, body, ledgerVars, tickVars, grown>>

\* The four segment methods hand their segment to state sync with the
\* state_sync_peers ledger.
ReceiveStateSegment(mmr, p, valid, last) ==
    /\ Sends(p, valid)
    /\ state' = ST!ReceiveSegment(state, mmr, valid, last)
    /\ state_sync_peers' = Penalize(state_sync_peers, p, valid)
    /\ UNCHANGED <<transportVars, headers_hashes, headers, body,
                   headers_sync_peers, tickVars, grown>>

ReceiveBitmapSegment(p, valid, last) == ReceiveStateSegment("bitmap", p, valid, last)

ReceiveOutputSegment(p, valid, last) == ReceiveStateSegment("output", p, valid, last)

ReceiveRangeproofSegment(p, valid, last) ==
    ReceiveStateSegment("rangeproof", p, valid, last)

ReceiveKernelSegment(p, valid, last) == ReceiveStateSegment("kernel", p, valid, last)

\* recieve_block_reporting: body sync charges the peer of a rejected block;
\* the block that reaches the header head (last) completes the body.
RecieveBlockReporting(p, accepted, last) ==
    /\ Sends(p, accepted)
    /\ state_sync_peers' = Penalize(state_sync_peers, p, accepted)
    /\ body' = IF accepted /\ last /\ body = "Downloading" THEN "BodyReady" ELSE body
    /\ UNCHANGED <<transportVars, headers_hashes, headers, state,
                   headers_sync_peers, tickVars, grown>>

Receive ==
    \E p \in Peers, ok \in BOOLEAN, last \in BOOLEAN :
        \/ ReceiveHeadersHashResponse(p, ok)
        \/ ReceiveHeaderHashesSegment(p, ok, last)
        \/ ReceiveHeaders(p, ok, last)
        \/ RecievePibdStatus(p)
        \/ RecieveAnotherArchiveHeader(p)
        \/ ReceiveBitmapSegment(p, ok, last)
        \/ ReceiveOutputSegment(p, ok, last)
        \/ ReceiveRangeproofSegment(p, ok, last)
        \/ ReceiveKernelSegment(p, ok, last)
        \/ RecieveBlockReporting(p, ok, last)

-----------------------------------------------------------------------------
(* The transport, the network and the clock                                *)

Connect(p) ==
    /\ p \notin connected \cup banned
    /\ connected' = connected \cup {p}
    /\ UNCHANGED <<banned, live, stageVars, ledgerVars, tickVars, grown>>

Disconnect(p) ==
    /\ Churn
    /\ p \in connected
    /\ connected' = connected \ {p}
    /\ UNCHANGED <<banned, live, stageVars, ledgerVars, tickVars, grown>>

\* The ban window of the transport is over.
BanExpires(p) ==
    /\ p \in banned
    /\ banned' = banned \ {p}
    /\ UNCHANGED <<connected, live, stageVars, ledgerVars, tickVars, grown>>

\* A peer advertises another height and total difficulty.
PeerUpdate(p, info) ==
    /\ live[p] # info
    /\ live' = [live EXCEPT ![p] = info]
    /\ UNCHANGED <<connected, banned, stageVars, ledgerVars, tickVars, grown>>

\* 180 seconds have passed since the SyncDone was cached.
CacheExpires ==
    /\ cached_response = "Fresh"
    /\ cached_response' = "Expired"
    /\ UNCHANGED <<transportVars, stageVars, ledgerVars, response, best_height,
                   asserted, grown>>

\* The network produces a block: the header arrives, the body is missing.
NetworkGrows ==
    /\ grown < MaxGrowth
    /\ body = "BodyReady"
    /\ body' = "Downloading"
    /\ grown' = grown + 1
    /\ UNCHANGED <<transportVars, headers_hashes, headers, state, ledgerVars,
                   tickVars>>

\* The archive height passes the fork point of a node that is behind.
HorizonPasses ==
    /\ grown < MaxGrowth
    /\ body = "Downloading"
    /\ body' = "BelowHorizon"
    /\ grown' = grown + 1
    /\ UNCHANGED <<transportVars, headers_hashes, headers, state, ledgerVars,
                   tickVars>>

-----------------------------------------------------------------------------

\* SyncManager::new.  A node that starts from genesis is below the horizon.
Init ==
    /\ connected = {}
    /\ banned = {}
    /\ live \in [Peers -> LiveInfos]
    /\ headers_hashes = HH!New
    /\ headers = HS!New
    /\ state = ST!New
    /\ body = "BelowHorizon"
    /\ headers_sync_peers = SP!NewSyncPeers
    /\ state_sync_peers = SP!NewSyncPeers
    /\ cached_response = "None"
    /\ response = "WaitingForPeers"
    /\ best_height = 0
    /\ asserted = FALSE
    /\ grown = 0

Environment ==
    \/ \E p \in Peers : Connect(p)
    \/ \E p \in Peers : Disconnect(p)
    \/ \E p \in Peers : BanExpires(p)
    \/ \E p \in Peers, info \in LiveInfos : PeerUpdate(p, info)
    \/ CacheExpires
    \/ NetworkGrows
    \/ HorizonPasses

Next == Request \/ Receive \/ Environment

Spec == Init /\ [][Next]_vars

\* A good peer sends what a stage waits for.
GoodDelivery(p) ==
    \/ ReceiveHeadersHashResponse(p, TRUE)
    \/ ReceiveHeaderHashesSegment(p, TRUE, TRUE)
    \/ ReceiveHeaders(p, TRUE, TRUE)
    \/ RecievePibdStatus(p)
    \/ \E mmr \in ST!MMRs : ReceiveStateSegment(mmr, p, TRUE, TRUE)
    \/ RecieveBlockReporting(p, TRUE, TRUE)

\* The sync thread runs the tick in a loop and the clocks run: weak fairness
\* of the tick, of the expiry of the cache and of the end of a ban.  The
\* transport connects the peers it may connect.  A good peer that stays
\* connected sends in the end what the stages wait for: weak fairness of its
\* valid deliveries, of which always at most the one of the current stage
\* changes the state.
Fairness ==
    /\ WF_vars(Request)
    /\ WF_vars(CacheExpires)
    /\ \A p \in Peers : WF_vars(BanExpires(p)) /\ WF_vars(Connect(p))
    /\ \A p \in Capable \ BadPeers : WF_vars(GoodDelivery(p))

FairSpec == Spec /\ Fairness

-----------------------------------------------------------------------------
(* Properties                                                              *)

TypeOK ==
    /\ connected \subseteq Peers
    /\ banned \subseteq Peers
    /\ live \in [Peers -> LiveInfos]
    /\ headers_hashes \in HH!States
    /\ headers \in HS!States
    /\ state \in ST!States
    /\ body \in BodyStages
    /\ headers_sync_peers \in SP!Ledgers
    /\ state_sync_peers \in SP!Ledgers
    /\ cached_response \in {"None", "Fresh", "Expired"}
    /\ response \in Answers
    /\ best_height \in Heights \cup {0}
    /\ asserted \in BOOLEAN
    /\ grown \in 0..MaxGrowth

\* No debug_assert!(false) of SyncManager::request is reached: every answer
\* a stage gives in the state the stages before it have left is an answer
\* the match of the manager expects, whatever the transport threads have
\* delivered between the ticks, and the tick never falls through to the end
\* of the function.
AssertNeverFires == ~asserted

\* SyncManager::request answers a new SyncDone only in a tick in which the
\* headers are at the tip, the state is installed and the body has every
\* block, although the stages advance between ticks and headers sync runs
\* beside state sync and body sync.
SyncDoneOnlyWhenAllReady ==
    [][cached_response # "Fresh" /\ cached_response' = "Fresh" =>
           /\ headers'.stage = "HeadersReady"
           /\ state'.stage = "StatePibdReady"
           /\ body' = "BodyReady"]_vars

\* A ban a ledger has pending reaches the transport (or is withdrawn by the
\* reset of the ledger): apply_peers_status runs in every tick that is not
\* answered from the cache, and the cached SyncDone expires.
BansAreFlushed ==
    (headers_sync_peers.ban \cup state_sync_peers.ban # {})
        ~> (headers_sync_peers.ban \cup state_sync_peers.ban = {})

\* No step marks a peer for ban.
NoNewBan ==
    /\ headers_sync_peers'.ban \subseteq headers_sync_peers.ban
    /\ state_sync_peers'.ban \subseteq state_sync_peers.ban

\* The pipeline completes: once the peers give no more reason for a ban and
\* keep their connections, SyncManager::request answers SyncDone again and
\* again, after the revotes of the headers hash root, the bans, the failed
\* validations and the return to state sync that the BadState of body sync
\* asks for.
SyncCompletes ==
    <>[][NoNewBan /\ connected \subseteq connected']_vars
        => []<>(response = "SyncDone")

=============================================================================
