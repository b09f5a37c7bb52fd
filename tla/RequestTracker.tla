--------------------------- MODULE RequestTracker ---------------------------
(***************************************************************************)
(* RequestTracker<K>: the book of the requests a syncer has in flight.     *)
(*                                                                         *)
(* The tracker lives in sync_utils.rs, which is not among the sources of   *)
(* this repository snapshot; every operator here is written from section   *)
(* 4.1 of the specification and from the way body_sync.rs calls it.        *)
(*                                                                         *)
(* A tracker is a record                                                   *)
(*    requested      : key -> [peer, expired]   (a partial function)       *)
(*    queue          : peer -> number of requests that peer owes           *)
(*    to_next_ask    : countdown to the next response-driven refill        *)
(* The label of a request is dropped.  issued_at is abstracted to the flag *)
(* `expired': TRUE once now - issued_at has passed the timeout.            *)
(***************************************************************************)
EXTENDS Integers, FiniteSets, FiniteSetsExt, Functions, TLC

CONSTANTS
    PeerAddrs,      \* the transport endpoints a request can be owed by
    Keys            \* the request keys (block hashes for body sync)

RequestRecords == [peer : PeerAddrs, expired : BOOLEAN]

\* RequestTracker::new()
NewTracker ==
    [ requested   |-> [k \in {} |-> [peer |-> 0, expired |-> FALSE]],
      queue       |-> [p \in PeerAddrs |-> 0],
      to_next_ask |-> 0 ]

HasRequest(t, key) == key \in DOMAIN t.requested

GetRequestsNum(t) == Cardinality(DOMAIN t.requested)

\* The keys a peer currently owes.
OwedBy(t, peer) == {k \in DOMAIN t.requested : t.requested[k].peer = peer}

\* register_request: inserts and increments the peer's depth; a key that is
\* already present leaves the tracker as it was.
RegisterRequest(t, key, peer) ==
    IF HasRequest(t, key)
    THEN t
    ELSE [t EXCEPT !.requested = (key :> [peer |-> peer, expired |-> FALSE]) @@ @,
                   !.queue[peer] = @ + 1]

\* The Option<PeerAddr> that remove_request returns, as a set of at most one
\* peer.
OwingPeer(t, key) ==
    IF HasRequest(t, key) THEN {t.requested[key].peer} ELSE {}

\* remove_request: forgets the key and decrements the depth of its peer.
RemoveRequest(t, key) ==
    IF ~HasRequest(t, key)
    THEN t
    ELSE [t EXCEPT !.requested = Restrict(@, DOMAIN @ \ {key}),
                   !.queue[t.requested[key].peer] = @ - 1]

ExpiredKeys(t) == {k \in DOMAIN t.requested : t.requested[k].expired}

\* How many errors retain_expired charges to a peer: one per record of that
\* peer that is older than the timeout.
ExpiredOwedBy(t, peer) == Cardinality(OwedBy(t, peer) \cap ExpiredKeys(t))

\* retain_expired: removes every record older than the timeout and gives the
\* slot back to its peer.
RetainExpired(t) ==
    [t EXCEPT !.requested = Restrict(@, DOMAIN @ \ ExpiredKeys(t)),
              !.queue = [p \in PeerAddrs |-> @[p] - ExpiredOwedBy(t, p)]]

\* calculate_needed_requests:
\*   min(global_cap - current_inflight, peer_count * per_peer_cap - excluded)
\* clamped at zero.
CalculateNeededRequests(t, peer_count, excluded, per_peer_cap, global_cap) ==
    Max({0, Min({global_cap - GetRequestsNum(t),
                 peer_count * per_peer_cap - excluded})})

\* The refill that calculate_needed_requests announces resets the countdown.
ResetNextAsk(t, period) == [t EXCEPT !.to_next_ask = period]

\* get_update_requests_to_next_ask: one step of the countdown, never below 0.
GetUpdateRequestsToNextAsk(t) ==
    [t EXCEPT !.to_next_ask = Max({@ - 1, 0})]

\* Time passes for one request: it is now older than the timeout.
Age(t, key) == [t EXCEPT !.requested[key].expired = TRUE]

=============================================================================
