------------------------------ MODULE NodeApis ------------------------------
(***************************************************************************)
(* The HTTP surface of the node (src/api/src/handlers.rs): node_apis       *)
(* builds the router of the v1 routes, puts the two basic-auth middlewares *)
(* and the three JSON-RPC routes on it, starts the server and leaves a     *)
(* monitor thread behind that stops the server once the node is told to    *)
(* stop.  The handlers hold weak references to the chain, the pool, the    *)
(* peers and the sync state, which the node drops when it shuts down.      *)
(*                                                                         *)
(* A request is a route, a method, the credentials of its Authorization    *)
(* header and, for JSON-RPC, whether it is a call or a notification.  The  *)
(* router, the middlewares and the handlers of the v1 routes are in files  *)
(* that are not among the sources: they are written from sections 6 and 9  *)
(* of the specification.                                                   *)
(***************************************************************************)
EXTENDS Integers, FiniteSets, TLC

CONSTANTS
    Requests,       \* bound: the HTTP requests of one behaviour
    Paths,          \* bound: the routes the requests address
    Configs,        \* the [api, foreign] pairs: which secrets are configured
    StartMayFail,   \* ApiServer::start may return an error
    SpawnMayFail    \* the spawn of the api_monitor thread may fail

VARIABLES
    secrets,        \* api_secret and foreign_api_secret are Some
    router,         \* the routes and the middlewares of the Router
    server,         \* the ApiServer: "new", "running", "failed", "stopped"
    monitor,        \* the api_monitor thread: "none", "polling", "done"
    stop_state,     \* StopState::is_stopped
    core,           \* what the node still holds: a Weak of it can be upgraded
    req             \* the requests: what was asked and what was answered

vars == <<secrets, router, server, monitor, stop_state, core, req>>

None == "none"
MWC_BASIC_REALM == "MWC-Node-API"
MWC_FOREIGN_BASIC_REALM == "MWC-Node-Foreign-API"
Resources == {"chain", "tx_pool", "peers", "sync_state"}

\* build_router: the sixteen v1 routes, each with the weak references its
\* handler is given.
V1Routes ==
    "/v1/" :> {} @@
    "/v1/blocks/*" :> {"chain"} @@ "/v1/headers/*" :> {"chain"} @@
    "/v1/chain" :> {"chain"} @@ "/v1/chain/outputs/*" :> {"chain"} @@
    "/v1/chain/kernels/*" :> {"chain"} @@ "/v1/chain/compact" :> {"chain"} @@
    "/v1/chain/validate" :> {"chain"} @@ "/v1/txhashset/*" :> {"chain"} @@
    "/v1/status" :> {"chain", "peers", "sync_state"} @@
    "/v1/pool" :> {"tx_pool"} @@ "/v1/pool/push_tx" :> {"tx_pool"} @@
    "/v1/peers/all" :> {"peers"} @@ "/v1/peers/connected" :> {"peers"} @@
    "/v1/peers/**" :> {"peers"} @@ "/v1/version" :> {"chain"}

\* The three JSON-RPC handlers with what they hold.
OwnerAPIHandlerV2 == [route |-> "/v2/owner", weak |-> {"chain", "peers", "sync_state"}]
ForeignAPIHandlerV2 == [route |-> "/v2/foreign", weak |-> Resources]
StratumAPIHandlerV2 == [route |-> "/v2/stratum", weak |-> {}]
V2Handlers == {OwnerAPIHandlerV2, ForeignAPIHandlerV2, StratumAPIHandlerV2}

\* The middlewares node_apis adds: the owner secret guards every path but
\* /v2/foreign, the foreign secret guards /v2/foreign alone.
OwnerAuth(but) == [realm |-> MWC_BASIC_REALM, but |-> but, only |-> None]
ForeignAuth == [realm |-> MWC_FOREIGN_BASIC_REALM, but |-> None, only |-> "/v2/foreign"]

MiddlewaresGuardEverything(s) ==
    (IF s.api THEN {OwnerAuth(None)} ELSE {})
        \cup (IF s.foreign THEN {ForeignAuth} ELSE {})

Middlewares(s) ==
    (IF s.api THEN {OwnerAuth("/v2/foreign")} ELSE {})
        \cup (IF s.foreign THEN {ForeignAuth} ELSE {})

-----------------------------------------------------------------------------
(* Answers *)

\* response: a status and a body (the headers are left out).
Response(status, text) == [status |-> status, body |-> text]

CreateErrorResponseBadRequest == Response(400, "error")

CreateErrorResponse == Response(500, "error")
CreateOkResponse(json) == Response(200, json)

\* options of the three JSON-RPC handlers: an empty object.
Options == CreateOkResponse("{}")

\* json_response_pretty: the answer as JSON, or a 500 when it cannot be
\* serialised.
JsonResponsePretty(res, ser_ok) ==
    IF ser_ok THEN Response(200, res) ELSE Response(500, "error")

Idle == [phase |-> "idle", route |-> None, method |-> None, auth |-> None,
         notify |-> FALSE, status |-> 0, body |-> None]

Asked(q, phase) == [q EXCEPT !.phase = phase]
Answered(q, resp) ==
    [q EXCEPT !.phase = "answered", !.status = resp.status, !.body = resp.body]

-----------------------------------------------------------------------------
(* The router (router.rs, auth.rs: from section 6 of the specification) *)

\* The middleware m looks at the credentials of a request for this route.
Guards(m, route) == route # m.but /\ m.only \in {None, route}

\* An OPTIONS request carries no credentials: whether the middleware lets it
\* through is not said, and both are possible here.
Rejects(m, q, lenient) ==
    /\ Guards(m, q.route)
    /\ q.auth # m.realm
    /\ ~(q.method = "OPTIONS" /\ lenient)

\* Upgrade of the weak references of a handler: all of them, or an error.
Upgrade(weak) == weak \subseteq core

\* A handler of a v1 route answers from the chain, the pool or the peers.
V1Handle(q) ==
    IF Upgrade(V1Routes[q.route]) THEN Response(200, "result")
    ELSE Response(500, "error")

\* Router::call: the route, the middlewares in turn, then the handler by the
\* method of the request.
Dispatch(q, lenient) ==
    IF q.route \notin router.routes THEN Answered(q, Response(404, "not_found"))
    ELSE IF \E m \in router.middlewares : Rejects(m, q, lenient)
        THEN Answered(q, Response(401,
                 (CHOOSE m \in router.middlewares : Rejects(m, q, lenient)).realm))
    ELSE IF q.route \in DOMAIN V1Routes THEN Answered(q, V1Handle(q))
    ELSE IF q.method = "OPTIONS" THEN Answered(q, Options)
    ELSE Asked(q, "parsing")

\* The methods a route answers.
Methods(route) ==
    IF route \in DOMAIN V1Routes THEN {"GET", "POST"} ELSE {"POST", "OPTIONS"}

\* A request reaches the running server.
Accept(r) ==
    /\ server = "running"
    /\ req[r].phase = "idle"
    /\ \E route \in Paths, auth \in {None, MWC_BASIC_REALM, MWC_FOREIGN_BASIC_REALM},
          notify, lenient \in BOOLEAN :
           \E method \in Methods(route) :
               /\ notify => method = "POST" /\ route \notin DOMAIN V1Routes
               /\ req' = [req EXCEPT ![r] = Dispatch(
                             [Idle EXCEPT !.route = route, !.method = method,
                                          !.auth = auth, !.notify = notify], lenient)]
    /\ UNCHANGED <<secrets, router, server, monitor, stop_state, core>>

-----------------------------------------------------------------------------
(* The JSON-RPC handlers *)

\* handle_request: a notification has no reply and the client gets an empty
\* batch; a call gets its result, or the error of a reference that is gone.
HandleRequest(h, q) ==
    IF q.notify THEN "empty_batch"
    ELSE IF Upgrade(h.weak) THEN "result" ELSE "rpc_error"

PostDropsNotifications(h, r) ==
    /\ req[r].phase = "parsing"
    /\ req[r].route = h.route
    /\ ~req[r].notify
    /\ req' = [req EXCEPT ![r] =
                  Answered(@, JsonResponsePretty(HandleRequest(h, @), TRUE))]
    /\ UNCHANGED <<secrets, router, server, monitor, stop_state, core>>

\* post: the body is parsed and handed to the API; a body that cannot be
\* parsed is answered with a 500.
Post(h, r) ==
    /\ req[r].phase = "parsing"
    /\ req[r].route = h.route
    /\ \E parsed, ser_ok \in BOOLEAN :
           req' = [req EXCEPT ![r] = Answered(@,
                      IF parsed THEN JsonResponsePretty(HandleRequest(h, @), ser_ok)
                                ELSE CreateErrorResponse)]
    /\ UNCHANGED <<secrets, router, server, monitor, stop_state, core>>

OwnerPost(r) == Post(OwnerAPIHandlerV2, r)
ForeignPost(r) == Post(ForeignAPIHandlerV2, r)
StratumPost(r) == Post(StratumAPIHandlerV2, r)

-----------------------------------------------------------------------------
(* The server *)

\* The results of a call that may fail.
Outcomes(may_fail) == IF may_fail THEN BOOLEAN ELSE {TRUE}

\* node_apis: the router, the middlewares, the routes, the server and the
\* monitor thread; the error of the start is returned after the thread is
\* spawned.  (The nineteen routes are all different, so no add_route fails.)
NodeApis ==
    /\ server = "new"
    /\ router' = [routes |-> DOMAIN V1Routes \cup {h.route : h \in V2Handlers},
                  middlewares |-> Middlewares(secrets)]
    /\ \E started \in Outcomes(StartMayFail) :
           server' = IF started THEN "running" ELSE "failed"
    /\ \E spawned \in Outcomes(SpawnMayFail) :
           monitor' = IF spawned THEN "polling" ELSE "none"
    /\ UNCHANGED <<secrets, stop_state, core, req>>

MonitorBreaksOnly ==
    /\ monitor = "polling"
    /\ stop_state
    /\ monitor' = "done"
    /\ UNCHANGED <<secrets, router, server, stop_state, core, req>>

\* The loop of api_monitor: it sleeps while the node runs, then stops the
\* server and ends.
Monitor ==
    /\ monitor = "polling"
    /\ stop_state
    /\ server' = IF server = "running" THEN "stopped" ELSE server
    /\ monitor' = "done"
    /\ UNCHANGED <<secrets, router, stop_state, core, req>>

\* The node is told to stop.
Stop ==
    /\ ~stop_state
    /\ stop_state' = TRUE
    /\ UNCHANGED <<secrets, router, server, monitor, core, req>>

\* The node drops one of the references it holds.
Drop(res) ==
    /\ stop_state
    /\ res \in core
    /\ core' = core \ {res}
    /\ UNCHANGED <<secrets, router, server, monitor, stop_state, req>>

-----------------------------------------------------------------------------
Init ==
    /\ secrets \in Configs
    /\ router = [routes |-> {}, middlewares |-> {}]
    /\ server = "new"
    /\ monitor = "none"
    /\ stop_state = FALSE
    /\ core = Resources
    /\ req = [r \in Requests |-> Idle]

Next ==
    \/ NodeApis
    \/ Monitor
    \/ Stop
    \/ \E res \in Resources : Drop(res)
    \/ \E r \in Requests : Accept(r) \/ OwnerPost(r) \/ ForeignPost(r) \/ StratumPost(r)

\* The monitor thread and the tasks of the requests are scheduled again and
\* again; nothing is assumed of the clients or of the node.
Fairness ==
    /\ WF_vars(Monitor)
    /\ \A r \in Requests :
           WF_vars(OwnerPost(r) \/ ForeignPost(r) \/ StratumPost(r))

Spec == Init /\ [][Next]_vars /\ Fairness

-----------------------------------------------------------------------------
(* Properties *)

Realms == {MWC_BASIC_REALM, MWC_FOREIGN_BASIC_REALM}

TypeOK ==
    /\ secrets \in [api : BOOLEAN, foreign : BOOLEAN]
    /\ router.routes \subseteq DOMAIN V1Routes \cup {h.route : h \in V2Handlers}
    /\ \A m \in router.middlewares : m.realm \in Realms
    /\ server \in {"new", "running", "failed", "stopped"}
    /\ monitor \in {"none", "polling", "done"}
    /\ stop_state \in BOOLEAN
    /\ core \subseteq Resources
    /\ \A r \in Requests :
           /\ req[r].phase \in {"idle", "parsing", "answered"}
           /\ req[r].status \in {0, 200, 401, 404, 500}
           /\ req[r].phase = "answered" <=> req[r].status # 0

\* The realm whose credentials a route asks for under the configured secrets.
Required(route) ==
    IF route = "/v2/foreign"
    THEN IF secrets.foreign THEN MWC_FOREIGN_BASIC_REALM ELSE None
    ELSE IF secrets.api THEN MWC_BASIC_REALM ELSE None

\* Each API is guarded by its own secret and by nothing else (section 6 of
\* the specification; the two middlewares of node_apis): a request other
\* than OPTIONS for a known route is refused with 401 exactly when its route
\* asks for credentials it does not carry.  The owner secret never locks a
\* client of /v2/foreign out, and the foreign secret opens no other route.
AuthorisedExactly ==
    \A r \in Requests :
        (req[r].phase # "idle" /\ req[r].route \in router.routes
                               /\ req[r].method # "OPTIONS")
            => (req[r].status = 401 <=> Required(req[r].route) \notin {None, req[r].auth})

\* Once the node is told to stop, the server does not go on running
\* (api_monitor polls stop_state and calls ApiServer::stop).
ServerStops == stop_state ~> server # "running"

\* Every request that reached a JSON-RPC handler is answered, a notification
\* included ("since it's http, we need to return something"), also when the
\* server is stopped or the node drops the chain while the body is read.
EveryRequestAnswered ==
    \A r \in Requests : req[r].phase = "parsing" ~> req[r].phase = "answered"

=============================================================================
