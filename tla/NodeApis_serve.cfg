\* Two requests against a node with any combination of the two secrets: a
\* v1 route, the three JSON-RPC routes and a path that is no route; the
\* server may fail to start, the node stops and drops what it holds at any
\* moment.
SPECIFICATION Spec
CONSTANTS
    Requests = {r1, r2}
    Paths <- MCPaths
    Configs <- MCConfigs
    StartMayFail = TRUE
    SpawnMayFail = FALSE
INVARIANTS
    TypeOK
    AuthorisedExactly
PROPERTIES
    ServerStops
    EveryRequestAnswered
CHECK_DEADLOCK FALSE
