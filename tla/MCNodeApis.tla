----------------------------- MODULE MCNodeApis -----------------------------
(***************************************************************************)
(* NodeApis for model checking: the routes the requests address and the    *)
(* configurations of the two secrets.                                      *)
(***************************************************************************)
EXTENDS NodeApis

\* One v1 route, the three JSON-RPC routes, and a path no route matches.
MCPaths == {"/v1/status", "/v2/owner", "/v2/stratum", "/v2/foreign", "/v3"}

\* No secret, either one, or both.
MCConfigs == [api : BOOLEAN, foreign : BOOLEAN]

=============================================================================
