----------------------------- MODULE ApiRoutes -----------------------------
(***************************************************************************)
(* Which requests under /api reach which handler: the relay's route and the *)
(* groups in the order buildApp registers them, the key each group asks     *)
(* for, and the two dispatchers (cmd/server/main.go, middleware.go, the two *)
(* handler.go).                                                             *)
(*                                                                         *)
(* The router runs the middleware of every group whose prefix the path has, *)
(* in the order of registration, up to the first route of that very path.   *)
(***************************************************************************)
EXTENDS Naturals, Sequences

(* A parameter that is not sent is "".                                      *)
Modes == {"", "version", "auth", "queue", "addfile", "caps"}
Types == {"", "caps", "music", "get", "version"}
Keys == {"", "right", "wrong"}

ApiRequests ==
    [method : {"GET", "POST"},
     path : {"/api", "/api/sabnzbd", "/api/newznab", "/api/verify-relay"},
     query : [mode : Modes, t : Types, apikey : Keys],
     form : [mode : Modes, apikey : Keys]]

(* c.Query first, c.FormValue second.                                       *)
Param(inQuery, inForm) == IF inQuery # "" THEN inQuery ELSE inForm
ModeOf(r) == Param(r.query.mode, r.form.mode)
KeyOf(r) == Param(r.query.apikey, r.form.apikey)

(* A request with a mode is a SABnzbd request, whatever its t says.         *)
Exempt(group, r) ==
    IF ModeOf(r) # "" THEN ModeOf(r) \in group.skipModes
    ELSE r.query.t \in group.skipTypes

APIKeyAuth(group, r) == Exempt(group, r) \/ KeyOf(r) = "right"

(* A route of its own has no middleware.                                    *)
Route(path, serves, methods) ==
    [prefix |-> path, asksKey |-> FALSE, skipModes |-> {}, skipTypes |-> {},
     serves |-> serves, methods |-> methods]

Group(prefix, skipModes, skipTypes, serves, methods) ==
    [prefix |-> prefix, asksKey |-> TRUE, skipModes |-> skipModes,
     skipTypes |-> skipTypes, serves |-> serves, methods |-> methods]

Relay == Route("/api/verify-relay", "relay", {"GET"})

(* A bug: caps is exempted in its own group only.                           *)
GroupsApart == <<
    Relay,
    Group("/api/sabnzbd", {"version", "auth"}, {}, "sabnzbd", {"GET", "POST"}),
    Group("/api", {"version", "auth"}, {}, "sabnzbd", {"GET", "POST"}),
    Group("/api/newznab", {}, {"caps"}, "newznab", {"GET"})>>

buildApp == <<
    Relay,
    Group("/api/sabnzbd", {"version", "auth"}, {}, "sabnzbd", {"GET", "POST"}),
    Group("/api", {"version", "auth"}, {"caps"}, "sabnzbd", {"GET", "POST"}),
    Group("/api/newznab", {}, {"caps"}, "newznab", {"GET"})>>

HasPrefix(path, prefix) == prefix = "/api" \/ path = prefix

(* The first with a route of this path and method, 0 if there is none.      *)
RouteOf(r) ==
    LET routes == {i \in 1..Len(buildApp) :
                      buildApp[i].prefix = r.path /\ r.method \in buildApp[i].methods}
    IN  IF routes = {} THEN 0 ELSE CHOOSE i \in routes : \A j \in routes : i <= j

(* dispatch of the group's handler.                                         *)
Dispatch(serves, r) ==
    IF serves = "sabnzbd"
    THEN IF ModeOf(r) \in {"version", "auth", "queue", "addfile"} THEN ModeOf(r)
         ELSE "unknown mode"
    ELSE IF serves = "relay" THEN "relay"
    ELSE IF r.query.t \in {"caps", "search", "music", "details", "get"} THEN r.query.t
    ELSE "empty results"

(* Does one of the first n groups refuse it?                                *)
Refused(r, n) ==
    \E i \in 1..n : /\ buildApp[i].asksKey /\ HasPrefix(r.path, buildApp[i].prefix)
                    /\ ~APIKeyAuth(buildApp[i], r)

(* What answers a request.                                                  *)
Serve(r) ==
    IF Refused(r, IF RouteOf(r) = 0 THEN Len(buildApp) ELSE RouteOf(r)) THEN "401"
    ELSE IF RouteOf(r) = 0 THEN "no route"
    ELSE Dispatch(buildApp[RouteOf(r)].serves, r)
=============================================================================
