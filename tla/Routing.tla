------------------------------ MODULE Routing ------------------------------
(***************************************************************************)
(* The Hono layers of an application and one request's way through them:   *)
(* RouteRegistry (src/routing/route-registry.ts), setRouteParams()         *)
(* (src/request/route-params.ts), the adapter's own layers                 *)
(* (src/hono-adapter.ts, src/request/parser-registry.ts,                   *)
(* src/helpers/nest-12.ts), and FastRoutes (src/server/fast-routes.ts),    *)
(* which decides whether the request takes the fast path of FastDispatch.  *)
(*                                                                         *)
(* Hono's router is external: the layers of a request are those whose      *)
(* method and path match, in the order of registration, and no layer can   *)
(* be added after the first match.  What a path becomes on Hono, what that *)
(* matches and what the Nest path says it matches are constants, which     *)
(* RoutingMC takes from RoutePaths.                                        *)
(***************************************************************************)
EXTENDS Integers, Sequences, SequencesExt

CONSTANTS
    Paths,          \* Nest paths
    HonoPathsOf,    \* the distinct normalizeHonoPaths(), per Nest path
    PrefixOf,       \* normalizeHonoMiddlewarePath(), per Hono path
    SuffixesOf,     \* getOptionalParameterSuffixes(), per Nest path
    NestMatch,      \* the params a Nest path says a target has, per path,
                    \* with what is below it or not, and target
    Targets,        \* request paths
    Requests,       \* bound: the methods and targets requested
    ParamsOf,       \* Hono's match of a Hono path and a target
    NoMatch,        \* ParamsOf where the path does not match
    Names,          \* parameter names
    Edited,         \* the value middleware puts into a parameter
    Offered(_),     \* bound: the registrations offered after n others
    MaxSetup        \* bound: how often the application is configured

Absent == <<>>      \* the value of a parameter that is not there
AnyPath == <<"/", "*">>
None == "none"

HonoPaths == DOMAIN PrefixOf
Registrations ==
    [method : {"all", "use", "useAll", "catchAll", "parser", "get", "head", "post",
               "middleware ALL", "middleware GET", "middleware HEAD"},
     path : Paths]

ASSUME PathsAssumption ==
    /\ HonoPathsOf \in [Paths -> Seq(HonoPaths)]
    /\ \A r \in Requests : r.method # None /\ r.target \in Targets
    /\ \A target \in Targets : ParamsOf[AnyPath][target] # NoMatch
ASSUME SetupAssumption ==
    MaxSetup \in Nat /\ \A n \in 0..MaxSetup : Offered(n) \subseteq Registrations

VARIABLES
    routes,         \* hono.routes
    headRouteHandlers,  \* the handlers of the HEAD routes, per Hono path
    setup,          \* number of configurations made so far
    serverFetch,    \* hono.fetch as createServer() read it
    fetch, getPath, \* is it Hono's own, or was it replaced
    notFound,       \* was a not-found handler set
    isShuttingDown,
    routeCount, catchAllMiddleware,     \* FastRoutes' cache
    request,        \* the request, NoRequest before it arrives; late, if it
                    \* did while the application shut down
    via,            \* the path it takes: "hono" or "fast"
    todo,           \* the layers and handlers ahead of it, among them
                    \* layers that do not match
    triedHeadRoutes,
    invoked,        \* registrations whose WeakSet has the context
    params,         \* req.params
    routeParams,    \* state.routeParams
    ran,            \* the handlers that ran: the params of their path, those
                    \* they saw, and those they left
    outcome

VARIABLES phase, layer, error, value, isError, routeSettled, ctxRes, tail, answer

appVars == <<routes, headRouteHandlers, setup, serverFetch, fetch, getPath, notFound>>
cacheVars == <<routeCount, catchAllMiddleware>>
requestVars == <<request, via>>
paramVars == <<params, routeParams, ran>>
walkVars == <<todo, triedHeadRoutes, invoked, paramVars, outcome>>
fastVars == <<phase, layer, error, value, isError, routeSettled, ctxRes, tail, answer>>
vars == <<appVars, cacheVars, isShuttingDown, requestVars, walkVars, fastVars>>

Fast == INSTANCE FastDispatch

-----------------------------------------------------------------------------
(* Registration.  A layer is an entry of hono.routes; its kind is the       *)
(* handler that register(), registerMiddleware() or the adapter put there.  *)

Layer(method, path, kind, reg, nest) ==
    [method |-> method, path |-> path, kind |-> kind, reg |-> reg, nest |-> nest]

EveryRequest(kind, reg) == Layer("ALL", AnyPath, kind, reg, <<>>)

(* register() and registerMiddleware(): the layers of one registration.     *)
LayersOf(r, reg) ==
    IF r.method \in {"useAll", "catchAll", "parser"}
    THEN <<EveryRequest(r.method, reg)>>
    ELSE LET honoPaths == HonoPathsOf[r.path]
             On(path) ==
                CASE r.method = "all" -> Layer("ALL", path, "all", reg, r.path)
                  [] r.method = "use" -> Layer("ALL", PrefixOf[path], "use", reg, r.path)
                  [] r.method \in {"get", "head"} ->
                        Layer("GET", path, r.method, reg, r.path)
                  [] r.method = "post" -> Layer("POST", path, "other", reg, r.path)
                  [] r.method = "middleware ALL" ->
                        Layer("ALL", path, "middleware", reg, r.path)
                  [] r.method = "middleware GET" ->
                        Layer("GET", path, "middleware", reg, r.path)
                  [] r.method = "middleware HEAD" ->
                        Layer("GET", path, "headMiddleware", reg, r.path)
         IN  [i \in DOMAIN honoPaths |-> On(honoPaths[i])]

(* The HEAD handlers of every Hono path when a registration was added.      *)
HeadHandlers(r, reg) ==
    [path \in HonoPaths |->
        IF r.method = "head" /\ path \in ToSet(HonoPathsOf[r.path])
        THEN Append(headRouteHandlers[path], [reg |-> reg, nest |-> r.path])
        ELSE headRouteHandlers[path]]

NoRequest == [method |-> None, target |-> <<>>, late |-> FALSE]
NoParams == <<>>
frozen == request # NoRequest       \* Hono's router was matched

Init ==
    /\ routes = <<EveryRequest("request", 0)>>
    /\ headRouteHandlers = [path \in HonoPaths |-> <<>>]
    /\ setup = 0 /\ serverFetch = None /\ fetch = "hono" /\ getPath = "hono"
    /\ notFound = FALSE /\ isShuttingDown = FALSE
    /\ routeCount = 0 /\ catchAllMiddleware = FALSE
    /\ request = NoRequest /\ via = None /\ todo = <<>>
    /\ triedHeadRoutes = {} /\ invoked = {}
    /\ params = [name \in Names |-> Absent] /\ routeParams = NoParams
    /\ ran = <<>> /\ outcome = None
    /\ Fast!Init

Configures == ~frozen /\ setup < MaxSetup /\ setup' = setup + 1

(* A Nest registration, enableCors(), useBodyParser(), or hono.use() of the *)
(* application's own.                                                       *)
(* Mutant: only the first Hono path is registered.                          *)
RegisterFirst ==
    /\ Configures
    /\ \E r \in Offered(setup) :
          /\ serverFetch # None \/ r.method = "catchAll"
          /\ routes' = Append(routes, LayersOf(r, setup + 1)[1])
          /\ headRouteHandlers' = HeadHandlers(r, setup + 1)
    /\ UNCHANGED <<serverFetch, fetch, getPath, notFound, isShuttingDown,
                   cacheVars, requestVars, walkVars, fastVars>>

Register ==
    /\ Configures
    /\ \E r \in Offered(setup) :
          /\ serverFetch # None \/ r.method = "catchAll"
          /\ routes' = routes \o LayersOf(r, setup + 1)
          /\ headRouteHandlers' = HeadHandlers(r, setup + 1)
    /\ UNCHANGED <<serverFetch, fetch, getPath, notFound, isShuttingDown,
                   cacheVars, requestVars, walkVars, fastVars>>

(* Bound: it replaces these, and bad requests come, before the last of its  *)
(* MaxSetup steps.                                                          *)
ReplaceFetch ==
    /\ Configures /\ setup' < MaxSetup /\ fetch' = "own"
    /\ UNCHANGED <<routes, headRouteHandlers, serverFetch, getPath, notFound,
                   isShuttingDown, cacheVars, requestVars, walkVars, fastVars>>

ReplaceGetPath ==
    /\ Configures /\ setup' < MaxSetup /\ getPath' = "own"
    /\ UNCHANGED <<routes, headRouteHandlers, serverFetch, fetch, notFound,
                   isShuttingDown, cacheVars, requestVars, walkVars, fastVars>>

(* initHttpServer() and createServer().                                     *)
InitHttpServer ==
    /\ serverFetch = None
    /\ \E return503OnClosing \in BOOLEAN :
          routes' = routes \o
              IF return503OnClosing
              THEN <<EveryRequest("shutdown", 0), EveryRequest("body", 0)>>
              ELSE <<EveryRequest("body", 0)>>
    /\ serverFetch' = fetch
    /\ UNCHANGED <<headRouteHandlers, setup, fetch, getPath, notFound, isShuttingDown,
                   cacheVars, requestVars, walkVars, fastVars>>

SetNotFoundHandler ==
    /\ serverFetch # None /\ ~frozen /\ ~notFound
    /\ notFound' = TRUE
    /\ UNCHANGED <<routes, headRouteHandlers, setup, serverFetch, fetch, getPath,
                   isShuttingDown, cacheVars, requestVars, walkVars, fastVars>>

(* prepareClose() and close().                                              *)
PrepareClose ==
    /\ ~isShuttingDown
    /\ \E i \in DOMAIN routes : routes[i].kind = "shutdown"   \* nothing else reads it
    /\ isShuttingDown' = TRUE
    /\ UNCHANGED <<appVars, cacheVars, requestVars, walkVars, fastVars>>

-----------------------------------------------------------------------------
(* FastRoutes.  hasCatchAllMiddleware() looks at the routes again only when *)
(* there are others than last time.                                         *)
AddsCatchAll(l) ==
    l.method = "ALL" /\ l.path = AnyPath /\ l.kind \notin {"request", "body"}

FoundCatchAll ==
    IF routeCount = Len(routes) THEN catchAllMiddleware
    ELSE \E i \in DOMAIN routes : AddsCatchAll(routes[i])

MayServe == notFound /\ getPath = "hono"
isEnabled == MayServe /\ ~FoundCatchAll

(* Hono matches a HEAD request as GET.                                      *)
IsFor(l, r) == l.method \in {"ALL", IF r.method = "HEAD" THEN "GET" ELSE r.method}

Matches(l, r) == IsFor(l, r) /\ ParamsOf[l.path][r.target] # NoMatch

Matched(r) == {i \in DOMAIN routes : Matches(routes[i], r)}

(* Mutant: only the last handler is looked at.                              *)
RouteOnly(matched) == routes[Max(matched)].kind \in {"get", "all"}
IsFastRoute(matched) ==
    \E first, second, last \in matched :
        /\ matched = {first, second, last} /\ first < second /\ second < last
        /\ routes[first].kind = "request" /\ routes[second].kind = "body"
        /\ routes[last].kind \in {"get", "all"}

(* createServer() offers the fast path only for Hono's own fetch.           *)
HasFastPath == serverFetch = "hono"

(* serve() of the fast paths takes a GET request without body headers whose *)
(* host and target are used verbatim, which is what plain says.             *)
TakesFastPath(r, plain) ==
    HasFastPath /\ isEnabled /\ r.method = "GET" /\ plain /\ IsFastRoute(Matched(r))

(* What a request leaves in the cache is of no consequence: the routes      *)
(* change no more.                                                          *)
Arrive ==
    /\ serverFetch # None /\ ~frozen
    /\ \E r \in Requests, plain \in BOOLEAN :
          /\ request' = [method |-> r.method, target |-> r.target, late |-> isShuttingDown]
          /\ via' = IF TakesFastPath(r, plain) THEN "fast" ELSE "hono"
    /\ todo' = routes
    /\ UNCHANGED <<appVars, cacheVars, isShuttingDown, triedHeadRoutes, invoked, paramVars,
                   outcome, fastVars>>

(* @hono/node-server answers a request whose host it cannot use itself,     *)
(* after serve() has read isEnabled(), which fills the cache.  Bound: while *)
(* the routes may still change.                                             *)
ArriveBad ==
    /\ HasFastPath /\ ~frozen /\ MayServe /\ setup + 1 < MaxSetup
    /\ routeCount' = Len(routes)
    /\ catchAllMiddleware' = FoundCatchAll
    /\ UNCHANGED <<appVars, isShuttingDown, requestVars, walkVars, fastVars>>

-----------------------------------------------------------------------------
(* setRouteParams() and keepParameterEdits().                               *)

Strip(v, suffix) ==
    IF v # Absent /\ IsSuffix(suffix, Last(v)) /\ (Last(v) # suffix \/ Len(v) > 1)
    THEN Append(Front(v), SubSeq(Last(v), 1, Len(Last(v)) - Len(suffix)))
    ELSE v

Stripped(raw, suffixes) ==
    [name \in Names |->
        FoldRight(LAMBDA s, v : IF s.name = name THEN Strip(v, s.suffix) ELSE v,
                  suffixes, raw[name])]

(* Mutant: a parameter that was deleted comes back.                         *)
KeepValues(new, previous) ==
    [name \in Names |->
        IF params[name] \notin {previous[name], Absent} /\ new[name] = previous[name]
        THEN params[name] ELSE new[name]]

keepParameterEdits(new, previous) ==
    [name \in Names |->
        IF /\ params[name] # previous[name]
           /\ new[name] \in {Absent, previous[name]}
        THEN params[name] ELSE new[name]]

(* req.params of a handler; setRouteParams() keeps what the path gave.      *)
(* Mutant: the literal suffixes stay.                                       *)
Unstripped(call) == ParamsOf[call.path][request.target]
RouteParams(call) == Stripped(ParamsOf[call.path][request.target], SuffixesOf[call.nest])

Seen(call) ==
    LET new == RouteParams(call)
    IN  IF routeParams = NoParams THEN new ELSE keepParameterEdits(new, routeParams)

Edits(seen) ==
    {[seen EXCEPT ![name] = edit] : name \in {n \in Names : seen[n] # Absent},
                                    edit \in {Absent, <<Edited>>}}

(* A handler runs, and may edit req.params for those behind it, if any.     *)
Runs(call, isLastLayer) ==
    LET seen == Seen(call)
        read == outcome' = None /\ ~isLastLayer
    IN  /\ params' \in {seen} \cup (IF read THEN Edits(seen) ELSE {})
        /\ routeParams' = IF isLastLayer THEN routeParams ELSE RouteParams(call)
        /\ ran' = Append(ran, [reg |-> call.reg, kind |-> call.kind, path |-> call.path,
                              given |-> RouteParams(call), seen |-> seen, left |-> params'])

-----------------------------------------------------------------------------
(* hono.fetch(): the layers call one another through next().                *)

IsHead == request.method = "HEAD"
Once == {"use", "middleware", "headMiddleware"}     \* a WeakSet per registration

(* Mutant: a registration runs once per Hono path.                          *)
NeverAgain(call) == FALSE
RanBefore(call) == call.kind \in Once /\ call.reg \in invoked

(* markHeadRouteTried()                                                     *)
TriesHead(call) ==
    /\ IsHead /\ call.path \notin triedHeadRoutes
    /\ \/ call.kind = "head"
       \/ call.kind = "get" /\ headRouteHandlers[call.path] # <<>>

PassesOn(call) ==
    \/ ~Matches(call, request)
    \/ call.kind \in {"request", "body", "parser", "catchAll"}
    \/ RanBefore(call)
    \/ call.kind = "headMiddleware" /\ ~IsHead
    \/ call.kind = "head" /\ ~TriesHead(call)

(* What is ahead behind the layers that only pass on to next().             *)
Ahead ==
    LET passed == SelectInSeq(todo, LAMBDA call : ~PassesOn(call))
    IN  IF passed = 0 THEN <<>> ELSE SubSeq(todo, passed, Len(todo))

HonoStep == via = "hono" /\ outcome = None

(* createShutdownMiddleware()                                               *)
(* Mutant: the flag is read when the middleware is made.                    *)
EarlyRead ==
    /\ HonoStep /\ Ahead # <<>> /\ Head(Ahead).kind = "shutdown"
    /\ todo' = Tail(Ahead)
    /\ UNCHANGED <<appVars, cacheVars, isShuttingDown, requestVars, outcome,
                   triedHeadRoutes, invoked, paramVars, fastVars>>

Shutdown ==
    /\ HonoStep /\ Ahead # <<>> /\ Head(Ahead).kind = "shutdown"
    /\ outcome' = IF isShuttingDown THEN "503" ELSE outcome
    /\ todo' = Tail(Ahead)
    /\ UNCHANGED <<appVars, cacheVars, isShuttingDown, requestVars,
                   triedHeadRoutes, invoked, paramVars, fastVars>>

(* runHandlers(): the HEAD handlers, then the GET route, if it is its       *)
(* layer, then next().                                                      *)
(* Mutant: the GET route comes first.                                       *)
GetFirst(call) ==
    LET heads == headRouteHandlers[call.path]
    IN  (IF call.kind = "get" THEN <<[call EXCEPT !.kind = "getRun"]>> ELSE <<>>)
        \o [i \in DOMAIN heads |->
              [call EXCEPT !.kind = "headRun", !.reg = heads[i].reg, !.nest = heads[i].nest]]

HandlersOf(call) ==
    LET heads == headRouteHandlers[call.path]
    IN  [i \in DOMAIN heads |->
            [call EXCEPT !.kind = "headRun", !.reg = heads[i].reg, !.nest = heads[i].nest]]
        \o (IF call.kind = "get" THEN <<[call EXCEPT !.kind = "getRun"]>> ELSE <<>>)

TryHeadRoutes ==
    /\ HonoStep /\ Ahead # <<>> /\ TriesHead(Head(Ahead))
    /\ todo' = HandlersOf(Head(Ahead)) \o Tail(Ahead)
    /\ triedHeadRoutes' = triedHeadRoutes \cup {Head(Ahead).path}
    /\ UNCHANGED <<appVars, cacheVars, isShuttingDown, requestVars, invoked,
                   paramVars, outcome, fastVars>>

(* The handler of a layer replies, or calls next().                         *)
RunHandler ==
    /\ HonoStep /\ Ahead # <<>>
    /\ LET call == Head(Ahead)
       IN  /\ ~TriesHead(call) /\ call.kind # "shutdown"
           /\ outcome' \in {None, "replied"}
           /\ Runs(call, FALSE)
           /\ invoked' = IF call.kind \in Once THEN invoked \cup {call.reg} ELSE invoked
    /\ todo' = Tail(Ahead)
    /\ UNCHANGED <<appVars, cacheVars, isShuttingDown, requestVars, triedHeadRoutes,
                   fastVars>>

NotFound ==
    /\ HonoStep /\ Ahead = <<>>
    /\ outcome' = "notFound"
    /\ UNCHANGED <<appVars, cacheVars, isShuttingDown, requestVars, todo,
                   triedHeadRoutes, invoked, paramVars, fastVars>>

-----------------------------------------------------------------------------
(* The fast path: FastDispatch calls runRoute() for the last layer.         *)
OnFastPath ==
    /\ via = "fast"
    /\ UNCHANGED <<appVars, cacheVars, isShuttingDown, requestVars, todo, triedHeadRoutes,
                   invoked, outcome>>
    /\ IF phase = "prepared" THEN Runs(routes[Max(Matched(request))], TRUE)
       ELSE UNCHANGED paramVars

FastStep == Fast!Step /\ OnFastPath
FastOther ==
    /\ Fast!RouteReports \/ Fast!Reply \/ Fast!CallNext \/ Fast!NotFoundReturns
    /\ OnFastPath

Done == (outcome # None \/ answer # "none") /\ UNCHANGED vars

Next ==
    \/ Register \/ ReplaceFetch \/ ReplaceGetPath \/ InitHttpServer
    \/ SetNotFoundHandler \/ PrepareClose
    \/ Arrive \/ ArriveBad
    \/ Shutdown \/ TryHeadRoutes \/ RunHandler \/ NotFound
    \/ FastStep \/ FastOther \/ Done

Spec == Init /\ [][Next]_vars

(* Synchronous code runs on, and promises settle; handlers need not.        *)
FairSpec == Spec /\ WF_fastVars(via = "fast" /\ Fast!Step)
-----------------------------------------------------------------------------
(* Properties.                                                              *)

HasPath(l) ==
    l.kind \notin {"request", "body", "shutdown", "catchAll", "parser", "useAll"}
Covers(l) == NestMatch[l.nest][l.kind = "use"]

(* The layers of a registration match exactly what its Nest path matches:   *)
(* normalizeHonoPaths() neither loses nor adds a target, and the prefix of  *)
(* use() covers what is below the path.                                     *)
IsCovered(l) ==
    HasPath(l) =>
        \A target \in Targets :
            (Covers(l)[target] # {}) <=>
                \E j \in DOMAIN routes : /\ routes[j].reg = l.reg
                                       /\ ParamsOf[routes[j].path][target] # NoMatch

PathsCovered == ~frozen => \A i \in DOMAIN routes : IsCovered(routes[i])

FirstRun(i) == \A j \in 1..(i - 1) : ran[j].reg # ran[i].reg
NestOf(reg) == routes[CHOOSE i \in DOMAIN routes : routes[i].reg = reg]

(* The params a path gives to its handler are those the Nest path names,    *)
(* without the literal suffix of an optional group: "the next layer can     *)
(* tell the edits" only when what the path gave is right.                   *)
ParamsAreNest ==
    \A i \in DOMAIN ran :
        LET l == NestOf(ran[i].reg)
        IN  FirstRun(i) /\ HasPath(l) => ran[i].given \in Covers(l)[request.target]

(* The same of one registration by itself, from the constants: its Hono     *)
(* paths match what its Nest path matches, and the first of them that       *)
(* matches gives the params.  Of a HEAD route every one does: its handlers  *)
(* run at whatever layer of a Hono path comes first.                        *)
HasNestPath(r) == r.method \notin {"useAll", "catchAll", "parser"}
HonoPathOf(r, path) == IF r.method = "use" THEN PrefixOf[path] ELSE path
OnHono(r, i, target) == ParamsOf[HonoPathOf(r, HonoPathsOf[r.path][i])][target]
InNest(r, target) == NestMatch[r.path][r.method = "use"][target]

PathAgrees(r) ==
    HasNestPath(r) =>
        \A target \in Targets :
            InNest(r, target) # {} <=>
                \E i \in DOMAIN HonoPathsOf[r.path] : OnHono(r, i, target) # NoMatch

ParamAgrees(r) ==
    HasNestPath(r) =>
        \A target \in Targets : \A i \in DOMAIN HonoPathsOf[r.path] :
            /\ OnHono(r, i, target) # NoMatch
            /\ r.method = "head" \/ \A j \in 1..(i - 1) : OnHono(r, j, target) = NoMatch
            => Stripped(OnHono(r, i, target), SuffixesOf[r.path]) \in InNest(r, target)

(* No handler runs before a middleware that was registered earlier for its  *)
(* method and whose Nest path covers the request, on the fast path and on   *)
(* Hono's.  A HEAD handler counts from the first GET or HEAD route of its   *)
(* Hono path, where the map of HEAD handlers runs it: a middleware between  *)
(* that route and the HEAD handler's own registration comes after it        *)
(* (route-registry.ts:114-133).                                             *)
MayCall(l) ==
    /\ IsFor(l, request)
    /\ \/ l.kind = "useAll"
       \/ l.kind \in {"use", "middleware"} /\ Covers(l)[request.target] # {}
       \/ l.kind = "headMiddleware" /\ IsHead /\ Covers(l)[request.target] # {}

Precedes(l, call) ==
    IF call.kind # "headRun" THEN l.reg < call.reg
    ELSE \A m \in DOMAIN routes :
            routes[m].kind \in {"get", "head"} /\ routes[m].path = call.path
            => l.reg < routes[m].reg

MiddlewareFirst ==
    \A i \in DOMAIN ran : \A k \in DOMAIN routes :
        Precedes(routes[k], ran[i]) /\ MayCall(routes[k]) =>
            \E j \in 1..(i - 1) : ran[j].reg = routes[k].reg

(* A middleware that several Hono paths of its Nest path match runs once.   *)
MiddlewareOnce ==
    \A i \in DOMAIN ran : ran[i].kind \in Once => FirstRun(i)

(* "explicit @Head() handlers take precedence over GET routes": before a    *)
(* GET route answers a HEAD request, the HEAD routes of its path had it.    *)
HeadFirst ==
    \A i \in DOMAIN ran : IsHead /\ ran[i].kind \in {"get", "getRun"} =>
        LET heads == headRouteHandlers[ran[i].path]
        IN  \A k \in DOMAIN heads : \E j \in 1..(i - 1) : ran[j].reg = heads[k].reg

(* What a layer edited in req.params reaches a later layer whose path gave  *)
(* the same value, provided the layers between them were given it, too.     *)
EditedAt(i, name) == ran[i].left[name] # ran[i].seen[name]
Reaches(i, j, name) ==
    /\ EditedAt(i, name) /\ ran[j].given[name] = ran[i].given[name]
    /\ \A k \in (i + 1)..(j - 1) : ~EditedAt(k, name)

EditsReachNextLayers ==
    \A i, j \in DOMAIN ran : \A name \in Names :
        /\ i < j /\ Reaches(i, j, name)
        /\ \A k \in (i + 1)..(j - 1) : ran[k].given[name] = ran[i].given[name]
        => ran[j].seen[name] = ran[i].left[name]

(* The same without the proviso: "Carries edits an earlier layer (such as   *)
(* Nest middleware) made to req.params into the next layer's params, as     *)
(* long as the route matched the same value for that parameter."            *)
EditsReachRoute ==
    \A i, j \in DOMAIN ran : \A name \in Names :
        i < j /\ Reaches(i, j, name) => ran[j].seen[name] = ran[i].left[name]

(* A request that arrives while the application shuts down with             *)
(* return503OnClosing reaches no handler of Nest's.                         *)
ClosingStopsRequests == request.late => ran = <<>>

(* The fast path's promises hold for the requests it is given.              *)
KeepsHonoSemantics == Fast!KeepsHonoSemantics
Answered == Fast!Answered
=============================================================================
