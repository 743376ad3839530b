---------------------------- MODULE RequestBody ----------------------------
(***************************************************************************)
(* One request whose body passes the adapter's layers: the limits of       *)
(* createBodyLimitMiddleware() and createBodyLimit(), the parsers of       *)
(* createParserMiddleware(), the unread copies they leave in ctx.req.raw,  *)
(* and the metadata the request state caches (src/request/,                *)
(* src/helpers/body-parser.ts).  Between them middleware looks at          *)
(* ctx.req.raw, replaces it, or sets req.body.                             *)
(*                                                                         *)
(* A Request object is an index of `requests`; the server's is the first.  *)
(* Its content is the index of the object the body was created for.        *)
(***************************************************************************)
EXTENDS Integers, Sequences

CONSTANTS
    Servers,            \* [transport, request] of the server's requests
    Replacements,       \* requests a middleware can install
    Chains,             \* the layers of an application, in order
    Paths,
    BodyLimit,          \* the limit of a path: requestSizeLimits, bodyLimit
    SkippedPaths,       \* skipBodyParserFor
    MultipartLimits,    \* is multipartLimits configured
    RestoresReplaced,   \* does middleware put back a request that the adapter
                        \* has seen replaced
    MaxRequests         \* bound: middleware creates no more Request objects

Unset == -1             \* undefined
None == 0

Methods == {"GET", "HEAD", "POST"}
BodyTypes == {"json", "text", "urlencoded", "multipart", "octets"}
Types == BodyTypes \cup {"none"}
Sizes == Nat \cup {Unset}

(* The body of a GET or HEAD request is null; its bytes, if a client sends  *)
(* some, stay on the connection.                                            *)
NoBody(method) == method \in {"GET", "HEAD"}

Request == [method : Methods, path : Paths, type : Types, hasBody : BOOLEAN,
            size : Nat, declared : Sizes, chunked : BOOLEAN]

(* Node.js and Bun enforce HTTP framing; @hono/node-server gives every      *)
(* other request than GET and HEAD a body.                                  *)
Frames(request) ==
    request.chunked \/ request.size = IF request.declared = Unset THEN 0 ELSE request.declared

Layer == [kind : {"hono", "nest", "limit", "parser", "route"},
          types : SUBSET BodyTypes, limit : Sizes]

ASSUME ServersAssumption ==
    \A server \in Servers :
        /\ server.transport \in {"node", "bun", "direct"}
        /\ server.request \in Request
        /\ server.transport = "direct" \/ Frames(server.request)
        /\ server.transport = "node" => server.request.hasBody \/ NoBody(server.request.method)
ASSUME ReplacementsAssumption == Replacements \subseteq Request
ASSUME RequestAssumption ==
    \A request \in Replacements \cup {server.request : server \in Servers} :
        /\ NoBody(request.method) => ~request.hasBody
        /\ ~request.hasBody => request.size = 0 \/ NoBody(request.method)
ASSUME ChainsAssumption ==
    \A layers \in Chains :
        /\ layers \in Seq(Layer) /\ layers # <<>>
        /\ \A i \in 1..Len(layers) : layers[i].kind = "limit" => layers[i].limit = Unset
ASSUME OptionsAssumption ==
    /\ BodyLimit \in [Paths -> Sizes]
    /\ SkippedPaths \subseteq Paths
    /\ MultipartLimits \in BOOLEAN /\ RestoresReplaced \in BOOLEAN
    /\ MaxRequests \in Nat

VARIABLES
    transport, chain,       \* of this request and its application
    at, step,               \* the layer, and how far it is
    requests,               \* the Request objects created so far
    view,                   \* ctx.req.raw, the pending copy and the caches
    body,                   \* req.body
    contentType,            \* of the parser that reads, "unset" when none does
    verdict,                \* why the request failed, "none" otherwise
    installed,              \* history: the last request server or middleware set
    parsed                  \* history: the request whose body was parsed last

vars == <<transport, chain, at, step, requests, view, body, contentType, verdict, installed,
          parsed>>

Object == [method : Methods, path : Paths, type : Types, hasBody : BOOLEAN, size : Nat,
           declared : Sizes, chunked : BOOLEAN, content : Nat, used : BOOLEAN]

Created(request, id) ==
    [method |-> request.method, path |-> request.path, type |-> request.type,
     hasBody |-> request.hasBody, size |-> request.size, declared |-> request.declared,
     chunked |-> request.chunked, content |-> id, used |-> FALSE]

(* ctx.req.raw (None while an unread copy of `pending` waits behind the      *)
(* accessor), currentRaw, the requests that know the state, and the caches.  *)
View == [raw : Nat, pending : Nat, current : Nat, synced : SUBSET Nat, method : Methods,
         path : Paths, type : Types \cup {"unset"}, skip : {"unset", "yes", "no"}]

layer == chain[at]
Verdicts == {"none", "tooLarge", "rejected", "malformed", "failed"}

TypeOK ==
    /\ transport \in {"node", "bun", "direct"}
    /\ chain \in Chains /\ at \in 1..Len(chain)
    /\ step \in {"enter", "user", "count", "parse", "read", "done"}
    /\ requests \in Seq(Object)
    /\ view \in View
    /\ view.raw <= Len(requests) /\ view.pending <= Len(requests)
    /\ view.raw = None <=> view.pending # None
    /\ view.current <= Len(requests)
    /\ view.synced \subseteq 1..Len(requests)
    /\ body \in BodyTypes \cup {"undefined", "custom"}
    /\ contentType \in BodyTypes \cup {"unset"}
    /\ verdict \in Verdicts
    /\ installed \in 1..Len(requests) /\ parsed \in 0..Len(requests)

(* getRequestState() in the adapter's first layer.                          *)
Init ==
    /\ chain \in Chains
    /\ at = 1 /\ step = "enter"
    /\ \E server \in Servers :
        /\ transport = server.transport
        /\ requests = <<Created(server.request, 1)>>
        /\ view = [raw |-> 1, pending |-> None, current |-> None, synced |-> {1},
                   method |-> server.request.method, path |-> server.request.path,
                   type |-> "unset", skip |-> "unset"]
    /\ body = "undefined" /\ contentType = "unset" /\ verdict = "none"
    /\ installed = 1 /\ parsed = None

-----------------------------------------------------------------------------
(* ctx.req.raw and what is cached about it.                                 *)

(* Mutants: a cache outlives the request it was computed from.              *)
AdoptedWithType(v, rs) ==
    [v EXCEPT !.current = v.raw, !.skip = "unset",
              !.method = rs[v.raw].method, !.path = rs[v.raw].path]
AdoptedWithSkip(v, rs) ==
    [v EXCEPT !.current = v.raw, !.type = "unset",
              !.method = rs[v.raw].method, !.path = rs[v.raw].path]

(* adoptReplacedRequest()                                                   *)
Adopted(v, rs) ==
    [v EXCEPT !.current = v.raw, !.type = "unset", !.skip = "unset",
              !.method = rs[v.raw].method, !.path = rs[v.raw].path]

(* syncRawRequest()                                                         *)
Synced(v, rs) ==
    IF v.pending # None \/ v.raw \in v.synced THEN v
    ELSE [(IF v.raw = 1 THEN v ELSE Adopted(v, rs)) EXCEPT !.synced = @ \cup {v.raw}]

(* state.currentRaw ?? state.rawRequest                                     *)
Current(v) == IF v.current # None THEN v.current ELSE 1

(* createUnreadRequest() and the copy of readBodyWithinLimit().             *)
Copy(request) ==
    IF NoBody(request.method)
    THEN [request EXCEPT !.used = FALSE, !.hasBody = FALSE, !.size = 0]
    ELSE [request EXCEPT !.used = FALSE, !.hasBody = TRUE]

(* materializeRawRequest(): the first read of ctx.req.raw creates the copy. *)
WithCopy(v, rs) == IF v.pending = None THEN rs ELSE Append(rs, Copy(rs[v.pending]))

Materialized(v, rs) ==
    IF v.pending = None THEN v
    ELSE Synced([v EXCEPT !.raw = Len(rs), !.pending = None], rs)

(* Reading ctx.req.raw in a view.                                           *)
ReadRaw(v) ==
    /\ requests' = WithCopy(v, requests)
    /\ view' = Materialized(v, requests')

(* Assigning ctx.req.raw: the accessor syncs, a plain property does not.    *)
Assigned(v, rs, id) ==
    LET plain == [v EXCEPT !.raw = id, !.pending = None] IN
    IF v.pending = None THEN plain ELSE Synced(plain, rs)

(* Mutant: the parsed body is not replaced by an unread copy.               *)
NotReplaced(v) == v
(* replaceRawRequest()                                                      *)
Replaced(v) == [v EXCEPT !.pending = v.raw, !.raw = None]

Used(rs, id) == [rs EXCEPT ![id].used = TRUE]

-----------------------------------------------------------------------------
Goto(newStep) ==
    /\ step' = newStep
    /\ UNCHANGED <<transport, chain, at, installed>>

NextLayer ==
    /\ at < Len(chain)
    /\ at' = at + 1 /\ step' = "enter"
    /\ UNCHANGED <<transport, chain, installed>>

Fail(reason) == verdict' = reason /\ Goto("done")

(* Middleware of the application.                                           *)

EnterHono ==
    /\ step = "enter" /\ layer.kind = "hono"
    /\ Goto("user")
    /\ UNCHANGED <<requests, view, body, contentType, verdict, parsed>>

(* createRouteHandler() and runRoute() sync before they call the handler.   *)
EnterNest ==
    /\ step = "enter" /\ layer.kind \in {"nest", "route"}
    /\ view' = Synced(view, requests)
    /\ Goto("user")
    /\ UNCHANGED <<requests, body, contentType, verdict, parsed>>

InMiddleware == step = "user" /\ layer.kind \in {"hono", "nest"}

Replace(request) ==
    /\ InMiddleware /\ Len(requests) < MaxRequests
    /\ requests' = Append(requests, Created(request, Len(requests) + 1))
    /\ view' = Assigned(view, requests', Len(requests'))
    /\ installed' = Len(requests')
    /\ UNCHANGED <<transport, chain, at, step, body, contentType, verdict, parsed>>

(* Does the state describe another request since it synced this one.        *)
SeenReplaced(id) ==
    id \in view.synced /\ id # Current(view)

(* It puts back a request that was not read meanwhile.                      *)
Restore(id) ==
    /\ InMiddleware
    /\ id \in 1..Len(requests) /\ ~requests[id].used /\ id # view.raw
    /\ RestoresReplaced \/ ~SeenReplaced(id)
    /\ view' = Assigned(view, requests, id)
    /\ installed' = id
    /\ UNCHANGED <<transport, chain, at, step, requests, body, contentType, verdict, parsed>>

(* It reads ctx.req.raw, its URL or a clone of its body.                    *)
Look ==
    /\ InMiddleware /\ view.pending # None
    /\ ReadRaw(view)
    /\ UNCHANGED <<transport, chain, at, step, body, contentType, verdict, installed, parsed>>

SetBody(value) ==
    /\ InMiddleware /\ body' = value
    /\ UNCHANGED <<transport, chain, at, step, requests, view, contentType, verdict, installed,
                   parsed>>

CallNext ==
    /\ InMiddleware
    /\ NextLayer
    /\ UNCHANGED <<requests, view, body, contentType, verdict, parsed>>

(* The handler of the route reads the body of req.raw.                      *)
HandlerReads ==
    /\ step = "user" /\ layer.kind = "route"
    /\ LET rs == WithCopy(view, requests)
           v == Materialized(view, rs)
       IN  requests' = Used(rs, v.raw) /\ view' = v
    /\ Goto("done")
    /\ UNCHANGED <<body, contentType, verdict, parsed>>

-----------------------------------------------------------------------------
(* The limits.                                                              *)

Exceeds(limit, size) == limit # Unset /\ size > limit

(* mayHaveRequestBody(), which reads ctx.req.raw.                           *)
MayHaveBody(v, request) ==
    IF v.raw # 1 \/ transport = "direct" THEN request.hasBody
    ELSE /\ transport = "node" \/ ~NoBody(v.method)
         /\ request.chunked \/ request.declared > 0

(* Mutant: a replacement is trusted like the request of the server.         *)
TrustsTransport(v) == transport # "direct"
(* hasTrustedFraming()                                                      *)
TrustsFraming(v) == v.raw = 1 /\ transport # "direct"

(* createMultipartLimitScanner()                                            *)
Scans(request) == layer.kind = "limit" /\ MultipartLimits /\ request.type = "multipart"

LimitOf(v) == IF layer.kind = "limit" THEN BodyLimit[v.path] ELSE layer.limit

(* enforceRawBodyLimit()                                                    *)
Enforce(v, request) ==
    IF request.declared # Unset /\ Exceeds(LimitOf(v), request.declared)
    THEN Fail("tooLarge")
    ELSE /\ UNCHANGED verdict
         /\ IF /\ request.declared # Unset /\ ~request.chunked
               /\ ~Scans(request) /\ TrustsFraming(v)
            THEN Goto("parse")
            ELSE Goto("count")

(* createBodyLimitMiddleware() up to the first await.                       *)
EnterLimit ==
    /\ step = "enter" /\ layer.kind = "limit"
    /\ ReadRaw(Synced(view, requests))
    /\ LET request == requests'[view'.raw] IN
       IF \/ ~MayHaveBody(view', request)
          \/ LimitOf(view') = Unset /\ ~Scans(request)
       THEN Goto("parse") /\ UNCHANGED verdict
       ELSE \/ Enforce(view', request)
            \/ Scans(request) /\ Fail("rejected")       \* its boundary is malformed
    /\ UNCHANGED <<body, contentType, parsed>>

(* A parser of its own limit: createBodyLimit() reads the header of the raw *)
(* request, and does nothing for another type of body.                      *)
EnterParser ==
    /\ step = "enter" /\ layer.kind = "parser"
    /\ IF layer.limit = Unset
       THEN UNCHANGED <<requests, view, verdict>> /\ Goto("parse")
       ELSE /\ ReadRaw(view)
            /\ LET request == requests'[view'.raw] IN
               IF request.type \in layer.types
               THEN Enforce(view', request)
               ELSE Goto("parse") /\ UNCHANGED verdict
    /\ UNCHANGED <<body, contentType, parsed>>

(* enforceIncomingBodyLimit(): no body in the raw request, but bytes on the *)
(* connection of Node.js.                                                   *)
CountIncoming ==
    /\ step = "count" /\ ~requests[view.raw].hasBody
    /\ LET server == requests[1]
           reads == transport = "node" /\ (server.chunked \/ server.declared > 0)
       IN  /\ requests' = IF reads THEN Used(requests, 1) ELSE requests
           /\ IF reads /\ ~server.used /\ Exceeds(LimitOf(view), server.size)
              THEN Fail("tooLarge")
              ELSE Goto("parse") /\ UNCHANGED verdict
    /\ UNCHANGED <<view, body, contentType, parsed>>

(* readBodyWithinLimit(): a body that was counted becomes a new request;    *)
(* the connection may fail meanwhile, the multipart scanner may reject it.  *)
CountBody ==
    /\ step = "count" /\ requests[view.raw].hasBody
    /\ LET request == requests[view.raw]
           copied == Append(Used(requests, view.raw), Copy(request))
           v == Assigned(view, copied, Len(copied))
       IN
       \/ /\ ~Exceeds(LimitOf(view), request.size)
          /\ requests' = copied
          /\ view' = IF layer.kind = "limit" THEN Synced(v, copied) ELSE v
          /\ Goto("parse") /\ UNCHANGED verdict
       \/ /\ \E reason \in {"tooLarge", "rejected", "failed"} :
               /\ reason = "tooLarge" <=> Exceeds(LimitOf(view), request.size)
               /\ reason = "rejected" => Scans(request)
               /\ Fail(reason)
          /\ requests' = Used(requests, view.raw) /\ UNCHANGED view
    /\ UNCHANGED <<body, contentType, parsed>>

-----------------------------------------------------------------------------
(* createParserMiddleware().                                                *)

(* getContentType(), shouldSkipBodyParser(): computed once.                 *)
WithType(v, rs) ==
    IF v.type # "unset" THEN v
    ELSE [v EXCEPT !.type = rs[Current(v)].type]
WithSkip(v) ==
    IF v.skip # "unset" THEN v
    ELSE [v EXCEPT !.skip = IF v.path \in SkippedPaths THEN "yes" ELSE "no"]

PassOn(v) ==
    /\ view' = v
    /\ NextLayer
    /\ UNCHANGED <<requests, contentType, verdict>>

Parse ==
    /\ step = "parse"
    /\ LET v == Synced(view, requests)
           typed == WithType(v, requests)
           asked == WithSkip(typed)
       IN  IF layer.types = {} THEN PassOn(view)
           ELSE IF v.method = "GET" THEN PassOn(v)
           ELSE IF typed.type \notin layer.types \/ body # "undefined" THEN PassOn(typed)
           ELSE IF asked.skip = "yes" THEN PassOn(asked)
           ELSE /\ ReadRaw(asked) /\ contentType' = typed.type
                /\ Goto("read") /\ UNCHANGED verdict
    /\ UNCHANGED <<body, parsed>>

(* parseSupportedRequestBody(): the rest of it happens when all is read.    *)
ReadBody ==
    /\ step = "read"
    /\ requests' = Used(requests, view.raw) /\ contentType' = "unset"
    /\ \/ /\ Fail("failed") /\ UNCHANGED <<view, body, parsed>>
       \/ /\ ~(requests[view.raw].used /\ requests[view.raw].hasBody)
          /\ view' = Replaced(view)
          /\ \/ Fail("malformed") /\ UNCHANGED <<body, parsed>>
             \/ /\ body' = contentType /\ parsed' = view.raw
                /\ NextLayer /\ UNCHANGED verdict

-----------------------------------------------------------------------------
Middleware ==
    \/ EnterHono \/ EnterNest \/ Look \/ CallNext \/ HandlerReads
    \/ \E request \in Replacements : Replace(request)
    \/ \E id \in 1..Len(requests) : Restore(id)
    \/ \E value \in {"undefined", "custom"} : SetBody(value)

Next ==
    \/ Middleware
    \/ EnterLimit \/ EnterParser \/ CountIncoming \/ CountBody
    \/ Parse \/ ReadBody

Spec == Init /\ [][Next]_vars

-----------------------------------------------------------------------------
(* What a reader of ctx.req.raw gets.                                       *)
Effective == IF view.pending # None THEN Copy(requests[view.pending]) ELSE requests[view.raw]

(* Whatever the layers counted, parsed and replaced, the body that server   *)
(* or middleware installed last is still there to be read, once.            *)
BodyIsPreserved ==
    verdict = "none" /\ step # "done" /\ ~NoBody(requests[installed].method) =>
        /\ ~Effective.used
        /\ Effective.content = requests[installed].content
        /\ Effective.size = requests[installed].size

LeavesLimit == step \in {"enter", "count"} /\ step' = "parse"
IsWithin(limit, request) == request.hasBody => ~Exceeds(limit, request.size)
WithinLimits(request) ==
    /\ layer.kind = "limit" => IsWithin(BodyLimit[request.path], request)
    /\ request.type \in layer.types => IsWithin(layer.limit, request)

(* A body leaves a limit only when it is within it, whoever created it and  *)
(* whatever its headers say.                                                *)
LimitHolds == [][LeavesLimit => WithinLimits(Effective')]_vars

MayBeParsed(request) ==
    /\ request.type \in layer.types
    /\ request.path \notin SkippedPaths /\ request.method # "GET"

(* A body is parsed by a parser of its own type, and never for a path that  *)
(* skips parsing or for GET, although all three are cached.                 *)
ParsedAsDeclared ==
    [][parsed' # parsed =>
        MayBeParsed(requests[parsed']) /\ body' = requests[parsed'].type]_vars

(* getCurrentRequest(): where req.headers is read from.                     *)
HeadersSource(v) == IF v.pending = None THEN v.raw ELSE Current(v)

(* What Nest middleware and handlers, and the adapter itself, are told      *)
(* about the request is true of the request in ctx.req.raw.                 *)
Describes(v, rs, raw) ==
    /\ v.method = raw.method /\ v.path = raw.path
    /\ v.type \in {"unset", raw.type}
    /\ v.skip \in {"unset", IF raw.path \in SkippedPaths THEN "yes" ELSE "no"}
    /\ rs[HeadersSource(v)].type = raw.type
    /\ rs[HeadersSource(v)].declared = raw.declared

MetadataIsCurrent == [][EnterNest => Describes(view', requests', Effective')]_vars
=============================================================================
