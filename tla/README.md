# Verification of platform-hono

`@mnigos/platform-hono` lets a NestJS application run on Hono, on Node.js
(`@hono/node-server`) and on Bun (`Bun.serve`). The adapter is single-threaded
JavaScript, but it is full of concurrency: promise reactions, event listeners,
streams, user handlers that go on after they returned, keep-alive connections
and clients that leave. This directory holds TLA+ models of its control logic,
the TLC configurations that check them on small instances, and TLAPS proofs for
every value of the constants.

Paths are relative to the repository; the implementation is `src/`.

## The system

A request enters through a server (`src/server/`), gets a state record
(`src/request/`), passes the adapter's own layers (request layer, body limit and
default parsers), the application's middleware and a Nest route
(`src/routing/`), and is answered by a response, a streamed reply or an SSE
stream (`src/response/`, `src/helpers/response.ts`).

| Component | State it keeps | Operations | Interacts with | What is hard, and what makes it correct |
| --- | --- | --- | --- | --- |
| Route invoker (`routing/route-invoker.ts`) | per layer: the handler's promise, `nextPromise`, the waits, `streaming`, the layer's promise | `callHandler()`, `invokeHandler()`, `runRoute()`, `finalizeHeadResponse()`, `runHandlers()` | Hono's `compose()`, finalize listeners, the SSE bridge | Handlers reply, return, call `next()`, fail and stream in any order, also late. No wait may miss its event; layers complete from the inside out; every finalized request is answered. |
| Replies and response finalization (`helpers/response.ts`, `response/context-tracking.ts`, reply methods of `hono-adapter.ts`) | `ctx.res`, `ctx.finalized`, the tracking of a context, the last finalized response, `JSON_HEADERS` | `reply()`, `status()`, `setHeader()`, `redirect()`, `buildResponse()`, `finalizeResponse()`, `onResponseFinalized()` | route invoker, error and not-found handlers, the writers | Handlers, filters and hooks reply more than once and set headers before and after; a reply that bypasses Hono must be the one Hono would have made. |
| SSE bridge (`response/sse-bridge.ts`) | `state.sse`: stream, response, `state.sseWaiter` chain | `writeHead()`, stream writes, close | every routed layer of the request, `req.on('close')` | One response answers several layers; handlers fail after the stream has answered. |
| Streamed replies (`response/stream-response.ts`) | two nested streams, flags, pull promises, disconnect listeners | `toWebStream()`, `createByteStream()`, `registerClientDisconnect()` | a Node.js `Readable`, the server's reader, the socket | Source events race pulls and cancellations. A truncated source must not look complete; a client that left must not leak the source. |
| Fast path dispatch (`server/fast-dispatch.ts`) | phase, layer at hand, `routeSettled` | every method of `FastExchange` | `runRoute()`, the error and not-found handlers | It replaces Hono's promises by synchronous code and must not be distinguishable from them. |
| Node fast path (`server/node-fast-path.ts`, `node-response*.ts`, `node-internals.ts`) | `prepared`, within one call | `serve()`, `respond()`, direct writes | fast dispatch, `@hono/node-server` | Which requests it may take; the framing of direct writes. |
| Bun fast path (`server/bun-fast-path.ts`) | none beyond the exchange | `fetch()` | fast dispatch | As above. |
| Fast routes (`server/fast-routes.ts`) | cached scan of the routes | `isEnabled()`, `match()`, `getRoute()` | Hono's router | The cache, or a registration made late, lets a request skip middleware. |
| Socket bridge, request events (`request/socket-bridge.ts`, `request/request-state.ts`) | `listening`, `closeEvents`, listeners of `req.on()` | `req.on('close')`, `req.socket.on()/once()/off()`, `signalClose()` | socket, abort signal, SSE stream, outgoing response | Four sources report one close; requests share a socket. Called once, and nothing left on the socket. |
| Request state (`request/request-state-core.ts`, `request-headers.ts`, ...) | cached method, path, type, skip decision; `pendingRawRequest`, `currentRaw` | `syncRawRequest()`, lazy `ctx.req.raw`, accessors | middleware, limits, parsers | Middleware may replace `ctx.req.raw` at any time: caches must follow, bodies must stay readable. |
| Body limits and parsers (`helpers/body-parser.ts`, `request/body-*-middleware.ts`, `request/parser-registry.ts`) | `req.body`, registered and batched types | `register()`, `createDefaultParser()`, limits by declared or counted size, parsers | request state, multipart limits | Declared sizes of requests nobody framed; several limits and parsers on one request. |
| Multipart limits (`helpers/multipart-limits.ts`, `multipart-part.ts`) | scanner state, carry, counters | `MultipartLimitScanner.write()` | body limits | Any token may be cut at any byte. The cut must not matter. |
| Bun HTTP server, adapter lifecycle (`server/bun-http-server.ts`, `hono-adapter.ts`) | the server, unix path, `isShuttingDown` | `listen()`, `close()`, `address()`, `closeAllConnections()` | `Bun.serve`, Nest | Deferred events cross later calls. |
| Routing (`routing/route-registry.ts`, `route-paths.ts`, `request/route-params.ts`) | `hono.routes`, HEAD handlers by path, tried paths, sets of contexts, `req.params` | `register()`, `registerMiddleware()`, path expansion, `setRouteParams()` | Hono's router, route invoker, fast routes | A Nest path becomes several Hono paths that overlap: no target lost or added, the right params, middleware first and once, HEAD handlers before GET ones, edits of params kept. |
| Metadata helpers (`helpers/client-ip.ts`, `path-matching.ts`) | none | pure functions | request state, limits | Trusted-proxy chains; the most specific limit. |
| CORS, static assets, entry (`helpers/cors.ts`, `static-assets.ts`) | none | option mapping | Hono's middleware | Thin wrappers. |

`PROJECT.json` lists the components with their status and every hazard at its
line with the properties that cover it.

## Modules

| Module | Models | Instance for TLC | Proofs |
| --- | --- | --- | --- |
| `RouteInvoker` | route invoker, finalize listeners, SSE start | `RouteInvokerMC` | `RouteInvokerProofs` |
| `NestLayers` | what the layers promise, abstract; `RouteInvoker` refines it | through `RouteInvokerMC` | `RouteInvokerProofs` (the refinement) |
| `Routing` | registration, fast routes, one request through the layers or the fast path | `RoutingMC`, with the reference reading of Nest paths | `RoutingProofs` |
| `RoutePaths` | `route-paths.ts`, pure | through `RoutingMC` | |
| `HonoCompose` | Hono's `#dispatch()` and `compose()`, abstract and external | | |
| `FastDispatch` | `FastExchange`, refines `HonoCompose` | through `Routing`, which composes it | `RoutingProofs` (the refinement) |
| `Replies` | reply methods, tracking, finalization, writers | itself | `ReplyProofs` |
| `ResponseStream` | streamed replies | itself | `ResponseStreamProofs` |
| `ReplyBody` | a streamed reply as a pipe of chunks, abstract; `ResponseStream` refines it | through `ResponseStream` | `ResponseStreamProofs` (the refinement) |
| `SocketBridge` | `close` listeners of one connection | `SocketBridgeMC` | `SocketBridgeProofs` |
| `RequestBody` | request state, limits and parsers of one request | `RequestBodyMC` | `RequestBodyProofs` |
| `ParserRegistry` | the layers of limits and parsers of an application, pure | through `RequestBodyMC` | |
| `MultipartScanner` | the multipart scanner and its read loop | `MultipartScannerMC`, with the reference scan | `MultipartScannerProofs` |
| `MultipartBodies` | bytes, delimiters, part headers: what the scanner and its abstraction share | | |
| `MultipartWholeScan` | the scan of a whole body, abstract; `MultipartScanner` refines it | through `MultipartScannerMC` | `MultipartScannerProofs` (the refinement) |
| `BunHttpServer` | `listen()`, `close()`, `address()` on Bun, and the adapter's `close()` | itself | `BunHttpServerProofs` |

How they meet: `Routing` decides by `FastRoutes` whether its request steps through
Hono's layers or through an instance of `FastDispatch`, and its layers are those
whose waits `RouteInvoker` models in detail; `RoutingMC` takes Hono paths and
suffixes from `RoutePaths`, `RequestBodyMC` its layers from `ParserRegistry`.
`RouteInvoker` and `ResponseStream` use the body and its release, `Replies` the
response around it, so that neither repeats the other.

`map` in `PROJECT.json` names the source lines of every definition. Definitions
marked `Mutant` are plausible mistakes in the definition that follows them; each
property is violated by at least one of them. Mistakes in `RoutePaths` falsify the
assumption `OfferedAgree` of `RoutingMC` already.

Common conventions. JavaScript runs to completion, so a step is a synchronous
block, or a part of one that nothing else can interleave with. User code is
nondeterministic: whatever the language lets it do at that moment. Payloads,
headers and wording are left out unless a property depends on them.

### RouteInvoker

One request through `N` nested layers, 1 outside. `Waits` are the layers
registered as middleware (`waitForNext`), `Routed` those run by `runRoute()`
(`app.use()` and routes); the others are `MiddlewareConsumer` middleware and go
through `invokeHandler()`.

- `handler[l]` is the user handler's call and then its promise; while it is
  `"sync"` no other code runs, except layers it enters through `next()`. Handlers
  act in `CallNext`, `CallNextWithError`, `Reply`, `StartSse`, `Return`,
  `FinishHandler`; all of these but `Return` are possible after the handler
  returned, as a callback.
- `stage[l]` is the progress of `callHandler()`'s reactions (`Settle`,
  `WaitOver`, `NextFulfilled`, `NextRejected`, `HandlerRejected`); `result[l]`
  the promise handed to Hono, with `"closing"` and `"cancelling"` for the two
  waits of `finalizeHeadResponse()`.
- `bridge` says whether the SSE response's body was locked by a reader;
  `waiters` is the chain of `state.sseWaiter` in calling order.
- `LayerResolved`, `LayerRejected`, `EndOfChain` are Hono around the layers.

`NestLayers` says what all of this amounts to, without waits, listeners, waiters and
stream locks: layers nest, each settles once and for a reason of its own (`Complete`,
`Fail`, `JoinStream`), a response is never taken back, middleware that returned
nothing completes only when somebody answered, and a layer that succeeded has a response.
`HeadAnswersAfterClose` is about the whole request: once a stream became the response to
HEAD, no late reply, joined waiter or outer layer answers it before the stream is closed.
Three things end the wait early and are excepted. A layer around the start may be
rejected, because its handler failed or because the shared body is locked (finding 1), and
then the error handler answers; or a `MiddlewareConsumer` middleware around the start
returned a `Response` of its own (`Bypassed`), which Hono sends.

`LayersNest` maps a layer's `result` and `finalization` to a `status` and checks that
every behaviour of `RouteInvoker` is one of `NestLayers`.

### HonoCompose and FastDispatch

`HonoCompose` states what the class comment of `FastExchange` promises to keep:
layers that pass on, a route, a catch per layer, an error handler that may
itself fail. `FastDispatch` models each method of `FastExchange`;
`KeepsHonoSemantics` maps its phases to those of `HonoCompose` (`Mode`) and
checks that every behaviour of the fast path is one of Hono, stuttering allowed.

### RoutePaths, Routing and RoutingMC

A path is a sequence of tokens: slashes, literals, parameters, named wildcards,
braces and the characters of a constraint. `RoutePaths` translates
`route-paths.ts` function by function: `findClosingBrace()`,
`findOptionalRouteGroup()`, `getOptionalParameterSuffixes()`,
`normalizeHonoPaths()`, `normalizeHonoMiddlewarePath()`.

`Routing` has the application's configuration and then one request.

- `Register` is one Nest registration, `enableCors()`, `useBodyParser()` or
  `hono.use()` of the application's own: it appends the layers `LayersOf` to
  `routes`, in the order of `hono.routes`. `InitHttpServer` adds the body layer
  and, with `return503OnClosing`, the shutdown layer, and reads `hono.fetch`
  once. `ReplaceFetch`, `ReplaceGetPath`, `SetNotFoundHandler` change what the
  fast path asks for; `ArriveBad` is a request that `@hono/node-server` answers
  itself after the fast path has filled its cache.
- `Arrive` is `serve()`: `TakesFastPath` with the cached `FoundCatchAll`,
  `IsFastRoute` of the layers that Hono matches. Hono adds no route after the
  first match, so nothing is registered afterwards; `PrepareClose` comes any time.
- On Hono's path `todo` holds the layers ahead, those that do not match the request
  among them, which each step passes by (`Ahead`). `headRouteHandlers` holds the HEAD
  handlers of each Hono path, as the adapter's map does. `TryHeadRoutes` is
  `markHeadRouteTried()` with the chain of `runHandlers()`, `RunHandler` a handler
  that replies or calls `next()` and may edit `req.params` before, `Shutdown` and
  `NotFound` the adapter's own. `Seen` and `keepParameterEdits` are
  `setRouteParams()`.
- On the fast path the actions of `FastDispatch` run (`FastStep`, `FastOther`),
  and its first step calls the route.

What a path matches is a parameter: `ParamsOf` for Hono's router, `NestMatch` for the
path the application wrote, `HonoPathsOf` and `PrefixOf` for the expansion between the
two. `RoutingMC` gives them values, as tables that TLC fills once. It says what a Nest
path means without the code's expansion: each optional group is there or not, and the
readings that match and keep the most groups give the params (`NestParams`). What Hono
matches is external: segment by segment, from its documentation and the repository's
tests. The properties are stated in `Routing`. `PathAgrees` and `ParamAgrees` state of one
registration by itself what `PathsCovered` and `ParamsAreNest` state of all of them together.

### Replies

Requests one after another, each with steps of application code in any order:
headers through `ctx.header()` and through the adapter, types, statuses, replies of
every kind of body, redirects, errors, the not-found handler. A `Response` is an
object that the context, the record of the last finalization and the application
may share; `cache` is how the lightweight class of `@hono/node-server` keeps its
headers. `buildDirectResponse` is the reply that bypasses Hono's header merging
and `Generic` the one that does not; `Touched` and `Status` are the tracking that
decides between them. `Deliver` is the final response of the layers, written by one
of the two writers that match an installed version, by `@hono/node-server`, or
without a socket. `jsonHeaders` is the one thing that outlives a request.

### ResponseStream

`toWebStream()` and `createByteStream()` around an external `Readable`. Chunks
are counted, not stored: a chunk is its position, so "lost" and "truncated" are
arithmetic. Events are emitted one at a time from the set `due`, in any order
the Node.js documentation allows; the client may leave before the reply is built.

`ReplyBody` is the pipe that this makes, as the server and the source see it: chunks in
order and none twice, a body that ends cleanly only when the client has all of an ended
source, a source that is closed whatever ends the body or the client.

### SocketBridge

`createRequestSocketBridge()`, `requestOn()` and `signalClose()` for all requests
of one socket. An emit copies its listeners (`forwarding`, `calling`) and calls
them one by one; what a listener does meanwhile is a step between two calls. So one
source may report inside the emit of another: a listener aborts the signal (`Aborts`,
as the server's own does inside the outgoing response's emit), whose listeners are
called from those it still has (`aborting`, `HearAbort`), or runs `signalClose()`, with
a copy of its own (`signalling`, `CallSignalled`). The outer emit goes on when they are
over, with a copy that still holds listeners which were called and removed meanwhile;
only `called` keeps `invokeListener()` from running twice. Sockets, streams and
outgoing responses do not emit `close` inside of each other, but for the outgoing
response inside its socket's. A listener is registered at most once, calls are counted
up to `Several` = 2, and `Streaming` are the requests whose handlers may create the SSE
bridge.

### MultipartScanner

Bytes are the few that the scanner tells apart; a whole `filename` parameter is
one byte. `ReadChunk` is `readBodyWithinLimit()`'s loop, `ScanPreamble`,
`ScanHeaders` and `ScanBody` one turn of `write()`'s loop each, `EndWrite` its
end. `MultipartScannerMC` has the reference: a scan of all bytes that arrived,
position by position, which knows nothing of chunks, tails or retries.
`MultipartWholeScan` says the same as a state machine, which the scanner refines step by
step (`position` is the scanner's offset in the whole body): a part opens where its delimiter
stands and nowhere before, and each byte of a file counts once. It may reject a long
header block sooner than the reference, as the code does: a block whose end is not in
the buffer yet, within three bytes of the limit.

### RequestBody

One request passes a chain of layers: the limit layer of
`createBodyLimitMiddleware()`, parsers with or without a limit of their own,
middleware of Hono and of Nest, the route. `Request` objects are indices of
`requests`; `content` names the object a body was first created for, so that a
copy of a body is known to be one. `view` holds `ctx.req.raw` (or the pending
unread copy behind the lazy accessor) and the caches. Middleware replaces,
restores, reads `ctx.req.raw`, or sets `req.body`, while the request is in its
own layer; middleware that goes on after it passed the request on, without
awaiting `next()`, is outside of this model.

`ParserRegistry` makes the chains: `register`, `createDefaultParser` with the types
that wait for the shared layer, `initHttpServer` and `registerParserMiddleware`.
`RequestBodyMC` lists applications as calls of these, of `hono.use()` and of
`app.use()`: with the defaults, with a parser registered before the application was
created, with `bodyParser: false`, with an adapter whose `useBodyParser()` gives
a default type a limit of its own, and with a parser of a default type once more.
`contentType` is what a parser found before it waits for the bytes.

### BunHttpServer

`server` (the `listen()` call whose server it is), `unixSocketPath` and `waiting`
(the callbacks of `once("listening")`) are the fields of `BunHttpServer`; `listens`
and `closes` are the calls, with what their callers were told; `ticks` is the
queue of `process.nextTick()`, which runs in order, and between which and
the promise of `stop()` further calls come. What `Bun.serve()` returned is external:
a server that accepts until it is stopped, with one connection and one handler to
stand for all. `ListenCall` is `listen()` with `getServeOptions()`, `CloseCall`
and `CloseNotRunning` the branches of `close()`, `CloseAllConnections` the method. The
adapter's `close()` calls `closeAllConnections()` after `close()`, when there is
no server left to stop, so a step of its own would do nothing. Like `http.Server`,
`listen()` is called only while the server does not listen.

## Runs

Every passing run ends with all states explored. State counts are distinct states.

| Run | Instance | States | Shows |
| --- | --- | ---: | --- |
| `route_invoker_get` | `app.use()` middleware before a route, GET | 84,305 | SSE answers every routed layer and no failed handler leaves it open, a finalized request is answered, errors of `next()` are reported |
| `route_invoker_head` | a `MiddlewareConsumer` and an `app.use()` middleware, no route, HEAD | 30,708 | no lost wake-up, a HEAD request is not answered while the stream that became its response is unclosed, the layers refine `NestLayers`, and the release ends |
| `route_invoker_sse` | as `route_invoker_get` | violation | finding 1 |
| `routing` | two registrations over twelve path shapes and a HEAD route behind them, six requests | 739,926 | paths and params mean what Nest's paths say, middleware runs first and once on both paths, HEAD routes precede GET ones, edits of params survive, a closing application answers 503, the fast path refines Hono and answers |
| `routing_suffix` | a suffix inside of an optional group | violation | finding 2 |
| `replies` | three steps of application code per request | 354,804 | direct replies are Hono's, headers survive, the last reply wins, no length of another body |
| `response_stream` | up to 3 chunks | 19,637 | release, no lost wake-up, no chunk into a stream that is over, the streams refine the pipe of `ReplyBody`, the body ends |
| `socket_bridge` | a HEAD request with 2 listeners and a GET request with 1, overlapping | 2,670,944 | one socket listener, connected while needed, one report however emits nest, `req.on('close')` leaves nothing on the socket |
| `multipart_scanner` | bodies of an opening and 3 tokens, 2 boundaries, chunks of 1, 2, 5, 40 bytes | 416,685 | the scan of chunks agrees with the reference and refines the scan of the whole, and every turn of its loop moves on |
| `request_body` | 5 applications, 3 transports, all framings, at most 4 `Request` objects | 2,438,924 | limits hold, bodies survive, parsing and metadata follow the current request |
| `bun_http_server` | 3 `listen()` and 2 `close()` calls, forced or graceful | 81,148 | every call is reported once and truly, a reported close has stopped its server, `address()` is current |
| `bun_http_server_retry` | the same, `listen()` may go from a path to a port after it failed | violation | finding 3 |

Why the bounds are enough.

- *Two layers* in `RouteInvoker`: every interaction is between a layer and the
  next one inside it, or between all routed layers through `waiters`, where two
  already share the response. The two instances cover both kinds of
  middleware, with and without a route, GET and HEAD; the safety properties are
  proved for every `N`, `Waits`, `Routed` and method.
- *Two registrations*, before or after the server is made, with every configuration
  the fast path asks about: the properties of `Routing` relate a layer to another
  one, or the layers of one registration to each other, of which a path has up to
  four. The first registration goes over every shape of `PathsMC` (groups beside and
  inside of each other, literal suffixes, constraints, wildcards, overlaps) as a route
  and as `use()`; the second is one that competes for the same targets.
- *A third registration*, a HEAD route, because the order of two handlers may depend on
  what is registered between them: a HEAD handler runs from a map by Hono path, at the
  first GET or HEAD layer of that path, so `GET`, middleware, `HEAD` of one path run in
  another order than they are registered. The other handlers run where their own layer
  stands, so that a third one between two changes nothing in their order. The four properties
  on order and edits also hold for any three that compete (`Offered <- OfferedOrder`,
  `Requests <- RequestsOrder`), and are proved for every number. The fetch and the getPath
  of the application's own, and the requests that fill the cache, come before the last of the
  three steps.
- *Three steps* in `Replies`: a header, a reply and a header or another reply, in
  any order, with an error between them. The properties also hold with four
  (5.3 million states). The next request starts from nothing but `jsonHeaders`.
- *Three chunks*: each of the two queues and each `pull()` holds at most one, so
  three chunks fill the pipeline with one to spare; proved for every number.
- *Three listeners*: two of one request, of which one keeps the bridge on the socket
  when the other leaves, and one of a request that shares the socket. The two are
  interchangeable (`SYMMETRY`; the run has no liveness property). Proved for
  every number.
- *Multipart*: `MAX_PART_HEADER_BYTES` is 9, so both sides of the limit are
  reached by three tokens; the limits (2 parts, 1 file, 1 field, 2 file bytes,
  24 bytes) are all exceeded by some body. A chunk of 40 bytes is a whole body,
  1 and 2 cut inside of every token. One boundary is made of dashes, so that a
  close delimiter overlaps a delimiter.
- *Four `Request` objects*: the server's, a replacement, a counted copy and an
  unread copy; two replacements without one of the copies. Body sizes 1 and 2
  lie on both sides of limit 1, and at limit 2.

- *Three `listen()` and two `close()` calls*: fail, start, close, start again, with a
  second close while the stop of the first or the new server is pending. Each
  call defers one event, so all of their orders are met.

`CHECK_DEADLOCK FALSE` stands where the system really stops: a stream that is
over, a closed socket, a body that was read, a server whose calls are used up. The
`RouteInvoker`, `Routing` and `Replies` runs check deadlock: an answered request may
still be acted on by late callbacks, stays answered, or is followed by the next one.

## Fairness

- `RouteInvoker`: weak fairness of returning from synchronous code, of every
  promise reaction and of `compose()`, because the event loop runs queued jobs;
  of the end of every handler, except of a route that keeps an SSE stream it
  started, which may stay pending for ever; and of `close` of a destroyed
  stream. Handlers need not reply or call `next()`. A handler that never settles
  and never replies hangs in any framework; it is excluded.
- `Routing`: weak fairness of `FastStep`, the exchange's own steps and the promises it
  awaits, which are synchronous code and jobs of the event loop. The route need not
  report (`Answered` is conditional on it), the application need not be configured, and
  Hono's path needs no fairness because its liveness is `RouteInvoker`'s.
- `ResponseStream`: weak fairness of each pending event, of `pull()`s and their
  reactions and of the server's reader. The source need not push or end, the client
  need not leave.
- `BunHttpServer`: weak fairness of the queued ticks; of the end of handlers, but not
  under `forceCloseConnections`, where a forced stop must not wait for them; and
  strong fairness of the end of a graceful stop, because requests may follow each
  other on an open connection while Bun waits for a moment without a handler.

`SocketBridge`, `MultipartScanner`, `RequestBody` and `Replies` have no liveness property.
That `write()` ends follows from the action property `ScanAdvances`, which is proved, too.

## Proofs

All are checked by `tlapm` from the assumptions on constants that the modules
state (`ASSUME`), which TLC evaluates in the runs. Each `...Proofs` module has the
lemmas about operators first, then one lemma per action or group of actions, then
`Inductive` (`Spec => []IInv`) and the corollaries.

- `RouteInvokerProofs`: for every `N`, every `Waits`, `Routed`, GET and HEAD.
  `IInv` adds to the properties: a handler was called only if all outer ones
  called `next()` (`ChainOrder`); where a reaction can be, for each state of the
  promise it reacts to (`StageInv`): a waiting layer is registered as a listener,
  a woken one has a reason; a routed layer settles by finalizing (`ResultInv`);
  and until the stream starts, every routed layer that returned is in the waiter
  chain (`SseInv`), which is why the start answers them all. `NoLostWakeUp` is not
  inductive without `StageInv`: that the wait is registered is what lets
  `finalizeResponse()` wake it. Proved: `TypeOK`, `NoLostWakeUp`,
  `ResolvedMeansFinalized`, `SseAnswersRoutedLayers`, `FailedHandlerEndsStream`,
  and the action properties `InnerFirst` and `MiddlewareWaits`.
  `HeadWaitsForItsStream` proves `HeadAnswersAfterClose` from two more invariants.
  `StartInv`: a layer around the start that resolves without a `Response` of its own does so
  by the layer behind it, since it had called `next()`. `HeadInv` carries the close
  outward: a routed layer around the start resolves only when the stream is closed, a fulfilled
  `next()` around it means that the stream is closed or that some layer between is
  `Excused`, and so does the answer.
  `LayersAlwaysNest` proves the refinement of `NestLayers`, one lemma per action or group of
  reactions. It needs one more invariant, `Entered`: a layer that settled, or waits for a
  stream, was entered and its handler's call returned, so that a stream settles running
  layers only; and only a HEAD request releases bodies.
- `ResponseStreamProofs`: for every number of chunks. The core of `IInv` is
  `NothingLost`: delivered, queued, in transit and buffered chunks are all
  chunks produced, until something fails or is cancelled; with `InnerInv` and
  `OuterInv` a body that closes cleanly has passed them all (`NoTruncatedBody`).
  `WakeInv` says which event will wake a waiting `pull()`.
  `StreamImplementsReplyBody` proves the refinement of `ReplyBody`: the steps of the inner
  stream, of reads and of pulls are stutters, the clean end of the pipe is `NothingLost`
  with empty queues, and its closed source is that a client that is gone has
  finished the stream (`GoneFinishes`).
- `SocketBridgeProofs`: for every set of requests, listeners and owners.
  `RequestInv` says that a listener of `req.on('close')` is registered with all
  its sources or with none, and is called at most once, although it may stay in the copy
  of an emit after an abort or a `signalClose()` inside of it called it; `ReleaseInv` that a bridge
  that listens has a reason, from which `ResponseReleasesSocket` follows.
- `MultipartScannerProofs`: for every set of bodies, boundaries, limits, chunk
  sizes and header bound. `TailInv` bounds what `keep()` holds back: fewer bytes than
  a delimiter and its suffix, or a header block; the carry bound and the limits
  follow, and `ScanMovesOn` from the fact that each branch keeps, ends, or takes a
  later offset.
  `ScannerImplementsWholeScan` is the reason why a cut does not matter, for every body
  and every cut. `Follows` says that what `write()` holds, or keeps for the next
  chunk, are the last bytes that arrived (`Tracks`), which places `position`, the next byte
  to look at, in the body. That `keep()` drops only bytes at which nothing can begin, and
  that what is found first in the buffer is found first in the body, are lemmas about `HasAt`.
- `BunHttpServerProofs`: for every number of calls. `StopInv` says that a `close()` that
  found a server has stopped it, `TickInv` what a deferred report may claim, and
  `ServerInv` that under `forceCloseConnections` no graceful stop comes first, without
  which Bun would ignore the forced one; together they make `ToldInv`, the promise of
  a reported close, inductive. `AddressInv` gives `AddressIsCurrent` when
  `RetriesElsewhere` is false.
- `ReplyProofs`: for every number of steps of the application. A lemma per operator
  says which context it leaves. `TypeOK` includes that no response shares the headers
  of `JSON_HEADERS`, so that a reply of the next request starts from the same ones.
  `UntouchedInv` says that a context that the tracking calls untouched is as Hono made
  it, but for the status, which the tracking knows; with it `DirectIsGeneric` compares
  two expressions, and without it, it is not inductive: the state does not show what
  was done to it.
  That `HeadersSurvive` follows from `XInv`: each operator keeps the value of `x` that
  the context would send (`XOf`, in `ctx.res` or prepared). A reply built from the
  context has it, and one that is not gets it when it is finalized, since `ctx.res` is
  read before. A direct reply, which has none, needs an untouched context, and
  `UntouchedInv` says that one has no `x`.
  `LastReplyWins` and `LengthIsOwn` follow from `AnswerInv`. Its core is `LastInv`: once a
  reply with a body was made, `ctx.res` and the response that was finalized last both have
  its status, body, type and length (`Settled`), although every header set after it copies
  or changes one of them. Neither alone is enough: the writer sends `ctx.res`, but the error
  handler's result is merged from the finalized one. That the new reply is not taken
  for the one that is there (`AlreadyFinalized`) rests on its being a new object. `LengthInv`
  says that only a file puts a length into headers (`Plain` is that none did).
- `RequestBodyProofs`: for every chain of layers, every request of every transport, every
  set of replacements and every number of `Request` objects. `IntactInv` is
  `BodyIsPreserved` between two layers: what `ctx.req.raw` is, or is to be a copy of, has
  the body installed last, unread; `AwaitInv` says that a layer that waits for bytes has
  `ctx.req.raw` before it, and not a pending copy. `HeaderInv` says that the caches
  describe the current request (`CachesOK`), that this one has the headers of the source
  once the state has seen it (`CurrentOK`), and what a layer knew before it waited
  (`CountInv`, `ReadInv`); `LimitHolds`, `ParsedAsDeclared` and `MetadataIsCurrent` follow.
  `HeaderInv` and these three have the hypothesis `~RestoresReplaced`, which the run has,
  too: without it the code breaks them (see *Findings*). `BodyIsPreserved` needs no hypothesis.
- `RoutingProofs`: for every set of paths, registrations, requests and targets, every
  expansion and every router (`ParamsOf`), and every number of registrations.
  `FastInv` is what the phase of the exchange says of the layer and the error at hand;
  with it every step of `FastDispatch` is one of `HonoCompose` or a stutter
  (`KeepsHonoSemantics`). `WalkInv` is what the other proofs rest on: the layers are in
  the order of their registrations (`RoutesInv`), nothing walks before the
  request arrives (`ArrivalInv`), a fast route has no middleware (`FastRouteInv`), and the
  layers ahead are registered ones or the handlers of a HEAD path that was tried
  (`TodoInv`). Each property then needs what its hazard is about. `OnceInv`: a middleware
  that ran is in its `WeakSet`, and nothing else is. `LateInv`: a request that comes after
  `beforeClose` has the shutdown layer ahead, behind layers that pass on. `HeadInv`: the
  HEAD handlers of a tried path ran or are ahead of its GET routes. `EditsInv`:
  `req.params` is what the last handler left. `OrderInv`: each middleware that the request
  requires ran or is ahead of every handler that belongs later, where a HEAD handler belongs
  to the first GET or HEAD route of its Hono path, at which the map runs it (`Precedes`).
  `MiddlewareFirst` is about Nest's paths, `OrderInv` about Hono's; that they match the same
  targets is `PathsCovered`, so the theorem is `Spec /\ []PathsCovered => []MiddlewareFirst`.
  `PathsStayCovered` reduces `PathsCovered`, for every sequence of registrations, to
  `PathsAgree`: that each registration by itself matches what its Nest path does. That one
  is about the expansion of `RoutePaths`, which is recursive. `MiddlewareStaysFirst`
  joins the two: `MiddlewareFirst` from that assumption on the constants alone.
  `ParamsStayNest` does the same for `ParamsAreNest`, from `ParamsAgree`: of each
  registration by itself, the first of its Hono paths that matches gives params that the
  Nest path names. For a HEAD route each path that matches has to, since HEAD handlers run
  from a map by Hono path, at the first layer of that path, which may be another
  registration's. `ParamsInv` keeps this in the table of routes and in the map, whatever
  is registered around it; `GivenInv` carries it along the walk: of each registration ahead,
  the first layer that may run gives the right params, or its handler ran before (which is
  what lets `WeakSet`s skip the later ones). TLC evaluates `PathsAgree` and `ParamsAgree`
  for what `routing` offers (`OfferedAgree` in `RoutingMC`);
  `routing_suffix` offers the path that breaks the second (finding 2), and a HEAD route whose Hono paths overlap is not offered,
  since it breaks the second, too (see *Findings*).

Proved and not checked in a run of their own: the type invariants, the strengthened
invariants, `CarryIsBounded`, and what a refinement that is checked contains:
`InnerFirst`, `MiddlewareWaits` and `ResolvedMeansFinalized` (`LayersNest`),
`CleanEndIsComplete` (`ImplementsReplyBody`), `AcceptedIsWithinLimits` (`ImplementsWholeScan`).

Only model-checked: liveness (`FinalizedIsAnswered`, `NextErrorIsReported`,
`HeadReleaseEnds`, `Answered`, `BodyEnds`, `CallsAreReported`), which the prover does not
do; `AgreesWithWholeScan`, whose reference scan is recursive; and that `RoutePaths` gives
`PathsAgree` and `ParamsAgree`, for the paths of `RoutingMC`: the expansion and the reference
reading are recursive as well, and all three would need induction over data.

## Findings

1. `route_invoker_sse` (code bug). `writeHead()` hands one `Response` to the
   waiters of all `runRoute()` layers of the request. The first layer's
   `createFetchResponse()` locks its body with `getReader()`, so the next layer's
   throws and its promise rejects: an SSE route behind `app.use()` middleware can
   answer with the error handler's response. `runRoute()`'s doc says it resolves
   once an SSE stream starts (`src/routing/route-invoker.ts:147-152`).
2. `routing_suffix` (code bug). `getOptionalParameterSuffixes()` removes an optional group
   with what it holds before it looks for the next (`src/routing/route-paths.ts:89`), so the
   literal suffix of a parameter inside of a group, `/a{/:name{.json}}`, is not found,
   while the Hono path has lost it: the parameter keeps `.json`, which the doc of the
   function (lines 77-80) says is stripped. `routing` offers no such path.
3. `bun_http_server_retry` (code bug). `getServeOptions()` sets `unixSocketPath` before
   `Bun.serve()` has succeeded (`src/server/bun-http-server.ts:153`), and neither a failed
   `listen()` nor a later one on a port resets it; `address()`, and with it
   `app.getUrl()`, returns the path of the failed call while the server listens on a port.
   `bun_http_server` has `RetriesElsewhere = FALSE`: after a failure the application tries
   the same kind of address again.

Smaller disagreements of code and doc, which the models show when asked, but no
run checks:

- A `close` listener added through `req.socket` stays on the shared keep-alive socket
  after a response that is not HEAD; the doc of `createRequestSocketBridge()` says such
  listeners are released (`src/request/socket-bridge.ts:17-20`). `ResponseReleasesSocket`
  claims it for `req.on('close')` only; `ReleasedAfterResponse` is the claim of the doc.
- `syncRawRequest()` returns early for a `Request` it has seen, so when middleware puts
  an earlier request back after the adapter adopted a replacement, method, path, content
  type and skip decision stay those of the replacement
  (`src/request/request-state-core.ts:171`, docs at 140-144 and 150-154). With
  `RestoresReplaced = TRUE` in `RequestBody.cfg`, TLC finds `MetadataIsCurrent` violated: a
  HEAD request is replaced by a GET request for another path, adopted and put back, and the
  Nest layers behind are told GET and the other path. `request_body` has
  `FALSE`: middleware restores no request that the adapter has seen replaced.
- A HEAD handler runs at the first GET or HEAD layer of its Hono path, so with `GET /a`,
  middleware for `/a` and `HEAD /a` registered in this order it runs before the middleware
  (`src/routing/route-registry.ts:114-133`), while the doc of `isRouteOrderSensitive()` says
  that Hono matches routes in registration order (`src/hono-adapter.ts:309-312`).
  `MiddlewareFirst` counts a HEAD handler from that first layer. A HEAD handler that calls
  `next()` also runs once for each of its Hono paths that matches, not once per request.
- An edit of `req.params` is lost across a layer whose path lacks the parameter
  (`src/request/route-params.ts:32`, doc at 38-42): `EditsReachRoute` with `OfferedEdits`
  and `MaxSetup = 3`. `EditsReachNextLayers` claims it where every layer between has it.
- A HEAD route whose Hono paths overlap may be given the params of the shorter reading.
  HEAD handlers are kept by Hono path (`src/routing/route-registry.ts`), so when `GET /{*w}` is
  registered before `HEAD {/a}/*w`, a HEAD request for `/a/v` runs the HEAD handler at the
  first layer of `/*w`, with `w` = `a/v`; by itself the same route is given `w` = `v`, from
  `/a/*w`. `ParamsAreNest` is violated with these two offered.
- A reply that replaces a `StreamableFile` keeps the file's `Content-Length`
  (`createStreamableFileResponse()` sets it on `ctx.res`); `LengthIsOwn` excludes it.

## Not modelled

- The value of a conversion, where no property depends on it: parsed JSON and forms,
  query strings, URLs, cookies, the other headers of replies.
- `getBoundary()`, `assertMultipartFormLimits()`, `parseBodyLimit()`, `client-ip.ts`,
  `path-matching.ts`: pure functions of one request or of the options, without state or
  order, which the repository's tables of tests reach.
- The self-checks of `node-internals.ts` and `hono-context.ts`, which probe the installed
  libraries once at start and disable a fast path; both outcomes are covered, by
  `writer = "none"` in `Replies` and by the requests on Hono's path in `Routing`.
- User code that assigns `ctx.res` or `ctx.req.raw` behind the adapter's back at
  times other than those described, unhandled rejections outside of the request.
- CORS, static assets, package entry: option mapping to Hono's middleware. In `Routing`
  `enableCors()` is a catch-all layer.
- `bench/`, examples and assets.

## Plan

What is left, in order of importance.

1. Proofs: every safety property that a run checks is proved, but for
   `AgreesWithWholeScan`. What could still be stated is that `Routing`'s path through
   Hono, too, implements `NestLayers`, which would join it to `RouteInvoker`.
2. The other events of `req.on()` and `req.socket`, in `SocketBridge`.
3. Pure functions against reference definitions: `client-ip.ts` (trusted proxies),
   `path-matching.ts` (the most specific limit).

Runs and properties are kept few: a plainer property that is proved makes room for one
that only TLC can check.
