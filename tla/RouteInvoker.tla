---------------------------- MODULE RouteInvoker ----------------------------
(***************************************************************************)
(* One request going through the Nest layers that the adapter registers on *)
(* Hono (src/routing/route-invoker.ts): callHandler(), runRoute(),         *)
(* finalizeHeadResponse(), the finalize listeners of helpers/response.ts   *)
(* and the waiter chain of response/sse-bridge.ts.                         *)
(*                                                                         *)
(* Layers are numbered from the outside (1) to the inside (N).  The user's *)
(* handlers are not known, so each one does whatever JavaScript lets it    *)
(* do: call next() or next(error), reply, start an SSE stream, return,     *)
(* throw, and go on doing so in callbacks after it returned.  JavaScript   *)
(* runs to completion: while a handler is in its synchronous part nothing  *)
(* but that handler, and the layers it calls through next(), makes a step. *)
(* Hono's compose() around the layers is external and appears as the       *)
(* actions LayerResolved, LayerRejected and EndOfChain.                    *)
(***************************************************************************)
EXTENDS Naturals, Sequences

CONSTANTS
    N,          \* number of layers
    Waits,      \* layers registered with waitForNext (middleware)
    Routed,     \* layers run by runRoute(); the others by invokeHandler()
    HeadRequest \* is the request a HEAD request

Layers == 1..N

ASSUME LayersAssumption == N \in Nat \ {0}
ASSUME KindAssumption ==
    /\ Waits \subseteq Layers
    /\ Routed \subseteq Layers
    /\ Layers \ Routed \subseteq Waits     \* invokeHandler(..., true)
ASSUME HeadAssumption == HeadRequest \in BOOLEAN

VARIABLES
    handler,    \* the handler's call, and then the promise it returned
    stage,      \* progress of callHandler()'s reactions to that promise
    nextp,      \* callHandler()'s nextPromise
    result,     \* the promise the layer returned to Hono
    streaming,  \* runRoute()'s streaming flag
    listeners,  \* layers registered with onResponseFinalized()
    waiters,    \* state.sseWaiter, in the order the chain calls them
    res,        \* ctx.res, as far as ctx.finalized and HEAD tell it apart
    sse,        \* the stream of state.sse, "none" until writeHead()
    bridge,     \* state.sse.response: "none", "free" or "locked" (its body)
    sseBy,      \* the layer whose handler called writeHead(), 0 if none
    answer      \* what hono.fetch() delivers

handlerVars == <<handler, stage, nextp>>
layerVars == <<result, streaming>>
ctxVars == <<listeners, waiters, res>>
sseVars == <<sse, bridge, sseBy>>
vars == <<handlerVars, layerVars, ctxVars, sseVars, answer>>

Fulfilled == {"value", "response"}
Settled == {"resolved", "failed", "locked"}
finalized == res # "none"

TypeOK ==
    /\ handler \in [Layers -> {"idle", "sync", "async", "error"} \cup Fulfilled]
    /\ stage \in [Layers -> {"handler", "waiting", "woken", "next", "reported"}]
    /\ nextp \in [Layers -> {"none", "pending", "resolved", "rejected"}]
    /\ result \in [Layers -> {"none", "closing", "cancelling"} \cup Settled]
    /\ streaming \in [Layers -> BOOLEAN]
    /\ listeners \subseteq Layers
    /\ waiters \in Seq(Layers)
    /\ res \in {"none", "empty", "body", "sse"}
    /\ sse \in {"none", "open", "destroyed", "closed"}
    /\ bridge \in {"none", "free", "locked"}
    /\ sseBy \in 0..N
    /\ answer \in {"none", "response", "rejection"}

Init ==
    /\ handler = [l \in Layers |-> IF l = 1 THEN "sync" ELSE "idle"]
    /\ stage = [l \in Layers |-> "handler"]
    /\ nextp = [l \in Layers |-> "none"]
    /\ result = [l \in Layers |-> "none"]
    /\ streaming = [l \in Layers |-> FALSE]
    /\ listeners = {}
    /\ waiters = <<>>
    /\ res = "none"
    /\ sse = "none"
    /\ bridge = "none"
    /\ sseBy = 0
    /\ answer = "none"

-----------------------------------------------------------------------------
(* The event loop: the innermost handler in its synchronous part owns the   *)
(* thread; a callback of a handler, or a promise reaction, needs it free.   *)

Free == \A m \in Layers : handler[m] # "sync"

MayRun(l) ==
    IF handler[l] = "sync"
    THEN \A m \in Layers : m > l => handler[m] # "sync"
    ELSE handler[l] # "idle" /\ Free

(* Mutant: finalizeResponse() forgets the listeners.                        *)
NotifiedNobody(st) == st

(* finalizeResponse() resolves the promise of every registered listener.    *)
Notified(st) ==
    [l \in Layers |->
        IF l \in listeners /\ st[l] = "waiting" THEN "woken" ELSE st[l]]

(* Mutant: nestNext() does not call notifyNextCall().                       *)
NextNotNotified(l) == stage

(* notifyNextCall() resolves the promise of the layer's own wait.           *)
NextNotified(l) ==
    IF stage[l] = "waiting" THEN [stage EXCEPT ![l] = "woken"] ELSE stage

(* New responses with and without a body; only HEAD tells them apart.       *)
NewResponses == IF HeadRequest THEN {"empty", "body"} ELSE {"body"}
HasBody(r) == r \in {"body", "sse"}

(* Mutant: a stream is cancelled like any other body.                       *)
AnyBodyCancelled(r, s) ==
    IF HeadRequest /\ HasBody(r) THEN "cancelling" ELSE "resolved"

(* finalizeRouteResponse() resolves at once, or, for a HEAD response with a *)
(* body, after finalizeHeadResponse() has released it: a started SSE stream *)
(* is destroyed at once and waited for, any other body is cancelled.        *)
Finalizing(r, s) ==
    IF ~(HeadRequest /\ HasBody(r)) THEN "resolved"
    ELSE IF s = "none" THEN "cancelling" ELSE "closing"

(* Mutant: the SSE stream of a HEAD request is not destroyed.               *)
ReleasedNever(r, s) == s

Released(r, s) ==
    IF HeadRequest /\ HasBody(r) /\ s = "open" THEN "destroyed" ELSE s

(* finishSse() of every layer of a chain ws.  The first layer not settled   *)
(* yet wraps the body of bridge.response, which locks it; createFetch-      *)
(* Response() throws for the layers after it, and finish() rejects them.    *)
Unsettled(ws) == {i \in DOMAIN ws : result[ws[i]] = "none"}

SseResult(ws, lock) ==
    [l \in Layers |->
        IF \E i \in Unsettled(ws) :
            ws[i] = l /\ (lock = "locked" \/ \E j \in Unsettled(ws) : j < i)
        THEN "locked"
        ELSE IF \E i \in Unsettled(ws) : ws[i] = l
             THEN Finalizing("sse", "open")
             ELSE result[l]]

SseLock(ws, lock) == IF Unsettled(ws) = {} THEN lock ELSE "locked"

SseStreaming(ws) ==
    [l \in Layers |-> streaming[l] \/ \E i \in DOMAIN ws : ws[i] = l]

(* The stream after the chain: a HEAD request destroys it.                  *)
SseReleased(ws, lock, s) ==
    IF Unsettled(ws) # {} /\ lock = "free" THEN Released("sse", s) ELSE s

-----------------------------------------------------------------------------
(* Steps of a user's handler.                                               *)

(* nestNext(): next() runs the next layer's synchronous part.  The last     *)
(* layer's next() is the end of Hono's chain: the not-found handler is      *)
(* called there, except in a finalized context, where nothing is left to do.*)
CallNext(l) ==
    /\ MayRun(l)
    /\ nextp[l] = "none"
    /\ nextp' = [nextp EXCEPT ![l] = IF l = N /\ finalized THEN "resolved" ELSE "pending"]
    /\ stage' = NextNotified(l)
    /\ handler' = IF l < N THEN [handler EXCEPT ![l + 1] = "sync"] ELSE handler
    /\ UNCHANGED <<layerVars, ctxVars, sseVars, answer>>

(* nestNext(error): nextPromise is a rejected promise.                      *)
CallNextWithError(l) ==
    /\ MayRun(l)
    /\ nextp[l] = "none"
    /\ nextp' = [nextp EXCEPT ![l] = "rejected"]
    /\ stage' = NextNotified(l)
    /\ UNCHANGED <<handler, layerVars, ctxVars, sseVars, answer>>

(* reply() and redirect(): finalizeResponse() with a new response, which    *)
(* replaces an earlier one.                                                 *)
Reply(l) ==
    /\ MayRun(l)
    /\ res' \in NewResponses
    /\ stage' = Notified(stage)
    /\ UNCHANGED <<handler, nextp, layerVars, listeners, waiters, sseVars, answer>>

(* writeHead() of the SSE bridge, when the context is not finalized: the    *)
(* stream becomes the response and the waiters are called.                  *)
StartSse(l) ==
    /\ MayRun(l)
    /\ sse = "none"
    /\ ~finalized
    /\ sseBy' = l
    /\ res' = "sse"
    /\ stage' = Notified(stage)
    /\ streaming' = SseStreaming(waiters)
    /\ result' = SseResult(waiters, "free")
    /\ bridge' = SseLock(waiters, "free")
    /\ sse' = SseReleased(waiters, "free", "open")
    /\ UNCHANGED <<handler, nextp, listeners, waiters, answer>>

(* writeHead() on a finalized context: nothing reads the stream.            *)
StartSseLate(l) ==
    /\ MayRun(l)
    /\ sse = "none"
    /\ finalized
    /\ sse' = "open"
    /\ sseBy' = l
    /\ UNCHANGED <<handlerVars, layerVars, ctxVars, bridge, answer>>

(* Mutant: runRoute() does not look at state.sse before it joins the chain. *)
NeverHasSseResponse == FALSE
HasSseResponse == bridge # "none"

(* The handler's call returns or throws (out = "error"), and with it        *)
(* callHandler(); runRoute() then looks at state.sse and joins the chain.   *)
Return(l, out) ==
    /\ handler[l] = "sync"
    /\ MayRun(l)
    /\ handler' = [handler EXCEPT ![l] = out]
    /\ IF l \notin Routed
       THEN UNCHANGED <<layerVars, waiters, bridge, sse>>
       ELSE IF HasSseResponse
       THEN /\ streaming' = SseStreaming(<<l>>)
            /\ result' = SseResult(<<l>>, bridge)
            /\ bridge' = SseLock(<<l>>, bridge)
            /\ sse' = SseReleased(<<l>>, bridge, sse)
            /\ UNCHANGED waiters
       ELSE /\ waiters' = Append(waiters, l)
            /\ UNCHANGED <<layerVars, bridge, sse>>
    /\ UNCHANGED <<stage, nextp, listeners, res, sseBy, answer>>

(* The promise an asynchronous handler returned settles.                    *)
FinishHandler(l, out) ==
    /\ Free
    /\ handler[l] = "async"
    /\ handler' = [handler EXCEPT ![l] = out]
    /\ UNCHANGED <<stage, nextp, layerVars, ctxVars, sseVars, answer>>

-----------------------------------------------------------------------------
(* Promise reactions of callHandler() and runRoute().                       *)

(* onSettled: finish() of a routed layer, resolve() of an invokeHandler()   *)
(* layer.  A handler's Response, or the default empty one, finalizes the    *)
(* context; a response that is finalized already is kept.                   *)
OnSettled(l) ==
    /\ IF l \notin Routed
       THEN /\ result' = [result EXCEPT ![l] = "resolved"]
            /\ stage' = [stage EXCEPT ![l] = "reported"]
            /\ UNCHANGED <<res, sse>>
       ELSE IF result[l] # "none"
       THEN /\ stage' = [stage EXCEPT ![l] = "reported"]
            /\ UNCHANGED <<result, res, sse>>
       ELSE \E r \in IF handler[l] = "response" THEN NewResponses
                     ELSE IF finalized THEN {res} ELSE {"empty"} :
            /\ res' = r
            /\ sse' = Released(r, sse)
            /\ result' = [result EXCEPT ![l] = Finalizing(r, sse)]
            /\ stage' = Notified([stage EXCEPT ![l] = "reported"])
    /\ UNCHANGED <<streaming, bridge, sseBy>>

(* onError: a streaming layer destroys the stream; a layer not settled yet  *)
(* rejects.                                                                 *)
(* Mutant: the stream is left alone.                                        *)
StreamKept(l) == sse
StreamAfterError(l) == IF streaming[l] /\ sse = "open" THEN "destroyed" ELSE sse
ResultAfterError(l) ==
    IF result[l] = "none" THEN [result EXCEPT ![l] = "failed"] ELSE result

OnError(l) ==
    /\ stage' = [stage EXCEPT ![l] = "reported"]
    /\ sse' = StreamAfterError(l)
    /\ result' = ResultAfterError(l)
    /\ UNCHANGED <<res, streaming, bridge, sseBy>>

(* Mutant: afterNext() does not wait for nextPromise.                       *)
AfterHandler(l) == OnSettled(l)

(* afterNext(): waits for nextPromise when next was called.                 *)
AfterNext(l) ==
    IF nextp[l] = "none"
    THEN OnSettled(l)
    ELSE /\ stage' = [stage EXCEPT ![l] = "next"]
         /\ UNCHANGED <<result, streaming, res, sseVars>>

(* The condition under which settle() does not wait.                        *)
NeedsNoWait(l) ==
    \/ nextp[l] # "none"
    \/ l \notin Waits
    \/ handler[l] = "response"
    \/ finalized

(* settle(): the reaction to the handler's fulfilled promise.               *)
Settle(l) ==
    /\ Free
    /\ handler[l] \in Fulfilled
    /\ stage[l] = "handler"
    /\ IF NeedsNoWait(l)
       THEN AfterNext(l) /\ UNCHANGED listeners
       ELSE /\ stage' = [stage EXCEPT ![l] = "waiting"]
            /\ listeners' = listeners \cup {l}
            /\ UNCHANGED <<result, streaming, res, sseVars>>
    /\ UNCHANGED <<handler, nextp, waiters, answer>>

(* The reaction to the wait's promise.                                      *)
WaitOver(l) ==
    /\ Free
    /\ stage[l] = "woken"
    /\ listeners' = listeners \ {l}
    /\ AfterNext(l)
    /\ UNCHANGED <<handler, nextp, waiters, answer>>

(* The reactions to nextPromise.                                            *)
NextFulfilled(l) ==
    /\ Free
    /\ stage[l] = "next"
    /\ nextp[l] = "resolved"
    /\ OnSettled(l)
    /\ UNCHANGED <<handler, nextp, listeners, waiters, answer>>

NextRejected(l) ==
    /\ Free
    /\ stage[l] = "next"
    /\ nextp[l] = "rejected"
    /\ OnError(l)
    /\ UNCHANGED <<handler, nextp, listeners, waiters, answer>>

(* The reaction to the handler's rejected promise or its exception.         *)
HandlerRejected(l) ==
    /\ Free
    /\ handler[l] = "error"
    /\ stage[l] = "handler"
    /\ OnError(l)
    /\ UNCHANGED <<handler, nextp, listeners, waiters, answer>>

(* finalizeHeadResponse() after its await: the bodiless response.           *)
BodyReleased(l) ==
    \/ result[l] = "cancelling"
    \/ result[l] = "closing" /\ sse = "closed"

HeadReleased(l) ==
    /\ Free
    /\ BodyReleased(l)
    /\ res' = "empty"
    /\ stage' = Notified(stage)
    /\ result' = [result EXCEPT ![l] = "resolved"]
    /\ UNCHANGED <<handler, nextp, streaming, listeners, waiters, sseVars, answer>>

-----------------------------------------------------------------------------
(* The stream and Hono, around the adapter.                                 *)

(* The stream emits "close": it was destroyed, or it ended and was read, or *)
(* the client went away.                                                    *)
StreamCloses ==
    /\ Free
    /\ sse \in {"open", "destroyed"}
    /\ sse' = "closed"
    /\ UNCHANGED <<handlerVars, layerVars, ctxVars, bridge, sseBy, answer>>

(* Hono's compose() hands the outcome of layer l to the layer outside it.   *)
Outcome(l, ok) ==
    IF l = 1
    THEN /\ answer = "none"
         /\ answer' = IF ok THEN "response" ELSE "rejection"
         /\ UNCHANGED nextp
    ELSE /\ nextp[l - 1] = "pending"
         /\ nextp' = [nextp EXCEPT ![l - 1] = IF ok THEN "resolved" ELSE "rejected"]
         /\ UNCHANGED answer

(* A resolved layer: compose() assigns its Response to a context that is    *)
(* not finalized, without calling the finalize listeners; a context that    *)
(* nobody finalized is an error at the end of Hono's dispatch.              *)
LayerResolved(l) ==
    /\ Free
    /\ result[l] = "resolved"
    /\ IF finalized \/ handler[l] # "response" THEN res' = res
       ELSE res' \in NewResponses
    /\ Outcome(l, l > 1 \/ res' # "none")
    /\ UNCHANGED <<handler, stage, layerVars, listeners, waiters, sseVars>>

(* A rejected layer: the error handler installed by setErrorHandler()       *)
(* finalizes the context with getFinalizedResponse(), or fails itself.      *)
LayerRejected(l) ==
    /\ Free
    /\ result[l] \in {"failed", "locked"}
    /\ \/ /\ IF finalized THEN res' = res
             ELSE res' \in NewResponses
          /\ stage' = Notified(stage)
          /\ Outcome(l, TRUE)
       \/ /\ UNCHANGED <<res, stage>>
          /\ Outcome(l, FALSE)
    /\ UNCHANGED <<handler, layerVars, listeners, waiters, sseVars>>

(* The handler installed by setNotFoundHandler(), which next() of the       *)
(* innermost layer called, finalizes the context unless somebody did        *)
(* meanwhile, or fails.                                                     *)
EndOfChain ==
    /\ Free
    /\ nextp[N] = "pending"
    /\ \/ /\ IF finalized THEN res' = res
             ELSE res' \in NewResponses
          /\ stage' = Notified(stage)
          /\ nextp' = [nextp EXCEPT ![N] = "resolved"]
       \/ /\ UNCHANGED <<res, stage>>
          /\ nextp' = [nextp EXCEPT ![N] = "rejected"]
    /\ UNCHANGED <<handler, layerVars, listeners, waiters, sseVars, answer>>

Returns(l) == \E out \in {"async", "error"} \cup Fulfilled : Return(l, out)
Finishes(l) == \E out \in {"error"} \cup Fulfilled : FinishHandler(l, out)

HandlerStep(l) ==
    \/ CallNext(l) \/ CallNextWithError(l)
    \/ Reply(l) \/ StartSse(l) \/ StartSseLate(l)
    \/ Returns(l) \/ Finishes(l)

Reaction(l) ==
    \/ Settle(l) \/ WaitOver(l)
    \/ NextFulfilled(l) \/ NextRejected(l) \/ HandlerRejected(l)
    \/ HeadReleased(l)

Compose(l) == LayerResolved(l) \/ LayerRejected(l)

Next ==
    \/ \E l \in Layers : HandlerStep(l) \/ Reaction(l) \/ Compose(l)
    \/ StreamCloses
    \/ EndOfChain

Spec == Init /\ [][Next]_vars

(* A route whose handler may stay pending while its SSE stream is open.     *)
KeepsStream(l) == l \in Routed /\ sseBy = l /\ bridge # "none"

(* The event loop runs every queued reaction and returns from every         *)
(* synchronous call; a destroyed stream emits "close".  A handler's promise *)
(* settles eventually, except that of a route that keeps an SSE stream.     *)
Fairness ==
    /\ \A l \in Layers :
        /\ WF_vars(Returns(l))
        /\ WF_vars(Reaction(l))
        /\ WF_vars(Compose(l))
        /\ WF_vars(~KeepsStream(l) /\ Finishes(l))
    /\ WF_vars(sse = "destroyed" /\ StreamCloses)
    /\ WF_vars(EndOfChain)

FairSpec == Spec /\ Fairness

-----------------------------------------------------------------------------
(* Safety.                                                                  *)

(* A layer that answered with a Response of its own: Hono's compose() stops *)
(* looking at the layers behind it, and assigns the Response itself.        *)
Bypassed(l) ==
    \E k \in Layers :
        k < l /\ k \notin Routed /\ handler[k] = "response" /\ result[k] = "resolved"

(* A waiting middleware has neither called next() nor been overtaken by a   *)
(* finalized response: settle() checks and registers in one synchronous     *)
(* block, and every finalizeResponse() wakes the wait, so no wake-up is     *)
(* lost between the handler's return and the wait.  The one exception is a  *)
(* layer behind a MiddlewareConsumer middleware that returned a Response    *)
(* and called next() only afterwards (route-invoker.ts:84-107).             *)
NoLostWakeUp ==
    \A l \in Layers :
        stage[l] = "waiting" => nextp[l] = "none" /\ (finalized => Bypassed(l))

(* As soon as the SSE stream is the response, no routed layer whose handler *)
(* returned is left waiting for that handler, whether the stream started    *)
(* before or after the layer joined the waiter chain (route-invoker.ts:195).*)
SseAnswersRoutedLayers ==
    bridge # "none" =>
        \A l \in Routed : handler[l] \notin {"idle", "sync"} => result[l] # "none"

(* compose() never meets its "Context is not finalized" error: a layer      *)
(* resolves, and a next() call is fulfilled, only when some layer, the      *)
(* error handler or the not-found handler finalized the context, or the     *)
(* layer hands Hono its own Response.                                       *)
ResolvedMeansFinalized ==
    \A l \in Layers :
        /\ result[l] = "resolved" => finalized \/ handler[l] = "response"
        /\ nextp[l] = "resolved" => finalized

(* A layer that was settled by the SSE stream and whose handler failed      *)
(* afterwards has destroyed the stream, so the client does not wait for     *)
(* events of a dead handler (route-invoker.ts:190-191).                     *)
FailedHandlerEndsStream ==
    \A l \in Layers :
        (streaming[l] /\ result[l] # "failed" /\ stage[l] = "reported"
            /\ handler[l] = "error")
        => sse # "open"

(* A HEAD request that an SSE stream answered is not answered while the     *)
(* stream is unclosed: whichever layer k around its start ran through       *)
(* runRoute() releases it, whether k joined the waiters before or after the *)
(* start, and every layer around k waits for k, whatever was replied since  *)
(* (route-invoker.ts:36-46).  Nobody waits for the stream when k, or a layer*)
(* around it, was rejected and the error handler answered, or when a layer  *)
(* around it answered with a Response of its own (Bypassed).                *)
Rejected(l) == result[l] \in {"failed", "locked"}
HeadAnswersAfterClose ==
    HeadRequest /\ bridge # "none" /\ answer = "response" /\ sse # "closed" =>
        \A k \in Routed :
            k <= sseBy => Bypassed(k) \/ \E l \in 1..k : Rejected(l)

(* What runRoute() documents: when the innermost layer, the route, starts   *)
(* an SSE stream, a layer settles with the finalized response; the start of *)
(* the stream does not make a layer reject (route-invoker.ts:147-152).      *)
SseStartResolves == sseBy = N => \A l \in Layers : result[l] # "locked"

-----------------------------------------------------------------------------
(* The inductive strengthening of the safety properties.                    *)

(* A layer's handler was called only when every layer outside called next().*)
ChainOrder ==
    \A l \in Layers : handler[l] # "idle" =>
        \A k \in Layers : k < l => nextp[k] # "none"

(* Where callHandler()'s reactions are, and what they rely on.              *)
StageInv ==
    \A l \in Layers :
        /\ stage[l] # "handler" => handler[l] \in Fulfilled \cup {"error"}
        /\ handler[l] = "error" => stage[l] \in {"handler", "reported"}
        /\ stage[l] = "waiting" => l \in listeners
        /\ stage[l] = "woken" => nextp[l] # "none" \/ finalized
        /\ stage[l] = "next" => nextp[l] # "none"

(* When a layer is settled, and that a routed one settles by finalizing.    *)
ResultInv ==
    \A l \in Layers :
        /\ l \notin Routed /\ result[l] # "none" => stage[l] = "reported"
        /\ l \in Routed /\ stage[l] = "reported" => result[l] # "none"
        /\ l \in Routed /\ result[l] = "resolved" => finalized
        /\ result[l] \in {"closing", "cancelling"} => l \in Routed /\ finalized
        /\ result[l] \notin {"none", "failed"} =>
              handler[l] \in Fulfilled \/ streaming[l]

(* The SSE stream, its response and the layers that read it.                *)
SseInv ==
    /\ bridge # "none" => finalized
    /\ bridge # "none" => sse # "none"
    /\ \A l \in Layers : streaming[l] => l \in Routed /\ bridge # "none"
    /\ bridge = "none" =>
          \A l \in Routed : handler[l] \notin {"idle", "sync"} =>
              \E i \in DOMAIN waiters : waiters[i] = l
    /\ \A i \in DOMAIN waiters : waiters[i] \in Routed

IInv ==
    /\ TypeOK /\ ChainOrder /\ StageInv /\ ResultInv /\ SseInv
    /\ NoLostWakeUp /\ ResolvedMeansFinalized
    /\ SseAnswersRoutedLayers /\ FailedHandlerEndsStream

(* Why layer l, and the layers between it and k, may have answered without  *)
(* waiting for k.                                                           *)
Excused(l, k) ==
    \E m \in l..k :
        \/ Rejected(m)
        \/ m < k /\ m \notin Routed /\ handler[m] = "response" /\ result[m] = "resolved"

(* A layer around the SSE start resolves by the layer behind it: it called  *)
(* next() before, and the stream finalized the context.                     *)
StartInv ==
    /\ answer = "response" => finalized
    /\ bridge # "none" =>
          /\ sseBy \in Layers /\ handler[sseBy] # "idle"
          /\ \A l \in Layers \ Routed :
                l < sseBy /\ result[l] = "resolved" =>
                    handler[l] = "response" \/ nextp[l] = "resolved"

(* The close of the stream, which the routed layers wait for, goes outward  *)
(* from layer to layer.                                                     *)
HeadInv ==
    HeadRequest /\ bridge # "none" =>
        /\ \A k \in Routed :
              /\ result[k] # "cancelling"
              /\ result[k] = "resolved" => sse = "closed"
        /\ \A k \in Routed : \A l \in Layers :
              l < k /\ k <= sseBy /\ nextp[l] = "resolved" =>
                  sse = "closed" \/ Excused(l + 1, k)
        /\ \A k \in Routed :
              k <= sseBy /\ answer = "response" => sse = "closed" \/ Excused(1, k)

-----------------------------------------------------------------------------
(* What a step may never do.                                                *)

(* A layer completes normally only when the layers behind it, if it called  *)
(* next(), completed normally; an SSE start is the one exception.           *)
InnerFirst ==
    [][\A l \in Layers :
        (result[l] = "none" /\ result'[l] \in {"resolved", "closing", "cancelling"})
        => streaming'[l] \/ nextp[l] \in {"none", "resolved"}]_vars

(* Middleware never answers a request by merely returning: it completes     *)
(* with a Response, or after next(), a finalized response or an SSE start   *)
(* (route-invoker.ts:60-65).                                                *)
MiddlewareWaits ==
    [][\A l \in Waits :
        (result[l] = "none" /\ result'[l] # "none" /\ handler[l] = "value")
        => nextp[l] # "none" \/ finalized \/ streaming'[l]]_vars

-----------------------------------------------------------------------------
(* The abstract specification.                                              *)

Status(l) ==
    IF handler[l] = "idle" THEN "idle"
    ELSE CASE result[l] = "none" -> "running"
           [] result[l] \in {"closing", "cancelling"} -> "releasing"
           [] result[l] = "resolved" -> "done"
           [] OTHER -> "failed"

statuses == [l \in Layers |-> Status(l)]
outcomes == [l \in Layers |->
    IF handler[l] \in Fulfilled \cup {"error"} THEN handler[l] ELSE "none"]
streamed == bridge # "none"

Nested == INSTANCE NestLayers WITH
    status <- statuses, returned <- outcomes, next <- nextp, final <- finalized

(* The layers nest (NestLayers), whatever their handlers do and whenever:   *)
(* the flags, listeners and waiters of callHandler() and runRoute() settle  *)
(* each layer once, in its turn, and with a response (route-invoker.ts:60). *)
LayersNest == Nested!Spec

-----------------------------------------------------------------------------
(* Liveness, under Fairness.                                                *)

(* Once the context is finalized the request is answered, even though a     *)
(* route that streams events never finishes.                                *)
FinalizedIsAnswered == finalized ~> (answer # "none")

(* An error passed to next(), or thrown by the layers behind, is reported   *)
(* unless the layer was answered already.                                   *)
NextErrorIsReported ==
    \A l \in Layers : (nextp[l] = "rejected") ~> (result[l] # "none")

(* The release of a HEAD response always ends.                              *)
HeadReleaseEnds ==
    \A l \in Layers :
        (result[l] \in {"closing", "cancelling"}) ~> (result[l] = "resolved")
=============================================================================
