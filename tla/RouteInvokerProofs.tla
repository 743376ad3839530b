------------------------- MODULE RouteInvokerProofs -------------------------
(***************************************************************************)
(* Proofs about RouteInvoker for every number of layers, every choice of   *)
(* middleware and routes, and both kinds of request.                       *)
(***************************************************************************)
EXTENDS RouteInvoker, TLAPS

Results == {"none", "closing", "cancelling"} \cup Settled
Streams == {"none", "open", "destroyed", "closed"}

-----------------------------------------------------------------------------
(* What the helpers return.                                                 *)

(* Waking a listener changes "waiting" to "woken" and nothing else.         *)
LEMMA NotifiedIs ==
    ASSUME NEW st \in [Layers -> {"handler", "waiting", "woken", "next", "reported"}]
    PROVE  /\ Notified(st) \in [Layers -> {"handler", "waiting", "woken", "next", "reported"}]
           /\ \A l \in Layers :
                /\ Notified(st)[l] = "waiting" => st[l] = "waiting" /\ l \notin listeners
                /\ Notified(st)[l] = "woken" => st[l] \in {"woken", "waiting"}
                /\ Notified(st)[l] \notin {"waiting", "woken"} => Notified(st)[l] = st[l]
                /\ st[l] \notin {"waiting", "woken"} => Notified(st)[l] = st[l]
  BY DEF Notified

(* notifyNextCall() wakes the layer's own wait only.                        *)
LEMMA NextNotifiedIs ==
    ASSUME TypeOK, NEW l \in Layers
    PROVE  /\ NextNotified(l) \in [Layers -> {"handler", "waiting", "woken", "next", "reported"}]
           /\ \A m \in Layers : m # l => NextNotified(l)[m] = stage[m]
           /\ stage[l] = "waiting" => NextNotified(l)[l] = "woken"
           /\ stage[l] # "waiting" => NextNotified(l)[l] = stage[l]
  BY DEF NextNotified, TypeOK

(* A layer that finalizes is resolved, or waits for its HEAD response.      *)
LEMMA FinalizingIs ==
    ASSUME NEW r, NEW s
    PROVE  Finalizing(r, s) \in {"resolved", "cancelling", "closing"}
  BY DEF Finalizing

(* A HEAD response destroys an open stream and leaves every other alone.    *)
LEMMA ReleasedIs ==
    ASSUME NEW r, NEW s \in Streams
    PROVE  /\ Released(r, s) \in Streams
           /\ Released(r, s) # s => Released(r, s) = "destroyed"
           /\ s # "open" => Released(r, s) = s
           /\ s # "none" => Released(r, s) # "none"
  BY DEF Released, Streams

(* finishSse() settles the layers of the chain that are not settled yet,    *)
(* and no other.                                                            *)
LEMMA SseResultIs ==
    ASSUME TypeOK, NEW ws \in Seq(Layers), NEW lock
    PROVE  /\ SseResult(ws, lock) \in [Layers -> Results]
           /\ \A l \in Layers :
                /\ result[l] # "none" => SseResult(ws, lock)[l] = result[l]
                /\ (\A i \in DOMAIN ws : ws[i] # l) => SseResult(ws, lock)[l] = result[l]
                /\ (\E i \in DOMAIN ws : ws[i] = l) =>
                      SseResult(ws, lock)[l] # "none"
                /\ SseResult(ws, lock)[l] \in {result[l], "locked", "resolved", "closing", "cancelling"}
  <1> DEFINE F == [l \in Layers |->
        IF \E i \in Unsettled(ws) :
            ws[i] = l /\ (lock = "locked" \/ \E j \in Unsettled(ws) : j < i)
        THEN "locked"
        ELSE IF \E i \in Unsettled(ws) : ws[i] = l
             THEN Finalizing("sse", "open")
             ELSE result[l]]
  <1>1. SseResult(ws, lock) = F
    BY DEF SseResult
  <1>2. Finalizing("sse", "open") \in {"resolved", "cancelling", "closing"}
    BY FinalizingIs
  <1>3. F \in [Layers -> Results]
    BY <1>2 DEF TypeOK, Results, Settled
  <1>4. ASSUME NEW l \in Layers
        PROVE  /\ result[l] # "none" => F[l] = result[l]
               /\ (\A i \in DOMAIN ws : ws[i] # l) => F[l] = result[l]
               /\ (\E i \in DOMAIN ws : ws[i] = l) => F[l] # "none"
               /\ F[l] \in {result[l], "locked", "resolved", "closing", "cancelling"}
    BY <1>2 DEF Unsettled
  <1> QED
    BY <1>1, <1>3, <1>4

(* finishSse() marks the layers of the chain as streaming, and no other.    *)
LEMMA SseStreamingIs ==
    ASSUME TypeOK, NEW ws \in Seq(Layers)
    PROVE  /\ SseStreaming(ws) \in [Layers -> BOOLEAN]
           /\ \A l \in Layers :
                /\ streaming[l] => SseStreaming(ws)[l]
                /\ (\E i \in DOMAIN ws : ws[i] = l) => SseStreaming(ws)[l]
                /\ SseStreaming(ws)[l] => streaming[l] \/ \E i \in DOMAIN ws : ws[i] = l
  BY DEF SseStreaming, TypeOK

(* Settling a chain never takes the SSE response away.                      *)
LEMMA SseLockIs ==
    ASSUME NEW ws, NEW lock \in {"none", "free", "locked"}
    PROVE  /\ SseLock(ws, lock) \in {"none", "free", "locked"}
           /\ lock # "none" => SseLock(ws, lock) # "none"
  BY DEF SseLock

(* Settling a chain destroys the stream or leaves it alone.                 *)
LEMMA SseReleasedIs ==
    ASSUME NEW ws, NEW lock, NEW s \in Streams
    PROVE  /\ SseReleased(ws, lock, s) \in Streams
           /\ SseReleased(ws, lock, s) \in {s, "destroyed"}
           /\ s # "open" => SseReleased(ws, lock, s) = s
           /\ s # "none" => SseReleased(ws, lock, s) # "none"
  BY ReleasedIs DEF SseReleased

-----------------------------------------------------------------------------
(* Type correctness.                                                        *)

(* The initial state is well typed.                                         *)
LEMMA InitType == Init => TypeOK
  BY LayersAssumption DEF Init, TypeOK, Layers, Fulfilled, Settled

(* The reactions of a layer keep the types.                                 *)
LEMMA OnSettledType ==
    ASSUME TypeOK, NEW l \in Layers, OnSettled(l)
    PROVE  /\ result' \in [Layers -> Results]
           /\ stage' \in [Layers -> {"handler", "waiting", "woken", "next", "reported"}]
           /\ res' \in {"none", "empty", "body", "sse"}
           /\ sse' \in Streams
           /\ UNCHANGED <<streaming, bridge, sseBy>>
  <1> DEFINE st == [stage EXCEPT ![l] = "reported"]
  <1>1. st \in [Layers -> {"handler", "waiting", "woken", "next", "reported"}]
    BY DEF TypeOK
  <1>2. Notified(st) \in [Layers -> {"handler", "waiting", "woken", "next", "reported"}]
    BY <1>1, NotifiedIs
  <1>3. sse \in Streams
    BY DEF TypeOK, Streams
  <1>4. \A r, s : Finalizing(r, s) \in Results
    BY FinalizingIs DEF Results, Settled
  <1>5. \A r : Released(r, sse) \in Streams
    BY <1>3, ReleasedIs
  <1>6. CASE l \notin Routed
    BY <1>1, <1>3, <1>6 DEF OnSettled, TypeOK, Results, Settled
  <1>7. CASE l \in Routed /\ result[l] # "none"
    BY <1>1, <1>3, <1>7 DEF OnSettled, TypeOK, Results
  <1>8. CASE l \in Routed /\ result[l] = "none"
    <2>1. PICK r \in NewResponses \cup {res, "empty"} :
            /\ res' = r
            /\ sse' = Released(r, sse)
            /\ result' = [result EXCEPT ![l] = Finalizing(r, sse)]
            /\ stage' = Notified(st)
      BY <1>8 DEF OnSettled
    <2>2. UNCHANGED <<streaming, bridge, sseBy>>
      BY DEF OnSettled
    <2>3. result' \in [Layers -> Results]
      BY <2>1, <1>4 DEF TypeOK, Results
    <2> QED
      BY <2>1, <2>2, <2>3, <1>2, <1>5 DEF TypeOK, NewResponses
  <1> QED
    BY <1>6, <1>7, <1>8

(* onError() keeps the types.                                               *)
LEMMA OnErrorType ==
    ASSUME TypeOK, NEW l \in Layers, OnError(l)
    PROVE  /\ result' \in [Layers -> Results]
           /\ stage' \in [Layers -> {"handler", "waiting", "woken", "next", "reported"}]
           /\ sse' \in Streams
           /\ UNCHANGED <<res, streaming, bridge, sseBy>>
  BY DEF OnError, ResultAfterError, StreamAfterError, TypeOK, Results, Settled, Streams

(* afterNext() keeps the types.                                             *)
LEMMA AfterNextType ==
    ASSUME TypeOK, NEW l \in Layers, AfterNext(l)
    PROVE  /\ result' \in [Layers -> Results]
           /\ stage' \in [Layers -> {"handler", "waiting", "woken", "next", "reported"}]
           /\ res' \in {"none", "empty", "body", "sse"}
           /\ sse' \in Streams
           /\ UNCHANGED <<streaming, bridge, sseBy>>
  BY OnSettledType DEF AfterNext, TypeOK, Results, Settled, Streams, sseVars

(* Every step keeps the types.                                              *)
LEMMA NextType ==
    ASSUME TypeOK, [Next]_vars
    PROVE  TypeOK'
  <1> USE DEF TypeOK
  <1>1. N \in Nat /\ Layers \subseteq 0..N
    BY LayersAssumption DEF Layers
  <1>2. CASE UNCHANGED vars
    BY <1>2 DEF vars, handlerVars, layerVars, ctxVars, sseVars
  <1>3. ASSUME NEW l \in Layers, CallNext(l) PROVE TypeOK'
    <2>1. l < N => l + 1 \in Layers
      BY LayersAssumption DEF Layers
    <2> QED
      BY <1>3, <2>1, NextNotifiedIs
      DEF CallNext, layerVars, ctxVars, sseVars
  <1>4. ASSUME NEW l \in Layers, CallNextWithError(l) PROVE TypeOK'
    BY <1>4, NextNotifiedIs DEF CallNextWithError, layerVars, ctxVars, sseVars
  <1>5. ASSUME NEW l \in Layers, Reply(l) PROVE TypeOK'
    BY <1>5, NotifiedIs DEF Reply, NewResponses, layerVars, sseVars
  <1>6. ASSUME NEW l \in Layers, StartSse(l) PROVE TypeOK'
    <2>1. SseResult(waiters, "free") \in [Layers -> Results]
      BY SseResultIs
    <2>2. SseStreaming(waiters) \in [Layers -> BOOLEAN]
      BY SseStreamingIs
    <2>3. SseReleased(waiters, "free", "open") \in Streams
      BY SseReleasedIs DEF Streams
    <2> QED
      BY <1>1, <1>6, <2>1, <2>2, <2>3, NotifiedIs, SseLockIs
      DEF StartSse, Results, Streams
  <1>7. ASSUME NEW l \in Layers, StartSseLate(l) PROVE TypeOK'
    BY <1>1, <1>7 DEF StartSseLate, handlerVars, layerVars, ctxVars
  <1>8. ASSUME NEW l \in Layers, Returns(l) PROVE TypeOK'
    <2>1. <<l>> \in Seq(Layers) /\ Append(waiters, l) \in Seq(Layers)
      OBVIOUS
    <2>2. SseResult(<<l>>, bridge) \in [Layers -> Results]
      BY <2>1, SseResultIs
    <2>3. SseStreaming(<<l>>) \in [Layers -> BOOLEAN]
      BY <2>1, SseStreamingIs
    <2>4. SseReleased(<<l>>, bridge, sse) \in Streams
      BY SseReleasedIs DEF Streams
    <2>5. PICK out \in {"async", "error"} \cup Fulfilled : Return(l, out)
      BY <1>8 DEF Returns
    <2>6. handler' \in [Layers -> {"idle", "sync", "async", "error"} \cup Fulfilled]
      BY <2>5 DEF Return
    <2>7. /\ UNCHANGED <<stage, nextp, listeners, res, sseBy, answer>>
          /\ waiters' \in Seq(Layers) /\ result' \in [Layers -> Results]
          /\ streaming' \in [Layers -> BOOLEAN] /\ sse' \in Streams
          /\ bridge' \in {"none", "free", "locked"}
      <3>1. CASE l \notin Routed
        BY <3>1, <2>5 DEF Return, layerVars, Results, Streams
      <3>2. CASE l \in Routed /\ HasSseResponse
        BY <3>2, <2>2, <2>3, <2>4, <2>5, SseLockIs DEF Return
      <3>3. CASE l \in Routed /\ ~HasSseResponse
        BY <3>3, <2>1, <2>5 DEF Return, layerVars, Results, Streams
      <3> QED
        BY <3>1, <3>2, <3>3
    <2> QED
      BY <2>6, <2>7 DEF Results, Streams
  <1>9. ASSUME NEW l \in Layers, Finishes(l) PROVE TypeOK'
    BY <1>9 DEF Finishes, FinishHandler, layerVars, ctxVars, sseVars, Fulfilled
  <1>10. ASSUME NEW l \in Layers, Settle(l) PROVE TypeOK'
    BY <1>10, AfterNextType DEF Settle, Results, Streams, sseVars
  <1>11. ASSUME NEW l \in Layers, WaitOver(l) PROVE TypeOK'
    BY <1>11, AfterNextType DEF WaitOver, Results, Streams
  <1>12. ASSUME NEW l \in Layers, NextFulfilled(l) PROVE TypeOK'
    BY <1>12, OnSettledType DEF NextFulfilled, Results, Streams
  <1>13. ASSUME NEW l \in Layers, NextRejected(l) \/ HandlerRejected(l) PROVE TypeOK'
    BY <1>13, OnErrorType DEF NextRejected, HandlerRejected, Results, Streams
  <1>14. ASSUME NEW l \in Layers, HeadReleased(l) PROVE TypeOK'
    BY <1>14, NotifiedIs DEF HeadReleased, Settled, sseVars
  <1>15. ASSUME NEW l \in Layers, LayerResolved(l) PROVE TypeOK'
    BY <1>15 DEF LayerResolved, Outcome, NewResponses, layerVars, sseVars
  <1>16. ASSUME NEW l \in Layers, LayerRejected(l) PROVE TypeOK'
    BY <1>16, NotifiedIs DEF LayerRejected, Outcome, NewResponses, layerVars, sseVars
  <1>17. CASE StreamCloses
    BY <1>17 DEF StreamCloses, handlerVars, layerVars, ctxVars
  <1>18. CASE EndOfChain
    BY <1>18, NotifiedIs DEF EndOfChain, NewResponses, layerVars, sseVars
  <1> QED
    BY <1>2, <1>3, <1>4, <1>5, <1>6, <1>7, <1>8, <1>9, <1>10, <1>11, <1>12,
       <1>13, <1>14, <1>15, <1>16, <1>17, <1>18
    DEF Next, HandlerStep, Reaction, Compose

-----------------------------------------------------------------------------
(* What the reactions do to their own layer and to the others.              *)

(* Waking the listeners leaves only the waits that did not listen.          *)
LEMMA OnSettledIs ==
    ASSUME TypeOK, NEW l \in Layers, OnSettled(l)
    PROVE  /\ stage'[l] = "reported"
           /\ \A m \in Layers : m # l =>
                /\ result'[m] = result[m]
                /\ stage'[m] = stage[m] \/ (stage[m] = "waiting" /\ stage'[m] = "woken" /\ finalized')
                /\ stage'[m] = "waiting" => res' = res \/ m \notin listeners
           /\ finalized => finalized'
           /\ l \notin Routed => result'[l] = "resolved" /\ res' = res
           /\ l \in Routed /\ result[l] # "none" => result'[l] = result[l] /\ res' = res
           /\ l \in Routed /\ result[l] = "none" =>
                finalized' /\ result'[l] \in {"resolved", "cancelling", "closing"}
           /\ sse' \in {sse, "destroyed"} /\ (sse # "open" => sse' = sse)
           /\ UNCHANGED <<streaming, bridge, sseBy>>
  <1> DEFINE st == [stage EXCEPT ![l] = "reported"]
  <1>1. st \in [Layers -> {"handler", "waiting", "woken", "next", "reported"}]
    BY DEF TypeOK
  <1>2. sse \in Streams
    BY DEF TypeOK, Streams
  <1>3. CASE l \notin Routed \/ result[l] # "none"
    BY <1>3 DEF OnSettled, TypeOK, finalized
  <1>4. CASE l \in Routed /\ result[l] = "none"
    <2>1. PICK r \in IF handler[l] = "response" THEN NewResponses
                      ELSE IF finalized THEN {res} ELSE {"empty"} :
            /\ res' = r
            /\ sse' = Released(r, sse)
            /\ result' = [result EXCEPT ![l] = Finalizing(r, sse)]
            /\ stage' = Notified(st)
      BY <1>4 DEF OnSettled
    <2>2. r # "none"
      BY <2>1 DEF NewResponses, finalized
    <2>3. UNCHANGED <<streaming, bridge, sseBy>>
      BY DEF OnSettled
    <2>4. result'[l] \in {"resolved", "cancelling", "closing"}
      BY <2>1, FinalizingIs DEF TypeOK
    <2>5. \A m \in Layers : m # l => result'[m] = result[m]
      BY <2>1 DEF TypeOK
    <2>6. sse' \in {sse, "destroyed"} /\ (sse # "open" => sse' = sse)
      BY <2>1, <1>2, ReleasedIs
    <2>7. stage'[l] = "reported"
      BY <2>1 DEF TypeOK, Notified
    <2>8. ASSUME NEW m \in Layers, m # l
          PROVE  /\ stage'[m] = stage[m] \/ (stage[m] = "waiting" /\ stage'[m] = "woken")
                 /\ stage'[m] = "waiting" => m \notin listeners
      BY <2>1, <2>8 DEF TypeOK, Notified
    <2> QED
      BY <2>1, <2>2, <2>3, <2>4, <2>5, <2>6, <2>7, <2>8, <1>4 DEF finalized
  <1> QED
    BY <1>3, <1>4

(* onError() rejects its own layer once and ends the stream it read.        *)
LEMMA OnErrorIs ==
    ASSUME TypeOK, NEW l \in Layers, OnError(l)
    PROVE  /\ stage'[l] = "reported"
           /\ \A m \in Layers : m # l => result'[m] = result[m] /\ stage'[m] = stage[m]
           /\ result[l] # "none" => result'[l] = result[l]
           /\ result[l] = "none" => result'[l] = "failed"
           /\ sse' \in {sse, "destroyed"} /\ (sse # "open" => sse' = sse)
           /\ streaming[l] => sse' # "open"
           /\ UNCHANGED <<res, streaming, bridge, sseBy>>
  BY DEF OnError, ResultAfterError, StreamAfterError, TypeOK

(* afterNext() reports at once, or goes on to nextPromise.                  *)
LEMMA AfterNextIs ==
    ASSUME TypeOK, NEW l \in Layers, AfterNext(l)
    PROVE  \/ nextp[l] = "none" /\ OnSettled(l)
           \/ /\ nextp[l] # "none"
              /\ stage' = [stage EXCEPT ![l] = "next"]
              /\ UNCHANGED <<result, streaming, res, sse, bridge, sseBy>>
  BY DEF AfterNext, sseVars

-----------------------------------------------------------------------------
(* The steps of the inductive invariant.                                    *)

(* A handler is called only by the next() of the layer outside it.          *)
LEMMA ChainStep ==
    ASSUME TypeOK, ChainOrder, [Next]_vars
    PROVE  ChainOrder'
  <1>1. ASSUME UNCHANGED <<handler, nextp>> PROVE ChainOrder'
    BY <1>1 DEF ChainOrder
  <1>2. ASSUME NEW l \in Layers, CallNext(l) PROVE ChainOrder'
    <2>1. handler[l] # "idle"
      BY <1>2 DEF CallNext, MayRun
    <2>2. N \in Nat /\ l \in Nat /\ (l < N => l + 1 \in Layers)
      BY LayersAssumption DEF Layers
    <2>3. \A k \in Layers : k \in Nat
      BY LayersAssumption DEF Layers
    <2>4. \A k \in Layers : nextp[k] # "none" \/ k = l => nextp'[k] # "none"
      BY <1>2 DEF CallNext, TypeOK
    <2>5. \A k \in Layers : k <= l => nextp'[k] # "none"
      BY <2>1, <2>2, <2>3, <2>4 DEF ChainOrder
    <2>6. \A m \in Layers : handler'[m] # "idle" => handler[m] # "idle" \/ m = l + 1
      BY <1>2, <2>2 DEF CallNext, TypeOK
    <2>7. ASSUME NEW m \in Layers, handler'[m] # "idle", NEW k \in Layers, k < m
          PROVE  nextp'[k] # "none"
      BY <2>2, <2>3, <2>4, <2>5, <2>6, <2>7 DEF ChainOrder
    <2> QED
      BY <2>7 DEF ChainOrder
  <1>3. ASSUME NEW l \in Layers, CallNextWithError(l) PROVE ChainOrder'
    BY <1>3 DEF CallNextWithError, ChainOrder, TypeOK
  <1>4. ASSUME NEW l \in Layers, Returns(l) \/ Finishes(l) PROVE ChainOrder'
    BY <1>4 DEF Returns, Return, Finishes, FinishHandler, ChainOrder, TypeOK
  <1>5. ASSUME NEW l \in Layers, LayerResolved(l) \/ LayerRejected(l) PROVE ChainOrder'
    <2>1. handler' = handler /\ \A k \in Layers : nextp[k] # "none" => nextp'[k] # "none"
      BY <1>5 DEF LayerResolved, LayerRejected, Outcome, TypeOK
    <2> QED
      BY <2>1 DEF ChainOrder
  <1>6. CASE EndOfChain
    BY <1>6 DEF EndOfChain, ChainOrder, TypeOK
  <1>7. CASE \/ UNCHANGED vars
             \/ StreamCloses
             \/ \E l \in Layers : Reply(l) \/ StartSse(l) \/ StartSseLate(l) \/ Reaction(l)
    BY <1>1, <1>7
    DEF vars, handlerVars, StreamCloses, Reply, StartSse, StartSseLate, Reaction,
        Settle, WaitOver, NextFulfilled, NextRejected, HandlerRejected, HeadReleased
  <1> QED
    BY <1>2, <1>3, <1>4, <1>5, <1>6, <1>7 DEF Next, HandlerStep, Compose

(* next() is called once, and a finalized context stays finalized.          *)
LEMMA Monotone ==
    ASSUME TypeOK, [Next]_vars
    PROVE  /\ finalized => finalized'
           /\ \A k \in Layers : nextp[k] # "none" => nextp'[k] # "none"
  <1>1. ASSUME NEW l \in Layers, HandlerStep(l)
        PROVE  /\ finalized => finalized'
               /\ \A k \in Layers : nextp[k] # "none" => nextp'[k] # "none"
    BY <1>1
    DEF HandlerStep, CallNext, CallNextWithError, Reply, StartSse, StartSseLate, Returns,
        Return, Finishes, FinishHandler, NewResponses, finalized, TypeOK, layerVars,
        ctxVars, sseVars, handlerVars
  <1>2. ASSUME NEW l \in Layers, Reaction(l)
        PROVE  (finalized => finalized') /\ nextp' = nextp
    BY <1>2, OnSettledIs, OnErrorIs, AfterNextIs
    DEF Reaction, Settle, WaitOver, NextFulfilled, NextRejected, HandlerRejected,
        HeadReleased, finalized
  <1>3. ASSUME NEW l \in Layers, Compose(l)
        PROVE  /\ finalized => finalized'
               /\ \A k \in Layers : nextp[k] # "none" => nextp'[k] # "none"
    BY <1>3 DEF Compose, LayerResolved, LayerRejected, Outcome, NewResponses, finalized, TypeOK
  <1>4. CASE StreamCloses \/ UNCHANGED vars
    BY <1>4 DEF StreamCloses, handlerVars, ctxVars, vars, finalized
  <1>5. CASE EndOfChain
    BY <1>5 DEF EndOfChain, NewResponses, finalized, TypeOK
  <1> QED
    BY <1>1, <1>2, <1>3, <1>4, <1>5 DEF Next

(* A handler in its call, or not called yet, has no reaction.               *)
LEMMA StageStep ==
    ASSUME TypeOK, ChainOrder, StageInv, [Next]_vars
    PROVE  StageInv'
  <1> DEFINE Good(m) ==
        /\ stage[m] # "handler" => handler[m] \in Fulfilled \cup {"error"}
        /\ handler[m] = "error" => stage[m] \in {"handler", "reported"}
        /\ stage[m] = "waiting" => m \in listeners
        /\ stage[m] = "woken" => nextp[m] # "none" \/ finalized
        /\ stage[m] = "next" => nextp[m] # "none"
  <1>1. \A m \in Layers : Good(m)
    BY DEF StageInv
  <1> SUFFICES ASSUME NEW m \in Layers PROVE Good(m)'
    BY DEF StageInv
  <1>2. Good(m)
    BY <1>1
  <1> HIDE DEF Good
  <1>3. /\ finalized => finalized'
        /\ nextp[m] # "none" => nextp'[m] # "none"
    BY Monotone
  <1>4. ASSUME handler'[m] = handler[m], stage'[m] = stage[m], listeners' = listeners
        PROVE  Good(m)'
    BY <1>2, <1>3, <1>4 DEF Good, Fulfilled
  <1>5. ASSUME NEW l \in Layers, CallNext(l) PROVE Good(m)'
    <2>1. N \in Nat /\ l \in Nat /\ m \in Nat
      BY LayersAssumption DEF Layers
    <2>2. CASE m = l
      <3>1. stage'[m] = IF stage[m] = "waiting" THEN "woken" ELSE stage[m]
        BY <1>5, <2>2, NextNotifiedIs DEF CallNext
      <3>2. nextp'[m] # "none" /\ listeners' = listeners
        BY <1>5, <2>2 DEF CallNext, TypeOK, ctxVars
      <3>3. handler'[m] = handler[m]
        BY <1>5, <2>1, <2>2 DEF CallNext, TypeOK
      <3> QED
        BY <1>2, <1>3, <3>1, <3>2, <3>3 DEF Good, TypeOK, Fulfilled
    <2>3. CASE m = l + 1 /\ l < N
      <3>1. handler[m] = "idle"
        BY <1>5, <2>1, <2>3 DEF CallNext, ChainOrder
      <3>2. stage[m] = "handler"
        BY <3>1, <1>2 DEF Good, Fulfilled
      <3>3. stage'[m] = "handler" /\ handler'[m] = "sync"
        BY <1>5, <2>1, <2>3, <3>2, NextNotifiedIs DEF CallNext, TypeOK
      <3> QED
        BY <3>3 DEF Good
    <2>4. CASE m # l /\ ~(m = l + 1 /\ l < N)
      <3>1. stage'[m] = stage[m] /\ handler'[m] = handler[m] /\ listeners' = listeners
        BY <1>5, <2>1, <2>4, NextNotifiedIs DEF CallNext, TypeOK, ctxVars
      <3> QED
        BY <3>1, <1>4
    <2> QED
      BY <2>2, <2>3, <2>4
  <1>6. ASSUME NEW l \in Layers, CallNextWithError(l) PROVE Good(m)'
    <2>1. handler' = handler /\ listeners' = listeners
      BY <1>6 DEF CallNextWithError, ctxVars
    <2>2. CASE m = l
      <3>1. stage'[m] = IF stage[m] = "waiting" THEN "woken" ELSE stage[m]
        BY <1>6, <2>2, NextNotifiedIs DEF CallNextWithError
      <3>2. nextp'[m] # "none"
        BY <1>6, <2>2 DEF CallNextWithError, TypeOK
      <3> QED
        BY <1>2, <1>3, <2>1, <3>1, <3>2 DEF Good, TypeOK, Fulfilled
    <2>3. CASE m # l
      BY <1>6, <2>1, <2>3, <1>4, NextNotifiedIs DEF CallNextWithError
    <2> QED
      BY <2>2, <2>3
  <1>7. ASSUME stage' = Notified(stage), finalized', handler' = handler, listeners' = listeners
        PROVE  Good(m)'
    <2>1. stage'[m] = stage[m] \/ (stage[m] = "waiting" /\ stage'[m] = "woken")
      BY <1>7 DEF Notified, TypeOK
    <2>2. CASE stage'[m] = stage[m]
      BY <1>4, <1>7, <2>2
    <2>3. CASE stage[m] = "waiting" /\ stage'[m] = "woken"
      BY <1>2, <1>7, <2>3 DEF Good, Fulfilled
    <2> QED
      BY <2>1, <2>2, <2>3
  <1>8. ASSUME NEW l \in Layers, Reply(l) \/ StartSse(l) \/ HeadReleased(l) PROVE Good(m)'
    BY <1>7, <1>8 DEF Reply, StartSse, HeadReleased, NewResponses, finalized
  <1>9. ASSUME NEW l \in Layers, Returns(l) \/ Finishes(l) PROVE Good(m)'
    <2>1. /\ handler[l] \in {"sync", "async"} /\ stage' = stage /\ listeners' = listeners
          /\ m # l => handler'[m] = handler[m]
          /\ handler'[l] \in {"async", "error"} \cup Fulfilled
      BY <1>9 DEF Returns, Return, Finishes, FinishHandler, TypeOK, ctxVars
    <2>2. CASE m = l
      <3>1. stage[m] = "handler"
        BY <1>2, <2>1, <2>2 DEF Good, Fulfilled
      <3> QED
        BY <2>1, <2>2, <3>1 DEF Good
    <2>3. CASE m # l
      BY <1>4, <2>1, <2>3
    <2> QED
      BY <2>2, <2>3
  <1>10. ASSUME NEW l \in Layers, OnSettled(l), handler' = handler, nextp' = nextp,
               handler[l] \in Fulfilled, listeners' \in {listeners, listeners \ {l}}
         PROVE Good(m)'
    <2>1. CASE m = l
      BY <1>10, <2>1, OnSettledIs DEF Good, Fulfilled
    <2>2. CASE m # l
      BY <1>2, <1>3, <1>10, <2>2, OnSettledIs DEF Good, Fulfilled
    <2> QED
      BY <2>1, <2>2
  <1>11. ASSUME NEW l \in Layers, AfterNext(l), handler' = handler, nextp' = nextp,
               handler[l] \in Fulfilled, listeners' \in {listeners, listeners \ {l}}
         PROVE Good(m)'
    <2>1. CASE OnSettled(l)
      BY <1>10, <1>11, <2>1
    <2>2. CASE nextp[l] # "none" /\ stage' = [stage EXCEPT ![l] = "next"] /\ res' = res
      BY <1>2, <1>3, <1>11, <2>2 DEF Good, TypeOK, Fulfilled
    <2> QED
      BY <1>11, <2>1, <2>2, AfterNextIs
  <1>12. ASSUME NEW l \in Layers, Settle(l) PROVE Good(m)'
    <2>1. CASE NeedsNoWait(l)
      BY <1>11, <1>12, <2>1 DEF Settle
    <2>2. CASE ~NeedsNoWait(l)
      <3>1. /\ stage' = [stage EXCEPT ![l] = "waiting"]
            /\ listeners' = listeners \cup {l}
            /\ handler' = handler /\ handler[l] \in Fulfilled /\ nextp' = nextp
        BY <1>12, <2>2 DEF Settle
      <3>2. CASE m = l
        BY <3>1, <3>2 DEF Good, TypeOK, Fulfilled
      <3>3. CASE m # l
        BY <1>2, <1>3, <3>1, <3>3 DEF Good, TypeOK, Fulfilled
      <3> QED
        BY <3>2, <3>3
    <2> QED
      BY <2>1, <2>2
  <1>13. ASSUME NEW l \in Layers, WaitOver(l) PROVE Good(m)'
    <2>1. handler[l] \in Fulfilled
      BY <1>1, <1>13 DEF WaitOver, Good
    <2> QED
      BY <1>11, <1>13, <2>1 DEF WaitOver
  <1>14. ASSUME NEW l \in Layers, NextFulfilled(l) PROVE Good(m)'
    <2>1. handler[l] \in Fulfilled
      BY <1>1, <1>14 DEF NextFulfilled, Good
    <2> QED
      BY <1>10, <1>14, <2>1 DEF NextFulfilled
  <1>15. ASSUME NEW l \in Layers, NextRejected(l) \/ HandlerRejected(l) PROVE Good(m)'
    <2>1. handler' = handler /\ listeners' = listeners /\ OnError(l)
      BY <1>15 DEF NextRejected, HandlerRejected
    <2>2. CASE m = l
      <3>1. handler[l] \in Fulfilled \cup {"error"}
        BY <1>1, <1>15 DEF NextRejected, HandlerRejected, Good
      <3> QED
        BY <2>1, <2>2, <3>1, OnErrorIs DEF Good
    <2>3. CASE m # l
      BY <1>4, <2>1, <2>3, OnErrorIs
    <2> QED
      BY <2>2, <2>3
  <1>16. ASSUME NEW l \in Layers, LayerResolved(l) PROVE Good(m)'
    BY <1>4, <1>16 DEF LayerResolved
  <1>17. ASSUME NEW l \in Layers, LayerRejected(l) PROVE Good(m)'
    <2>1. CASE stage' = stage
      BY <1>4, <1>17, <2>1 DEF LayerRejected
    <2>2. CASE stage' = Notified(stage) /\ finalized'
      BY <1>7, <1>17, <2>2 DEF LayerRejected
    <2> QED
      BY <1>17, <2>1, <2>2 DEF LayerRejected, NewResponses, finalized
  <1>18. CASE EndOfChain
    <2>1. CASE stage' = stage
      BY <1>4, <1>18, <2>1 DEF EndOfChain
    <2>2. CASE stage' = Notified(stage) /\ finalized'
      BY <1>7, <1>18, <2>2 DEF EndOfChain
    <2> QED
      BY <1>18, <2>1, <2>2 DEF EndOfChain, NewResponses, finalized
  <1>19. CASE UNCHANGED vars \/ StreamCloses \/ \E l \in Layers : StartSseLate(l)
    BY <1>4, <1>19 DEF vars, StreamCloses, StartSseLate, handlerVars, ctxVars
  <1> QED
    BY <1>5, <1>6, <1>8, <1>9, <1>12, <1>13, <1>14, <1>15, <1>16, <1>17, <1>18, <1>19
    DEF Next, HandlerStep, Reaction, Compose

(* What a Return does to the SSE variables.                                 *)
LEMMA ReturnIs ==
    ASSUME TypeOK, NEW l \in Layers, NEW out \in {"async", "error"} \cup Fulfilled,
           Return(l, out)
    PROVE  /\ handler[l] = "sync" /\ handler' = [handler EXCEPT ![l] = out]
           /\ UNCHANGED <<stage, nextp, listeners, res, sseBy, answer>>
           /\ \A m \in Layers :
                /\ m # l => result'[m] = result[m] /\ (streaming'[m] <=> streaming[m])
                /\ streaming[m] => streaming'[m]
                /\ streaming'[m] => streaming[m] \/ m \in Routed
                /\ result[m] # "none" => result'[m] = result[m]
           /\ result'[l] # result[l] => l \in Routed /\ bridge # "none" /\ streaming'[l]
           /\ l \in Routed /\ bridge # "none" => result'[l] # "none"
           /\ streaming' # streaming => bridge # "none"
           /\ bridge' # bridge => bridge # "none" /\ bridge' # "none"
           /\ sse' \in {sse, "destroyed"} /\ (sse # "open" => sse' = sse)
           /\ bridge = "none" /\ l \in Routed => waiters' = Append(waiters, l)
           /\ waiters' # waiters => waiters' = Append(waiters, l) /\ l \in Routed
  <1>1. handler[l] = "sync" /\ handler' = [handler EXCEPT ![l] = out]
        /\ UNCHANGED <<stage, nextp, listeners, res, sseBy, answer>>
    BY DEF Return
  <1>2. CASE l \notin Routed
    BY <1>1, <1>2 DEF Return, layerVars
  <1>3. CASE l \in Routed /\ bridge = "none"
    BY <1>1, <1>3 DEF Return, HasSseResponse, layerVars
  <1>4. CASE l \in Routed /\ bridge # "none"
    <2>0. <<l>> \in Seq(Layers)
      OBVIOUS
    <2>1. PICK ws \in Seq(Layers) : ws = <<l>>
      BY <2>0
    <2>2. /\ streaming' = SseStreaming(ws)
          /\ result' = SseResult(ws, bridge)
          /\ bridge' = SseLock(ws, bridge)
          /\ sse' = SseReleased(ws, bridge, sse)
          /\ waiters' = waiters
      BY <1>4, <2>1 DEF Return, HasSseResponse
    <2>8. \A m : (\E i \in DOMAIN ws : ws[i] = m) <=> m = l
      BY <2>1
    <2>3. \A m \in Layers :
            /\ streaming[m] => streaming'[m]
            /\ streaming'[m] => streaming[m] \/ m = l
            /\ streaming'[l]
      BY <2>2, <2>8, SseStreamingIs
    <2>4. \A m \in Layers :
            /\ m # l => result'[m] = result[m]
            /\ result[m] # "none" => result'[m] = result[m]
            /\ result'[l] # "none"
      <3>1. \A m \in Layers : m # l => \A i \in DOMAIN ws : ws[i] # m
        BY <2>8
      <3>2. \A m \in Layers :
              /\ result[m] # "none" => SseResult(ws, bridge)[m] = result[m]
              /\ (\A i \in DOMAIN ws : ws[i] # m) => SseResult(ws, bridge)[m] = result[m]
        BY SseResultIs
      <3>3. SseResult(ws, bridge)[l] # "none"
        BY <2>8, SseResultIs
      <3> QED
        BY <2>2, <3>1, <3>2, <3>3
    <2>5. sse \in Streams /\ bridge \in {"none", "free", "locked"}
      BY DEF TypeOK, Streams
    <2>6. sse' \in {sse, "destroyed"} /\ (sse # "open" => sse' = sse)
      BY <2>2, <2>5, SseReleasedIs
    <2>7. bridge' # "none"
      BY <2>2, <2>5, <1>4, SseLockIs
    <2> QED
      BY <1>1, <1>4, <2>2, <2>3, <2>4, <2>6, <2>7
  <1> QED
    BY <1>2, <1>3, <1>4

(* What the start of an SSE stream does to the layers of the waiter chain.  *)
LEMMA StartSseIs ==
    ASSUME TypeOK, NEW l \in Layers, StartSse(l)
    PROVE  /\ sse = "none" /\ sse' # "none" /\ ~finalized /\ finalized'
           /\ bridge' # "none"
           /\ stage' = Notified(stage)
           /\ UNCHANGED <<handler, nextp, listeners, waiters, answer>>
           /\ \A m \in Layers :
                /\ streaming[m] => streaming'[m]
                /\ streaming'[m] => streaming[m] \/ \E i \in DOMAIN waiters : waiters[i] = m
                /\ result[m] # "none" => result'[m] = result[m]
                /\ result'[m] # result[m] =>
                      streaming'[m] /\ \E i \in DOMAIN waiters : waiters[i] = m
                /\ (\E i \in DOMAIN waiters : waiters[i] = m) => result'[m] # "none"
  <1>1. waiters \in Seq(Layers) /\ "open" \in Streams
    BY DEF TypeOK, Streams
  <1>2. /\ streaming' = SseStreaming(waiters)
        /\ result' = SseResult(waiters, "free")
        /\ bridge' = SseLock(waiters, "free")
        /\ sse' = SseReleased(waiters, "free", "open")
        /\ sse = "none" /\ ~finalized /\ res' = "sse"
        /\ stage' = Notified(stage)
        /\ UNCHANGED <<handler, nextp, listeners, waiters, answer>>
    BY DEF StartSse
  <1>3. \A m \in Layers :
          /\ streaming[m] => streaming'[m]
          /\ (\E i \in DOMAIN waiters : waiters[i] = m) => streaming'[m]
          /\ streaming'[m] => streaming[m] \/ \E i \in DOMAIN waiters : waiters[i] = m
    BY <1>1, <1>2, SseStreamingIs
  <1>4. \A m \in Layers :
          /\ result[m] # "none" => result'[m] = result[m]
          /\ (\A i \in DOMAIN waiters : waiters[i] # m) => result'[m] = result[m]
          /\ (\E i \in DOMAIN waiters : waiters[i] = m) => result'[m] # "none"
    BY <1>1, <1>2, SseResultIs
  <1>5. sse' # "none" /\ bridge' # "none" /\ finalized'
    BY <1>1, <1>2, SseReleasedIs, SseLockIs DEF finalized
  <1> QED
    BY <1>2, <1>3, <1>4, <1>5

(* A notification changes no stage to or from "reported".                   *)
LEMMA ReportedStays ==
    ASSUME TypeOK, NEW m \in Layers, stage' = Notified(stage)
    PROVE  stage'[m] = "reported" <=> stage[m] = "reported"
  BY DEF Notified, TypeOK

(* Every step keeps a layer's result in line with its reactions.            *)
LEMMA ResultStep ==
    ASSUME TypeOK, ChainOrder, StageInv, ResultInv, SseInv, [Next]_vars
    PROVE  ResultInv'
  <1> DEFINE Good(m) ==
        /\ m \notin Routed /\ result[m] # "none" => stage[m] = "reported"
        /\ m \in Routed /\ stage[m] = "reported" => result[m] # "none"
        /\ m \in Routed /\ result[m] = "resolved" => finalized
        /\ result[m] \in {"closing", "cancelling"} => m \in Routed /\ finalized
        /\ result[m] \notin {"none", "failed"} => handler[m] \in Fulfilled \/ streaming[m]
  <1>1. \A m \in Layers : Good(m)
    BY DEF ResultInv
  <1> SUFFICES ASSUME NEW m \in Layers PROVE Good(m)'
    BY DEF ResultInv
  <1>2. Good(m)
    BY <1>1
  <1> HIDE DEF Good
  <1>3. finalized => finalized'
    BY Monotone
  <1>4. ASSUME result'[m] = result[m],
               stage'[m] = "reported" <=> stage[m] = "reported",
               handler[m] \in Fulfilled => handler'[m] \in Fulfilled,
               streaming[m] => streaming'[m]
        PROVE  Good(m)'
    BY <1>2, <1>3, <1>4 DEF Good
  <1>5. ASSUME NEW l \in Layers, CallNext(l) PROVE Good(m)'
    <2>1. UNCHANGED <<result, streaming>>
      BY <1>5 DEF CallNext, layerVars
    <2>2. stage'[m] = "reported" <=> stage[m] = "reported"
      BY <1>5 DEF CallNext, NextNotified, TypeOK
    <2>3. handler[m] \in Fulfilled => handler'[m] \in Fulfilled
      <3>1. N \in Nat /\ l \in Nat /\ m \in Nat
        BY LayersAssumption DEF Layers
      <3>2. m = l + 1 => handler[m] = "idle"
        BY <1>5, <3>1 DEF CallNext, ChainOrder
      <3> QED
        BY <1>5, <3>1, <3>2 DEF CallNext, TypeOK, Fulfilled
    <2> QED
      BY <1>4, <2>1, <2>2, <2>3
  <1>6. ASSUME NEW l \in Layers, CallNextWithError(l) PROVE Good(m)'
    <2>1. stage'[m] = "reported" <=> stage[m] = "reported"
      BY <1>6 DEF CallNextWithError, NextNotified, TypeOK
    <2> QED
      BY <1>4, <1>6, <2>1 DEF CallNextWithError, layerVars
  <1>7. ASSUME NEW l \in Layers, Reply(l) \/ StartSseLate(l) PROVE Good(m)'
    BY <1>4, <1>7, ReportedStays DEF Reply, StartSseLate, handlerVars, layerVars
  <1>8. ASSUME NEW l \in Layers, StartSse(l) PROVE Good(m)'
    <2>1. stage'[m] = "reported" <=> stage[m] = "reported"
      BY <1>8, ReportedStays, StartSseIs
    <2>2. CASE result'[m] = result[m]
      BY <1>4, <1>8, <2>1, <2>2, StartSseIs
    <2>3. CASE result'[m] # result[m]
      <3>1. m \in Routed
        BY <1>8, <2>3, StartSseIs DEF SseInv
      <3>2. streaming'[m] /\ finalized' /\ result'[m] # "none"
        BY <1>8, <2>3, StartSseIs
      <3> QED
        BY <3>1, <3>2 DEF Good
    <2> QED
      BY <2>2, <2>3
  <1>9. ASSUME NEW l \in Layers, Returns(l) PROVE Good(m)'
    <2>1. PICK out \in {"async", "error"} \cup Fulfilled : Return(l, out)
      BY <1>9 DEF Returns
    <2>2. handler[m] \in Fulfilled => handler'[m] \in Fulfilled
      BY <2>1, ReturnIs DEF TypeOK, Fulfilled
    <2>3. CASE result'[m] = result[m]
      BY <1>4, <2>1, <2>2, <2>3, ReturnIs
    <2>4. CASE result'[m] # result[m]
      <3>1. m = l /\ m \in Routed /\ streaming'[m] /\ finalized' /\ result'[m] # "none"
        BY <1>3, <2>1, <2>4, ReturnIs DEF SseInv
      <3> QED
        BY <3>1 DEF Good
    <2> QED
      BY <2>3, <2>4
  <1>10. ASSUME NEW l \in Layers, Finishes(l) PROVE Good(m)'
    BY <1>4, <1>10 DEF Finishes, FinishHandler, layerVars, TypeOK, Fulfilled
  <1>11. ASSUME NEW l \in Layers, OnSettled(l), handler' = handler, handler[l] \in Fulfilled
         PROVE  Good(m)'
    <2>1. CASE m = l
      BY <1>2, <1>3, <1>11, <2>1, OnSettledIs DEF Good
    <2>2. CASE m # l
      BY <1>4, <1>11, <2>2, OnSettledIs
    <2> QED
      BY <2>1, <2>2
  <1>12. ASSUME NEW l \in Layers, AfterNext(l), handler' = handler, handler[l] \in Fulfilled,
                stage[l] # "reported"
         PROVE  Good(m)'
    <2>1. CASE OnSettled(l)
      BY <1>11, <1>12, <2>1
    <2>2. CASE stage' = [stage EXCEPT ![l] = "next"] /\ UNCHANGED <<result, streaming>>
      BY <1>4, <1>12, <2>2 DEF TypeOK
    <2> QED
      BY <1>12, <2>1, <2>2, AfterNextIs
  <1>13. ASSUME NEW l \in Layers, Settle(l) PROVE Good(m)'
    <2>1. CASE NeedsNoWait(l)
      BY <1>12, <1>13, <2>1 DEF Settle
    <2>2. CASE ~NeedsNoWait(l)
      BY <1>4, <1>13, <2>2 DEF Settle, TypeOK
    <2> QED
      BY <2>1, <2>2
  <1>14. ASSUME NEW l \in Layers, WaitOver(l) PROVE Good(m)'
    BY <1>12, <1>14 DEF WaitOver, StageInv
  <1>15. ASSUME NEW l \in Layers, NextFulfilled(l) PROVE Good(m)'
    BY <1>11, <1>15 DEF NextFulfilled, StageInv
  <1>16. ASSUME NEW l \in Layers, NextRejected(l) \/ HandlerRejected(l) PROVE Good(m)'
    <2>1. handler' = handler /\ OnError(l)
      BY <1>16 DEF NextRejected, HandlerRejected
    <2>2. CASE m = l
      BY <1>2, <1>3, <2>1, <2>2, OnErrorIs DEF Good
    <2>3. CASE m # l
      BY <1>4, <2>1, <2>3, OnErrorIs
    <2> QED
      BY <2>2, <2>3
  <1>17. ASSUME NEW l \in Layers, HeadReleased(l) PROVE Good(m)'
    <2>1. /\ stage'[m] = "reported" <=> stage[m] = "reported"
          /\ UNCHANGED <<handler, streaming>> /\ finalized'
      BY <1>17, ReportedStays DEF HeadReleased, finalized
    <2>2. CASE m = l
      <3>1. result[m] \in {"closing", "cancelling"} /\ result'[m] = "resolved"
        BY <1>17, <2>2 DEF HeadReleased, BodyReleased, TypeOK
      <3> QED
        BY <1>2, <2>1, <3>1 DEF Good
    <2>3. CASE m # l
      BY <1>4, <1>17, <2>1, <2>3 DEF HeadReleased, TypeOK
    <2> QED
      BY <2>2, <2>3
  <1>18. ASSUME NEW l \in Layers, Compose(l) PROVE Good(m)'
    BY <1>4, <1>18, ReportedStays DEF Compose, LayerResolved, LayerRejected, layerVars
  <1>19. CASE EndOfChain \/ StreamCloses \/ UNCHANGED vars
    BY <1>4, <1>19, ReportedStays DEF EndOfChain, StreamCloses, vars, layerVars, handlerVars
  <1> QED
    BY <1>5, <1>6, <1>7, <1>8, <1>9, <1>10, <1>13, <1>14, <1>15, <1>16, <1>17, <1>18, <1>19
    DEF Next, HandlerStep, Reaction

(* Everything but a handler's call and its return leaves the chain alone.   *)
LEMMA ReactionSse ==
    ASSUME TypeOK, NEW l \in Layers, Reaction(l)
    PROVE  /\ UNCHANGED <<handler, nextp, waiters, streaming, bridge, sseBy>>
           /\ sse' \in {sse, "destroyed"} /\ (sse # "open" => sse' = sse)
  BY OnSettledIs, OnErrorIs, AfterNextIs
  DEF Reaction, Settle, WaitOver, NextFulfilled, NextRejected, HandlerRejected,
      HeadReleased, sseVars

(* Every step keeps the SSE response, its stream and the chain consistent.  *)
LEMMA SseStep ==
    ASSUME TypeOK, SseInv, [Next]_vars
    PROVE  SseInv'
  <1>1. finalized => finalized'
    BY Monotone
  <1>2. ASSUME sse # "none" => sse' # "none", bridge' = bridge, waiters' = waiters,
               \A m \in Layers : streaming'[m] => streaming[m],
               \A m \in Layers : handler'[m] \notin {"idle", "sync"} =>
                                    handler[m] \notin {"idle", "sync"}
        PROVE  SseInv'
    BY <1>1, <1>2, KindAssumption DEF SseInv
  <1>3. ASSUME NEW l \in Layers, CallNext(l) PROVE SseInv'
    <2>1. /\ UNCHANGED <<streaming, bridge, sse, waiters>>
          /\ \A m \in Layers : handler'[m] \in {handler[m], "sync"}
      BY <1>3 DEF CallNext, layerVars, ctxVars, sseVars, TypeOK
    <2> QED
      BY <1>2, <2>1
  <1>4. ASSUME NEW l \in Layers, CallNextWithError(l) \/ Reply(l) \/ StartSseLate(l)
        PROVE  SseInv'
    BY <1>2, <1>4 DEF CallNextWithError, Reply, StartSseLate, handlerVars, layerVars,
                      ctxVars, sseVars
  <1>5. ASSUME NEW l \in Layers, StartSse(l) PROVE SseInv'
    BY <1>5, StartSseIs DEF SseInv
  <1>6. ASSUME NEW l \in Layers, Returns(l) PROVE SseInv'
    <2>1. PICK out \in {"async", "error"} \cup Fulfilled : Return(l, out)
      BY <1>6 DEF Returns
    <2>2. waiters \in Seq(Layers)
      BY DEF TypeOK
    <2>3. /\ bridge' # "none" => finalized' /\ sse' # "none"
          /\ \A m \in Layers : streaming'[m] => m \in Routed /\ bridge' # "none"
      BY <1>1, <2>1, ReturnIs DEF SseInv
    <2>4. \A i \in DOMAIN waiters' : waiters'[i] \in Routed
      BY <2>1, <2>2, ReturnIs DEF SseInv
    <2>5. ASSUME bridge' = "none", NEW m \in Routed, handler'[m] \notin {"idle", "sync"}
          PROVE  \E i \in DOMAIN waiters' : waiters'[i] = m
      <3>1. bridge = "none" /\ m \in Layers
        BY <2>1, <2>5, ReturnIs, KindAssumption
      <3>2. CASE m = l
        <4>1. waiters' = Append(waiters, l)
          BY <2>1, <2>5, <3>1, <3>2, ReturnIs
        <4>2. Len(waiters) + 1 \in DOMAIN waiters' /\ waiters'[Len(waiters) + 1] = l
          BY <2>2, <4>1
        <4> QED
          BY <3>2, <4>2
      <3>3. CASE m # l
        <4>1. handler'[m] = handler[m]
          BY <2>1, <3>1, <3>3, ReturnIs DEF TypeOK
        <4>2. PICK i \in DOMAIN waiters : waiters[i] = m
          BY <2>5, <3>1, <4>1 DEF SseInv
        <4>3. waiters' = waiters \/ waiters' = Append(waiters, l)
          BY <2>1, ReturnIs
        <4>4. i \in DOMAIN waiters' /\ waiters'[i] = m
          BY <2>2, <4>2, <4>3
        <4> QED
          BY <4>4
      <3> QED
        BY <3>2, <3>3
    <2> QED
      BY <2>3, <2>4, <2>5 DEF SseInv
  <1>7. ASSUME NEW l \in Layers, Finishes(l) PROVE SseInv'
    <2>1. /\ UNCHANGED <<streaming, bridge, sse, waiters>>
          /\ handler[l] = "async" /\ \A m \in Layers : m # l => handler'[m] = handler[m]
      BY <1>7 DEF Finishes, FinishHandler, layerVars, ctxVars, sseVars, TypeOK
    <2> QED
      BY <1>2, <2>1
  <1>8. ASSUME NEW l \in Layers, Reaction(l) PROVE SseInv'
    BY <1>2, <1>8, ReactionSse
  <1>9. ASSUME NEW l \in Layers, Compose(l) PROVE SseInv'
    BY <1>2, <1>9 DEF Compose, LayerResolved, LayerRejected, layerVars, sseVars
  <1>10. CASE EndOfChain \/ StreamCloses \/ UNCHANGED vars
    BY <1>2, <1>10 DEF EndOfChain, StreamCloses, vars, handlerVars, layerVars, ctxVars, sseVars
  <1> QED
    BY <1>3, <1>4, <1>5, <1>6, <1>7, <1>8, <1>9, <1>10 DEF Next, HandlerStep

(* A handler's outcome and a layer's resolution are final.                  *)
LEMMA OutcomeStays ==
    ASSUME TypeOK, ChainOrder, [Next]_vars, NEW k \in Layers
    PROVE  /\ handler[k] \in Fulfilled \cup {"error"} => handler'[k] = handler[k]
           /\ result[k] \notin {"none", "closing", "cancelling"} =>
                result'[k] \in {result[k], "resolved"}
           /\ result[k] = "resolved" => result'[k] = "resolved"
  <1>1. ASSUME NEW l \in Layers, CallNext(l)
        PROVE  /\ handler[k] \in Fulfilled \cup {"error"} => handler'[k] = handler[k]
               /\ result' = result
    <2>1. N \in Nat /\ l \in Nat /\ k \in Nat
      BY LayersAssumption DEF Layers
    <2>2. k = l + 1 => handler[k] = "idle"
      BY <1>1, <2>1 DEF CallNext, ChainOrder
    <2> QED
      BY <1>1, <2>1, <2>2 DEF CallNext, TypeOK, Fulfilled, layerVars
  <1>2. ASSUME NEW l \in Layers, Returns(l)
        PROVE  /\ handler[k] \in Fulfilled \cup {"error"} => handler'[k] = handler[k]
               /\ result[k] # "none" => result'[k] = result[k]
    <2>1. PICK out \in {"async", "error"} \cup Fulfilled : Return(l, out)
      BY <1>2 DEF Returns
    <2> QED
      BY <2>1, ReturnIs DEF TypeOK, Fulfilled
  <1>3. ASSUME NEW l \in Layers, Finishes(l)
        PROVE  /\ handler[k] \in Fulfilled \cup {"error"} => handler'[k] = handler[k]
               /\ result' = result
    BY <1>3 DEF Finishes, FinishHandler, TypeOK, Fulfilled, layerVars
  <1>4. ASSUME NEW l \in Layers, StartSse(l)
        PROVE  handler' = handler /\ (result[k] # "none" => result'[k] = result[k])
    BY <1>4, StartSseIs
  <1>5. ASSUME NEW l \in Layers, CallNextWithError(l) \/ Reply(l) \/ StartSseLate(l) \/ Compose(l)
        PROVE  UNCHANGED <<handler, result>>
    BY <1>5 DEF CallNextWithError, Reply, StartSseLate, Compose, LayerResolved, LayerRejected,
                handlerVars, layerVars
  <1>6. ASSUME NEW l \in Layers, Reaction(l)
        PROVE  /\ handler' = handler
               /\ result[k] \notin {"none", "closing", "cancelling"} =>
                    result'[k] \in {result[k], "resolved"}
    <2>1. ASSUME OnSettled(l) \/ OnError(l) \/ result' = result
          PROVE  result[k] # "none" => result'[k] \in {result[k], "resolved"}
      BY <2>1, OnSettledIs, OnErrorIs
    <2>2. CASE HeadReleased(l)
      BY <2>2 DEF HeadReleased, BodyReleased, TypeOK
    <2>3. CASE ~HeadReleased(l)
      BY <1>6, <2>1, <2>3, AfterNextIs
      DEF Reaction, Settle, WaitOver, NextFulfilled, NextRejected, HandlerRejected
    <2> QED
      BY <2>2, <2>3
  <1>7. CASE EndOfChain \/ StreamCloses \/ UNCHANGED vars
    BY <1>7 DEF EndOfChain, StreamCloses, vars, handlerVars, layerVars
  <1>8. result[k] \in Results
    BY DEF TypeOK, Results
  <1> QED
    BY <1>1, <1>2, <1>3, <1>4, <1>5, <1>6, <1>7, <1>8 DEF Next, HandlerStep

(* A layer that answered with its own Response stays answered.              *)
LEMMA BypassedStays ==
    ASSUME TypeOK, ChainOrder, [Next]_vars, NEW m \in Layers, Bypassed(m)
    PROVE  Bypassed(m)'
  <1>1. PICK k \in Layers :
          k < m /\ k \notin Routed /\ handler[k] = "response" /\ result[k] = "resolved"
    BY DEF Bypassed
  <1>2. handler'[k] = "response" /\ result'[k] = "resolved"
    BY <1>1, OutcomeStays DEF Fulfilled
  <1> QED
    BY <1>1, <1>2 DEF Bypassed

(* The layer whose Response compose() assigns has no wait outside it.       *)
LEMMA AssignedBypasses ==
    ASSUME TypeOK, ChainOrder, StageInv, ResultInv, NEW l \in Layers, NEW m \in Layers,
           result[l] = "resolved", handler[l] = "response", ~finalized,
           stage[m] = "waiting", nextp[m] = "none"
    PROVE  Bypassed(m)
  <1>1. l \notin Routed /\ stage[l] = "reported"
    BY DEF ResultInv
  <1>2. l # m /\ ~(m < l)
    BY <1>1 DEF ChainOrder
  <1>3. l \in Nat /\ m \in Nat
    BY LayersAssumption DEF Layers
  <1> QED
    BY <1>1, <1>2, <1>3 DEF Bypassed

(* No step finalizes the context or calls next() past a waiting layer.      *)
LEMMA NoLostStep ==
    ASSUME TypeOK, ChainOrder, StageInv, ResultInv, NoLostWakeUp, [Next]_vars
    PROVE  NoLostWakeUp'
  <1> SUFFICES ASSUME NEW m \in Layers, stage'[m] = "waiting"
               PROVE  nextp'[m] = "none" /\ (finalized' => Bypassed(m)')
    BY DEF NoLostWakeUp
  <1>1. Bypassed(m) => Bypassed(m)'
    BY BypassedStays
  <1>2. ASSUME stage[m] = "waiting", nextp'[m] = nextp[m], finalized' => finalized
        PROVE  nextp'[m] = "none" /\ (finalized' => Bypassed(m)')
    BY <1>1, <1>2 DEF NoLostWakeUp
  <1>3. ASSUME stage' = Notified(stage) PROVE FALSE
    <2>1. stage[m] = "waiting" /\ m \notin listeners
      BY <1>3, NotifiedIs DEF TypeOK
    <2> QED
      BY <2>1 DEF StageInv
  <1>4. ASSUME NEW l \in Layers, nextp[l] = "none", stage' = NextNotified(l)
        PROVE  m # l /\ stage[m] = "waiting"
    BY <1>4, NextNotifiedIs
  <1>5. ASSUME NEW l \in Layers, CallNext(l) \/ CallNextWithError(l)
        PROVE  nextp'[m] = "none" /\ (finalized' => Bypassed(m)')
    <2>1. m # l /\ stage[m] = "waiting" /\ res' = res
      BY <1>4, <1>5 DEF CallNext, CallNextWithError, ctxVars
    <2>2. nextp'[m] = nextp[m]
      BY <1>5, <2>1 DEF CallNext, CallNextWithError, TypeOK
    <2> QED
      BY <1>2, <2>1, <2>2 DEF finalized
  <1>6. ASSUME NEW l \in Layers, Reply(l) \/ StartSse(l) \/ HeadReleased(l) PROVE FALSE
    BY <1>3, <1>6 DEF Reply, StartSse, HeadReleased
  <1>7. ASSUME NEW l \in Layers, StartSseLate(l) \/ Returns(l) \/ Finishes(l)
        PROVE  nextp'[m] = "none" /\ (finalized' => Bypassed(m)')
    BY <1>2, <1>7 DEF StartSseLate, Returns, Return, Finishes, FinishHandler, handlerVars,
                      ctxVars, finalized
  <1>8. ASSUME NEW l \in Layers, OnSettled(l), nextp' = nextp
        PROVE  nextp'[m] = "none" /\ (finalized' => Bypassed(m)')
    <2>1. m # l /\ stage[m] = "waiting" /\ (res' = res \/ m \notin listeners)
      BY <1>8, OnSettledIs
    <2>2. res' = res
      BY <2>1 DEF StageInv
    <2> QED
      BY <1>2, <1>8, <2>1, <2>2 DEF finalized
  <1>9. ASSUME NEW l \in Layers, AfterNext(l), nextp' = nextp
        PROVE  nextp'[m] = "none" /\ (finalized' => Bypassed(m)')
    <2>1. CASE OnSettled(l)
      BY <1>8, <1>9, <2>1
    <2>2. CASE stage' = [stage EXCEPT ![l] = "next"] /\ res' = res
      BY <1>2, <1>9, <2>2 DEF TypeOK, finalized
    <2> QED
      BY <1>9, <2>1, <2>2, AfterNextIs
  <1>10. ASSUME NEW l \in Layers, Settle(l)
         PROVE  nextp'[m] = "none" /\ (finalized' => Bypassed(m)')
    <2>1. CASE NeedsNoWait(l)
      BY <1>9, <1>10, <2>1 DEF Settle
    <2>2. CASE ~NeedsNoWait(l)
      <3>1. /\ stage' = [stage EXCEPT ![l] = "waiting"] /\ nextp' = nextp /\ res' = res
            /\ nextp[l] = "none" /\ ~finalized
        BY <1>10, <2>2 DEF Settle, NeedsNoWait
      <3>2. CASE m = l
        BY <3>1, <3>2 DEF finalized
      <3>3. CASE m # l
        BY <1>2, <3>1, <3>3 DEF TypeOK, finalized
      <3> QED
        BY <3>2, <3>3
    <2> QED
      BY <2>1, <2>2
  <1>11. ASSUME NEW l \in Layers, WaitOver(l) \/ NextFulfilled(l)
         PROVE  nextp'[m] = "none" /\ (finalized' => Bypassed(m)')
    BY <1>8, <1>9, <1>11 DEF WaitOver, NextFulfilled
  <1>12. ASSUME NEW l \in Layers, NextRejected(l) \/ HandlerRejected(l)
         PROVE  nextp'[m] = "none" /\ (finalized' => Bypassed(m)')
    <2>1. nextp' = nextp /\ OnError(l)
      BY <1>12 DEF NextRejected, HandlerRejected
    <2>2. stage[m] = "waiting" /\ res' = res
      BY <2>1, OnErrorIs
    <2> QED
      BY <1>2, <2>1, <2>2 DEF finalized
  <1>13. ASSUME NEW l \in Layers, NEW ok, Outcome(l, ok), stage[m] = "waiting"
         PROVE  nextp'[m] = nextp[m] /\ nextp[m] = "none"
    BY <1>13 DEF Outcome, NoLostWakeUp, TypeOK
  <1>14. ASSUME NEW l \in Layers, LayerResolved(l)
         PROVE  nextp'[m] = "none" /\ (finalized' => Bypassed(m)')
    <2>1. stage[m] = "waiting" /\ result[l] = "resolved"
      BY <1>14 DEF LayerResolved
    <2>2. nextp'[m] = nextp[m] /\ nextp[m] = "none"
      BY <1>13, <1>14, <2>1 DEF LayerResolved
    <2>3. CASE finalized \/ handler[l] # "response"
      BY <1>2, <1>14, <2>1, <2>2, <2>3 DEF LayerResolved, finalized
    <2>4. CASE ~finalized /\ handler[l] = "response"
      BY <1>1, <2>1, <2>2, <2>4, AssignedBypasses
    <2> QED
      BY <2>3, <2>4
  <1>15. ASSUME NEW l \in Layers, LayerRejected(l)
         PROVE  nextp'[m] = "none" /\ (finalized' => Bypassed(m)')
    <2>1. CASE stage' = Notified(stage)
      BY <1>3, <2>1
    <2>2. CASE stage' = stage /\ res' = res
      <3>1. nextp'[m] = nextp[m]
        BY <1>13, <1>15, <2>2 DEF LayerRejected
      <3> QED
        BY <1>2, <2>2, <3>1 DEF finalized
    <2> QED
      BY <1>15, <2>1, <2>2 DEF LayerRejected
  <1>16. CASE EndOfChain
    <2>1. CASE stage' = Notified(stage)
      BY <1>3, <2>1
    <2>2. CASE stage' = stage /\ res' = res
      <3>1. nextp'[m] = nextp[m]
        BY <1>16, <2>2 DEF EndOfChain, NoLostWakeUp, TypeOK
      <3> QED
        BY <1>2, <2>2, <3>1 DEF finalized
    <2> QED
      BY <1>16, <2>1, <2>2 DEF EndOfChain
  <1>17. CASE StreamCloses \/ UNCHANGED vars
    BY <1>2, <1>17 DEF StreamCloses, vars, handlerVars, ctxVars, finalized
  <1> QED
    BY <1>5, <1>6, <1>7, <1>10, <1>11, <1>12, <1>14, <1>15, <1>16, <1>17
    DEF Next, HandlerStep, Reaction, Compose

(* No step resolves a layer, or its next(), on an unfinalized context.      *)
LEMMA ResolvedStep ==
    ASSUME TypeOK, ChainOrder, StageInv, ResultInv, SseInv, ResolvedMeansFinalized, [Next]_vars
    PROVE  ResolvedMeansFinalized'
  <1> SUFFICES ASSUME NEW m \in Layers
               PROVE  /\ result'[m] = "resolved" => finalized' \/ handler'[m] = "response"
                      /\ nextp'[m] = "resolved" => finalized'
    BY DEF ResolvedMeansFinalized
  <1>1. finalized => finalized'
    BY Monotone
  <1>2. handler[m] = "response" => handler'[m] = "response"
    BY OutcomeStays DEF Fulfilled
  <1>3. ASSUME result[m] = "resolved" \/ result'[m] # "resolved"
        PROVE  result'[m] = "resolved" => finalized' \/ handler'[m] = "response"
    BY <1>1, <1>2, <1>3 DEF ResolvedMeansFinalized
  <1>4. ASSUME nextp[m] = "resolved" \/ nextp'[m] # "resolved"
        PROVE  nextp'[m] = "resolved" => finalized'
    BY <1>1, <1>4 DEF ResolvedMeansFinalized
  <1>5. ASSUME NEW l \in Layers, CallNext(l) \/ CallNextWithError(l)
        PROVE  /\ result' = result
               /\ nextp[m] = "resolved" \/ nextp'[m] # "resolved" \/ finalized
    BY <1>5 DEF CallNext, CallNextWithError, layerVars, TypeOK
  <1>6. ASSUME NEW l \in Layers, Reply(l) \/ StartSseLate(l) \/ Finishes(l)
        PROVE  UNCHANGED <<nextp, result>>
    BY <1>6 DEF Reply, StartSseLate, Finishes, FinishHandler, handlerVars, layerVars
  <1>7. ASSUME NEW l \in Layers, StartSse(l)
        PROVE  finalized'
    BY <1>7, StartSseIs
  <1>8. ASSUME NEW l \in Layers, Returns(l)
        PROVE  nextp' = nextp /\ (result'[m] = result[m] \/ finalized')
    <2>1. PICK out \in {"async", "error"} \cup Fulfilled : Return(l, out)
      BY <1>8 DEF Returns
    <2> QED
      BY <1>1, <2>1, ReturnIs DEF SseInv
  <1>9. ASSUME NEW l \in Layers, OnSettled(l), handler' = handler, nextp' = nextp,
               l \notin Routed => finalized \/ handler[l] = "response"
        PROVE  /\ result'[m] = "resolved" => finalized' \/ handler'[m] = "response"
               /\ nextp'[m] = "resolved" => finalized'
    <2>1. CASE m = l
      BY <1>1, <1>3, <1>4, <1>9, <2>1, OnSettledIs
    <2>2. CASE m # l
      BY <1>3, <1>4, <1>9, <2>2, OnSettledIs
    <2> QED
      BY <2>1, <2>2
  <1>10. ASSUME NEW l \in Layers, AfterNext(l), handler' = handler, nextp' = nextp,
                l \notin Routed => finalized \/ handler[l] = "response" \/ nextp[l] # "none"
         PROVE  /\ result'[m] = "resolved" => finalized' \/ handler'[m] = "response"
                /\ nextp'[m] = "resolved" => finalized'
    <2>1. CASE nextp[l] = "none" /\ OnSettled(l)
      BY <1>9, <1>10, <2>1
    <2>2. CASE result' = result
      BY <1>3, <1>4, <1>10, <2>2
    <2> QED
      BY <1>10, <2>1, <2>2, AfterNextIs
  <1>11. ASSUME NEW l \in Layers, Settle(l)
         PROVE  /\ result'[m] = "resolved" => finalized' \/ handler'[m] = "response"
                /\ nextp'[m] = "resolved" => finalized'
    <2>1. CASE NeedsNoWait(l)
      <3>1. l \notin Routed => l \in Waits
        BY KindAssumption
      <3>2. l \notin Routed => finalized \/ handler[l] = "response" \/ nextp[l] # "none"
        BY <2>1, <3>1 DEF NeedsNoWait
      <3> QED
        BY <1>10, <1>11, <2>1, <3>2 DEF Settle
    <2>2. CASE ~NeedsNoWait(l)
      BY <1>3, <1>4, <1>11, <2>2 DEF Settle
    <2> QED
      BY <2>1, <2>2
  <1>12. ASSUME NEW l \in Layers, WaitOver(l)
         PROVE  /\ result'[m] = "resolved" => finalized' \/ handler'[m] = "response"
                /\ nextp'[m] = "resolved" => finalized'
    BY <1>10, <1>12 DEF WaitOver, StageInv
  <1>13. ASSUME NEW l \in Layers, NextFulfilled(l)
         PROVE  /\ result'[m] = "resolved" => finalized' \/ handler'[m] = "response"
                /\ nextp'[m] = "resolved" => finalized'
    BY <1>9, <1>13 DEF NextFulfilled, ResolvedMeansFinalized
  <1>14. ASSUME NEW l \in Layers, NextRejected(l) \/ HandlerRejected(l)
         PROVE  nextp' = nextp /\ (result'[m] = result[m] \/ result'[m] # "resolved")
    <2>1. nextp' = nextp /\ OnError(l)
      BY <1>14 DEF NextRejected, HandlerRejected
    <2> QED
      BY <2>1, OnErrorIs
  <1>15. ASSUME NEW l \in Layers, HeadReleased(l)
         PROVE  finalized'
    BY <1>15 DEF HeadReleased, finalized
  <1>16. ASSUME NEW l \in Layers, LayerResolved(l)
         PROVE  result' = result /\ finalized'
    <2>1. finalized \/ handler[l] = "response"
      BY <1>16 DEF LayerResolved, ResolvedMeansFinalized
    <2> QED
      BY <1>1, <1>16, <2>1 DEF LayerResolved, layerVars, NewResponses, finalized
  <1>17. ASSUME NEW l \in Layers, LayerRejected(l)
         PROVE  /\ result' = result
                /\ finalized' \/ nextp[m] = "resolved" \/ nextp'[m] # "resolved"
    BY <1>17 DEF LayerRejected, Outcome, layerVars, NewResponses, finalized, TypeOK
  <1>18. CASE EndOfChain
    <2>1. /\ result' = result
          /\ finalized' \/ nextp[m] = "resolved" \/ nextp'[m] # "resolved"
      BY <1>18 DEF EndOfChain, layerVars, NewResponses, finalized, TypeOK
    <2> QED
      BY <1>3, <1>4, <2>1
  <1>19. CASE StreamCloses \/ UNCHANGED vars
    BY <1>3, <1>4, <1>19 DEF StreamCloses, vars, handlerVars, layerVars
  <1> QED
    BY <1>1, <1>3, <1>4, <1>5, <1>6, <1>7, <1>8, <1>11, <1>12, <1>13, <1>14, <1>15, <1>16,
       <1>17, <1>18, <1>19
    DEF Next, HandlerStep, Reaction, Compose

(* No step leaves a routed layer unanswered once the SSE stream started.    *)
LEMMA SseAnswersStep ==
    ASSUME TypeOK, SseInv, SseAnswersRoutedLayers, [Next]_vars
    PROVE  SseAnswersRoutedLayers'
  <1> SUFFICES ASSUME bridge' # "none", NEW m \in Routed, handler'[m] \notin {"idle", "sync"}
               PROVE  result'[m] # "none"
    BY DEF SseAnswersRoutedLayers
  <1>1. m \in Layers
    BY KindAssumption
  <1>2. ASSUME bridge' = bridge, result[m] # "none" => result'[m] # "none",
               handler[m] \notin {"idle", "sync"}
        PROVE  result'[m] # "none"
    BY <1>2 DEF SseAnswersRoutedLayers
  <1>3. ASSUME NEW l \in Layers, CallNext(l) PROVE result'[m] # "none"
    <2>1. handler'[m] \in {handler[m], "sync"} /\ bridge' = bridge /\ result' = result
      BY <1>1, <1>3 DEF CallNext, layerVars, sseVars, TypeOK
    <2> QED
      BY <1>2, <2>1
  <1>4. ASSUME NEW l \in Layers, CallNextWithError(l) \/ Reply(l) \/ StartSseLate(l) \/ Compose(l)
        PROVE  result'[m] # "none"
    BY <1>2, <1>4 DEF CallNextWithError, Reply, StartSseLate, Compose, LayerResolved,
                      LayerRejected, handlerVars, layerVars, sseVars
  <1>5. ASSUME NEW l \in Layers, StartSse(l) PROVE result'[m] # "none"
    <2>1. bridge = "none" => \E i \in DOMAIN waiters : waiters[i] = m
      BY <1>5, StartSseIs DEF SseInv
    <2>2. bridge = "none"
      BY <1>5, StartSseIs DEF SseInv
    <2> QED
      BY <1>1, <1>5, <2>1, <2>2, StartSseIs
  <1>6. ASSUME NEW l \in Layers, Returns(l) PROVE result'[m] # "none"
    <2>1. PICK out \in {"async", "error"} \cup Fulfilled : Return(l, out)
      BY <1>6 DEF Returns
    <2>2. bridge # "none"
      BY <2>1, ReturnIs
    <2>3. CASE m = l
      BY <2>1, <2>2, <2>3, ReturnIs
    <2>4. CASE m # l
      <3>1. handler'[m] = handler[m] /\ result'[m] = result[m]
        BY <1>1, <2>1, <2>4, ReturnIs DEF TypeOK
      <3> QED
        BY <2>2, <3>1 DEF SseAnswersRoutedLayers
    <2> QED
      BY <2>3, <2>4
  <1>7. ASSUME NEW l \in Layers, Finishes(l) PROVE result'[m] # "none"
    <2>1. /\ bridge' = bridge /\ result' = result
          /\ handler[l] = "async" /\ (m # l => handler'[m] = handler[m])
      BY <1>1, <1>7 DEF Finishes, FinishHandler, layerVars, sseVars, TypeOK
    <2> QED
      BY <1>2, <2>1
  <1>8. ASSUME NEW l \in Layers, Reaction(l) PROVE result'[m] # "none"
    <2>1. bridge' = bridge /\ handler' = handler
      BY <1>8, ReactionSse
    <2>2. ASSUME OnSettled(l) \/ OnError(l) \/ result' = result \/ HeadReleased(l)
          PROVE  result[m] # "none" => result'[m] # "none"
      BY <1>1, <2>2, OnSettledIs, OnErrorIs DEF HeadReleased, TypeOK
    <2>3. OnSettled(l) \/ OnError(l) \/ result' = result \/ HeadReleased(l)
      BY <1>8, AfterNextIs
      DEF Reaction, Settle, WaitOver, NextFulfilled, NextRejected, HandlerRejected
    <2> QED
      BY <1>2, <2>1, <2>2, <2>3
  <1>9. CASE EndOfChain \/ StreamCloses \/ UNCHANGED vars
    BY <1>2, <1>9 DEF EndOfChain, StreamCloses, vars, handlerVars, layerVars, sseVars
  <1> QED
    BY <1>3, <1>4, <1>5, <1>6, <1>7, <1>8, <1>9 DEF Next, HandlerStep

(* No step leaves the stream of a failed handler open.                      *)
LEMMA FailedStep ==
    ASSUME TypeOK, ChainOrder, StageInv, ResultInv, SseInv, FailedHandlerEndsStream, [Next]_vars
    PROVE  FailedHandlerEndsStream'
  <1> SUFFICES ASSUME NEW m \in Layers,
                      streaming'[m], result'[m] # "failed", stage'[m] = "reported",
                      handler'[m] = "error"
               PROVE  sse' # "open"
    BY DEF FailedHandlerEndsStream
  <1>1. ASSUME streaming[m], result[m] # "failed", stage[m] = "reported",
               handler[m] = "error", sse' = "open" => sse = "open"
        PROVE  sse' # "open"
    BY <1>1 DEF FailedHandlerEndsStream
  <1>2. ASSUME NEW l \in Layers, CallNext(l) \/ CallNextWithError(l) PROVE sse' # "open"
    <2>1. handler[m] = "error" /\ UNCHANGED <<streaming, result, sse>>
      BY <1>2 DEF CallNext, CallNextWithError, layerVars, sseVars, TypeOK
    <2>2. stage[m] = "reported"
      BY <1>2 DEF CallNext, CallNextWithError, NextNotified, TypeOK
    <2> QED
      BY <1>1, <2>1, <2>2
  <1>3. ASSUME NEW l \in Layers, Reply(l) \/ Compose(l) PROVE sse' # "open"
    <2>1. UNCHANGED <<handler, streaming, result, sse>>
      BY <1>3 DEF Reply, Compose, LayerResolved, LayerRejected, layerVars, sseVars
    <2>2. stage[m] = "reported"
      BY <1>3, ReportedStays DEF Reply, Compose, LayerResolved, LayerRejected
    <2> QED
      BY <1>1, <2>1, <2>2
  <1>4. ASSUME NEW l \in Layers, StartSse(l) PROVE sse' # "open"
    <2>1. sse = "none" /\ ~streaming[m]
      BY <1>4, StartSseIs DEF SseInv
    <2>2. m \in Routed /\ handler[m] = "error" /\ stage[m] = "reported"
      BY <1>4, <2>1, ReportedStays, StartSseIs DEF SseInv
    <2>3. result[m] # "none" /\ result'[m] = result[m]
      BY <1>4, <2>2, StartSseIs DEF ResultInv
    <2> QED
      BY <2>1, <2>2, <2>3 DEF ResultInv, Fulfilled
  <1>5. ASSUME NEW l \in Layers, StartSseLate(l) PROVE sse' # "open"
    BY <1>5 DEF StartSseLate, layerVars, SseInv
  <1>6. ASSUME NEW l \in Layers, Returns(l) PROVE sse' # "open"
    <2>1. PICK out \in {"async", "error"} \cup Fulfilled : Return(l, out)
      BY <1>6 DEF Returns
    <2>2. stage[m] = "reported" /\ handler[l] = "sync"
      BY <2>1, ReturnIs
    <2>3. m # l
      BY <2>2 DEF StageInv, Fulfilled
    <2>4. handler[m] = "error" /\ result'[m] = result[m] /\ streaming[m]
      BY <2>1, <2>3, ReturnIs DEF TypeOK
    <2> QED
      BY <1>1, <2>1, <2>2, <2>4, ReturnIs
  <1>7. ASSUME NEW l \in Layers, Finishes(l) PROVE sse' # "open"
    <2>1. /\ UNCHANGED <<stage, streaming, result, sse>>
          /\ handler[l] = "async" /\ (m # l => handler'[m] = handler[m])
      BY <1>7 DEF Finishes, FinishHandler, layerVars, sseVars, TypeOK
    <2>2. m # l
      BY <2>1 DEF StageInv, Fulfilled
    <2> QED
      BY <1>1, <2>1, <2>2
  <1>8. ASSUME NEW l \in Layers, OnSettled(l), handler[l] \in Fulfilled, handler' = handler
        PROVE  sse' # "open"
    <2>1. m # l
      BY <1>8 DEF Fulfilled
    <2> QED
      BY <1>1, <1>8, <2>1, OnSettledIs
  <1>9. ASSUME NEW l \in Layers, AfterNext(l), handler[l] \in Fulfilled, handler' = handler
        PROVE  sse' # "open"
    <2>1. CASE OnSettled(l)
      BY <1>8, <1>9, <2>1
    <2>2. CASE stage' = [stage EXCEPT ![l] = "next"] /\ UNCHANGED <<result, streaming, sse>>
      BY <1>1, <1>9, <2>2 DEF TypeOK
    <2> QED
      BY <1>9, <2>1, <2>2, AfterNextIs
  <1>10. ASSUME NEW l \in Layers, Settle(l) PROVE sse' # "open"
    <2>1. CASE NeedsNoWait(l)
      BY <1>9, <1>10, <2>1 DEF Settle
    <2>2. CASE ~NeedsNoWait(l)
      BY <1>1, <1>10, <2>2 DEF Settle, TypeOK, sseVars
    <2> QED
      BY <2>1, <2>2
  <1>11. ASSUME NEW l \in Layers, WaitOver(l) \/ NextFulfilled(l) PROVE sse' # "open"
    <2>1. handler[l] \in Fulfilled
      BY <1>11 DEF WaitOver, NextFulfilled, StageInv
    <2> QED
      BY <1>8, <1>9, <1>11, <2>1 DEF WaitOver, NextFulfilled
  <1>12. ASSUME NEW l \in Layers, NextRejected(l) \/ HandlerRejected(l) PROVE sse' # "open"
    <2>1. OnError(l) /\ handler' = handler
      BY <1>12 DEF NextRejected, HandlerRejected
    <2>2. CASE m = l
      BY <2>1, <2>2, OnErrorIs
    <2>3. CASE m # l
      BY <1>1, <2>1, <2>3, OnErrorIs
    <2> QED
      BY <2>2, <2>3
  <1>13. ASSUME NEW l \in Layers, HeadReleased(l) PROVE sse' # "open"
    <2>1. UNCHANGED <<handler, streaming, sse>> /\ stage[m] = "reported"
      BY <1>13, ReportedStays DEF HeadReleased, sseVars
    <2>2. result[m] # "failed"
      BY <1>13 DEF HeadReleased, BodyReleased, TypeOK
    <2> QED
      BY <1>1, <2>1, <2>2
  <1>14. CASE EndOfChain \/ StreamCloses \/ UNCHANGED vars
    <2>1. UNCHANGED <<handler, streaming, result>> /\ (sse' = "open" => sse = "open")
      BY <1>14 DEF EndOfChain, StreamCloses, vars, handlerVars, layerVars, sseVars
    <2>2. stage[m] = "reported"
      BY <1>14, ReportedStays DEF EndOfChain, StreamCloses, vars, handlerVars
    <2> QED
      BY <1>1, <2>1, <2>2
  <1> QED
    BY <1>2, <1>3, <1>4, <1>5, <1>6, <1>7, <1>10, <1>11, <1>12, <1>13, <1>14
    DEF Next, HandlerStep, Reaction

-----------------------------------------------------------------------------
(* The theorems.                                                            *)

(* The strengthening holds initially.                                       *)
LEMMA InitInv == Init => IInv
  <1> SUFFICES ASSUME Init PROVE IInv
    OBVIOUS
  <1>1. TypeOK
    BY InitType
  <1>2. N \in Nat /\ \A k \in Layers : k \in Nat /\ 1 <= k
    BY LayersAssumption DEF Layers
  <1>3. ChainOrder
    BY <1>2 DEF Init, ChainOrder
  <1>4. StageInv /\ ResultInv /\ SseInv
    BY KindAssumption DEF Init, StageInv, ResultInv, SseInv, finalized, Fulfilled
  <1>5. NoLostWakeUp /\ ResolvedMeansFinalized /\ SseAnswersRoutedLayers
        /\ FailedHandlerEndsStream
    BY DEF Init, NoLostWakeUp, ResolvedMeansFinalized, SseAnswersRoutedLayers,
           FailedHandlerEndsStream
  <1> QED
    BY <1>1, <1>3, <1>4, <1>5 DEF IInv

(* Every step, and every stutter, keeps the strengthening.                  *)
LEMMA StepInv == IInv /\ [Next]_vars => IInv'
  BY NextType, ChainStep, StageStep, ResultStep, SseStep, NoLostStep, ResolvedStep,
     SseAnswersStep, FailedStep
  DEF IInv

(* The strengthening holds in every behaviour: the reactions of a layer, its *)
(* result, the waiter chain and the SSE stream stay consistent.              *)
THEOREM Inductive == Spec => []IInv
  <1>1. Init => IInv
    BY InitInv
  <1>2. IInv /\ [Next]_vars => IInv'
    BY StepInv
  <1> QED
    BY <1>1, <1>2, PTL DEF Spec

(* The state variables keep their types.                                     *)
THEOREM TypeCorrect == Spec => []TypeOK
  <1>1. IInv => TypeOK
    BY DEF IInv
  <1> QED
    BY <1>1, Inductive, PTL

(* No middleware misses next() or a finalized response between its return    *)
(* and its wait (route-invoker.ts:90-107), for any number of layers.         *)
THEOREM WakeUpsArrive == Spec => []NoLostWakeUp
  <1>1. IInv => NoLostWakeUp
    BY DEF IInv
  <1> QED
    BY <1>1, Inductive, PTL

(* Hono's compose() never meets a context that nobody finalized.             *)
THEOREM AlwaysFinalized == Spec => []ResolvedMeansFinalized
  <1>1. IInv => ResolvedMeansFinalized
    BY DEF IInv
  <1> QED
    BY <1>1, Inductive, PTL

(* The start of an SSE stream settles every routed layer whose handler       *)
(* returned, and every one whose handler returns later.                      *)
THEOREM SseAnswers == Spec => []SseAnswersRoutedLayers
  <1>1. IInv => SseAnswersRoutedLayers
    BY DEF IInv
  <1> QED
    BY <1>1, Inductive, PTL

(* A failing handler ends the stream that answered its request.              *)
THEOREM FailureEndsStream == Spec => []FailedHandlerEndsStream
  <1>1. IInv => FailedHandlerEndsStream
    BY DEF IInv
  <1> QED
    BY <1>1, Inductive, PTL

(* The steps that settle a layer, and what each of them has seen.            *)
LEMMA SettlingSteps ==
    ASSUME IInv, [Next]_vars, NEW m \in Layers, result'[m] # result[m]
    PROVE  \/ /\ result[m] = "none" /\ streaming'[m]
              /\ finalized' \/ handler[m] = "sync"
           \/ /\ result[m] = "none" /\ nextp[m] = "none"
              /\ (Settle(m) /\ NeedsNoWait(m)) \/ WaitOver(m)
           \/ /\ result[m] = "none" /\ NextFulfilled(m)
           \/ /\ result[m] = "none" /\ result'[m] = "failed"
              /\ NextRejected(m) \/ HandlerRejected(m)
           \/ HeadReleased(m)
  <1> USE DEF IInv
  <1>1. ASSUME NEW l \in Layers, StartSse(l)
        PROVE  finalized' /\ result[m] = "none" /\ streaming'[m]
    BY <1>1, StartSseIs
  <1>2. ASSUME NEW l \in Layers, Returns(l)
        PROVE  result[m] = "none" /\ streaming'[m] /\ handler[m] = "sync"
    <2>1. PICK out \in {"async", "error"} \cup Fulfilled : Return(l, out)
      BY <1>2 DEF Returns
    <2>2. m = l /\ result[m] = "none"
      BY <2>1, ReturnIs
    <2> QED
      BY <2>1, <2>2, ReturnIs
  <1>3. ASSUME NEW l \in Layers, OnSettled(l), stage[l] # "reported"
        PROVE  m = l /\ result[m] = "none"
    <2>1. m = l
      BY <1>3, OnSettledIs
    <2>2. l \notin Routed => result[l] = "none"
      BY <1>3 DEF ResultInv
    <2>3. l \in Routed => result[l] = "none"
      BY <1>3, <2>1, OnSettledIs
    <2> QED
      BY <2>1, <2>2, <2>3
  <1>4. ASSUME NEW l \in Layers, Settle(l)
        PROVE  m = l /\ result[m] = "none" /\ nextp[m] = "none" /\ NeedsNoWait(m)
    <2>1. NeedsNoWait(l) /\ AfterNext(l)
      BY <1>4 DEF Settle
    <2>2. nextp[l] = "none" /\ OnSettled(l)
      BY <2>1, AfterNextIs
    <2> QED
      BY <1>3, <1>4, <2>1, <2>2 DEF Settle
  <1>5. ASSUME NEW l \in Layers, WaitOver(l)
        PROVE  m = l /\ result[m] = "none" /\ nextp[m] = "none"
    <2>1. AfterNext(l) /\ stage[l] # "reported"
      BY <1>5 DEF WaitOver
    <2>2. nextp[l] = "none" /\ OnSettled(l)
      BY <2>1, AfterNextIs
    <2> QED
      BY <1>3, <2>1, <2>2
  <1>6. ASSUME NEW l \in Layers, NextFulfilled(l)
        PROVE  m = l /\ result[m] = "none"
    BY <1>3, <1>6 DEF NextFulfilled
  <1>7. ASSUME NEW l \in Layers, NextRejected(l) \/ HandlerRejected(l)
        PROVE  m = l /\ result[m] = "none" /\ result'[m] = "failed"
    <2>1. OnError(l)
      BY <1>7 DEF NextRejected, HandlerRejected
    <2> QED
      BY <2>1, OnErrorIs
  <1>8. ASSUME NEW l \in Layers, HeadReleased(l) PROVE m = l
    BY <1>8 DEF HeadReleased, TypeOK
  <1>9. ~ \/ EndOfChain \/ StreamCloses \/ UNCHANGED vars
          \/ \E l \in Layers : \/ CallNext(l) \/ CallNextWithError(l) \/ Reply(l)
                              \/ StartSseLate(l) \/ Finishes(l) \/ Compose(l)
    BY DEF EndOfChain, StreamCloses, vars, CallNext, CallNextWithError, Reply, StartSseLate,
           Finishes, FinishHandler, Compose, LayerResolved, LayerRejected, handlerVars, layerVars
  <1> QED
    BY <1>1, <1>2, <1>4, <1>5, <1>6, <1>7, <1>8, <1>9 DEF Next, HandlerStep, Reaction

(* A layer completes after the layers behind it, unless SSE answered it.     *)
THEOREM CompletesInnerFirst == Spec => InnerFirst
  <1>1. ASSUME IInv, [Next]_vars, NEW m \in Layers, result[m] = "none",
               result'[m] \in {"resolved", "closing", "cancelling"}
        PROVE  streaming'[m] \/ nextp[m] \in {"none", "resolved"}
    <2>1. ~HeadReleased(m)
      BY <1>1 DEF HeadReleased, BodyReleased
    <2> QED
      BY <1>1, <2>1, SettlingSteps DEF NextFulfilled
  <1>2. IInv /\ [Next]_vars =>
          [\A l \in Layers :
            (result[l] = "none" /\ result'[l] \in {"resolved", "closing", "cancelling"})
            => streaming'[l] \/ nextp[l] \in {"none", "resolved"}]_vars
    BY <1>1
  <1> QED
    BY <1>2, Inductive, PTL DEF Spec, InnerFirst

(* Middleware never completes by merely returning.                           *)
THEOREM MiddlewareAlwaysWaits == Spec => MiddlewareWaits
  <1>1. ASSUME IInv, [Next]_vars, NEW m \in Waits, result[m] = "none",
               result'[m] # "none", handler[m] = "value"
        PROVE  nextp[m] # "none" \/ finalized \/ streaming'[m]
    <2>1. m \in Layers
      BY KindAssumption
    <2>2. CASE Settle(m) /\ NeedsNoWait(m)
      BY <1>1, <2>2 DEF NeedsNoWait
    <2>3. CASE WaitOver(m)
      BY <1>1, <2>1, <2>3 DEF WaitOver, IInv, StageInv
    <2>4. CASE NextFulfilled(m) \/ NextRejected(m) \/ HandlerRejected(m)
      BY <1>1, <2>1, <2>4 DEF NextFulfilled, NextRejected, HandlerRejected
    <2>5. CASE HeadReleased(m)
      BY <1>1, <2>5 DEF HeadReleased, BodyReleased
    <2> QED
      BY <1>1, <2>1, <2>2, <2>3, <2>4, <2>5, SettlingSteps
  <1>2. IInv /\ [Next]_vars =>
          [\A l \in Waits :
            (result[l] = "none" /\ result'[l] # "none" /\ handler[l] = "value")
            => nextp[l] # "none" \/ finalized \/ streaming'[l]]_vars
    BY <1>1
  <1> QED
    BY <1>2, Inductive, PTL DEF Spec, MiddlewareWaits

-----------------------------------------------------------------------------
(* A HEAD request waits for the stream that answers it.                     *)

(* A handler whose call returned was called once and for all.               *)
LEMMA HandlerStays ==
    ASSUME TypeOK, ChainOrder, [Next]_vars, NEW m \in Layers,
           handler[m] \notin {"idle", "sync"}
    PROVE  handler'[m] \notin {"idle", "sync"}
  <1>1. ASSUME NEW l \in Layers, CallNext(l) PROVE handler'[m] = handler[m]
    <2>1. N \in Nat /\ l \in Nat /\ m \in Nat
      BY LayersAssumption DEF Layers
    <2>2. m = l + 1 => handler[m] = "idle"
      BY <1>1, <2>1 DEF CallNext, ChainOrder
    <2> QED
      BY <1>1, <2>1, <2>2 DEF CallNext, TypeOK
  <1>2. ASSUME NEW l \in Layers, Returns(l) \/ Finishes(l)
        PROVE  handler'[m] \notin {"idle", "sync"}
    BY <1>2 DEF Returns, Return, Finishes, FinishHandler, TypeOK, Fulfilled
  <1>3. CASE UNCHANGED handler
    BY <1>3
  <1> QED
    BY <1>1, <1>2, <1>3
    DEF Next, vars, handlerVars, HandlerStep, Reaction, Compose, CallNextWithError, Reply,
        StartSse, StartSseLate, Settle, WaitOver, NextFulfilled, NextRejected,
        HandlerRejected, HeadReleased, LayerResolved, LayerRejected, StreamCloses, EndOfChain

(* Only the start of the stream gives the request an SSE response; the      *)
(* stream, its layer and the response then stay what they are.              *)
LEMMA BridgeStays ==
    ASSUME IInv, [Next]_vars
    PROVE  /\ bridge # "none" =>
                /\ sseBy' = sseBy /\ bridge' # "none"
                /\ sse = "closed" => sse' = "closed"
           /\ bridge = "none" /\ bridge' # "none" => \E l \in Layers : StartSse(l)
  <1> USE DEF IInv
  <1>1. bridge # "none" => sse # "none"
    BY DEF SseInv
  <1>2. ASSUME NEW l \in Layers, StartSse(l) PROVE bridge = "none"
    BY <1>1, <1>2 DEF StartSse
  <1>3. ASSUME NEW l \in Layers, Returns(l)
        PROVE  /\ sseBy' = sseBy /\ sse' \in {sse, "destroyed"} /\ (sse # "open" => sse' = sse)
               /\ bridge' = bridge \/ (bridge # "none" /\ bridge' # "none")
    BY <1>3, ReturnIs DEF Returns
  <1>4. ASSUME NEW l \in Layers, StartSseLate(l)
        PROVE  bridge = "none" /\ bridge' = bridge
    BY <1>1, <1>4 DEF StartSseLate
  <1>5. ASSUME NEW l \in Layers, Reaction(l)
        PROVE  UNCHANGED <<bridge, sseBy>> /\ (sse # "open" => sse' = sse)
    <2>1. ASSUME OnSettled(l) \/ OnError(l)
          PROVE  UNCHANGED <<bridge, sseBy>> /\ (sse # "open" => sse' = sse)
      BY <2>1, OnSettledIs, OnErrorIs
    <2> QED
      BY <1>5, <2>1, AfterNextIs
      DEF Reaction, Settle, WaitOver, NextFulfilled, NextRejected, HandlerRejected,
          HeadReleased, sseVars
  <1>6. ASSUME NEW l \in Layers,
               CallNext(l) \/ CallNextWithError(l) \/ Reply(l) \/ Finishes(l) \/ Compose(l)
        PROVE  UNCHANGED <<sse, bridge, sseBy>>
    BY <1>6 DEF CallNext, CallNextWithError, Reply, Finishes, FinishHandler, Compose,
                LayerResolved, LayerRejected, sseVars
  <1>7. CASE StreamCloses \/ EndOfChain \/ UNCHANGED vars
    BY <1>7 DEF StreamCloses, EndOfChain, vars, sseVars
  <1> QED
    BY <1>2, <1>3, <1>4, <1>5, <1>6, <1>7 DEF Next, HandlerStep

(* A failed layer is settled once and for all.                              *)
LEMMA RejectedStays ==
    ASSUME IInv, [Next]_vars, NEW m \in Layers, Rejected(m)
    PROVE  Rejected(m)'
  <1>1. CASE result'[m] = result[m]
    BY <1>1 DEF Rejected
  <1>2. CASE result'[m] # result[m]
    <2>1. HeadReleased(m)
      BY <1>2, SettlingSteps DEF Rejected
    <2> QED
      BY <2>1 DEF HeadReleased, BodyReleased, Rejected
  <1> QED
    BY <1>1, <1>2

(* An excuse is not taken back.                                             *)
LEMMA ExcusedStays ==
    ASSUME IInv, [Next]_vars, NEW l \in Nat \ {0}, NEW k \in Layers, Excused(l, k)
    PROVE  Excused(l, k)'
  <1>1. PICK m \in l..k :
          \/ Rejected(m)
          \/ m < k /\ m \notin Routed /\ handler[m] = "response" /\ result[m] = "resolved"
    BY DEF Excused
  <1>2. m \in Layers
    BY LayersAssumption DEF Layers
  <1>3. CASE Rejected(m)
    BY <1>2, <1>3, RejectedStays DEF Excused
  <1>4. CASE m < k /\ m \notin Routed /\ handler[m] = "response" /\ result[m] = "resolved"
    BY <1>2, <1>4, OutcomeStays DEF IInv, Excused, Fulfilled
  <1> QED
    BY <1>1, <1>3, <1>4

(* A fulfilled next() stays fulfilled.                                      *)
LEMMA NextStays ==
    ASSUME TypeOK, [Next]_vars, NEW l \in Layers, nextp[l] = "resolved"
    PROVE  nextp'[l] = "resolved"
  <1>1. ASSUME NEW m \in Layers, HandlerStep(m) PROVE nextp'[l] = "resolved"
    BY <1>1 DEF HandlerStep, CallNext, CallNextWithError, Reply, StartSse, StartSseLate, Returns,
                Return, Finishes, FinishHandler, handlerVars, TypeOK
  <1>2. ASSUME NEW m \in Layers, Reaction(m) PROVE nextp' = nextp
    BY <1>2 DEF Reaction, Settle, WaitOver, NextFulfilled, NextRejected, HandlerRejected,
                HeadReleased
  <1>3. ASSUME NEW m \in Layers, Compose(m) PROVE nextp'[l] = "resolved"
    BY <1>3 DEF Compose, LayerResolved, LayerRejected, Outcome, TypeOK
  <1>4. CASE StreamCloses \/ EndOfChain \/ UNCHANGED vars
    BY <1>4 DEF StreamCloses, EndOfChain, vars, handlerVars, TypeOK
  <1> QED
    BY <1>1, <1>2, <1>3, <1>4 DEF Next

(* A next() call behind which there is a layer is fulfilled, and the        *)
(* request answered, by the layer behind.                                   *)
LEMMA OutcomeComes ==
    ASSUME TypeOK, [Next]_vars
    PROVE  /\ \A l \in Layers :
                l < N /\ nextp[l] # "resolved" /\ nextp'[l] = "resolved" =>
                    LayerResolved(l + 1) \/ LayerRejected(l + 1)
           /\ answer # "response" /\ answer' = "response" =>
                LayerResolved(1) \/ LayerRejected(1)
  <1>1. N \in Nat /\ Layers \subseteq Nat
    BY LayersAssumption DEF Layers
  <1>2. ASSUME NEW p \in Layers, Compose(p), NEW l \in Layers,
               nextp[l] # "resolved", nextp'[l] = "resolved"
        PROVE  p = l + 1
    BY <1>1, <1>2 DEF Compose, LayerResolved, LayerRejected, Outcome, TypeOK
  <1>3. ASSUME NEW p \in Layers, Compose(p), answer' # answer
        PROVE  p = 1
    BY <1>3 DEF Compose, LayerResolved, LayerRejected, Outcome
  <1>4. ASSUME NEW p \in Layers, HandlerStep(p) \/ Reaction(p)
        PROVE  /\ answer' = answer
               /\ \A l \in Layers : l < N /\ nextp'[l] = "resolved" => nextp[l] = "resolved"
    BY <1>1, <1>4
    DEF HandlerStep, CallNext, CallNextWithError, Reply, StartSse, StartSseLate, Returns, Return,
        Finishes, FinishHandler, Reaction, Settle, WaitOver, NextFulfilled, NextRejected,
        HandlerRejected, HeadReleased, handlerVars, TypeOK
  <1>5. CASE StreamCloses \/ EndOfChain \/ UNCHANGED vars
    BY <1>1, <1>5 DEF StreamCloses, EndOfChain, vars, handlerVars, TypeOK
  <1> QED
    BY <1>2, <1>3, <1>4, <1>5 DEF Next, Compose

(* No step breaks what the start of the stream found.                       *)
LEMMA StartStep ==
    ASSUME IInv, StartInv, [Next]_vars
    PROVE  StartInv'
  <1> USE DEF IInv
  <1>1. answer' = "response" => finalized'
    <2>1. CASE answer = "response"
      BY <2>1, Monotone DEF StartInv
    <2>2. CASE answer # "response" /\ answer' = "response"
      BY <2>2, OutcomeComes DEF LayerResolved, LayerRejected, Outcome, NewResponses, finalized
    <2> QED
      BY <2>1, <2>2
  <1>2. ASSUME NEW l \in Layers, handler[l] # "idle" PROVE handler'[l] # "idle"
    <2>1. ASSUME NEW m \in Layers, HandlerStep(m) PROVE handler'[l] # "idle"
      <3>1. CASE Returns(m) \/ Finishes(m)
        BY <1>2, <3>1 DEF Returns, Return, Finishes, FinishHandler, Fulfilled, TypeOK
      <3>2. CASE CallNext(m)
        BY <1>2, <3>2 DEF CallNext, TypeOK
      <3>3. CASE CallNextWithError(m) \/ Reply(m) \/ StartSse(m) \/ StartSseLate(m)
        BY <1>2, <3>3 DEF CallNextWithError, Reply, StartSse, StartSseLate, handlerVars
      <3> QED
        BY <2>1, <3>1, <3>2, <3>3 DEF HandlerStep
    <2>2. ASSUME NEW m \in Layers, Reaction(m) \/ Compose(m) PROVE handler' = handler
      BY <2>2 DEF Reaction, Settle, WaitOver, NextFulfilled, NextRejected, HandlerRejected,
                  HeadReleased, Compose, LayerResolved, LayerRejected
    <2>3. CASE StreamCloses \/ EndOfChain \/ UNCHANGED vars
      BY <1>2, <2>3 DEF StreamCloses, EndOfChain, vars, handlerVars
    <2> QED
      BY <1>2, <2>1, <2>2, <2>3 DEF Next
  <1>3. ASSUME bridge' # "none" PROVE sseBy' \in Layers /\ handler'[sseBy'] # "idle"
    <2>1. CASE bridge # "none"
      BY <1>2, <2>1, BridgeStays DEF StartInv
    <2>2. CASE bridge = "none"
      <3>1. PICK l \in Layers : StartSse(l)
        BY <1>3, <2>2, BridgeStays
      <3> QED
        BY <3>1 DEF StartSse, MayRun
    <2> QED
      BY <2>1, <2>2
  <1>4. ASSUME bridge' # "none", NEW l \in Layers \ Routed, l < sseBy', result'[l] = "resolved"
        PROVE  handler'[l] = "response" \/ nextp'[l] = "resolved"
    <2>1. handler[l] = "response" => handler'[l] = "response"
      BY OutcomeStays DEF Fulfilled
    <2>2. CASE bridge = "none"
      <3>1. PICK p \in Layers : StartSse(p)
        BY <1>4, <2>2, BridgeStays
      <3>2. result'[l] = result[l]
        BY <3>1, StartSseIs DEF SseInv
      <3> QED
        BY <1>4, <2>1, <3>1, <3>2, StartSseIs DEF ResolvedMeansFinalized
    <2>3. CASE bridge # "none" /\ result[l] = "resolved"
      <3>1. handler[l] = "response" \/ nextp[l] = "resolved"
        BY <1>4, <2>3, BridgeStays DEF StartInv
      <3>2. nextp[l] = "resolved" => nextp'[l] = "resolved"
        BY NextStays
      <3> QED
        BY <2>1, <3>1, <3>2
    <2>4. CASE bridge # "none" /\ result[l] # "resolved"
      <3>1. nextp[l] # "none"
        BY <1>4, <2>4, BridgeStays DEF StartInv, ChainOrder
      <3>2. ~HeadReleased(l)
        BY DEF HeadReleased, BodyReleased, ResultInv
      <3>3. ~streaming'[l]
        BY <1>4, StepInv DEF SseInv
      <3>4. NextFulfilled(l)
        BY <1>4, <2>4, <3>1, <3>2, <3>3, SettlingSteps
      <3> QED
        BY <3>4 DEF NextFulfilled
    <2> QED
      BY <2>2, <2>3, <2>4
  <1> QED
    BY <1>1, <1>3, <1>4 DEF StartInv

(* The start of the stream, and a layer that finds it started, make a HEAD  *)
(* layer wait for the stream's "close", or reject it.                       *)
LEMMA SseResultCloses ==
    ASSUME HeadRequest, NEW ws, NEW lock, NEW k \in Layers
    PROVE  SseResult(ws, lock)[k] \in {result[k], "locked", "closing"}
  BY DEF SseResult, Finalizing, HasBody

(* A routed layer of a HEAD request that a stream answers is not settled in *)
(* any other way, except that its handler fails.                            *)
LEMMA HeadSettles ==
    ASSUME IInv, [Next]_vars, HeadRequest, bridge' # "none",
           NEW k \in Routed, result'[k] # result[k]
    PROVE  result'[k] \in {"locked", "closing", "failed"} \/ HeadReleased(k)
  <1> USE DEF IInv
  <1>1. k \in Layers
    BY KindAssumption
  <1>2. ASSUME NEW l \in Layers, StartSse(l) PROVE result'[k] \in {"locked", "closing"}
    BY <1>1, <1>2, SseResultCloses DEF StartSse
  <1>3. ASSUME NEW l \in Layers, Returns(l) PROVE result'[k] \in {"locked", "closing"}
    BY <1>1, <1>3, SseResultCloses DEF Returns, Return, layerVars
  <1>4. ASSUME NEW l \in Layers, OnSettled(l), handler[l] \in Fulfilled
        PROVE  FALSE
    <2>1. l = k /\ result[l] = "none" /\ bridge # "none"
      BY <1>1, <1>4, OnSettledIs
    <2> QED
      BY <1>4, <2>1 DEF SseAnswersRoutedLayers, Fulfilled
  <1>5. ASSUME NEW l \in Layers, OnError(l) PROVE result'[k] = "failed"
    BY <1>1, <1>5, OnErrorIs
  <1>6. ASSUME NEW l \in Layers, Reaction(l)
        PROVE  result'[k] = "failed" \/ HeadReleased(k)
    <2>1. ASSUME AfterNext(l), handler[l] \in Fulfilled PROVE FALSE
      BY <1>4, <2>1, AfterNextIs
    <2>2. CASE Settle(l)
      BY <2>1, <2>2 DEF Settle
    <2>3. CASE WaitOver(l) \/ NextFulfilled(l)
      <3>1. handler[l] \in Fulfilled
        BY <2>3 DEF WaitOver, NextFulfilled, StageInv
      <3> QED
        BY <1>4, <2>1, <2>3, <3>1 DEF WaitOver, NextFulfilled
    <2>4. CASE NextRejected(l) \/ HandlerRejected(l)
      BY <1>5, <2>4 DEF NextRejected, HandlerRejected
    <2>5. CASE HeadReleased(l)
      BY <1>1, <2>5 DEF HeadReleased, TypeOK
    <2> QED
      BY <1>6, <2>2, <2>3, <2>4, <2>5 DEF Reaction
  <1>7. ~ \/ EndOfChain \/ StreamCloses \/ UNCHANGED vars
          \/ \E l \in Layers : \/ CallNext(l) \/ CallNextWithError(l) \/ Reply(l)
                              \/ StartSseLate(l) \/ Finishes(l) \/ Compose(l)
    BY DEF EndOfChain, StreamCloses, vars, CallNext, CallNextWithError, Reply, StartSseLate,
           Finishes, FinishHandler, Compose, LayerResolved, LayerRejected, handlerVars, layerVars
  <1> QED
    BY <1>2, <1>3, <1>6, <1>7 DEF Next, HandlerStep

(* A layer that hands its outcome on knows that the stream is closed, or    *)
(* has an excuse.                                                           *)
LEMMA ClosePasses ==
    ASSUME IInv, StartInv, HeadInv, HeadRequest, bridge # "none", NEW k \in Routed, k <= sseBy,
           NEW p \in Layers, p <= k, LayerResolved(p) \/ LayerRejected(p)
    PROVE  sse = "closed" \/ Excused(p, k)
  <1>1. k \in Nat /\ p \in Nat /\ sseBy \in Nat /\ p \in p..k
    BY LayersAssumption, KindAssumption DEF StartInv, Layers
  <1>2. CASE LayerRejected(p)
    BY <1>1, <1>2 DEF LayerRejected, Rejected, Excused
  <1>3. CASE LayerResolved(p) /\ p \in Routed
    BY <1>3 DEF LayerResolved, HeadInv
  <1>4. CASE LayerResolved(p) /\ p \notin Routed
    <2>1. p < k /\ p < sseBy /\ result[p] = "resolved"
      BY <1>1, <1>4 DEF LayerResolved
    <2>2. CASE handler[p] = "response"
      BY <1>1, <1>4, <2>1, <2>2 DEF Excused
    <2>3. CASE nextp[p] = "resolved"
      <3>1. sse = "closed" \/ Excused(p + 1, k)
        BY <2>1, <2>3 DEF HeadInv
      <3>2. \A m \in (p + 1)..k : m \in p..k
        BY <1>1
      <3> QED
        BY <3>1, <3>2 DEF Excused
    <2> QED
      BY <1>4, <2>1, <2>2, <2>3 DEF StartInv
  <1> QED
    BY <1>2, <1>3, <1>4

(* No step hands the answer past an unclosed stream.                        *)
LEMMA HeadStep ==
    ASSUME IInv, StartInv, HeadInv, [Next]_vars
    PROVE  HeadInv'
  <1> SUFFICES ASSUME HeadRequest, bridge' # "none" PROVE HeadInv'
    BY DEF HeadInv
  <1>1. N \in Nat /\ Layers \subseteq Nat /\ Routed \subseteq Layers
    BY LayersAssumption, KindAssumption DEF Layers
  <1>2. CASE bridge = "none"
    <2>1. PICK p \in Layers : StartSse(p)
      BY <1>2, BridgeStays
    <2>2. ~finalized /\ UNCHANGED <<nextp, answer>>
      BY <2>1, StartSseIs DEF IInv
    <2>3. ASSUME NEW k \in Routed
          PROVE  result'[k] \notin {"cancelling", "resolved"}
      <3>1. result[k] \notin {"cancelling", "resolved"}
        BY <1>1, <2>2 DEF IInv, ResultInv
      <3>2. ~HeadReleased(k)
        BY <1>1, <2>2 DEF HeadReleased, BodyReleased, IInv, ResultInv
      <3> QED
        BY <3>1, <3>2, HeadSettles
    <2>4. answer # "response" /\ \A l \in Layers : nextp[l] # "resolved"
      BY <2>2 DEF StartInv, IInv, ResolvedMeansFinalized
    <2> QED
      BY <2>2, <2>3, <2>4 DEF HeadInv
  <1>3. CASE bridge # "none"
    <2>1. sseBy' = sseBy /\ sseBy \in Layers /\ (sse = "closed" => sse' = "closed")
      BY <1>3, BridgeStays DEF StartInv
    <2>2. ASSUME NEW k \in Routed
          PROVE  /\ result'[k] # "cancelling"
                 /\ result'[k] = "resolved" => sse' = "closed"
      <3>1. CASE result'[k] = result[k]
        BY <1>3, <2>1, <3>1 DEF HeadInv
      <3>2. CASE result'[k] # result[k] /\ ~HeadReleased(k)
        BY <3>2, HeadSettles
      <3>3. CASE HeadReleased(k)
        BY <1>1, <1>3, <2>1, <3>3 DEF HeadInv, HeadReleased, BodyReleased, IInv, TypeOK
      <3> QED
        BY <3>1, <3>2, <3>3
    <2>3. ASSUME NEW k \in Routed, NEW l \in Layers, l < k, k <= sseBy, nextp'[l] = "resolved"
          PROVE  sse' = "closed" \/ Excused(l + 1, k)'
      <3>1. l < N /\ l + 1 \in Layers /\ l + 1 <= k /\ l + 1 \in Nat \ {0}
        BY <1>1, <2>3 DEF Layers
      <3>2. sse = "closed" \/ Excused(l + 1, k)
        <4>1. CASE nextp[l] = "resolved"
          BY <1>3, <2>3, <4>1 DEF HeadInv
        <4>2. CASE nextp[l] # "resolved"
          BY <1>3, <2>3, <3>1, <4>2, OutcomeComes, ClosePasses DEF IInv
        <4> QED
          BY <4>1, <4>2
      <3> QED
        BY <1>1, <2>1, <3>1, <3>2, ExcusedStays
    <2>4. ASSUME NEW k \in Routed, k <= sseBy, answer' = "response"
          PROVE  sse' = "closed" \/ Excused(1, k)'
      <3>1. 1 \in Layers /\ 1 <= k
        BY <1>1, LayersAssumption DEF Layers
      <3>2. sse = "closed" \/ Excused(1, k)
        <4>1. CASE answer = "response"
          BY <1>3, <2>4, <4>1 DEF HeadInv
        <4>2. CASE answer # "response"
          BY <1>3, <2>4, <3>1, <4>2, OutcomeComes, ClosePasses DEF IInv
        <4> QED
          BY <4>1, <4>2
      <3> QED
        BY <1>1, <2>1, <3>2, ExcusedStays
    <2> QED
      BY <2>1, <2>2, <2>3, <2>4 DEF HeadInv
  <1> QED
    BY <1>2, <1>3

(* A HEAD request that a stream answers is answered when the stream is      *)
(* closed, in whichever layer it was started and whatever replies came      *)
(* since, unless a layer failed or answered by itself on the way out.       *)
THEOREM HeadWaitsForItsStream == Spec => []HeadAnswersAfterClose
  <1>1. Init => StartInv /\ HeadInv
    BY DEF Init, StartInv, HeadInv
  <1>2. IInv /\ StartInv /\ HeadInv /\ [Next]_vars => StartInv' /\ HeadInv'
    BY StartStep, HeadStep
  <1>3. ASSUME IInv, HeadInv, HeadRequest, bridge # "none", answer = "response", sse # "closed",
               NEW k \in Routed, k <= sseBy
        PROVE  Bypassed(k) \/ \E l \in 1..k : Rejected(l)
    <2>1. Excused(1, k)
      BY <1>3 DEF HeadInv
    <2>2. \A m \in 1..k : m \in Layers
      BY LayersAssumption, KindAssumption DEF Layers
    <2> QED
      BY <2>1, <2>2 DEF Excused, Bypassed
  <1>4. IInv /\ HeadInv => HeadAnswersAfterClose
    BY <1>3 DEF HeadAnswersAfterClose
  <1> QED
    BY <1>1, <1>2, <1>4, Inductive, PTL DEF Spec

-----------------------------------------------------------------------------
(* The layers nest: every step of RouteInvoker is a step of NestLayers.     *)

(* Layers that settled, or wait for a stream, were entered and returned;    *)
(* only a HEAD request releases bodies.                                     *)
Entered ==
    /\ \A i \in DOMAIN waiters : handler[waiters[i]] \notin {"idle", "sync"}
    /\ \A l \in Layers : result[l] # "none" => handler[l] \notin {"idle", "sync"}
    /\ \A l \in Layers : result[l] \in {"closing", "cancelling"} => HeadRequest

(* Only a HEAD request has a response to release.                           *)
LEMMA FinalizingHead ==
    ASSUME NEW r, NEW s, Finalizing(r, s) \in {"closing", "cancelling"}
    PROVE  HeadRequest
  BY DEF Finalizing

(* The start of a stream settles a layer like any other response, or fails. *)
LEMMA SseResultHead ==
    ASSUME TypeOK, NEW ws \in Seq(Layers), NEW lock, NEW l \in Layers,
           SseResult(ws, lock)[l] # result[l],
           SseResult(ws, lock)[l] \in {"closing", "cancelling"}
    PROVE  HeadRequest
  <1>1. SseResult(ws, lock)[l] \in {"locked", Finalizing("sse", "open"), result[l]}
    BY DEF SseResult
  <1> QED
    BY <1>1, FinalizingHead

(* A layer's reaction settles it for its handler's outcome.                 *)
LEMMA OnSettledHead ==
    ASSUME TypeOK, NEW l \in Layers, OnSettled(l), result'[l] # result[l],
           result'[l] \in {"closing", "cancelling"}
    PROVE  HeadRequest
  BY FinalizingHead DEF OnSettled, TypeOK

(* What settles a layer finds its handler returned.                         *)
LEMMA EnteredStep ==
    ASSUME IInv, Entered, [Next]_vars
    PROVE  Entered'
  <1> USE DEF IInv
  <1> DEFINE Good(m) == /\ result[m] # "none" => handler[m] \notin {"idle", "sync"}
                        /\ result[m] \in {"closing", "cancelling"} => HeadRequest
  <1>0. TypeOK'
    BY StepInv
  <1>1. \A m \in Layers : handler[m] \notin {"idle", "sync"} =>
                             handler'[m] \notin {"idle", "sync"}
    BY HandlerStays
  <1>2. \A m \in Layers : Good(m)
    BY DEF Entered
  <1>3. waiters \in Seq(Layers) /\ \A i \in DOMAIN waiters : waiters[i] \in Layers
    BY DEF TypeOK
  <1>4. ASSUME NEW l \in Layers, Returns(l)
        PROVE  Entered'
    <2>1. PICK out \in {"async", "error"} \cup Fulfilled : Return(l, out)
      BY <1>4 DEF Returns
    <2>2. handler'[l] \notin {"idle", "sync"}
      BY <2>1, ReturnIs DEF TypeOK, Fulfilled
    <2>3. waiters' = waiters \/ waiters' = Append(waiters, l)
      BY <2>1, ReturnIs
    <2>4. \A i \in DOMAIN waiters' : handler'[waiters'[i]] \notin {"idle", "sync"}
      BY <1>1, <1>3, <2>2, <2>3 DEF Entered
    <2>5. ASSUME NEW m \in Layers PROVE Good(m)'
      <3>1. CASE result'[m] = result[m]
        BY <1>1, <1>2, <3>1
      <3>2. CASE result'[m] # result[m]
        <4>1. m = l /\ l \in Routed /\ bridge # "none"
          BY <2>1, <3>2, ReturnIs
        <4>5. <<l>> \in Seq(Layers)
          OBVIOUS
        <4>2. PICK ws \in Seq(Layers) : ws = <<l>>
          BY <4>5
        <4>3. result' = SseResult(ws, bridge)
          BY <2>1, <4>1, <4>2 DEF Return, HasSseResponse
        <4> QED
          BY <2>2, <3>2, <4>1, <4>3, SseResultHead
      <3> QED
        BY <3>1, <3>2
    <2> QED
      BY <2>4, <2>5 DEF Entered
  <1>5. ASSUME waiters' = waiters, \A m \in Layers : Good(m)' PROVE Entered'
    BY <1>1, <1>3, <1>5 DEF Entered
  <1>6. ASSUME NEW l \in Layers, StartSse(l)
        PROVE  Entered'
    <2>1. waiters' = waiters /\ result' = SseResult(waiters, "free")
      BY <1>6 DEF StartSse
    <2>2. ASSUME NEW m \in Layers PROVE Good(m)'
      <3>1. CASE result'[m] = result[m]
        BY <1>1, <1>2, <3>1
      <3>2. CASE result'[m] # result[m]
        <4>1. \E i \in DOMAIN waiters : waiters[i] = m
          BY <1>6, <3>2, StartSseIs
        <4>2. handler'[m] \notin {"idle", "sync"}
          BY <1>1, <4>1 DEF Entered
        <4> QED
          BY <1>3, <2>1, <3>2, <4>2, SseResultHead
      <3> QED
        BY <3>1, <3>2
    <2> QED
      BY <1>5, <2>1, <2>2
  <1>7. ASSUME NEW l \in Layers, OnSettled(l), handler[l] \in Fulfilled, waiters' = waiters
        PROVE  Entered'
    <2>1. ASSUME NEW m \in Layers PROVE Good(m)'
      <3>1. CASE result'[m] = result[m]
        BY <1>1, <1>2, <3>1
      <3>2. CASE result'[m] # result[m]
        <4>1. m = l
          BY <1>7, <3>2, OnSettledIs
        <4>2. handler'[m] \notin {"idle", "sync"}
          BY <1>1, <1>7, <4>1 DEF Fulfilled
        <4> QED
          BY <1>7, <3>2, <4>1, <4>2, OnSettledHead
      <3> QED
        BY <3>1, <3>2
    <2> QED
      BY <1>5, <1>7, <2>1
  <1>8. ASSUME NEW l \in Layers, OnError(l), handler[l] \in Fulfilled \cup {"error"},
               waiters' = waiters
        PROVE  Entered'
    <2>1. \A m \in Layers : Good(m)'
      BY <1>1, <1>2, <1>8, OnErrorIs DEF Fulfilled
    <2> QED
      BY <1>5, <1>8, <2>1
  <1>9. ASSUME UNCHANGED <<result, waiters>> PROVE Entered'
    BY <1>1, <1>2, <1>5, <1>9
  <1>10. ASSUME NEW l \in Layers, AfterNext(l), handler[l] \in Fulfilled, waiters' = waiters
         PROVE  Entered'
    BY <1>7, <1>9, <1>10, AfterNextIs
  <1>11. ASSUME NEW l \in Layers, HeadReleased(l) PROVE Entered'
    <2>1. /\ waiters' = waiters /\ result' = [result EXCEPT ![l] = "resolved"]
          /\ result[l] \in {"cancelling", "closing"}
      BY <1>11 DEF HeadReleased, BodyReleased
    <2>2. \A m \in Layers : Good(m)'
      BY <1>1, <1>2, <2>1 DEF TypeOK
    <2> QED
      BY <1>5, <2>1, <2>2
  <1>12. ASSUME NEW l \in Layers, Reaction(l) PROVE Entered'
    <2>1. CASE Settle(l) \/ WaitOver(l)
      <3>1. CASE UNCHANGED <<result, waiters>>
        BY <1>9, <3>1
      <3>2. CASE AfterNext(l)
        BY <1>10, <2>1, <3>2 DEF Settle, WaitOver, StageInv
      <3> QED
        BY <2>1, <3>1, <3>2 DEF Settle, WaitOver
    <2>2. CASE NextFulfilled(l)
      BY <1>7, <2>2 DEF NextFulfilled, StageInv
    <2>3. CASE NextRejected(l) \/ HandlerRejected(l)
      BY <1>8, <2>3 DEF NextRejected, HandlerRejected, StageInv
    <2> QED
      BY <1>11, <1>12, <2>1, <2>2, <2>3 DEF Reaction
  <1>13. ASSUME NEW l \in Layers,
                CallNext(l) \/ CallNextWithError(l) \/ Reply(l) \/ StartSseLate(l)
                \/ Finishes(l) \/ Compose(l)
         PROVE  Entered'
    BY <1>9, <1>13
    DEF CallNext, CallNextWithError, Reply, StartSseLate, Finishes, FinishHandler, Compose,
        LayerResolved, LayerRejected, layerVars, ctxVars
  <1>14. CASE StreamCloses \/ EndOfChain \/ UNCHANGED vars
    BY <1>9, <1>14 DEF StreamCloses, EndOfChain, vars, layerVars, ctxVars
  <1> QED
    BY <1>4, <1>6, <1>12, <1>13, <1>14 DEF Next, HandlerStep

(* What the abstract specification sees of a layer.                         *)
LEMMA StatusIs ==
    ASSUME TypeOK, NEW l \in Layers
    PROVE  /\ statuses[l] = "idle" <=> handler[l] = "idle"
           /\ statuses[l] = "running" <=> handler[l] # "idle" /\ result[l] = "none"
           /\ statuses[l] = "done" <=> handler[l] # "idle" /\ result[l] = "resolved"
           /\ statuses[l] = "releasing" <=>
                handler[l] # "idle" /\ result[l] \in {"closing", "cancelling"}
           /\ statuses[l] = "failed" <=>
                handler[l] # "idle" /\ result[l] \in {"failed", "locked"}
           /\ handler[l] \in Fulfilled \cup {"error"} => outcomes[l] = handler[l]
           /\ handler[l] \notin Fulfilled \cup {"error"} => outcomes[l] = "none"
  <1>1. statuses[l] = Status(l)
    BY DEF statuses
  <1>2. result[l] \in {"none", "closing", "cancelling"} \cup Settled
    BY DEF TypeOK
  <1> QED
    BY <1>1, <1>2 DEF Status, outcomes, Settled

(* A layer that keeps its result, and is entered before and after, keeps    *)
(* its status.                                                              *)
LEMMA StatusStays ==
    ASSUME NEW m \in Layers, result'[m] = result[m],
           handler'[m] = "idle" <=> handler[m] = "idle"
    PROVE  statuses'[m] = statuses[m]
  BY DEF statuses, Status

(* A step that changes the status of at most one layer.                     *)
LEMMA StatusesAre ==
    ASSUME NEW l \in Layers,
           \A m \in Layers : m # l => statuses'[m] = statuses[m]
    PROVE  statuses' = [statuses EXCEPT ![l] = statuses'[l]]
  BY DEF statuses

LEMMA StatusesStay ==
    ASSUME \A m \in Layers : statuses'[m] = statuses[m]
    PROVE  statuses' = statuses
  BY DEF statuses

(* A layer that got a result succeeded or failed.                           *)
LEMMA SettledStatus ==
    ASSUME TypeOK', Entered', NEW l \in Layers, result'[l] # "none"
    PROVE  /\ statuses'[l] \in Nested!Succeeded \cup {"failed"}
           /\ result'[l] \in {"resolved", "closing", "cancelling"} =>
                statuses'[l] \in Nested!Succeeded
           /\ result'[l] = "resolved" => statuses'[l] = "done"
           /\ result'[l] = "failed" => statuses'[l] = "failed"
  <1>1. handler'[l] # "idle"
    BY DEF Entered
  <1>2. result'[l] \in {"closing", "cancelling"} => HeadRequest
    BY DEF Entered
  <1>3. result'[l] \in {"none", "closing", "cancelling"} \cup Settled
    BY DEF TypeOK
  <1> QED
    BY <1>1, <1>2, <1>3 DEF statuses, Status, Settled, Nested!Succeeded

(* A step that changes nothing of what the abstract specification sees.     *)
LEMMA Unseen ==
    ASSUME UNCHANGED <<handler, result, nextp, bridge, answer>>, finalized' = finalized
    PROVE  UNCHANGED Nested!layers
  <1>1. statuses' = statuses
    BY StatusStays, StatusesStay
  <1> QED
    BY <1>1 DEF Nested!layers, outcomes, streamed

(* next() and next(error).                                                  *)
LEMMA CallNextMaps ==
    ASSUME IInv, Entered, NEW l \in Layers, CallNext(l)
    PROVE  Nested!Enter(l)
  <1> USE DEF IInv
  <1>1. N \in Nat /\ l \in Nat /\ \A m \in Layers : m \in Nat
    BY LayersAssumption DEF Layers
  <1>2. /\ handler[l] # "idle" /\ nextp[l] = "none"
        /\ nextp' = [nextp EXCEPT ![l] = IF l = N /\ finalized THEN "resolved" ELSE "pending"]
        /\ handler' = IF l < N THEN [handler EXCEPT ![l + 1] = "sync"] ELSE handler
        /\ UNCHANGED <<result, bridge, answer>> /\ finalized' = finalized
    BY DEF CallNext, MayRun, layerVars, ctxVars, sseVars, finalized
  <1>3. statuses[l] # "idle"
    BY <1>2, StatusIs
  <1>4. CASE ~(l < N)
    <2>1. statuses' = statuses
      BY <1>2, <1>4, StatusStays, StatusesStay
    <2> QED
      BY <1>2, <1>3, <1>4, <2>1 DEF Nested!Enter, outcomes, streamed
  <1>5. CASE l < N
    <2>1. l + 1 \in Layers /\ l < l + 1
      BY <1>1, <1>5 DEF Layers
    <2>2. handler[l + 1] = "idle"
      BY <1>1, <1>2, <2>1 DEF ChainOrder
    <2>3. result[l + 1] = "none" /\ statuses[l + 1] = "idle"
      BY <2>1, <2>2, StatusIs DEF Entered
    <2>4. handler' = [handler EXCEPT ![l + 1] = "sync"]
      BY <1>2, <1>5
    <2>5. statuses'[l + 1] = "running"
      BY <1>2, <2>1, <2>3, <2>4 DEF statuses, Status, TypeOK
    <2>6. \A m \in Layers : m # l + 1 => statuses'[m] = statuses[m]
      BY <1>2, <2>4, StatusStays DEF TypeOK
    <2>7. statuses' = [statuses EXCEPT ![l + 1] = "running"]
      BY <2>1, <2>5, <2>6, StatusesAre
    <2>8. outcomes' = outcomes
      BY <2>1, <2>2, <2>4 DEF outcomes, TypeOK, Fulfilled
    <2> QED
      BY <1>2, <1>3, <1>5, <2>3, <2>7, <2>8 DEF Nested!Enter, streamed
  <1> QED
    BY <1>4, <1>5

LEMMA NextWithErrorMaps ==
    ASSUME IInv, NEW l \in Layers, CallNextWithError(l)
    PROVE  Nested!NextWithError(l)
  <1>1. /\ handler[l] # "idle" /\ nextp[l] = "none"
        /\ nextp' = [nextp EXCEPT ![l] = "rejected"]
        /\ UNCHANGED <<handler, result, bridge, answer>> /\ finalized' = finalized
    BY DEF CallNextWithError, MayRun, layerVars, ctxVars, sseVars, finalized
  <1>2. statuses[l] # "idle" /\ statuses' = statuses
    BY <1>1, StatusIs, StatusStays, StatusesStay DEF IInv
  <1> QED
    BY <1>1, <1>2 DEF Nested!NextWithError, outcomes, streamed

(* A reply.                                                                 *)
LEMMA ReplyMaps ==
    ASSUME NEW l \in Layers, Reply(l)
    PROVE  Nested!Finalize
  <1>1. /\ finalized' = TRUE
        /\ UNCHANGED <<handler, result, nextp, bridge, answer>>
    BY DEF Reply, NewResponses, finalized, layerVars, sseVars
  <1>2. statuses' = statuses
    BY <1>1, StatusStays, StatusesStay
  <1> QED
    BY <1>1, <1>2 DEF Nested!Finalize, outcomes, streamed

(* The start of a stream settles the layers of the waiter chain that run.   *)
LEMMA StartSseMaps ==
    ASSUME IInv, Entered, TypeOK', Entered', NEW l \in Layers, StartSse(l)
    PROVE  Nested!StartStream
  <1> USE DEF IInv
  <1>1. /\ sse = "none" /\ ~finalized /\ finalized' = TRUE /\ bridge' # "none"
        /\ UNCHANGED <<handler, nextp, waiters, answer>>
    BY StartSseIs DEF finalized
  <1>2. bridge = "none"
    BY <1>1 DEF SseInv
  <1>3. statuses' \in [Layers -> Nested!Statuses]
    <2>1. \A m \in Layers : Status(m)' \in Nested!Statuses
      BY DEF Status, Nested!Statuses
    <2> QED
      BY <2>1 DEF statuses
  <1>4. ASSUME NEW m \in Layers
        PROVE  statuses'[m] = statuses[m] \/ Nested!SettlesByStream(m)
    <2>1. CASE result'[m] = result[m]
      BY <1>1, <2>1, StatusStays
    <2>2. CASE result'[m] # result[m]
      <3>1. (\E i \in DOMAIN waiters : waiters[i] = m) /\ result[m] = "none"
            /\ result'[m] # "none"
        BY <2>2, StartSseIs
      <3>2. handler[m] \notin {"idle", "sync"} /\ m \in Routed
        BY <3>1 DEF Entered, SseInv
      <3>3. statuses[m] = "running"
        BY <3>1, <3>2, StatusIs
      <3>4. statuses'[m] \in Nested!Succeeded \cup {"failed"}
        BY <3>1, SettledStatus
      <3> QED
        BY <3>2, <3>3, <3>4 DEF Nested!SettlesByStream
    <2> QED
      BY <2>1, <2>2
  <1>5. outcomes' = outcomes
    BY <1>1 DEF outcomes
  <1> QED
    BY <1>1, <1>2, <1>3, <1>4, <1>5 DEF Nested!StartStream, streamed, Nested!Layers, Layers

(* A handler's call returns; a layer with a stream to read settles at once. *)
LEMMA ReturnMaps ==
    ASSUME IInv, Entered, TypeOK', Entered', NEW l \in Layers,
           NEW out \in {"async", "error"} \cup Fulfilled, Return(l, out)
    PROVE  Nested!Return(l) \/ Nested!JoinStream(l) \/ UNCHANGED Nested!layers
  <1> USE DEF IInv
  <1>1. /\ handler[l] = "sync" /\ handler' = [handler EXCEPT ![l] = out]
        /\ UNCHANGED <<stage, nextp, listeners, res, sseBy, answer>>
    BY ReturnIs
  <1>2. finalized' = finalized /\ streamed' = streamed
    BY <1>1, ReturnIs DEF finalized, streamed
  <1>3. statuses[l] # "idle" /\ outcomes[l] = "none"
    BY <1>1, StatusIs DEF Fulfilled
  <1>4. \A m \in Layers : handler'[m] = "idle" <=> handler[m] = "idle"
    BY <1>1 DEF TypeOK, Fulfilled
  <1>5. outcomes' = outcomes \/ Nested!Returns(l)
    <2>1. CASE out = "async"
      BY <1>1, <2>1 DEF outcomes, Fulfilled, TypeOK
    <2>2. CASE out # "async"
      <3>1. outcomes' = [outcomes EXCEPT ![l] = out]
        BY <1>1, <2>2 DEF outcomes, Fulfilled, TypeOK
      <3> QED
        BY <1>3, <2>2, <3>1 DEF Nested!Returns, Nested!Fulfilled, Fulfilled
    <2> QED
      BY <2>1, <2>2
  <1>6. \A m \in Layers : m # l => statuses'[m] = statuses[m]
    BY <1>4, ReturnIs, StatusStays
  <1>7. CASE result'[l] = result[l]
    <2>1. statuses' = statuses
      BY <1>4, <1>6, <1>7, StatusStays, StatusesStay
    <2> QED
      BY <1>1, <1>2, <1>5, <2>1 DEF Nested!Return, Nested!layers
  <1>8. CASE result'[l] # result[l]
    <2>1. l \in Routed /\ bridge # "none" /\ result[l] = "none" /\ result'[l] # "none"
      BY <1>8, ReturnIs
    <2>2. statuses[l] = "running" /\ statuses'[l] \in Nested!Succeeded \cup {"failed"}
      BY <1>1, <2>1, StatusIs, SettledStatus
    <2>3. statuses' = [statuses EXCEPT ![l] = statuses'[l]]
      BY <1>6, StatusesAre
    <2> QED
      BY <1>1, <1>2, <1>5, <2>1, <2>2, <2>3
      DEF Nested!JoinStream, Nested!SettlesByStream, streamed
  <1> QED
    BY <1>7, <1>8

(* The promise of an asynchronous handler settles.                          *)
LEMMA FinishMaps ==
    ASSUME IInv, NEW l \in Layers, NEW out \in {"error"} \cup Fulfilled,
           FinishHandler(l, out)
    PROVE  Nested!Return(l)
  <1>1. /\ handler[l] = "async" /\ handler' = [handler EXCEPT ![l] = out]
        /\ UNCHANGED <<nextp, result, bridge, answer>> /\ finalized' = finalized
    BY DEF FinishHandler, layerVars, ctxVars, sseVars, finalized
  <1>2. statuses[l] # "idle" /\ outcomes[l] = "none"
    BY <1>1, StatusIs DEF IInv, Fulfilled
  <1>3. statuses' = statuses
    BY <1>1, StatusStays, StatusesStay DEF IInv, TypeOK, Fulfilled
  <1>4. outcomes' = [outcomes EXCEPT ![l] = out]
    BY <1>1 DEF IInv, TypeOK, outcomes, Fulfilled
  <1> QED
    BY <1>1, <1>2, <1>3, <1>4
    DEF Nested!Return, Nested!Returns, Nested!Fulfilled, Fulfilled, streamed

(* finish() and resolve(): the layer completes, or had its result already.  *)
LEMMA OnSettledMaps ==
    ASSUME IInv, Entered, IInv', Entered', NEW l \in Layers, OnSettled(l),
           UNCHANGED <<handler, nextp, answer>>,
           handler[l] \in Fulfilled, stage[l] # "reported",
           nextp[l] \in {"none", "resolved"},
           l \in Waits /\ handler[l] = "value" => finalized \/ nextp[l] = "resolved"
    PROVE  Nested!Complete(l) \/ UNCHANGED Nested!layers
  <1> USE DEF IInv
  <1>1. bridge' = bridge /\ \A m \in Layers : m # l => result'[m] = result[m]
    BY OnSettledIs
  <1>2. outcomes' = outcomes /\ streamed' = streamed
    BY <1>1 DEF outcomes, streamed
  <1>3. CASE l \in Routed /\ result[l] # "none"
    <2>1. result' = result
      BY <1>1, <1>3, OnSettledIs DEF TypeOK
    <2>2. res' = res
      BY <1>3, OnSettledIs
    <2> QED
      BY <1>1, <2>1, <2>2, Unseen DEF finalized
  <1>4. CASE ~(l \in Routed /\ result[l] # "none")
    <2>1. result[l] = "none" /\ handler[l] # "idle"
      BY <1>4 DEF ResultInv, Fulfilled
    <2>2. result'[l] \in {"resolved", "closing", "cancelling"}
      BY <1>4, <2>1, OnSettledIs
    <2>3. statuses[l] = "running" /\ statuses'[l] \in Nested!Succeeded
      BY <2>1, <2>2, StatusIs, SettledStatus
    <2>4. statuses' = [statuses EXCEPT ![l] = statuses'[l]]
      BY <1>1, StatusStays, StatusesAre
    <2>5. \E s \in Nested!Succeeded : Nested!Settles(l, s)
      BY <1>2, <2>3, <2>4 DEF Nested!Settles
    <2>6. outcomes[l] = handler[l] /\ outcomes[l] \in Nested!Fulfilled
      BY StatusIs DEF Nested!Fulfilled, Fulfilled
    <2>7. finalized' \/ (l \notin Routed /\ outcomes[l] = "response" /\ ~finalized)
      <3>1. CASE l \in Routed
        BY <2>1, <3>1, OnSettledIs
      <3>2. CASE l \notin Routed
        <4>1. result'[l] = "resolved" /\ res' = res
          BY <3>2, OnSettledIs
        <4>2. finalized' \/ handler'[l] = "response"
          BY <4>1 DEF ResolvedMeansFinalized
        <4> QED
          BY <2>6, <3>2, <4>1, <4>2 DEF finalized
      <3> QED
        BY <3>1, <3>2
    <2> QED
      BY <2>5, <2>6, <2>7 DEF Nested!Complete
  <1> QED
    BY <1>3, <1>4

(* onError(): the layer fails, or had its result already.                   *)
LEMMA OnErrorMaps ==
    ASSUME IInv, Entered, IInv', Entered', NEW l \in Layers, OnError(l),
           UNCHANGED <<handler, nextp, answer>>,
           handler[l] = "error" \/ (handler[l] \in Fulfilled /\ nextp[l] = "rejected")
    PROVE  Nested!Fail(l) \/ UNCHANGED Nested!layers
  <1> USE DEF IInv
  <1>1. /\ UNCHANGED <<res, bridge>>
        /\ \A m \in Layers : m # l => result'[m] = result[m]
    BY OnErrorIs
  <1>2. outcomes' = outcomes /\ streamed' = streamed /\ finalized' = finalized
    BY <1>1 DEF outcomes, streamed, finalized
  <1>3. CASE result[l] # "none"
    <2>1. result' = result
      BY <1>1, <1>3, OnErrorIs DEF TypeOK
    <2> QED
      BY <1>1, <1>2, <2>1, Unseen
  <1>4. CASE result[l] = "none"
    <2>1. result'[l] = "failed"
      BY <1>4, OnErrorIs
    <2>2. statuses[l] = "running" /\ statuses'[l] = "failed"
      BY <1>4, <2>1, StatusIs, SettledStatus DEF Fulfilled
    <2>3. statuses' = [statuses EXCEPT ![l] = "failed"]
      BY <1>1, <2>2, StatusStays, StatusesAre
    <2>4. outcomes[l] = handler[l]
      BY StatusIs
    <2> QED
      BY <1>2, <2>2, <2>3, <2>4
      DEF Nested!Fail, Nested!Settles, Nested!Fulfilled, Fulfilled
  <1> QED
    BY <1>3, <1>4

(* The release of a HEAD response ends.                                     *)
LEMMA HeadReleasedMaps ==
    ASSUME IInv, Entered, IInv', Entered', NEW l \in Layers, HeadReleased(l)
    PROVE  Nested!Release(l)
  <1> USE DEF IInv
  <1>1. /\ result[l] \in {"closing", "cancelling"}
        /\ result' = [result EXCEPT ![l] = "resolved"] /\ res' = "empty"
        /\ UNCHANGED <<handler, nextp, bridge, answer>>
    BY DEF HeadReleased, BodyReleased, sseVars
  <1>2. finalized' = finalized /\ handler[l] # "idle"
    BY <1>1 DEF ResultInv, Entered, finalized
  <1>3. result'[l] = "resolved" /\ \A m \in Layers : m # l => result'[m] = result[m]
    BY <1>1 DEF TypeOK
  <1>4. statuses[l] = "releasing" /\ statuses'[l] = "done"
    BY <1>1, <1>2, <1>3, StatusIs, SettledStatus
  <1>5. statuses' = [statuses EXCEPT ![l] = "done"]
    BY <1>1, <1>3, <1>4, StatusStays, StatusesAre
  <1> QED
    BY <1>1, <1>2, <1>4, <1>5 DEF Nested!Release, outcomes, streamed

(* A promise reaction of a layer.                                           *)
LEMMA ReactionMaps ==
    ASSUME IInv, Entered, IInv', Entered', NEW l \in Layers, Reaction(l)
    PROVE  Nested!Complete(l) \/ Nested!Fail(l) \/ Nested!Release(l)
           \/ UNCHANGED Nested!layers
  <1> USE DEF IInv
  <1>1. ASSUME UNCHANGED <<handler, nextp, answer, result, res, bridge>>
        PROVE  UNCHANGED Nested!layers
    BY <1>1, Unseen DEF finalized
  <1>2. ASSUME AfterNext(l), UNCHANGED <<handler, nextp, answer>>,
               handler[l] \in Fulfilled, stage[l] # "reported",
               nextp[l] = "none" /\ l \in Waits /\ handler[l] = "value" => finalized
        PROVE  Nested!Complete(l) \/ UNCHANGED Nested!layers
    <2>1. CASE nextp[l] = "none" /\ OnSettled(l)
      BY <1>2, <2>1, OnSettledMaps
    <2>2. CASE ~(nextp[l] = "none" /\ OnSettled(l))
      BY <1>1, <1>2, <2>2, AfterNextIs
    <2> QED
      BY <2>1, <2>2
  <1>3. CASE Settle(l)
    <2>1. /\ UNCHANGED <<handler, nextp, answer>>
          /\ handler[l] \in Fulfilled /\ stage[l] # "reported"
      BY <1>3 DEF Settle
    <2>2. CASE NeedsNoWait(l)
      <3>1. AfterNext(l)
        BY <1>3, <2>2 DEF Settle
      <3>2. nextp[l] = "none" /\ l \in Waits /\ handler[l] = "value" => finalized
        BY <2>2 DEF NeedsNoWait
      <3> QED
        BY <1>2, <2>1, <3>1, <3>2
    <2>3. CASE ~NeedsNoWait(l)
      BY <1>1, <1>3, <2>3 DEF Settle, sseVars
    <2> QED
      BY <2>2, <2>3
  <1>4. CASE WaitOver(l)
    <2>1. /\ UNCHANGED <<handler, nextp, answer>> /\ AfterNext(l)
          /\ stage[l] = "woken"
      BY <1>4 DEF WaitOver
    <2>2. handler[l] \in Fulfilled /\ (nextp[l] = "none" => finalized)
      BY <2>1 DEF StageInv
    <2> QED
      BY <1>2, <2>1, <2>2
  <1>5. CASE NextFulfilled(l)
    <2>1. /\ UNCHANGED <<handler, nextp, answer>> /\ OnSettled(l)
          /\ stage[l] = "next" /\ nextp[l] = "resolved"
      BY <1>5 DEF NextFulfilled
    <2>2. handler[l] \in Fulfilled
      BY <2>1 DEF StageInv
    <2> QED
      BY <2>1, <2>2, OnSettledMaps
  <1>6. CASE NextRejected(l)
    <2>1. /\ UNCHANGED <<handler, nextp, answer>> /\ OnError(l)
          /\ stage[l] = "next" /\ nextp[l] = "rejected"
      BY <1>6 DEF NextRejected
    <2>2. handler[l] \in Fulfilled
      BY <2>1 DEF StageInv
    <2> QED
      BY <2>1, <2>2, OnErrorMaps
  <1>7. CASE HandlerRejected(l)
    <2>1. /\ UNCHANGED <<handler, nextp, answer>> /\ OnError(l) /\ handler[l] = "error"
      BY <1>7 DEF HandlerRejected
    <2> QED
      BY <2>1, OnErrorMaps
  <1>8. CASE HeadReleased(l)
    BY <1>8, HeadReleasedMaps
  <1> QED
    BY <1>3, <1>4, <1>5, <1>6, <1>7, <1>8 DEF Reaction

(* compose() hands the outcome of a layer to the one around it.             *)
LEMMA ComposeMaps ==
    ASSUME IInv, Entered, NEW l \in Layers, Compose(l)
    PROVE  Nested!PassSuccess(l) \/ Nested!PassFailure(l)
  <1> USE DEF IInv
  <1>1. UNCHANGED <<handler, result, bridge>> /\ result[l] # "none"
    BY DEF Compose, LayerResolved, LayerRejected, layerVars, sseVars
  <1>2. statuses' = statuses /\ outcomes' = outcomes /\ streamed' = streamed
    BY <1>1, StatusStays, StatusesStay DEF outcomes, streamed
  <1>3. handler[l] # "idle"
    BY <1>1 DEF Entered
  <1>4. ASSUME NEW ok \in BOOLEAN, Outcome(l, ok) PROVE Nested!PassesOut(l, ok)
    BY <1>4 DEF Outcome, Nested!PassesOut
  <1>5. CASE LayerResolved(l)
    <2>1. statuses[l] = "done"
      BY <1>3, <1>5, StatusIs DEF LayerResolved
    <2>2. finalized'
      BY <1>5 DEF LayerResolved, ResolvedMeansFinalized, NewResponses, finalized
    <2>3. Outcome(l, TRUE)
      <3>1. Outcome(l, l > 1 \/ res' # "none") /\ res' # "none"
        BY <1>5, <2>2 DEF LayerResolved, finalized
      <3>2. (l > 1 \/ res' # "none") = TRUE
        BY <3>1
      <3> QED
        BY <3>1, <3>2
    <2> QED
      BY <1>2, <1>4, <2>1, <2>2, <2>3 DEF Nested!PassSuccess
  <1>6. CASE LayerRejected(l)
    <2>1. statuses[l] = "failed"
      BY <1>3, <1>6, StatusIs DEF LayerRejected
    <2>2. \/ Outcome(l, TRUE) /\ finalized'
          \/ Outcome(l, FALSE) /\ finalized' = finalized
      BY <1>6 DEF LayerRejected, NewResponses, finalized
    <2> QED
      BY <1>2, <1>4, <2>1, <2>2 DEF Nested!PassFailure
  <1> QED
    BY <1>5, <1>6 DEF Compose

(* The not-found handler behind the innermost layer.                        *)
LEMMA EndOfChainMaps ==
    ASSUME EndOfChain
    PROVE  Nested!EndOfChain
  <1>1. UNCHANGED <<handler, result, bridge, answer>> /\ nextp[N] = "pending"
    BY DEF EndOfChain, layerVars, sseVars
  <1>2. statuses' = statuses /\ outcomes' = outcomes /\ streamed' = streamed
    BY <1>1, StatusStays, StatusesStay DEF outcomes, streamed
  <1>3. \/ nextp' = [nextp EXCEPT ![N] = "resolved"] /\ finalized'
        \/ nextp' = [nextp EXCEPT ![N] = "rejected"] /\ finalized' = finalized
    BY DEF EndOfChain, NewResponses, finalized
  <1> QED
    BY <1>1, <1>2, <1>3 DEF Nested!EndOfChain

(* The layers start as the abstract ones do.                                *)
LEMMA InitMaps == Init => Nested!Init
  BY DEF Init, Nested!Init, statuses, Status, outcomes, streamed, finalized, Fulfilled,
         Nested!Layers, Layers

(* Every step is one of the abstract specification, or unseen by it.        *)
LEMMA StepMaps ==
    ASSUME IInv, Entered, IInv', Entered', [Next]_vars
    PROVE  [Nested!Next]_(Nested!layers)
  <1> USE DEF Nested!Layers, Layers
  <1>1. ASSUME NEW l \in Layers, HandlerStep(l)
        PROVE  [Nested!Next]_(Nested!layers)
    <2>1. CASE CallNext(l)
      BY <2>1, CallNextMaps DEF Nested!Next
    <2>2. CASE CallNextWithError(l)
      BY <2>2, NextWithErrorMaps DEF Nested!Next
    <2>3. CASE Reply(l)
      BY <2>3, ReplyMaps DEF Nested!Next
    <2>4. CASE StartSse(l)
      BY <2>4, StartSseMaps DEF Nested!Next, IInv
    <2>5. CASE StartSseLate(l)
      BY <2>5, Unseen DEF StartSseLate, handlerVars, layerVars, ctxVars, finalized
    <2>6. CASE Returns(l)
      <3>1. PICK out \in {"async", "error"} \cup Fulfilled : Return(l, out)
        BY <2>6 DEF Returns
      <3> QED
        BY <3>1, ReturnMaps DEF Nested!Next, IInv
    <2>7. CASE Finishes(l)
      <3>1. PICK out \in {"error"} \cup Fulfilled : FinishHandler(l, out)
        BY <2>7 DEF Finishes
      <3> QED
        BY <3>1, FinishMaps DEF Nested!Next
    <2> QED
      BY <1>1, <2>1, <2>2, <2>3, <2>4, <2>5, <2>6, <2>7 DEF HandlerStep
  <1>2. ASSUME NEW l \in Layers, Reaction(l)
        PROVE  [Nested!Next]_(Nested!layers)
    BY <1>2, ReactionMaps DEF Nested!Next
  <1>3. ASSUME NEW l \in Layers, Compose(l)
        PROVE  [Nested!Next]_(Nested!layers)
    BY <1>3, ComposeMaps DEF Nested!Next
  <1>4. CASE StreamCloses \/ UNCHANGED vars
    BY <1>4, Unseen
    DEF StreamCloses, vars, handlerVars, layerVars, ctxVars, sseVars, finalized
  <1>5. CASE EndOfChain
    BY <1>5, EndOfChainMaps DEF Nested!Next
  <1> QED
    BY <1>1, <1>2, <1>3, <1>4, <1>5 DEF Next

(* The layers nest, for any number of them, whatever their handlers do: each *)
(* is entered and settles once, for its handler, the layers it called or a   *)
(* stream, and no success is reported without a response.                    *)
THEOREM LayersAlwaysNest == Spec => LayersNest
  <1>1. Init => Nested!Init
    BY InitMaps
  <1>2. Init => Entered
    BY DEF Init, Entered
  <1>3. IInv /\ Entered /\ [Next]_vars => Entered'
    BY EnteredStep
  <1>4. IInv /\ IInv' /\ Entered /\ Entered' /\ [Next]_vars => [Nested!Next]_(Nested!layers)
    BY StepMaps
  <1> QED
    BY <1>1, <1>2, <1>3, <1>4, Inductive, PTL DEF Spec, LayersNest, Nested!Spec
=============================================================================
