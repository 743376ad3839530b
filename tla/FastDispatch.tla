---------------------------- MODULE FastDispatch ----------------------------
(***************************************************************************)
(* FastExchange (src/server/fast-dispatch.ts): one request of the fast     *)
(* path.  dispatch() runs the request layer's work and the route without   *)
(* Hono's promises; settle(), fail(), failOuter(), finish() and            *)
(* handleError() reproduce what Hono's compose() and #dispatch() do around *)
(* them.  Steps of one synchronous block are separate here, and none but   *)
(* them happens until the block waits (phases in Waiting): the route's     *)
(* handler, the not-found handler and the error handler run meanwhile.     *)
(***************************************************************************)
EXTENDS Integers

REQUEST_LAYER == 0
ROUTE_LAYER == 2

VARIABLES
    phase,          \* what the exchange does
    layer,          \* the layer it does it for
    error,          \* the error at hand
    value,          \* the result at hand
    isError,        \* settle()'s isError
    routeSettled,
    ctxRes,         \* ctx.res; "none" is ctx.finalized = false
    tail,           \* createNext(): "idle" until called
    answer          \* what respond() was given

vars == <<phase, layer, error, value, isError, routeSettled, ctxRes, tail, answer>>

Errors == {"Error", "other"}            \* instanceof Error, or anything else
Values == {"none", "response"}          \* "none": nothing, or falsy
Handled == {"none", "handled"}          \* the result of the error handler

Waiting == {"route", "pendingRoute", "pendingError", "done"}

TypeOK ==
    /\ phase \in Waiting \cup {"prepare", "prepared", "settle", "outer", "fail",
                               "finish", "handleError"}
    /\ layer \in REQUEST_LAYER..ROUTE_LAYER
    /\ error \in Errors \cup {"none"}
    /\ value \in Values \cup Handled \cup {"context"}
    /\ isError \in BOOLEAN
    /\ routeSettled \in BOOLEAN
    /\ ctxRes \in {"none", "response", "handled", "context"}
    /\ tail \in {"idle", "notFound", "over"}
    /\ answer \in {"none", "response", "context", "handled", "rejection"}

Init ==
    /\ phase = "prepare" /\ layer = REQUEST_LAYER /\ error = "none"
    /\ value = "none" /\ isError = FALSE /\ routeSettled = FALSE
    /\ ctxRes = "none" /\ tail = "idle" /\ answer = "none"

-----------------------------------------------------------------------------
(* fail(), failOuter() and handleError() as they are entered.               *)

Fail(l, e) == phase' = "fail" /\ layer' = l /\ error' = e

ToHandleError(e) == phase' = "handleError" /\ layer' = REQUEST_LAYER /\ error' = e

(* Mutants: the error of an error handler goes to the same layer again; the *)
(* request layer is not the outermost one.                                  *)
FailSame(l, e) == IF l > REQUEST_LAYER THEN Fail(l, e) ELSE ToHandleError(e)
FailBelow(l, e) == Fail(l - 1, e)
FailOuter(l, e) == IF l > REQUEST_LAYER THEN Fail(l - 1, e) ELSE ToHandleError(e)

Settle(v, handled) == phase' = "settle" /\ value' = v /\ isError' = handled

-----------------------------------------------------------------------------
(* dispatch(): prepare() runs the security hooks and may throw.             *)
Prepare ==
    /\ phase = "prepare"
    /\ \/ phase' = "prepared" /\ layer' = layer + 1 /\ UNCHANGED error
       \/ \E e \in Errors : Fail(REQUEST_LAYER, e)
    /\ UNCHANGED <<value, isError, routeSettled, ctxRes, tail, answer>>

RunRoute ==
    /\ phase = "prepared"
    /\ phase' = "route" /\ layer' = ROUTE_LAYER
    /\ UNCHANGED <<error, value, isError, routeSettled, ctxRes, tail, answer>>

(* settleRoute(): runRoute() calls resolve or reject, or throws.  Only the  *)
(* first report counts; a promise (finalizeHeadResponse()) is waited for.   *)
FirstReport == ~routeSettled

RouteReports ==
    /\ phase \in Waiting
    /\ phase = "route" \/ routeSettled
    /\ FirstReport
    /\ routeSettled' = TRUE
    /\ \/ /\ Settle("response", FALSE)
          /\ layer' = ROUTE_LAYER /\ UNCHANGED error
       \/ /\ phase' = "pendingRoute" /\ layer' = ROUTE_LAYER
          /\ UNCHANGED <<error, value, isError>>
       \/ /\ \E e \in Errors : Fail(ROUTE_LAYER, e)
          /\ UNCHANGED <<value, isError>>
    /\ UNCHANGED <<ctxRes, tail, answer>>

(* settle() of a promise: the route's, or the error handler's.              *)
PromiseSettles ==
    /\ phase \in {"pendingRoute", "pendingError"}
    /\ \/ /\ \E v \in IF phase = "pendingError" THEN Handled ELSE {"response"} :
                Settle(v, phase = "pendingError")
          /\ UNCHANGED <<layer, error>>
       \/ /\ \E e \in Errors : IF phase = "pendingError"
                               THEN FailOuter(layer, e) ELSE Fail(layer, e)
          /\ UNCHANGED <<value, isError>>
    /\ UNCHANGED <<routeSettled, ctxRes, tail, answer>>

(* settle() of a value: it becomes ctx.res while the context is not         *)
(* finalized, or always when the error handler returned it.                 *)
(* Mutant: the error handler's result does not replace a response.          *)
KeepsResponse == value # "none" /\ ctxRes = "none"
Assigns == value # "none" /\ (ctxRes = "none" \/ isError)

Outward ==
    /\ phase' = IF layer > REQUEST_LAYER THEN "outer" ELSE "finish"
    /\ layer' = IF layer > REQUEST_LAYER THEN layer - 1 ELSE layer
    /\ value' = "context" /\ isError' = FALSE
    /\ UNCHANGED error

SetResponse ==
    /\ phase = "settle"
    /\ \/ /\ ctxRes' = IF Assigns THEN value ELSE ctxRes
          /\ Outward
       \/ /\ Assigns /\ FailOuter(layer, "Error")      \* Hono's setter throws
          /\ UNCHANGED <<ctxRes, value, isError>>
    /\ UNCHANGED <<routeSettled, tail, answer>>

(* The loop over the layers outside: their result is the context.           *)
PassOuter ==
    /\ phase = "outer"
    /\ \/ /\ ctxRes' = IF ctxRes = "none" THEN "context" ELSE ctxRes
          /\ Outward
       \/ /\ ctxRes = "none" /\ FailOuter(layer, "Error")
          /\ UNCHANGED <<ctxRes, value, isError>>
    /\ UNCHANGED <<routeSettled, tail, answer>>

(* finish()                                                                 *)
Finish ==
    /\ phase = "finish"
    /\ IF ctxRes = "none"
       THEN ToHandleError("Error") /\ UNCHANGED answer
       ELSE /\ phase' = "done" /\ answer' = ctxRes
            /\ UNCHANGED <<layer, error>>
    /\ UNCHANGED <<value, isError, routeSettled, ctxRes, tail>>

(* fail(): the error handler throws, returns, or returns a promise.         *)
CallErrorHandler ==
    /\ phase = "fail" /\ error = "Error"
    /\ \/ \E e \in Errors : FailOuter(layer, e) /\ UNCHANGED <<value, isError>>
       \/ \E v \in Handled : Settle(v, TRUE) /\ UNCHANGED <<layer, error>>
       \/ phase' = "pendingError" /\ UNCHANGED <<layer, error, value, isError>>
    /\ UNCHANGED <<routeSettled, ctxRes, tail, answer>>

FailWithOther ==
    /\ phase = "fail" /\ error = "other"
    /\ ToHandleError(error)
    /\ UNCHANGED <<value, isError, routeSettled, ctxRes, tail, answer>>

(* handleError(): respond() gets the error handler's result, or a rejected  *)
(* promise.                                                                 *)
HandleError ==
    /\ phase = "handleError"
    /\ phase' = "done"
    /\ answer' \in IF error = "Error" THEN {"handled", "rejection"} ELSE {"rejection"}
    /\ UNCHANGED <<layer, error, value, isError, routeSettled, ctxRes, tail>>

-----------------------------------------------------------------------------
(* Code that runs while the exchange waits: a reply of a handler (also of   *)
(* the error handler's synchronous part), and the route's next().           *)

Reply ==
    /\ phase \in Waiting \cup {"prepare", "fail"}
    /\ ctxRes' = "response"
    /\ UNCHANGED <<phase, layer, error, value, isError, routeSettled, tail, answer>>

CallNext ==
    /\ phase \in Waiting /\ (phase = "route" \/ routeSettled)
    /\ tail = "idle"
    /\ tail' = IF ctxRes = "none" THEN "notFound" ELSE "over"
    /\ UNCHANGED <<phase, layer, error, value, isError, routeSettled, ctxRes, answer>>

NotFoundResponses == IF ctxRes = "none" THEN Values ELSE {ctxRes}

NotFoundReturns ==
    /\ phase \in Waiting
    /\ tail = "notFound"
    /\ tail' = "over"
    /\ ctxRes' \in NotFoundResponses
    /\ UNCHANGED <<phase, layer, error, value, isError, routeSettled, answer>>

Step ==
    \/ Prepare \/ RunRoute \/ PromiseSettles \/ SetResponse \/ PassOuter
    \/ Finish \/ CallErrorHandler \/ FailWithOther \/ HandleError

Next == Step \/ RouteReports \/ Reply \/ CallNext \/ NotFoundReturns

Spec == Init /\ [][Next]_vars

(* Synchronous code runs on, promises settle; the route need not report.    *)
FairSpec == Spec /\ WF_vars(Step)

-----------------------------------------------------------------------------
(* The exchange has the semantics of Hono's #dispatch() and compose(), in   *)
(* the class comment's words: a behaviour of the fast path is one of Hono,  *)
(* the body layer being passed through.                                     *)
Mode ==
    CASE phase \in {"prepare", "prepared", "route", "pendingRoute"} -> "handler"
      [] phase \in {"fail", "pendingError"} -> "catch"
      [] phase \in {"settle", "outer"} -> "assign"
      [] OTHER -> phase

Hono == INSTANCE HonoCompose WITH Last <- ROUTE_LAYER, mode <- Mode

KeepsHonoSemantics == Hono!Spec

(* A request whose route reported, or whose request layer failed, is        *)
(* answered, whatever the error handlers do.                                *)
Answered == (routeSettled \/ phase = "fail") ~> (answer # "none")
=============================================================================
