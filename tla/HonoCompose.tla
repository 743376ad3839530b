----------------------------- MODULE HonoCompose -----------------------------
(* What the fast path promises to keep (src/server/fast-dispatch.ts): the    *)
(* semantics of Hono's #dispatch() and compose() for a request whose layers  *)
(* 0..Last-1 return next() and whose innermost layer Last is a Nest route.   *)
(* Hono is external: this is how src/ describes and uses it.                 *)
EXTENDS Integers

CONSTANT Last                     \* index of the layer of the route, a natural number

VARIABLES
    layer,      \* the dispatch() that runs; deeper ones are over
    mode,       \* what it does
    error,      \* the error it caught
    value,      \* what its handler or the error handler returned
    isError,    \* did the error handler return it
    ctxRes,     \* ctx.res; "none" is ctx.finalized = false
    tail,       \* next() of the route: dispatch(Last + 1)
    answer      \* what fetch() delivers

vars == <<layer, mode, error, value, isError, ctxRes, tail, answer>>

Errors == {"Error", "other"}              \* instanceof Error, or anything else
Values == {"none", "response"}            \* "none": nothing, or falsy
Handled == {"none", "handled"}            \* the result of the error handler

Init ==
    /\ layer = 0 /\ mode = "handler" /\ error = "none"
    /\ value = "none" /\ isError = FALSE
    /\ ctxRes = "none" /\ tail = "idle" /\ answer = "none"

(* A handler calls next() and returns its promise.                           *)
Descend ==
    /\ mode = "handler" /\ layer < Last
    /\ layer' = layer + 1
    /\ UNCHANGED <<mode, error, value, isError, ctxRes, tail, answer>>

(* A handler throws or its promise rejects.                                  *)
Throws ==
    /\ mode = "handler"
    /\ mode' = "catch"
    /\ error' \in Errors
    /\ UNCHANGED <<layer, value, isError, ctxRes, tail, answer>>

(* The route's promise is fulfilled.                                         *)
RouteReturns ==
    /\ mode = "handler" /\ layer = Last
    /\ mode' = "assign"
    /\ value' \in Values
    /\ isError' = FALSE
    /\ UNCHANGED <<layer, error, ctxRes, tail, answer>>

(* dispatch() rejects with e: the layer outside catches e.                   *)
Rejects(e) ==
    /\ error' = e
    /\ mode' = IF layer > 0 THEN "catch" ELSE "handleError"
    /\ layer' = IF layer > 0 THEN layer - 1 ELSE 0

(* The catch block: an Error goes to the error handler, whose result counts; *)
(* anything else is thrown through the layers outside.                       *)
Catch ==
    /\ mode = "catch"
    /\ \/ /\ error = "Error"
          /\ mode' = "assign" /\ value' \in Handled /\ isError' = TRUE
          /\ UNCHANGED <<layer, error>>
       \/ /\ error = "Error"
          /\ \E e \in Errors : Rejects(e)
          /\ UNCHANGED <<value, isError>>
       \/ /\ error = "other"
          /\ mode' = "handleError" /\ layer' = 0
          /\ UNCHANGED <<error, value, isError>>
    /\ UNCHANGED <<ctxRes, tail, answer>>

(* `if (res && (finalized === false || isError)) context.res = res`; the     *)
(* outer handler's promise is then fulfilled with the context.               *)
Assign ==
    /\ mode = "assign"
    /\ \/ /\ ctxRes' = IF value # "none" /\ (ctxRes = "none" \/ isError)
                       THEN value ELSE ctxRes
          /\ mode' = IF layer > 0 THEN "assign" ELSE "finish"
          /\ layer' = IF layer > 0 THEN layer - 1 ELSE 0
          /\ value' = "context" /\ isError' = FALSE
          /\ UNCHANGED error
       \/ /\ value # "none" /\ (ctxRes = "none" \/ isError)
          /\ Rejects("Error")              \* the setter of ctx.res throws
          /\ UNCHANGED <<ctxRes, value, isError>>
    /\ UNCHANGED <<tail, answer>>

(* #dispatch() after compose(): a context nobody finalized is an error.      *)
Finish ==
    /\ mode = "finish"
    /\ \/ /\ ctxRes # "none"
          /\ answer' = ctxRes /\ mode' = "done" /\ UNCHANGED error
       \/ /\ ctxRes = "none"
          /\ mode' = "handleError" /\ error' = "Error" /\ UNCHANGED answer
    /\ UNCHANGED <<layer, value, isError, ctxRes, tail>>

(* #handleError(): the error handler's outcome is the answer.                *)
HandleError ==
    /\ mode = "handleError"
    /\ mode' = "done"
    /\ answer' \in IF error = "Error" THEN {"handled", "rejection"} ELSE {"rejection"}
    /\ UNCHANGED <<layer, error, value, isError, ctxRes, tail>>

(* Code of the route or of a handler finalizes the context itself.           *)
Reply ==
    /\ ctxRes' = "response"
    /\ UNCHANGED <<layer, mode, error, value, isError, tail, answer>>

(* next() of the route, at most once: the not-found handler's response       *)
(* becomes ctx.res unless the context was finalized meanwhile.               *)
CallNext ==
    /\ layer = Last \/ mode # "handler"
    /\ tail = "idle"
    /\ tail' = IF ctxRes = "none" THEN "notFound" ELSE "over"
    /\ UNCHANGED <<layer, mode, error, value, isError, ctxRes, answer>>

NotFoundReturns ==
    /\ tail = "notFound"
    /\ tail' = "over"
    /\ ctxRes' \in IF ctxRes = "none" THEN Values ELSE {ctxRes}
    /\ UNCHANGED <<layer, mode, error, value, isError, answer>>

Next ==
    \/ Descend \/ Throws \/ RouteReturns \/ Catch \/ Assign \/ Finish \/ HandleError
    \/ Reply \/ CallNext \/ NotFoundReturns

Spec == Init /\ [][Next]_vars
=============================================================================
