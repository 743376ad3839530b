----------------------------- MODULE NestLayers -----------------------------
(***************************************************************************)
(* What the adapter's layers (src/routing/route-invoker.ts) promise Hono   *)
(* and Nest: they nest.  A layer is entered once, from the one around it;  *)
(* it settles once, for a reason: normally when its handler and the layers *)
(* that it called did, by an error of either, or because a stream is the   *)
(* response.  Middleware that merely returns does not answer, an error     *)
(* passes outward until an error handler takes it, and whoever is told     *)
(* that a layer succeeded finds a response.  The waits, listeners and      *)
(* streams by which the code keeps this promise are RouteInvoker's.        *)
(***************************************************************************)
EXTENDS Naturals

CONSTANTS N, Waits, Routed, HeadRequest     \* as in RouteInvoker

Layers == 1..N

VARIABLES
    status,     \* of each layer
    returned,   \* what each layer's handler came to
    next,       \* what its call of next() came to
    final,      \* is there a response
    streamed,   \* is an SSE stream the response
    answer      \* what the server was given

layers == <<status, returned, next, final, streamed, answer>>

\* A layer is "releasing" while it drops the body that a HEAD request does
\* not get.
Statuses == {"idle", "running", "releasing", "done", "failed"}
Fulfilled == {"value", "response"}

Init ==
    /\ status = [l \in Layers |-> IF l = 1 THEN "running" ELSE "idle"]
    /\ returned = [l \in Layers |-> "none"]
    /\ next = [l \in Layers |-> "none"]
    /\ final = FALSE /\ streamed = FALSE /\ answer = "none"

(* next() enters the layer inside of this one, or has nothing left to enter *)
(* when there is a response; next(error) enters none.                       *)
Enter(l) ==
    /\ status[l] # "idle" /\ next[l] = "none"
    /\ next' = [next EXCEPT ![l] = IF l = N /\ final THEN "resolved" ELSE "pending"]
    /\ IF l < N
       THEN status[l + 1] = "idle" /\ status' = [status EXCEPT ![l + 1] = "running"]
       ELSE UNCHANGED status
    /\ UNCHANGED <<returned, final, streamed, answer>>

NextWithError(l) ==
    /\ status[l] # "idle" /\ next[l] = "none"
    /\ next' = [next EXCEPT ![l] = "rejected"]
    /\ UNCHANGED <<status, returned, final, streamed, answer>>

(* Somebody replies.  No response is ever taken back.                       *)
Finalize ==
    /\ final' = TRUE
    /\ UNCHANGED <<status, returned, next, streamed, answer>>

(* A handler's call returns or throws, or the promise it returned settles.  *)
Returns(l) ==
    /\ status[l] # "idle" /\ returned[l] = "none"
    /\ returned' \in {[returned EXCEPT ![l] = out] : out \in {"error"} \cup Fulfilled}

Return(l) == Returns(l) /\ UNCHANGED <<status, next, final, streamed, answer>>

Succeeded == {"done"} \cup (IF HeadRequest THEN {"releasing"} ELSE {})

Settles(l, s) ==
    /\ status[l] = "running"
    /\ status' = [status EXCEPT ![l] = s]
    /\ UNCHANGED <<returned, next, streamed, answer>>

(* The response is there, or the layer hands Hono one of its own.           *)
Complete(l) ==
    /\ returned[l] \in Fulfilled
    /\ next[l] \in {"none", "resolved"}
    /\ l \in Waits /\ returned[l] = "value" => final \/ next[l] = "resolved"
    /\ \E s \in Succeeded : Settles(l, s)
    /\ final' \/ (l \notin Routed /\ returned[l] = "response" /\ ~final)

Fail(l) ==
    /\ returned[l] = "error" \/ (returned[l] \in Fulfilled /\ next[l] = "rejected")
    /\ Settles(l, "failed")
    /\ UNCHANGED final

Release(l) ==
    /\ status[l] = "releasing"
    /\ status' = [status EXCEPT ![l] = "done"]
    /\ UNCHANGED <<returned, next, final, streamed, answer>>

(* A stream becomes the only response, once.  It settles routed layers that *)
(* run, then or when their handler's call returns.                          *)
SettlesByStream(l) ==
    l \in Routed /\ status[l] = "running" /\ status'[l] \in Succeeded \cup {"failed"}

StartStream ==
    /\ ~final /\ final' = TRUE
    /\ ~streamed /\ streamed' = TRUE
    /\ status' \in [Layers -> Statuses]
    /\ \A l \in Layers : status'[l] = status[l] \/ SettlesByStream(l)
    /\ UNCHANGED <<returned, next, answer>>

JoinStream(l) ==
    /\ streamed
    /\ SettlesByStream(l)
    /\ status' = [status EXCEPT ![l] = status'[l]]
    /\ Returns(l) \/ UNCHANGED returned
    /\ UNCHANGED <<next, final, streamed, answer>>

(* The outcome of a layer goes to the layer around it, or to the server,    *)
(* which gets it once.                                                      *)
PassesOut(l, ok) ==
    IF l = 1
    THEN /\ answer = "none"
         /\ answer' = IF ok THEN "response" ELSE "rejection"
         /\ UNCHANGED next
    ELSE /\ next[l - 1] = "pending"
         /\ next' = [next EXCEPT ![l - 1] = IF ok THEN "resolved" ELSE "rejected"]
         /\ UNCHANGED answer

PassSuccess(l) ==
    /\ status[l] = "done"
    /\ PassesOut(l, TRUE)
    /\ final'
    /\ UNCHANGED <<status, returned, streamed>>

(* The error handler replies, or fails itself.                              *)
PassFailure(l) ==
    /\ status[l] = "failed"
    /\ \/ PassesOut(l, TRUE) /\ final'
       \/ PassesOut(l, FALSE) /\ UNCHANGED final
    /\ UNCHANGED <<status, returned, streamed>>

(* The not-found handler replies, or fails.                                 *)
EndOfChain ==
    /\ next[N] = "pending"
    /\ \/ next' = [next EXCEPT ![N] = "resolved"] /\ final'
       \/ next' = [next EXCEPT ![N] = "rejected"] /\ UNCHANGED final
    /\ UNCHANGED <<status, returned, streamed, answer>>

Next ==
    \/ \E l \in Layers :
        \/ Enter(l) \/ NextWithError(l)
        \/ Return(l) \/ Complete(l) \/ Fail(l) \/ Release(l) \/ JoinStream(l)
        \/ PassSuccess(l) \/ PassFailure(l)
    \/ Finalize \/ StartStream \/ EndOfChain

Spec == Init /\ [][Next]_layers
=============================================================================
