--------------------------- MODULE ResponseStream ---------------------------
(***************************************************************************)
(* A streamed reply (src/response/stream-response.ts): toWebStream() turns *)
(* a Node.js Readable into a Web stream, createByteStream() wraps it and   *)
(* cancels it when the client disconnects.  The inner stream is            *)
(* toWebStream()'s, the outer one the response body that the server reads. *)
(* Readable, ReadableStream and the socket are external: they are modelled *)
(* as far as the two functions can tell.  A chunk is its position, so the  *)
(* counters say which chunks are where: 1..delivered have been read by the *)
(* server, the next outerQueue wait in the outer stream, and so on.        *)
(***************************************************************************)
EXTENDS Naturals

CONSTANT Chunks                 \* number of chunks the source can produce
ASSUME ChunksAssumption == Chunks \in Nat

VARIABLES
    buffered,       \* chunks in the Readable's buffer
    produced,       \* chunks the source pushed so far
    source,         \* "live", "destroyed" or "errored"
    eof,            \* null was pushed
    due,            \* events the Readable will emit
    needReadable,   \* will the next push emit "readable"
    cancelled, ended, failure,      \* the variables of toWebStream()
    innerPull,      \* its pull(): "idle", "run" or "wait" (wake is set)
    inner,          \* the inner stream: "readable", "closed" or "errored"
    innerQueue,
    finished,       \* createByteStream()'s flag
    listening,      \* are the disconnect listeners registered
    outerPull,      \* its pull(): "idle", "read" or what read() returned
    outer,          \* the response body's state, "cancelled" if the server did
    outerQueue,
    delivered,
    client          \* "there", "leaving" (close event due) or "gone"

sourceVars == <<buffered, produced, source, eof, due, needReadable>>
webVars == <<cancelled, ended, failure, innerPull, inner, innerQueue>>
byteVars == <<finished, listening, outerPull, outer, outerQueue>>
vars == <<sourceVars, webVars, byteVars, delivered, client>>

Count == 0..Chunks
Events == {"readable", "end", "error", "close"}

TypeOK ==
    /\ buffered \in Count /\ produced \in Count
    /\ source \in {"live", "destroyed", "errored"}
    /\ eof \in BOOLEAN
    /\ due \subseteq Events
    /\ needReadable \in BOOLEAN
    /\ cancelled \in BOOLEAN /\ ended \in BOOLEAN /\ failure \in BOOLEAN
    /\ innerPull \in {"idle", "run", "wait"}
    /\ inner \in {"readable", "closed", "errored"}
    /\ innerQueue \in 0..1
    /\ finished \in BOOLEAN /\ listening \in BOOLEAN
    /\ outerPull \in {"idle", "read", "value", "done", "error"}
    /\ outer \in {"readable", "closed", "errored", "cancelled"}
    /\ outerQueue \in 0..1
    /\ delivered \in Count
    /\ client \in {"there", "leaving", "gone"}

(* The client may have left before the reply is built: registerClient-      *)
(* Disconnect() then queues the listener instead of registering it.         *)
Init ==
    /\ buffered = 0 /\ produced = 0 /\ source = "live" /\ eof = FALSE
    /\ due = {} /\ needReadable = TRUE
    /\ cancelled = FALSE /\ ended = FALSE /\ failure = FALSE
    /\ innerPull = "idle" /\ inner = "readable" /\ innerQueue = 0
    /\ finished = FALSE /\ outerPull = "idle" /\ outer = "readable"
    /\ outerQueue = 0 /\ delivered = 0
    /\ \/ client = "there" /\ listening = TRUE
       \/ client = "leaving" /\ listening = FALSE

-----------------------------------------------------------------------------
(* The Readable.                                                            *)

Push ==
    /\ source = "live" /\ ~eof /\ produced < Chunks
    /\ produced' = produced + 1
    /\ buffered' = buffered + 1
    /\ due' = IF needReadable THEN due \cup {"readable"} ELSE due
    /\ needReadable' = FALSE
    /\ UNCHANGED <<source, eof, webVars, byteVars, delivered, client>>

PushEnd ==
    /\ source = "live" /\ ~eof
    /\ eof' = TRUE
    /\ due' = due \cup {"readable"}
    /\ UNCHANGED <<buffered, produced, source, needReadable, webVars, byteVars,
                   delivered, client>>

(* The source fails, or somebody destroys it (a file's error handler): an   *)
(* error suppresses a pending "end".                                        *)
SourceFails ==
    /\ source = "live"
    /\ \/ source' = "errored" /\ due' = (due \ {"end"}) \cup {"error", "close"}
       \/ source' = "destroyed" /\ due' = due \cup {"close"}
    /\ UNCHANGED <<buffered, produced, eof, needReadable, webVars, byteVars,
                   delivered, client>>

(* notify()                                                                 *)
(* Mutants: nobody is woken; resume is called although nobody waits.        *)
NotifyNobody == innerPull
NotifyAlways == IF innerPull = "wait" THEN "run" ELSE "undefined"
Notify == IF innerPull = "wait" THEN "run" ELSE innerPull

(* The listeners of toWebStream().  A destroyed Readable emits no more      *)
(* "readable"; "end" destroys it, and "close" is the last event.            *)
EmitReadable ==
    /\ "readable" \in due
    /\ due' = due \ {"readable"}
    /\ innerPull' = IF source = "live" THEN Notify ELSE innerPull
    /\ UNCHANGED <<buffered, produced, source, eof, needReadable, cancelled, ended,
                   failure, inner, innerQueue, byteVars, delivered, client>>

EmitEnd ==
    /\ "end" \in due
    /\ due' = IF source = "live" THEN (due \ {"end"}) \cup {"close"} ELSE due \ {"end"}
    /\ source' = "destroyed"
    /\ ended' = TRUE
    /\ innerPull' = Notify
    /\ UNCHANGED <<buffered, produced, eof, needReadable, cancelled, failure, inner,
                   innerQueue, byteVars, delivered, client>>

EmitError ==
    /\ "error" \in due
    /\ due' = due \ {"error"}
    /\ failure' = TRUE
    /\ innerPull' = Notify
    /\ UNCHANGED <<buffered, produced, source, eof, needReadable, cancelled, ended,
                   inner, innerQueue, byteVars, delivered, client>>

(* Mutant: a close without an end is not a failure.                         *)
CloseIsEnd == failure
PrematureClose == failure \/ ~ended

EmitClose ==
    /\ "close" \in due /\ due \cap {"error", "end"} = {}
    /\ due' = due \ {"close"}
    /\ failure' = PrematureClose
    /\ innerPull' = Notify
    /\ UNCHANGED <<buffered, produced, source, eof, needReadable, cancelled, ended,
                   inner, innerQueue, byteVars, delivered, client>>

-----------------------------------------------------------------------------
(* The inner stream: pull() is called while it wants a chunk.               *)

StartInnerPull ==
    /\ inner = "readable" /\ innerPull = "idle"
    /\ innerQueue = 0 \/ outerPull = "read"
    /\ innerPull' = "run"
    /\ UNCHANGED <<sourceVars, cancelled, ended, failure, inner, innerQueue,
                   byteVars, delivered, client>>

(* controller.enqueue(): a pending read() gets the chunk.                   *)
EnqueueInner ==
    IF outerPull = "read"
    THEN outerPull' = "value" /\ UNCHANGED innerQueue
    ELSE innerQueue' = innerQueue + 1 /\ UNCHANGED outerPull

(* read() of a drained Readable that got null schedules its "end".          *)
EndsReadable ==
    IF eof /\ source # "errored" /\ ~ended /\ (source = "live" \/ "close" \in due)
    THEN due \cup {"end"} ELSE due

ReadChunk ==
    /\ buffered > 0
    /\ buffered' = buffered - 1
    /\ due' = IF buffered = 1 THEN EndsReadable ELSE due
    /\ needReadable' = (buffered = 1)
    /\ innerPull' = "idle"
    /\ EnqueueInner
    /\ UNCHANGED <<cancelled, inner>>

(* Mutant: a destroyed Readable counts as ended.                            *)
IsDestroyed == ended \/ source # "live"
IsEnded == ended

(* readable.read() returned null: close after the end, or wait.             *)
ReadNothing ==
    /\ buffered = 0
    /\ due' = EndsReadable
    /\ needReadable' = TRUE
    /\ IF IsEnded
       THEN /\ inner' = "closed" /\ innerPull' = "idle"
            /\ outerPull' = IF outerPull = "read" THEN "done" ELSE outerPull
       ELSE innerPull' = "wait" /\ UNCHANGED <<inner, outerPull>>
    /\ UNCHANGED <<buffered, innerQueue, cancelled>>

(* Mutant: pull() does not look whether it was cancelled while it waited.   *)
KeepsPulling == FALSE
StopsPulling == cancelled

(* One turn of the loop in pull().                                          *)
InnerPull ==
    /\ innerPull = "run"
    /\ IF StopsPulling
       THEN /\ innerPull' = "idle"
            /\ UNCHANGED <<due, needReadable, buffered, inner, innerQueue, outerPull, cancelled>>
       ELSE IF failure
       THEN /\ innerPull' = "idle" /\ inner' = "errored" /\ innerQueue' = 0
            /\ outerPull' = IF outerPull = "read" THEN "error" ELSE outerPull
            /\ UNCHANGED <<due, needReadable, buffered, cancelled>>
       ELSE ReadChunk \/ ReadNothing
    /\ UNCHANGED <<produced, source, eof, ended, failure, finished, listening, outer,
                   outerQueue, delivered, client>>

(* reader.cancel(): cancel() of the inner stream, when it is readable.      *)
CancelInner ==
    IF inner = "readable"
    THEN /\ inner' = "closed" /\ innerQueue' = 0 /\ cancelled' = TRUE
         /\ source' = IF source = "live" THEN "destroyed" ELSE source
         /\ due' = IF source = "live" THEN due \cup {"close"} ELSE due
         /\ innerPull' = Notify
    ELSE UNCHANGED <<inner, innerQueue, cancelled, source, due, innerPull>>

-----------------------------------------------------------------------------
(* The outer stream.                                                        *)

(* cancelSource()                                                           *)
(* Mutant: cleanup() leaves the listeners.                                  *)
KeepListening == listening
Cleanup == FALSE

CancelSource(pull) ==
    IF finished
    THEN /\ outerPull' = pull
         /\ UNCHANGED <<finished, listening, inner, innerQueue, cancelled, source, due, innerPull>>
    ELSE /\ finished' = TRUE /\ listening' = Cleanup
         /\ CancelInner
         /\ outerPull' = IF pull = "read" THEN "done" ELSE pull

(* pull() calls reader.read().                                              *)
StartOuterPull ==
    /\ outer = "readable" /\ outerPull = "idle" /\ outerQueue = 0
    /\ \/ /\ innerQueue > 0
          /\ innerQueue' = innerQueue - 1 /\ outerPull' = "value"
       \/ /\ innerQueue = 0
          /\ outerPull' = CASE inner = "readable" -> "read"
                            [] inner = "closed" -> "done"
                            [] inner = "errored" -> "error"
          /\ UNCHANGED innerQueue
    /\ UNCHANGED <<sourceVars, cancelled, ended, failure, innerPull, inner,
                   finished, listening, outer, outerQueue, delivered, client>>

(* pull() after read(): a chunk read while the source was being cancelled   *)
(* is dropped.  close() and error() do nothing to a cancelled stream.       *)
ReadIsOver == finished \/ outerPull = "done"

Closes(state) == IF outer = "readable" THEN state ELSE outer

OuterPullEnds ==
    /\ outerPull \in {"value", "done"}
    /\ ReadIsOver
    /\ finished' = TRUE /\ listening' = Cleanup
    /\ outerPull' = "idle"
    /\ outer' = Closes("closed")
    /\ UNCHANGED <<sourceVars, webVars, outerQueue, delivered, client>>

OuterPullEnqueues ==
    /\ outerPull = "value"
    /\ ~ReadIsOver
    /\ outerPull' = "idle"
    /\ outerQueue' = outerQueue + 1
    /\ UNCHANGED <<sourceVars, webVars, finished, listening, outer, delivered, client>>

(* read() rejected, or the chunk has a type that cannot be sent.            *)
OuterPullFails ==
    /\ outerPull = "error" \/ (outerPull = "value" /\ ~ReadIsOver)
    /\ CancelSource("idle")
    /\ outer' = Closes("errored")
    /\ outerQueue' = 0
    /\ UNCHANGED <<buffered, produced, eof, needReadable, ended, failure, delivered, client>>

(* The server reads a chunk, or cancels the body.                           *)
Deliver ==
    /\ outer \in {"readable", "closed"} /\ outerQueue > 0
    /\ outerQueue' = outerQueue - 1
    /\ delivered' = delivered + 1
    /\ UNCHANGED <<sourceVars, webVars, finished, listening, outerPull, outer, client>>

CancelBody ==
    /\ outer = "readable"
    /\ outer' = "cancelled" /\ outerQueue' = 0
    /\ CancelSource(outerPull)
    /\ UNCHANGED <<buffered, produced, eof, needReadable, ended, failure, delivered, client>>

Disconnect ==
    /\ client = "there"
    /\ client' = "leaving"
    /\ UNCHANGED <<sourceVars, webVars, byteVars, delivered>>

(* The "close" or "abort" event reaches the listener if it is registered,   *)
(* or was queued because the client had left before.                        *)
DisconnectListener ==
    /\ client = "leaving"
    /\ client' = "gone"
    /\ CancelSource(outerPull)
    /\ UNCHANGED <<buffered, produced, eof, needReadable, ended, failure, outer,
                   outerQueue, delivered>>

-----------------------------------------------------------------------------
Source == Push \/ PushEnd \/ SourceFails
Emit == EmitReadable \/ EmitEnd \/ EmitError \/ EmitClose
Pulls ==
    \/ StartInnerPull \/ InnerPull \/ StartOuterPull
    \/ OuterPullEnds \/ OuterPullEnqueues \/ OuterPullFails

Next ==
    \/ Source \/ Emit \/ Pulls
    \/ Deliver \/ CancelBody \/ Disconnect \/ DisconnectListener

Spec == Init /\ [][Next]_vars

(* Events are emitted, promise reactions run, and the server reads the body *)
(* or cancels it.                                                           *)
Fairness ==
    /\ WF_vars(EmitReadable) /\ WF_vars(EmitEnd)
    /\ WF_vars(EmitError) /\ WF_vars(EmitClose)
    /\ WF_vars(StartInnerPull) /\ WF_vars(InnerPull)
    /\ WF_vars(StartOuterPull) /\ WF_vars(OuterPullEnds)
    /\ WF_vars(OuterPullEnqueues \/ OuterPullFails)
    /\ WF_vars(Deliver)

FairSpec == Spec /\ Fairness

-----------------------------------------------------------------------------
(* A body that ends cleanly while the client is there is complete: neither  *)
(* a failing source, a premature close, nor a cancelled read looks like the *)
(* end of the data.                                                         *)
CleanEndIsComplete ==
    (outer = "closed" /\ client = "there") =>
        eof /\ delivered + outerQueue = produced

(* Once createByteStream() is finished, whoever finished it, its disconnect *)
(* listeners are gone and the source is released, never left open.          *)
FinishedReleases ==
    finished => ~listening /\ inner # "readable" /\ source # "live"

(* toWebStream()'s pull() never sleeps through the event it waits for.      *)
NoLostWakeUp ==
    innerPull = "wait" =>
        /\ ~cancelled /\ ~failure /\ ~ended
        /\ source = "live" /\ buffered > 0 => "readable" \in due

-----------------------------------------------------------------------------
(* The inductive strengthening of the safety properties.                    *)

InTransit == IF outerPull = "value" THEN 1 ELSE 0

(* No chunk is invented, and until something fails or is cancelled every    *)
(* chunk is somewhere.                                                      *)
NothingLost ==
    LET kept == delivered + outerQueue + InTransit + innerQueue + buffered IN
    /\ kept <= produced
    /\ ~finished /\ inner # "errored" => kept = produced

(* What the end, a failure and the state of the Readable say of each other. *)
SourceInv ==
    /\ ended \/ "end" \in due => eof /\ buffered = 0
    /\ ended \/ failure \/ due \cap {"error", "close"} # {} => source # "live"

(* The inner stream: pull() and read() find it readable.                    *)
InnerInv ==
    /\ outerPull = "read" => inner = "readable" /\ ~finished
    /\ innerPull # "idle" \/ outerPull = "read" => innerQueue = 0
    /\ innerPull # "idle" => inner = "readable" \/ cancelled
    /\ inner = "closed" => ended \/ finished
    /\ inner = "errored" => failure /\ innerQueue = 0
    /\ inner = "readable" => ~cancelled

(* The outer stream and createByteStream()'s flag.                          *)
OuterInv ==
    /\ ~finished => outer = "readable"
    /\ outer = "closed" => outerPull = "idle"
    /\ outerPull # "idle" => outerQueue = 0
    /\ outer = "readable" /\ finished => client # "there"
    /\ outerPull = "error" => inner = "errored"
    /\ outerPull = "done" /\ ~finished => inner = "closed" /\ innerQueue = 0

(* A push that follows read()'s null emits "readable".                      *)
WakeInv ==
    innerPull = "wait" /\ source = "live" =>
        (buffered = 0 /\ needReadable) \/ "readable" \in due

IInv ==
    /\ TypeOK /\ NothingLost /\ SourceInv /\ InnerInv /\ OuterInv /\ WakeInv
    /\ CleanEndIsComplete /\ FinishedReleases /\ NoLostWakeUp

-----------------------------------------------------------------------------
(* What a step may never do, and what must happen.                          *)

(* Unlike Readable.toWeb(), a cancelled stream never receives a late        *)
(* enqueue() (stream-response.ts:94-102), inside or outside.                *)
NoLateEnqueue ==
    [][/\ (innerQueue' > innerQueue \/ (outerPull = "read" /\ outerPull' = "value"))
            => inner = "readable"
       /\ outerQueue' > outerQueue => outer = "readable" /\ ~finished]_vars

(* All of it together does what the plain pipe of ReplyBody does: chunks    *)
(* reach the server in order, once each and one ahead of it, none is added  *)
(* to a body that ended or whose client is gone, only a complete body ends  *)
(* cleanly, and no body ends with its source left open.                     *)
Pipe == INSTANCE ReplyBody WITH
            open <- source = "live", queued <- outerQueue, body <- outer

ImplementsReplyBody == Pipe!Spec

(* The body ends when its source ends, fails or is closed.                  *)
BodyEnds == (eof \/ source # "live") ~> (outer # "readable")
=============================================================================
