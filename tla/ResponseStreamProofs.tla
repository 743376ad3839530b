------------------------ MODULE ResponseStreamProofs ------------------------
(* Proofs about ResponseStream for every number of chunks.                  *)
EXTENDS ResponseStream, TLAPS

-----------------------------------------------------------------------------
(* What the shared steps do.                                                *)

(* cancel() of the inner stream drops its chunks, wakes pull() and destroys *)
(* the source.                                                              *)
LEMMA CancelInnerIs ==
    ASSUME IInv, CancelInner
    PROVE  /\ inner' = IF inner = "readable" THEN "closed" ELSE inner
           /\ innerQueue' \in {0, innerQueue}
           /\ innerPull # "idle" => innerQueue' = 0
           /\ cancelled' \in BOOLEAN /\ (inner = "readable" => cancelled')
           /\ inner # "readable" => cancelled' = cancelled
           /\ source' = IF inner = "readable" /\ source = "live" THEN "destroyed" ELSE source
           /\ due' \subseteq Events /\ due \subseteq due' /\ due' \subseteq due \cup {"close"}
           /\ innerPull' \in {"idle", "run", "wait"}
           /\ innerPull' = "idle" <=> innerPull = "idle"
           /\ innerPull' = "wait" => innerPull = "wait" /\ inner # "readable"
  BY DEF CancelInner, Notify, IInv, TypeOK, InnerInv, Events

(* cancelSource() finishes once: it removes the listeners and releases the  *)
(* source, and a pending read() is done.                                    *)
LEMMA CancelSourceIs ==
    ASSUME IInv, NEW pull, CancelSource(pull)
    PROVE  /\ finished' /\ ~listening' /\ inner' # "readable" /\ source' # "live"
           /\ inner' = IF inner = "readable" THEN "closed" ELSE inner
           /\ innerQueue' \in {0, innerQueue}
           /\ innerPull # "idle" => innerQueue' = 0
           /\ cancelled' \in BOOLEAN /\ (innerPull' # "idle" => cancelled')
           /\ cancelled => cancelled'
           /\ source' \in {source, "destroyed"} /\ (source # "live" => source' = source)
           /\ due' \subseteq Events /\ due \subseteq due' /\ due' \subseteq due \cup {"close"}
           /\ innerPull' \in {"idle", "run"} /\ (innerPull' = "idle" <=> innerPull = "idle")
           /\ outerPull' = IF ~finished /\ pull = "read" THEN "done" ELSE pull
  <1>1. CASE finished
    BY <1>1 DEF CancelSource, IInv, TypeOK, InnerInv, FinishedReleases, NoLostWakeUp
  <1>2. CASE ~finished
    <2>1. CancelInner /\ finished' = TRUE /\ ~listening'
          /\ outerPull' = IF pull = "read" THEN "done" ELSE pull
      BY <1>2 DEF CancelSource, Cleanup
    <2>2. inner # "readable" => source # "live" /\ innerPull # "wait"
      BY <1>2 DEF IInv, TypeOK, InnerInv, SourceInv, NoLostWakeUp
    <2>3. source \in {"live", "destroyed", "errored"} /\ inner \in {"readable", "closed", "errored"}
          /\ cancelled \in BOOLEAN
      BY DEF IInv, TypeOK
    <2>4. inner' # "readable" /\ source' # "live" /\ innerPull' # "wait"
      BY <2>1, <2>2, <2>3, CancelInnerIs
    <2>5. innerPull' # "idle" => cancelled'
      BY <2>1, <2>3, CancelInnerIs DEF IInv, InnerInv
    <2>6. cancelled => cancelled'
      BY <2>1, <2>3, CancelInnerIs
    <2> QED
      BY <1>2, <2>1, <2>3, <2>4, <2>5, <2>6, CancelInnerIs
  <1> QED
    BY <1>1, <1>2

-----------------------------------------------------------------------------
(* The steps of the inductive invariant.                                    *)

(* A pushed chunk wakes a pull() that found nothing.                        *)
LEMMA PushStep == ASSUME IInv, Push PROVE IInv'
  <1> USE DEF IInv
  <1>1. TypeOK'
    <2>1. buffered + 1 \in Count /\ produced + 1 \in Count
      BY ChunksAssumption DEF Push, TypeOK, Count, NothingLost, InTransit
    <2>2. due' \subseteq Events /\ needReadable' \in BOOLEAN
      BY Zenon DEF Push, TypeOK, Events
    <2> QED
      BY <2>1, <2>2 DEF Push, TypeOK, Count, webVars, byteVars
  <1>2. NothingLost'
    BY DEF Push, TypeOK, Count, NothingLost, InTransit, webVars, byteVars
  <1>3. SourceInv' /\ InnerInv' /\ OuterInv'
    BY DEF Push, TypeOK, SourceInv, InnerInv, OuterInv, webVars, byteVars
  <1>4. WakeInv' /\ NoLostWakeUp'
    BY DEF Push, TypeOK, Count, WakeInv, NoLostWakeUp, webVars, byteVars
  <1>5. CleanEndIsComplete' /\ FinishedReleases'
    BY DEF Push, TypeOK, CleanEndIsComplete, FinishedReleases, webVars, byteVars
  <1> QED
    BY <1>1, <1>2, <1>3, <1>4, <1>5

(* pull() that finds a chunk hands it to the reader or to the queue.        *)
LEMMA ReadStep ==
    ASSUME IInv, InnerPull, ~cancelled, ~failure, ReadChunk
    PROVE  IInv'
  <1> USE DEF IInv
  <1>0. /\ innerPull = "run" /\ innerQueue = 0 /\ inner = "readable" /\ buffered > 0 /\ ~ended
        /\ buffered' = buffered - 1 /\ innerPull' = "idle"
        /\ needReadable' = (buffered = 1)
        /\ due' \in {due, due \cup {"end"}} /\ ("end" \in due' => "end" \in due \/ (eof /\ buffered = 1))
        /\ UNCHANGED <<cancelled, inner, produced, source, eof, ended, failure, finished, listening,
                       outer, outerQueue, delivered, client>>
    BY DEF InnerPull, ReadChunk, EndsReadable, TypeOK, Count, InnerInv, SourceInv
  <1>1. \/ outerPull = "read" /\ outerPull' = "value" /\ innerQueue' = 0
        \/ outerPull # "read" /\ outerPull' = outerPull /\ innerQueue' = 1
    BY <1>0 DEF ReadChunk, EnqueueInner
  <1>2. TypeOK'
    BY <1>0, <1>1, ChunksAssumption DEF TypeOK, Count, Events
  <1>3. NothingLost'
    BY <1>0, <1>1 DEF TypeOK, Count, NothingLost, InTransit
  <1>4. SourceInv'
    BY <1>0 DEF TypeOK, Count, SourceInv
  <1>5. InnerInv' /\ OuterInv'
    BY <1>0, <1>1 DEF TypeOK, InnerInv, OuterInv
  <1>6. WakeInv' /\ NoLostWakeUp' /\ FinishedReleases'
    BY <1>0 DEF WakeInv, NoLostWakeUp, FinishedReleases
  <1>7. CleanEndIsComplete'
    BY <1>0, <1>1 DEF CleanEndIsComplete, TypeOK
  <1> QED
    BY <1>2, <1>3, <1>4, <1>5, <1>6, <1>7

(* pull() that finds nothing waits, or closes the stream after the end.     *)
LEMMA ReadNothingStep ==
    ASSUME IInv, InnerPull, ~cancelled, ~failure, ReadNothing
    PROVE  IInv'
  <1> USE DEF IInv
  <1>0. /\ innerPull = "run" /\ innerQueue = 0 /\ inner = "readable" /\ buffered = 0
        /\ needReadable' = TRUE
        /\ due' \in {due, due \cup {"end"}} /\ ("end" \in due' => "end" \in due \/ eof)
        /\ UNCHANGED <<buffered, innerQueue, cancelled, produced, source, eof, ended, failure,
                       finished, listening, outer, outerQueue, delivered, client>>
    BY DEF InnerPull, ReadNothing, EndsReadable, TypeOK, Count, InnerInv, SourceInv
  <1>1. \/ ended /\ inner' = "closed" /\ innerPull' = "idle"
           /\ outerPull' = IF outerPull = "read" THEN "done" ELSE outerPull
        \/ ~ended /\ innerPull' = "wait" /\ UNCHANGED <<inner, outerPull>>
    BY DEF ReadNothing, IsEnded, TypeOK
  <1>2. TypeOK'
    BY <1>0, <1>1 DEF TypeOK, Events
  <1>3. NothingLost'
    BY <1>0, <1>1 DEF TypeOK, Count, NothingLost, InTransit
  <1>4. SourceInv'
    BY <1>0 DEF TypeOK, SourceInv
  <1>5. InnerInv' /\ OuterInv'
    BY <1>0, <1>1 DEF TypeOK, InnerInv, OuterInv
  <1>6. WakeInv' /\ NoLostWakeUp' /\ FinishedReleases'
    BY <1>0, <1>1 DEF TypeOK, WakeInv, NoLostWakeUp, FinishedReleases
  <1>7. CleanEndIsComplete'
    BY <1>0 DEF CleanEndIsComplete
  <1> QED
    BY <1>2, <1>3, <1>4, <1>5, <1>6, <1>7

(* pull() of the inner stream.                                              *)
LEMMA InnerPullStep == ASSUME IInv, InnerPull PROVE IInv'
  <1>1. CASE cancelled
    BY <1>1 DEF InnerPull, StopsPulling, IInv, TypeOK, NothingLost, InTransit, SourceInv,
        InnerInv, OuterInv, WakeInv, CleanEndIsComplete, FinishedReleases, NoLostWakeUp
  <1>2. CASE ~cancelled /\ failure
    <2>1. /\ innerPull' = "idle" /\ inner' = "errored" /\ innerQueue' = 0
          /\ outerPull' = IF outerPull = "read" THEN "error" ELSE outerPull
          /\ UNCHANGED <<due, needReadable, buffered, cancelled, produced, source, eof, ended,
                         failure, finished, listening, outer, outerQueue, delivered, client>>
      BY <1>2 DEF InnerPull, StopsPulling
    <2> QED
      BY <1>2, <2>1 DEF InnerPull, IInv, TypeOK, NothingLost, InTransit, SourceInv,
          InnerInv, OuterInv, WakeInv, CleanEndIsComplete, FinishedReleases, NoLostWakeUp
  <1>3. CASE ~cancelled /\ ~failure
    BY <1>3, ReadStep, ReadNothingStep DEF InnerPull, StopsPulling
  <1> QED
    BY <1>1, <1>2, <1>3

(* pull() of the outer stream that is over.                                 *)
LEMMA OuterPullEndsStep == ASSUME IInv, OuterPullEnds PROVE IInv'
  <1> USE DEF IInv
  <1>0. /\ outerPull \in {"value", "done"} /\ (finished \/ outerPull = "done")
        /\ finished' /\ ~listening' /\ outerPull' = "idle"
        /\ outer' = IF outer = "readable" THEN "closed" ELSE outer
        /\ UNCHANGED <<buffered, produced, source, eof, due, needReadable, cancelled, ended,
                       failure, innerPull, inner, innerQueue, outerQueue, delivered, client>>
        /\ finished' \in BOOLEAN /\ listening' \in BOOLEAN
    BY DEF OuterPullEnds, ReadIsOver, Cleanup, Closes, sourceVars, webVars
  <1>1. TypeOK'
    BY <1>0 DEF TypeOK, Count
  <1>2. ~finished => inner = "closed" /\ innerQueue = 0 /\ ended /\ buffered = 0 /\ eof
    BY <1>0 DEF OuterInv, InnerInv, SourceInv
  <1>3. inner # "readable" /\ source # "live"
    BY <1>0, <1>2 DEF SourceInv, FinishedReleases
  <1>4. CleanEndIsComplete'
    <2>1. CASE finished
      BY <1>0, <2>1 DEF OuterInv, CleanEndIsComplete
    <2>2. CASE ~finished
      BY <1>0, <1>2, <2>2 DEF NothingLost, InTransit, CleanEndIsComplete, TypeOK, Count
    <2> QED
      BY <2>1, <2>2
  <1>5. SourceInv' /\ InnerInv' /\ WakeInv' /\ NoLostWakeUp' /\ FinishedReleases'
    BY <1>0, <1>3 DEF TypeOK, SourceInv, InnerInv, WakeInv, NoLostWakeUp, FinishedReleases
  <1>7. NothingLost'
    BY <1>0 DEF TypeOK, Count, NothingLost, InTransit
  <1>6. OuterInv'
    BY <1>0 DEF OuterInv
  <1> QED
    BY <1>1, <1>4, <1>5, <1>6, <1>7

(* The server reads a chunk of the body.                                    *)
LEMMA DeliverStep == ASSUME IInv, Deliver PROVE IInv'
  <1> USE DEF IInv
  <1>0. /\ outerQueue = 1 /\ outerQueue' = 0 /\ delivered' = delivered + 1
        /\ outer \in {"readable", "closed"}
        /\ UNCHANGED <<sourceVars, webVars, finished, listening, outerPull, outer, client>>
    BY DEF Deliver, TypeOK
  <1>1. delivered + 1 \in Count /\ delivered' + outerQueue' = delivered + outerQueue
    BY <1>0, ChunksAssumption DEF TypeOK, Count, NothingLost, InTransit
  <1>2. TypeOK'
    BY <1>0, <1>1 DEF TypeOK, Count, sourceVars, webVars
  <1>3. NothingLost'
    BY <1>0, <1>1 DEF TypeOK, Count, NothingLost, InTransit, sourceVars, webVars
  <1>4. CleanEndIsComplete'
    BY <1>0, <1>1 DEF CleanEndIsComplete, sourceVars, webVars
  <1>5. SourceInv' /\ InnerInv' /\ OuterInv'
    BY <1>0 DEF SourceInv, InnerInv, OuterInv, sourceVars, webVars
  <1>6. WakeInv' /\ FinishedReleases' /\ NoLostWakeUp'
    BY <1>0 DEF WakeInv, FinishedReleases, NoLostWakeUp, sourceVars, webVars
  <1> QED
    BY <1>1, <1>2, <1>3, <1>4, <1>5, <1>6

(* createByteStream() cancels its source because read() rejected, the chunk *)
(* cannot be sent, the server cancelled the body or the client left: what    *)
(* the shared cancelSource() leaves of the invariant.                        *)
LEMMA CancelStep ==
    ASSUME IInv, NEW pull, CancelSource(pull),
           pull \in {"idle", outerPull},
           outerQueue' \in {0, outerQueue},
           outer' = "closed" => outer = "closed" \/ client' # "there",
           outer' = "closed" => outerPull' = "idle",
           outer' = "readable" => client' # "there",
           outer' \in {"readable", "closed", "errored", "cancelled"},
           client' \in {"there", "leaving", "gone"},
           client' = "there" => client = "there",
           outer' = "closed" => outerQueue' = outerQueue,
           UNCHANGED <<buffered, produced, eof, needReadable, ended, failure, delivered>>
    PROVE  IInv'
  <1> USE DEF IInv
  <1>1. finished' \in BOOLEAN /\ listening' \in BOOLEAN
    BY DEF CancelSource, Cleanup, TypeOK
  <1>2. TypeOK'
    BY <1>1, CancelSourceIs DEF TypeOK
  <1>3. SourceInv' /\ FinishedReleases' /\ NoLostWakeUp' /\ WakeInv'
    BY CancelSourceIs DEF TypeOK, SourceInv, FinishedReleases, NoLostWakeUp, WakeInv
  <1>4. InnerInv'
    BY CancelSourceIs DEF TypeOK, InnerInv
  <1>5. OuterInv'
    BY CancelSourceIs DEF TypeOK, OuterInv, InnerInv
  <1>6. NothingLost'
    <2>1. InTransit' <= InTransit
      BY CancelSourceIs DEF InTransit, TypeOK
    <2> QED
      BY <2>1, CancelSourceIs DEF TypeOK, Count, NothingLost, InTransit
  <1>7. CleanEndIsComplete'
    BY DEF CleanEndIsComplete
  <1> QED
    BY <1>2, <1>3, <1>4, <1>5, <1>6, <1>7

(* The server cancels the body.                                             *)
LEMMA CancelBodyStep == ASSUME IInv, CancelBody PROVE IInv'
  BY CancelStep DEF CancelBody, IInv, TypeOK

(* The client is gone.                                                      *)
LEMMA DisconnectListenerStep == ASSUME IInv, DisconnectListener PROVE IInv'
  <1>1. outer = "closed" => outerPull' = "idle"
    BY CancelSourceIs DEF DisconnectListener, IInv, OuterInv
  <1> QED
    BY <1>1, CancelStep DEF DisconnectListener, IInv, TypeOK

(* The outer stream fails with its source.                                  *)
LEMMA OuterPullFailsStep == ASSUME IInv, OuterPullFails PROVE IInv'
  <1>1. outer # "closed"
    BY DEF OuterPullFails, IInv, OuterInv
  <1>2. outer' # "readable" /\ outer' # "closed"
        /\ outer' \in {"readable", "closed", "errored", "cancelled"}
    BY <1>1 DEF OuterPullFails, Closes, IInv, TypeOK
  <1> QED
    BY <1>2, CancelStep DEF OuterPullFails, IInv, TypeOK

(* The steps that touch few variables.                                      *)
LEMMA SourceStep == ASSUME IInv, PushEnd \/ SourceFails PROVE IInv'
  <1> USE DEF IInv, webVars, byteVars
  <1>1. CASE PushEnd
    BY <1>1 DEF PushEnd, TypeOK, Count, Events, NothingLost, InTransit, SourceInv, InnerInv,
      OuterInv, WakeInv, CleanEndIsComplete, FinishedReleases, NoLostWakeUp
  <1>2. CASE SourceFails
    <2>1. TypeOK'
      <3>1. source' \in {"destroyed", "errored"} /\ due' \subseteq Events
        BY <1>2 DEF SourceFails, TypeOK, Events
      <3> QED
        BY <1>2, <3>1 DEF SourceFails, TypeOK, Count
    <2>2. NothingLost' /\ InnerInv' /\ OuterInv' /\ WakeInv' /\ NoLostWakeUp'
      BY <1>2 DEF SourceFails, TypeOK, NothingLost, InTransit, InnerInv, OuterInv, WakeInv, NoLostWakeUp
    <2>3. SourceInv' /\ FinishedReleases' /\ CleanEndIsComplete'
      BY <1>2 DEF SourceFails, SourceInv, FinishedReleases, CleanEndIsComplete
    <2> QED
      BY <2>1, <2>2, <2>3
  <1> QED
    BY <1>1, <1>2

(* An event of the Readable wakes the waiting pull().                       *)
LEMMA EmitStep == ASSUME IInv, Emit PROVE IInv'
  <1> USE DEF IInv, TypeOK, Events, NothingLost, InTransit, SourceInv, InnerInv,
      OuterInv, WakeInv, CleanEndIsComplete, FinishedReleases, NoLostWakeUp, byteVars, Notify
  <1>1. CASE EmitReadable
    BY <1>1 DEF EmitReadable
  <1>2. CASE EmitEnd
    BY <1>2 DEF EmitEnd
  <1>3. CASE EmitError
    BY <1>3 DEF EmitError
  <1>4. CASE EmitClose
    BY <1>4 DEF EmitClose, PrematureClose
  <1> QED
    BY <1>1, <1>2, <1>3, <1>4 DEF Emit

(* The streams call pull(), and the outer one gets its chunk.               *)
LEMMA PullStep == ASSUME IInv, StartInnerPull \/ StartOuterPull \/ OuterPullEnqueues PROVE IInv'
  <1> USE DEF IInv, TypeOK, Count, NothingLost, InTransit, SourceInv, InnerInv,
      OuterInv, WakeInv, CleanEndIsComplete, FinishedReleases, NoLostWakeUp, sourceVars, webVars, byteVars
  <1>1. CASE StartInnerPull
    BY <1>1 DEF StartInnerPull
  <1>2. CASE StartOuterPull
    BY <1>2 DEF StartOuterPull
  <1>3. CASE OuterPullEnqueues
    BY <1>3 DEF OuterPullEnqueues, ReadIsOver
  <1> QED
    BY <1>1, <1>2, <1>3

(* Steps that touch nothing but the client, and stuttering.                 *)
LEMMA DisconnectStep == ASSUME IInv, Disconnect \/ UNCHANGED vars PROVE IInv'
  BY DEF Disconnect, vars, IInv, TypeOK, NothingLost, InTransit, SourceInv, InnerInv,
      OuterInv, WakeInv, CleanEndIsComplete, FinishedReleases, NoLostWakeUp, sourceVars, webVars, byteVars

(* The invariant holds at first.                                            *)
LEMMA InitInv == Init => IInv
  <1> SUFFICES ASSUME Init PROVE IInv
    OBVIOUS
  <1>0. eof \in BOOLEAN /\ needReadable \in BOOLEAN /\ cancelled \in BOOLEAN /\ ended \in BOOLEAN
        /\ failure \in BOOLEAN /\ finished \in BOOLEAN /\ listening \in BOOLEAN /\ due \subseteq Events
    BY Zenon DEF Init
  <1>1. TypeOK
    BY <1>0, ChunksAssumption DEF Init, TypeOK, Count
  <1>4. NothingLost
    BY DEF Init, NothingLost, InTransit
  <1>2. SourceInv /\ InnerInv /\ OuterInv /\ WakeInv
    BY DEF Init, SourceInv, InnerInv, OuterInv, WakeInv
  <1>3. CleanEndIsComplete /\ FinishedReleases /\ NoLostWakeUp
    BY DEF Init, CleanEndIsComplete, FinishedReleases, NoLostWakeUp
  <1> QED
    BY <1>1, <1>2, <1>3, <1>4 DEF IInv

(* Every step preserves the invariant.                                      *)
LEMMA StepInv == IInv /\ [Next]_vars => IInv'
  <1> SUFFICES ASSUME IInv, [Next]_vars PROVE IInv'
    OBVIOUS
  <1>1. CASE Source
    BY <1>1, PushStep, SourceStep DEF Source
  <1>2. CASE Emit
    BY <1>2, EmitStep
  <1>3. CASE Pulls
    BY <1>3, PullStep, InnerPullStep, OuterPullEndsStep, OuterPullFailsStep DEF Pulls
  <1>4. CASE Deliver \/ CancelBody \/ Disconnect \/ DisconnectListener \/ UNCHANGED vars
    BY <1>4, DeliverStep, CancelBodyStep, DisconnectStep, DisconnectListenerStep
  <1> QED
    BY <1>1, <1>2, <1>3, <1>4 DEF Next

(* Only pull() gives the inner stream a chunk, while the stream is open;    *)
(* only the outer pull() that is not over gives the body one.               *)
LEMMA EnqueueStep ==
    ASSUME IInv, [Next]_vars
    PROVE  /\ (innerQueue' > innerQueue \/ (outerPull = "read" /\ outerPull' = "value"))
                 => inner = "readable"
           /\ outerQueue' > outerQueue => outer = "readable" /\ ~finished
  <1> DEFINE P == /\ (innerQueue' > innerQueue \/ (outerPull = "read" /\ outerPull' = "value"))
                       => inner = "readable"
                  /\ outerQueue' > outerQueue => outer = "readable" /\ ~finished
  <1> USE DEF IInv
  <1> SUFFICES P
    OBVIOUS
  <1>1. outerPull = "read" => inner = "readable"
    BY DEF InnerInv
  <1>2. innerQueue \in 0..1 /\ outerQueue \in 0..1
    BY DEF TypeOK
  <1>3. CASE Source \/ Emit \/ StartInnerPull \/ Disconnect \/ UNCHANGED vars
    BY <1>1, <1>2, <1>3 DEF Source, Emit, Push, PushEnd, SourceFails, EmitReadable, EmitEnd,
        EmitError, EmitClose, StartInnerPull, Disconnect, webVars, byteVars, vars
  <1>4. CASE InnerPull
    <2>1. innerQueue' > innerQueue => ~cancelled
      BY <1>2, <1>4 DEF InnerPull, StopsPulling
    <2>2. innerPull = "run" /\ outerQueue' = outerQueue
      BY <1>4 DEF InnerPull
    <2> QED
      BY <1>1, <1>2, <2>1, <2>2 DEF InnerInv
  <1>5. CASE StartOuterPull \/ OuterPullEnds \/ Deliver
    BY <1>1, <1>2, <1>5 DEF StartOuterPull, OuterPullEnds, Deliver, webVars
  <1>6. CASE OuterPullEnqueues
    BY <1>1, <1>2, <1>6 DEF OuterPullEnqueues, ReadIsOver, OuterInv, webVars
  <1>7. CASE OuterPullFails \/ CancelBody \/ DisconnectListener
    <2>1. innerQueue' \in {0, innerQueue} /\ outerQueue' \in {0, outerQueue}
      BY <1>7, CancelSourceIs DEF OuterPullFails, CancelBody, DisconnectListener
    <2> QED
      BY <1>1, <1>2, <2>1
  <1> QED
    BY <1>3, <1>4, <1>5, <1>6, <1>7 DEF Next, Pulls

-----------------------------------------------------------------------------
(* The theorems.                                                            *)

(* The strengthened invariant holds in every state.                         *)
THEOREM Inductive == Spec => []IInv
  BY InitInv, StepInv, PTL DEF Spec

(* The variables of the two streams keep their types.                       *)
THEOREM TypeCorrect == Spec => []TypeOK
  <1>1. IInv => TypeOK
    BY DEF IInv
  <1> QED
    BY <1>1, Inductive, PTL

(* A body that ends cleanly while the client is there delivered every chunk *)
(* its source produced: no failure looks like the end of the data.          *)
THEOREM NoTruncatedBody == Spec => []CleanEndIsComplete
  <1>1. IInv => CleanEndIsComplete
    BY DEF IInv
  <1> QED
    BY <1>1, Inductive, PTL

(* A finished body holds no listener on the connection and no open source.  *)
THEOREM SourceIsReleased == Spec => []FinishedReleases
  <1>1. IInv => FinishedReleases
    BY DEF IInv
  <1> QED
    BY <1>1, Inductive, PTL

(* toWebStream()'s pull() never waits for an event that already happened.   *)
THEOREM PullIsWoken == Spec => []NoLostWakeUp
  <1>1. IInv => NoLostWakeUp
    BY DEF IInv
  <1> QED
    BY <1>1, Inductive, PTL

(* No stream receives a chunk after it was closed, failed or cancelled.     *)
THEOREM EnqueuesAreInTime == Spec => NoLateEnqueue
  BY Inductive, EnqueueStep, PTL DEF Spec, NoLateEnqueue
-----------------------------------------------------------------------------
(* The pipe of ReplyBody.  The disconnect listener runs once and finishes.  *)

GoneFinishes == client = "gone" => finished

LEMMA GoneFinishesStep ==
    ASSUME IInv, GoneFinishes, [Next]_vars
    PROVE  GoneFinishes'
  <1>1. ASSUME NEW pull, CancelSource(pull) PROVE finished'
    BY <1>1 DEF CancelSource
  <1>2. CASE DisconnectListener
    BY <1>1, <1>2 DEF DisconnectListener, GoneFinishes
  <1>3. CASE Source \/ Emit \/ Pulls \/ Deliver \/ CancelBody \/ Disconnect \/ UNCHANGED vars
    <2>1. client' = "gone" => client = "gone"
      BY <1>3 DEF Source, Push, PushEnd, SourceFails, Emit, EmitReadable, EmitEnd, EmitError,
          EmitClose, Pulls, StartInnerPull, InnerPull, StartOuterPull, OuterPullEnds,
          OuterPullEnqueues, OuterPullFails, Deliver, CancelBody, Disconnect, vars
    <2>2. finished => finished'
      BY <1>1, <1>3 DEF Source, Push, PushEnd, SourceFails, Emit, EmitReadable, EmitEnd, EmitError,
          EmitClose, Pulls, StartInnerPull, InnerPull, StartOuterPull, OuterPullEnds,
          OuterPullEnqueues, OuterPullFails, Deliver, CancelBody, Disconnect, vars,
          byteVars
    <2> QED
      BY <2>1, <2>2 DEF GoneFinishes
  <1> QED
    BY <1>2, <1>3 DEF Next

(* cancelSource() closes the source, whoever calls it.                      *)
LEMMA CancelCloses ==
    ASSUME IInv', NEW pull, CancelSource(pull)
    PROVE  source' # "live"
  <1>1. finished'
    BY DEF CancelSource
  <1> QED
    BY <1>1 DEF IInv, FinishedReleases

(* Events of the source.                                                    *)
LEMMA SourceMaps ==
    ASSUME IInv, Source \/ Emit
    PROVE  Pipe!Produce \/ Pipe!End \/ Pipe!Release \/ UNCHANGED Pipe!pipe
  <1>1. CASE Push
    BY <1>1 DEF Push, Pipe!Produce, Pipe!sent, byteVars
  <1>2. CASE PushEnd
    BY <1>2 DEF PushEnd, Pipe!End, Pipe!sent, byteVars
  <1>3. CASE SourceFails
    BY <1>3 DEF SourceFails, Pipe!Release, Pipe!source, Pipe!sent, byteVars
  <1>4. CASE EmitReadable \/ EmitError \/ EmitClose
    BY <1>4 DEF EmitReadable, EmitError, EmitClose, Pipe!pipe, Pipe!source, Pipe!sent, byteVars
  <1>5. CASE EmitEnd
    <2>1. CASE source = "live"
      BY <1>5, <2>1 DEF EmitEnd, Pipe!Release, Pipe!source, Pipe!sent, byteVars
    <2>2. CASE source # "live"
      BY <1>5, <2>2 DEF EmitEnd, Pipe!pipe, Pipe!source, Pipe!sent, byteVars
    <2> QED
      BY <2>1, <2>2
  <1> QED
    BY <1>1, <1>2, <1>3, <1>4, <1>5 DEF Source, Emit

(* pull() of the body, after its read().                                    *)
LEMMA PullMaps ==
    ASSUME IInv, IInv', GoneFinishes, Pulls
    PROVE  Pipe!Enqueue \/ Pipe!Complete \/ Pipe!Fail \/ UNCHANGED Pipe!pipe
  <1>1. CASE StartInnerPull \/ InnerPull \/ StartOuterPull
    BY <1>1 DEF StartInnerPull, InnerPull, StartOuterPull, sourceVars, byteVars,
        Pipe!pipe, Pipe!source, Pipe!sent
  <1>2. CASE OuterPullEnds
    <2>1. /\ UNCHANGED <<produced, eof, source, outerQueue, delivered, client>>
          /\ outer' = (IF outer = "readable" THEN "closed" ELSE outer)
          /\ finished' /\ outerQueue = 0 /\ outerPull # "idle"
      BY <1>2 DEF OuterPullEnds, sourceVars, Closes, IInv, OuterInv
    <2>2. source # "live"
      BY <2>1 DEF IInv, FinishedReleases
    <2>3. CASE outer = "readable"
      <3>1. client = "there" => eof /\ delivered = produced
        BY <2>1, <2>3 DEF IInv, CleanEndIsComplete, TypeOK, Count
      <3> QED
        BY <2>1, <2>2, <2>3, <3>1 DEF Pipe!Complete, Pipe!source, Pipe!sent
    <2>4. CASE outer # "readable"
      BY <2>1, <2>4 DEF Pipe!pipe, Pipe!source, Pipe!sent
    <2> QED
      BY <2>3, <2>4
  <1>3. CASE OuterPullEnqueues
    <2>1. /\ UNCHANGED <<produced, eof, source, delivered, outer, client>>
          /\ outerQueue' = outerQueue + 1 /\ ~finished /\ outerPull = "value"
      BY <1>3 DEF OuterPullEnqueues, sourceVars, ReadIsOver
    <2>2. outer = "readable" /\ outerQueue = 0 /\ client # "gone"
      BY <2>1 DEF IInv, OuterInv, GoneFinishes
    <2>3. delivered < produced
      BY <2>1, <2>2, ChunksAssumption DEF IInv, NothingLost, InTransit, TypeOK, Count
    <2> QED
      BY <2>1, <2>2, <2>3 DEF Pipe!Enqueue, Pipe!source
  <1>4. CASE OuterPullFails
    <2>1. /\ UNCHANGED <<produced, eof, delivered, client>>
          /\ outer' = (IF outer = "readable" THEN "errored" ELSE outer)
          /\ outerQueue' = 0 /\ outerPull # "idle" /\ CancelSource("idle")
      BY <1>4 DEF OuterPullFails, Closes
    <2>2. outerQueue = 0 /\ source' # "live"
      BY <2>1, CancelCloses DEF IInv, OuterInv
    <2>3. CASE outer = "readable"
      BY <2>1, <2>2, <2>3 DEF Pipe!Fail, Pipe!source, Pipe!sent
    <2>4. CASE outer # "readable"
      <3>1. finished
        BY <2>4 DEF IInv, OuterInv
      <3>2. source' = source
        BY <2>1, <3>1 DEF CancelSource
      <3> QED
        BY <2>1, <2>2, <2>4, <3>2 DEF Pipe!pipe, Pipe!source, Pipe!sent
    <2> QED
      BY <2>3, <2>4
  <1> QED
    BY <1>1, <1>2, <1>3, <1>4 DEF Pulls

(* The server and the client.                                               *)
LEMMA ClientMaps ==
    ASSUME IInv, IInv', Deliver \/ CancelBody \/ Disconnect \/ DisconnectListener
    PROVE  Pipe!Deliver \/ Pipe!Cancel \/ Pipe!Leave \/ Pipe!Gone
  <1>1. CASE Deliver
    BY <1>1 DEF Deliver, Pipe!Deliver, Pipe!source, sourceVars
  <1>2. CASE CancelBody
    <2>1. source' # "live"
      BY <1>2, CancelCloses DEF CancelBody
    <2> QED
      BY <1>2, <2>1 DEF CancelBody, Pipe!Cancel, Pipe!source
  <1>3. CASE Disconnect
    BY <1>3 DEF Disconnect, Pipe!Leave, Pipe!source, Pipe!sent, sourceVars, byteVars
  <1>4. CASE DisconnectListener
    <2>1. source' # "live"
      BY <1>4, CancelCloses DEF DisconnectListener
    <2> QED
      BY <1>4, <2>1 DEF DisconnectListener, Pipe!Gone, Pipe!source, Pipe!sent
  <1> QED
    BY <1>1, <1>2, <1>3, <1>4

LEMMA InitMaps == Init => Pipe!Init /\ GoneFinishes
  BY DEF Init, Pipe!Init, GoneFinishes

LEMMA StepMaps == IInv /\ GoneFinishes /\ [Next]_vars => [Pipe!Next]_(Pipe!pipe)
  <1> SUFFICES ASSUME IInv, GoneFinishes, [Next]_vars
               PROVE  Pipe!Next \/ UNCHANGED Pipe!pipe
    OBVIOUS
  <1>1. IInv'
    BY StepInv
  <1>2. CASE UNCHANGED vars
    BY <1>2 DEF vars, sourceVars, byteVars, Pipe!pipe, Pipe!source, Pipe!sent
  <1> QED
    BY <1>1, <1>2, SourceMaps, PullMaps, ClientMaps DEF Next, Pipe!Next

(* The streams, reads and events of a streamed reply are, together, a pipe  *)
(* that loses no chunk and truncates no body.                               *)
THEOREM StreamImplementsReplyBody == Spec => ImplementsReplyBody
  <1>1. Spec => [](IInv /\ GoneFinishes)
    <2>1. Init => IInv /\ GoneFinishes
      BY InitInv, InitMaps
    <2>2. (IInv /\ GoneFinishes) /\ [Next]_vars => (IInv /\ GoneFinishes)'
      BY StepInv, GoneFinishesStep
    <2> QED
      BY <2>1, <2>2, PTL DEF Spec
  <1> QED
    BY <1>1, InitMaps, StepMaps, PTL DEF Spec, ImplementsReplyBody, Pipe!Spec
=============================================================================
