---------------------------- MODULE SocketBridge ----------------------------
(***************************************************************************)
(* The "close" listeners of the requests of one keep-alive Node.js socket: *)
(* createRequestSocketBridge() (src/request/socket-bridge.ts), one bridge  *)
(* per request, and requestOn() (src/request/request-state.ts), the        *)
(* req.on("close") that listens to the signal, the bridge, the SSE stream  *)
(* and the outgoing response at once.                                      *)
(*                                                                         *)
(* A listener is an element of Ids and is registered at most once.  emit() *)
(* calls a copy of the listeners one by one; what a listener does meanwhile*)
(* (register or remove others, abort the signal, answer a HEAD request) is *)
(* a step between two calls.  So an abort or a signalClose() may run inside *)
(* an emit(), which goes on when they are over.                            *)
(***************************************************************************)
EXTENDS Naturals

CONSTANTS
    Requests,       \* requests of the connection; pipelined ones overlap
    HeadRequests,   \* those answered by finalizeHeadResponse()
    Streaming,      \* those whose handlers may create the SSE bridge
    Ids,            \* listeners
    Owner           \* the request whose handlers register a listener

ASSUME HeadAssumption == HeadRequests \subseteq Requests
ASSUME OwnerAssumption == Owner \in [Ids -> Requests]

VARIABLES
    socket,         \* "open" or "closed"
    phase,          \* of a request: its outgoing emits "close" at the end
    aborted,        \* requests whose signal is aborted
    stream,         \* the request's state.sse.stream
    kind,           \* how a listener was registered
    late,           \* listeners registered after the response (history)
    listening,      \* the bridges' flags
    onSocket,       \* how many forwardClose a bridge has on the socket
    events,         \* listeners of the bridges' closeEvents
    onSignal, onStream, onOutgoing, queued,     \* those of requestOn()
    forwarding,     \* forwardClose functions the socket's emit() has to call
    calling,        \* listeners an emit() of the event loop has to call
    signalling,     \* listeners that emits() of signalClose() have to call
    calls           \* how often a listener was called, up to Several

registered == <<onSignal, onStream, onOutgoing, queued>>
bridges == <<listening, onSocket, events>>
world == <<socket, phase, aborted, stream>>
vars == <<world, kind, late, bridges, registered, forwarding, calling, signalling, calls>>

Mine(r) == {i \in Ids : Owner[i] = r}
Several == 2        \* bound of the counter: more calls are not told apart

(* An abort has to call the listeners its signal still has: unlike emit(),  *)
(* it skips those that were removed, and an aborted signal gets no new ones.*)
aborting == {i \in onSignal : Owner[i] \in aborted}

(* What runs inside an emit() ends before it goes on.                       *)
Inside == signalling # {} \/ aborting # {}
Busy == calling # {} \/ forwarding # {} \/ Inside

TypeOK ==
    /\ socket \in {"open", "closed"}
    /\ phase \in [Requests -> {"idle", "open", "closed"}]
    /\ aborted \subseteq Requests
    /\ stream \in [Requests -> {"none", "open", "closed"}]
    /\ kind \in [Ids -> {"none", "request", "on", "once"}]
    /\ late \subseteq Ids
    /\ listening \subseteq Requests
    /\ onSocket \in [Requests -> Nat]
    /\ events \subseteq Ids
    /\ onSignal \subseteq Ids /\ onStream \subseteq Ids
    /\ onOutgoing \subseteq Ids /\ queued \subseteq Ids
    /\ forwarding \subseteq Requests
    /\ calling \subseteq Ids /\ signalling \subseteq Ids
    /\ calls \in [Ids -> 0..Several]

Init ==
    /\ socket = "open"
    /\ phase = [r \in Requests |-> "idle"]
    /\ aborted = {}
    /\ stream = [r \in Requests |-> "none"]
    /\ kind = [i \in Ids |-> "none"]
    /\ late = {}
    /\ listening = {} /\ onSocket = [r \in Requests |-> 0] /\ events = {}
    /\ onSignal = {} /\ onStream = {} /\ onOutgoing = {} /\ queued = {}
    /\ forwarding = {} /\ calling = {} /\ signalling = {}
    /\ calls = [i \in Ids |-> 0]

-----------------------------------------------------------------------------
(* The bridge.                                                              *)

(* Mutant: listen() does not look at the flag.                              *)
ListensAgain(r) ==
    /\ listening' = listening \cup {r}
    /\ onSocket' = [onSocket EXCEPT ![r] = @ + 1]

Listens(r) ==
    /\ listening' = listening \cup {r}
    /\ onSocket' = IF r \in listening THEN onSocket
                   ELSE [onSocket EXCEPT ![r] = @ + 1]

StopsListening(r) ==
    /\ listening' = listening \ {r}
    /\ onSocket' = IF r \in listening THEN [onSocket EXCEPT ![r] = @ - 1]
                   ELSE onSocket

(* addCloseListener()                                                       *)
AddCloseListener(i) ==
    /\ Listens(Owner[i])
    /\ events' = events \cup {i}

(* removeCloseListener(): the last listener takes the bridge off the socket.*)
(* Mutants: the bridge never leaves it; it leaves with the first listener.  *)
RemoveOnly(i) ==
    /\ events' = events \ {i}
    /\ UNCHANGED <<listening, onSocket>>
RemoveAndStop(i) ==
    /\ events' = events \ {i}
    /\ StopsListening(Owner[i])
RemoveCloseListener(i) ==
    /\ events' = events \ {i}
    /\ IF Mine(Owner[i]) \cap events' = {}
       THEN StopsListening(Owner[i])
       ELSE UNCHANGED <<listening, onSocket>>

-----------------------------------------------------------------------------
(* What the handlers of a request do, at any time after it came.            *)

Fresh(i) == kind[i] = "none" /\ phase[Owner[i]] # "idle"

Register(i, how) ==
    /\ Fresh(i)
    /\ kind' = [kind EXCEPT ![i] = how]
    /\ late' = IF phase[Owner[i]] = "closed" THEN late \cup {i} ELSE late

(* req.on("close", listener)                                                *)
RequestOn(i) ==
    /\ Register(i, "request")
    /\ IF Owner[i] \in aborted
       THEN /\ queued' = queued \cup {i}
            /\ UNCHANGED <<onSignal, onStream, onOutgoing, bridges>>
       ELSE /\ onSignal' = onSignal \cup {i}
            /\ AddCloseListener(i)
            /\ onStream' = IF stream[Owner[i]] # "none" THEN onStream \cup {i} ELSE onStream
            /\ onOutgoing' = onOutgoing \cup {i}
            /\ UNCHANGED queued
    /\ UNCHANGED <<world, forwarding, calling, signalling, calls>>

(* req.socket.on("close", listener), addListener() and once()               *)
SocketOn(i, how) ==
    /\ Register(i, how)
    /\ AddCloseListener(i)
    /\ UNCHANGED <<world, registered, forwarding, calling, signalling, calls>>

(* req.socket.off("close", listener), of a listener added there; one that   *)
(* was removed before is looked for again.                                  *)
SocketOff(i) ==
    /\ kind[i] \in {"on", "once"}
    /\ RemoveCloseListener(i)
    /\ UNCHANGED <<world, kind, late, registered, forwarding, calling, signalling, calls>>

(* The first ctx.raw creates the SSE bridge.                                *)
CreateStream(r) ==
    /\ r \in Streaming
    /\ phase[r] # "idle" /\ stream[r] = "none"
    /\ stream' = [stream EXCEPT ![r] = "open"]
    /\ UNCHANGED <<socket, phase, aborted, kind, late, bridges, registered,
                   forwarding, calling, signalling, calls>>

-----------------------------------------------------------------------------
(* Events.                                                                  *)

Counted(i) == [calls EXCEPT ![i] = IF @ < Several THEN @ + 1 ELSE @]

(* Mutant: invokeListener() does not look at its flag.                      *)
CalledNever(i) == FALSE
Called(i) == calls[i] > 0

(* invokeListener() of requestOn(): called, cleanup(), the listener.        *)
Invoke(i) ==
    IF Called(i)
    THEN UNCHANGED <<calls, onSignal, onStream, onOutgoing, bridges>>
    ELSE /\ calls' = Counted(i)
         /\ onSignal' = onSignal \ {i}
         /\ onStream' = onStream \ {i}
         /\ onOutgoing' = onOutgoing \ {i}
         /\ RemoveCloseListener(i)

(* A listener of a bridge, or one that a request registered, is called.  A  *)
(* once() listener is removed by the emitter, whose wrapper calls it once.  *)
Hear(i) ==
    IF kind[i] = "request"
    THEN Invoke(i)
    ELSE /\ calls' = IF kind[i] = "once" /\ calls[i] > 0 THEN calls ELSE Counted(i)
         /\ events' = IF kind[i] = "once" THEN events \ {i} ELSE events
         /\ UNCHANGED <<onSignal, onStream, onOutgoing, listening, onSocket>>

(* An emit() of the event loop calls a listener of its copy.                *)
Call(i) ==
    /\ ~Inside
    /\ i \in calling
    /\ calling' = calling \ {i}
    /\ Hear(i)
    /\ UNCHANGED <<world, kind, late, queued, forwarding, signalling>>

(* So does the emit() of a signalClose().                                   *)
CallSignalled(i) ==
    /\ i \in signalling
    /\ signalling' = signalling \ {i}
    /\ Hear(i)
    /\ UNCHANGED <<world, kind, late, queued, forwarding, calling>>

(* The abort of a signal calls one.                                         *)
HearAbort(i) ==
    /\ i \in aborting
    /\ Invoke(i)
    /\ UNCHANGED <<world, kind, late, queued, forwarding, calling, signalling>>

RunMicrotask(i) ==
    /\ ~Busy
    /\ i \in queued
    /\ queued' = queued \ {i}
    /\ Invoke(i)
    /\ UNCHANGED <<world, kind, late, forwarding, calling, signalling>>

(* signalClose() of the bridge, if it was created, by a HEAD request that   *)
(* an SSE stream answers: when its handler settles or starts the stream,    *)
(* which a listener may do too.                                             *)
SignalClose(r) ==
    /\ r \in HeadRequests /\ stream[r] # "none"
    /\ signalling \cap Mine(r) = {}
    /\ StopsListening(r)
    /\ signalling' = signalling \cup (events \cap Mine(r))
    /\ UNCHANGED <<world, kind, late, events, registered, forwarding, calling, calls>>

(* The socket closes and emits "close": every bridge on it forwards it.     *)
SocketCloses ==
    /\ ~Busy
    /\ socket = "open"
    /\ socket' = "closed"
    /\ forwarding' = {r \in Requests : onSocket[r] > 0}
    /\ UNCHANGED <<phase, aborted, stream, kind, late, bridges, registered,
                   calling, signalling, calls>>

ForwardClose(r) ==
    /\ calling = {} /\ ~Inside
    /\ r \in forwarding
    /\ forwarding' = forwarding \ {r}
    /\ listening' = listening \ {r}
    /\ onSocket' = IF onSocket[r] > 0 THEN [onSocket EXCEPT ![r] = @ - 1] ELSE onSocket
    /\ calling' = events \cap Mine(r)
    /\ UNCHANGED <<world, kind, late, events, registered, signalling, calls>>

Opens(r) ==
    /\ ~Busy
    /\ socket = "open" /\ phase[r] = "idle"
    /\ phase' = [phase EXCEPT ![r] = "open"]
    /\ UNCHANGED <<socket, aborted, stream, kind, late, bridges, registered,
                   forwarding, calling, signalling, calls>>

(* The outgoing response emits "close": it was sent, or, inside the emit()  *)
(* of its socket, that closed.                                              *)
OutgoingCloses(r) ==
    /\ calling = {} /\ ~Inside
    /\ phase[r] = "open"
    /\ phase' = [phase EXCEPT ![r] = "closed"]
    /\ calling' = onOutgoing \cap Mine(r)
    /\ UNCHANGED <<socket, aborted, stream, kind, late, bridges, registered,
                   forwarding, signalling, calls>>

(* The signal of a request is aborted: by the server's own listener, inside *)
(* the outgoing response's emit(), or by anyone at any time.                *)
Aborts(r) ==
    /\ phase[r] # "idle" /\ r \notin aborted
    /\ aborted' = aborted \cup {r}
    /\ UNCHANGED <<socket, phase, stream, kind, late, bridges, registered,
                   forwarding, calling, signalling, calls>>

StreamCloses(r) ==
    /\ ~Busy
    /\ stream[r] = "open"
    /\ stream' = [stream EXCEPT ![r] = "closed"]
    /\ calling' = onStream \cap Mine(r)
    /\ UNCHANGED <<socket, phase, aborted, kind, late, bridges, registered,
                   forwarding, signalling, calls>>

HandlerStep ==
    \/ \E i \in Ids : RequestOn(i) \/ SocketOff(i)
    \/ \E i \in Ids : \E how \in {"on", "once"} : SocketOn(i, how)
    \/ \E r \in Requests : CreateStream(r)

Event ==
    \/ \E i \in Ids : Call(i) \/ CallSignalled(i) \/ HearAbort(i) \/ RunMicrotask(i)
    \/ \E r \in Requests :
        \/ SignalClose(r) \/ ForwardClose(r) \/ Opens(r)
        \/ OutgoingCloses(r) \/ Aborts(r) \/ StreamCloses(r)
    \/ SocketCloses

Next == HandlerStep \/ Event

Spec == Init /\ [][Next]_vars

-----------------------------------------------------------------------------
(* Safety.                                                                  *)

(* The flag of a bridge and its listener on the open socket agree: however  *)
(* many listeners a request registers, it has one on the socket.            *)
OneSocketListener ==
    socket = "open" =>
        \A r \in Requests : onSocket[r] = IF r \in listening THEN 1 ELSE 0

(* A listener of a bridge that was not called yet hears the socket, unless  *)
(* signalClose() is about to call it: adding and removing listeners, and    *)
(* signalClose(), never disconnect it.                                      *)
BridgedIsHeard ==
    socket = "open" =>
        \A i \in events \ signalling : calls[i] = 0 => onSocket[Owner[i]] = 1

(* A listener of req.on("close") is called once, whichever of its four      *)
(* sources come first and whether or not one of them is heard inside the    *)
(* emit() of another (the server's own listener aborts the signal inside    *)
(* the outgoing response's), and has been when its response is over.        *)
CloseReportedOnce ==
    \A i \in Ids : kind[i] = "request" =>
        /\ calls[i] < 2
        /\ phase[Owner[i]] = "closed" /\ i \notin late \cup queued /\ ~Busy =>
              calls[i] = 1

(* A request that listened with req.on("close") only, before its response   *)
(* was over, leaves nothing on the shared socket.                           *)
ResponseReleasesSocket ==
    socket = "open" /\ ~Busy =>
        \A r \in Requests :
            phase[r] = "closed" /\ onSocket[r] > 0 =>
                \E i \in Mine(r) : kind[i] \in {"on", "once"} \/ i \in late

(* What the bridge documents: close listeners are released after the        *)
(* response instead of piling up on the shared socket.                      *)
ReleasedAfterResponse ==
    socket = "open" /\ ~Busy =>
        \A r \in Requests : phase[r] = "closed" => onSocket[r] = 0

-----------------------------------------------------------------------------
(* The inductive strengthening.                                             *)

(* A bridge that listens is on the socket, open or closed, and only a       *)
(* closed socket calls forwardClose.                                        *)
FlagInv ==
    /\ \A r \in listening : onSocket[r] > 0
    /\ forwarding # {} => socket = "closed"

(* A listener that was not registered is nowhere.                           *)
FreshInv ==
    \A i \in Ids :
        /\ kind[i] = "none" =>
              i \notin events \cup onSignal \cup onStream \cup onOutgoing
                       \cup queued \cup calling \cup signalling \cup late
        /\ kind[i] = "none" => calls[i] = 0
        /\ kind[i] # "none" => phase[Owner[i]] # "idle"
        /\ i \in onSignal \cup onStream \cup onOutgoing \cup queued => kind[i] = "request"

(* A listener of req.on("close") is registered everywhere, or queued, until *)
(* it is called, and then it is registered nowhere.                         *)
RequestInv ==
    \A i \in Ids : kind[i] = "request" =>
        /\ calls[i] = 0 /\ i \notin queued => i \in events /\ i \in onOutgoing
        /\ calls[i] > 0 => i \notin events /\ i \notin queued /\ calls[i] = 1
        /\ i \in queued =>
              i \notin events \cup onSignal \cup onStream \cup onOutgoing
                          \cup calling \cup signalling
        /\ phase[Owner[i]] = "closed" /\ i \notin late \cup queued /\ calls[i] = 0 =>
              i \in calling

(* The bridge of a request that listened with req.on("close") only is on    *)
(* the socket while it has a listener.                                      *)
ReleaseInv ==
    \A r \in listening :
        \/ \E i \in Mine(r) : kind[i] \in {"on", "once"}
        \/ \E i \in Mine(r) : i \in events

IInv ==
    /\ TypeOK /\ OneSocketListener /\ BridgedIsHeard
    /\ FlagInv /\ FreshInv /\ RequestInv /\ ReleaseInv
=============================================================================
