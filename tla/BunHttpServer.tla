--------------------------- MODULE BunHttpServer ---------------------------
(***************************************************************************)
(* BunHttpServer (src/server/bun-http-server.ts): Bun.serve() behind the   *)
(* listen(), close() and address() of a Node.js http.Server, and the       *)
(* adapter's close() on top of it (src/hono-adapter.ts).  Nest and the     *)
(* application call them at any time, also before the events of earlier    *)
(* calls were emitted; like http.Server, listen() waits for a close().     *)
(*                                                                         *)
(* The servers that Bun.serve() returned are external: each is the one of  *)
(* a listen() call, with one connection and one handler to stand for all.  *)
(***************************************************************************)
EXTENDS Naturals, Sequences

CONSTANTS
    MaxListens, MaxCloses,  \* bounds: calls of listen() and of close()
    RetriesElsewhere        \* may listen() go from a path to a port, or
                            \* back, after it failed

ASSUME BoundsAssumption == MaxListens \in Nat /\ MaxCloses \in Nat
ASSUME RetriesAssumption == RetriesElsewhere \in BOOLEAN

None == 0
Targets == {"tcp", "unix"}

VARIABLES
    forceCloseConnections,
    server,             \* this.server: a listen() call, or None
    unixSocketPath,     \* is it set
    waiting,            \* once("listening") callbacks
    listens, closes,    \* the calls, and what their callers were told
    bun,                \* the server of every listen() call
    ticks               \* process.nextTick()

state == <<server, unixSocketPath, waiting>>
vars == <<forceCloseConnections, state, listens, closes, bun, ticks>>

NotServed == [accepting |-> FALSE, connected |-> FALSE, running |-> FALSE, stop |-> "none"]
Served == [NotServed EXCEPT !.accepting = TRUE]

Report == {"listening", "closed", "error"}
Listen == [target : Targets, started : BOOLEAN, told : Seq(Report)]
Close == [of : Nat, stopped : BOOLEAN, told : Seq(Report)]
Server == [accepting : BOOLEAN, connected : BOOLEAN, running : BOOLEAN,
           stop : {"none", "graceful", "forced"}]
Tick == [event : {"listening", "error", "closed", "notRunning"}, call : Nat]

TypeOK ==
    /\ forceCloseConnections \in BOOLEAN
    /\ listens \in Seq(Listen) /\ closes \in Seq(Close)
    /\ bun \in Seq(Server) /\ Len(bun) = Len(listens)
    /\ ticks \in Seq(Tick)
    /\ server \in 0..Len(bun)
    /\ unixSocketPath \in BOOLEAN
    /\ waiting \subseteq 1..Len(bun)
    /\ \A i \in 1..Len(bun) : bun[i].accepting => bun[i].stop = "none"

Init ==
    /\ forceCloseConnections \in BOOLEAN
    /\ server = None /\ unixSocketPath = FALSE /\ waiting = {}
    /\ listens = <<>> /\ closes = <<>> /\ bun = <<>> /\ ticks = <<>>

-----------------------------------------------------------------------------
(* Bun.                                                                     *)

(* stop(): a forced one closes every connection at once.  Only the first    *)
(* stop of a server counts.                                                 *)
Stopped(s, forced) ==
    IF s.stop # "none" THEN s
    ELSE [s EXCEPT !.accepting = FALSE, !.connected = @ /\ ~forced,
                   !.stop = IF forced THEN "forced" ELSE "graceful"]

Connects(i) ==
    /\ bun[i].accepting /\ ~bun[i].connected
    /\ bun' = [bun EXCEPT ![i].connected = TRUE]
    /\ UNCHANGED <<forceCloseConnections, state, listens, closes, ticks>>

RequestArrives(i) ==
    /\ bun[i].connected /\ ~bun[i].running
    /\ bun' = [bun EXCEPT ![i].running = TRUE]
    /\ UNCHANGED <<forceCloseConnections, state, listens, closes, ticks>>

HandlerEnds(i) ==
    /\ bun[i].running
    /\ bun' = [bun EXCEPT ![i].running = FALSE]
    /\ UNCHANGED <<forceCloseConnections, state, listens, closes, ticks>>

-----------------------------------------------------------------------------
(* listen()                                                                 *)

(* Mutant: the callback of a listen() that failed stays registered.         *)
StillWaiting(call, started) == waiting \cup {call}
Waiting(call, started) == IF started THEN waiting \cup {call} ELSE waiting

(* getServeOptions()                                                        *)
SetsPath(target) == unixSocketPath \/ target = "unix"

LastFailed == listens # <<>> /\ ~listens[Len(listens)].started

ListenCall(target, started) ==
    LET call == Len(listens) + 1 IN
    /\ server = None /\ call <= MaxListens
    /\ LastFailed /\ ~RetriesElsewhere => target = listens[Len(listens)].target
    /\ listens' = Append(listens, [target |-> target, started |-> started, told |-> <<>>])
    /\ waiting' = Waiting(call, started)
    /\ unixSocketPath' = SetsPath(target)
    /\ server' = IF started THEN call ELSE None
    /\ bun' = Append(bun, IF started THEN Served ELSE NotServed)
    /\ ticks' = Append(ticks, [event |-> IF started THEN "listening" ELSE "error",
                               call |-> call])
    /\ UNCHANGED <<forceCloseConnections, closes>>

-----------------------------------------------------------------------------
(* close()                                                                  *)

CloseNotRunning ==
    LET call == Len(closes) + 1 IN
    /\ server = None /\ call <= MaxCloses
    /\ closes' = Append(closes, [of |-> None, stopped |-> FALSE, told |-> <<>>])
    /\ ticks' = Append(ticks, [event |-> "notRunning", call |-> call])
    /\ UNCHANGED <<forceCloseConnections, state, listens, bun>>

(* Mutant: the path survives.                                               *)
KeepsPath == unixSocketPath
PathAfterClose == FALSE

(* Mutant: it is left to closeAllConnections() to force the stop.           *)
NeverForced == FALSE
StopsForced == forceCloseConnections

(* The adapter's close() calls closeAllConnections() afterwards, when there *)
(* is no server left to stop.                                               *)
CloseCall ==
    LET call == Len(closes) + 1 IN
    /\ server # None /\ call <= MaxCloses
    /\ closes' = Append(closes, [of |-> server, stopped |-> FALSE, told |-> <<>>])
    /\ server' = None /\ unixSocketPath' = PathAfterClose
    /\ bun' = [bun EXCEPT ![server] = Stopped(@, StopsForced)]
    /\ ticks' = IF forceCloseConnections
                THEN Append(ticks, [event |-> "closed", call |-> call])
                ELSE ticks
    /\ UNCHANGED <<forceCloseConnections, waiting, listens>>

CloseAllConnections ==
    /\ server # None
    /\ bun' = [bun EXCEPT ![server] = Stopped(@, TRUE)]
    /\ UNCHANGED <<forceCloseConnections, state, listens, closes, ticks>>

AwaitsStop(c) == ~forceCloseConnections

Settles(c, report) ==
    /\ closes[c].of # None /\ ~closes[c].stopped /\ AwaitsStop(c)
    /\ closes' = [closes EXCEPT ![c].stopped = TRUE, ![c].told = Append(@, report)]
    /\ UNCHANGED <<forceCloseConnections, state, listens, ticks>>

(* The promise of stop() is fulfilled when no handler runs, and finish()    *)
(* called; or it is rejected.                                               *)
StopEnds(c) ==
    /\ Settles(c, "closed")
    /\ ~bun[closes[c].of].running
    /\ bun' = [bun EXCEPT ![closes[c].of].connected = FALSE]

StopFails(c) ==
    /\ Settles(c, "error")
    /\ UNCHANGED bun

-----------------------------------------------------------------------------
(* The events that the calls deferred.                                      *)

RunTick ==
    /\ ticks # <<>>
    /\ ticks' = Tail(ticks)
    /\ LET tick == Head(ticks) IN
       CASE tick.event = "listening" ->
                /\ listens' = [i \in DOMAIN listens |->
                        IF i \in waiting
                        THEN [listens[i] EXCEPT !.told = Append(@, "listening")]
                        ELSE listens[i]]
                /\ waiting' = {} /\ UNCHANGED closes
         [] tick.event = "error" ->
                /\ listens' = [listens EXCEPT ![tick.call].told = Append(@, "error")]
                /\ UNCHANGED <<waiting, closes>>
         [] tick.event = "closed" ->
                /\ closes' = [closes EXCEPT ![tick.call].told = Append(@, "closed")]
                /\ UNCHANGED <<waiting, listens>>
         [] OTHER ->
                /\ closes' = [closes EXCEPT ![tick.call].told = Append(@, "error")]
                /\ UNCHANGED <<waiting, listens>>
    /\ UNCHANGED <<forceCloseConnections, server, unixSocketPath, bun>>

-----------------------------------------------------------------------------
Next ==
    \/ \E target \in Targets, started \in BOOLEAN : ListenCall(target, started)
    \/ CloseNotRunning \/ CloseCall \/ CloseAllConnections \/ RunTick
    \/ \E c \in DOMAIN closes : StopEnds(c) \/ StopFails(c)
    \/ \E i \in DOMAIN bun : Connects(i) \/ RequestArrives(i) \/ HandlerEnds(i)

Spec == Init /\ [][Next]_vars

(* Ticks run.  Handlers end, but behind a forced stop they need not; and    *)
(* Bun notices that none runs, although requests may follow each other.     *)
Fairness ==
    /\ WF_vars(RunTick)
    /\ \A c \in 1..MaxCloses :
        SF_vars(c \in DOMAIN closes /\ StopEnds(c))
    /\ \A i \in 1..MaxListens :
        WF_vars(~forceCloseConnections /\ i \in DOMAIN bun /\ HandlerEnds(i))

FairSpec == Spec /\ Fairness

-----------------------------------------------------------------------------
(* A close() that reports success has stopped its server, however listen()  *)
(* and other close() calls crossed it: no handler runs any more after a     *)
(* graceful one, no connection is left after a forced one, although Bun     *)
(* ignores a forced stop that comes second (bun-http-server.ts:49-60).      *)
ClosedMeansStopped ==
    \A c \in DOMAIN closes :
        closes[c].told = <<"closed">> =>
            LET s == bun[closes[c].of] IN
            /\ ~s.accepting /\ ~s.connected
            /\ ~forceCloseConnections => ~s.running

(* While it listens, address() is where: the path of a unix socket or the   *)
(* port, whatever the calls before were for; otherwise it is null.          *)
address ==
    IF server = None THEN "null" ELSE IF unixSocketPath THEN "unix" ELSE "tcp"
AddressIsCurrent ==
    address = IF server = None THEN "null" ELSE listens[server].target

ListenTold(i) ==
    /\ i \in DOMAIN listens
    /\ listens[i].told = IF listens[i].started THEN <<"listening">> ELSE <<"error">>
CloseTold(c) == c \in DOMAIN closes /\ Len(closes[c].told) = 1

(* Every listen() and close() is reported, once and as it turned out: a     *)
(* listen() that failed never sees the "listening" of a later one, and a    *)
(* forced close() does not wait for handlers that do not end.               *)
CallsAreReported ==
    /\ \A i \in 1..MaxListens : i \in DOMAIN listens ~> []ListenTold(i)
    /\ \A c \in 1..MaxCloses : c \in DOMAIN closes ~> []CloseTold(c)
=============================================================================
