------------------------- MODULE BunHttpServerProofs -------------------------
(* Proofs about BunHttpServer for every number of calls.                    *)
EXTENDS BunHttpServer, SequenceTheorems, TLAPS

-----------------------------------------------------------------------------
(* The inductive strengthening of ClosedMeansStopped.                       *)

(* A close() that found a server has stopped it.                            *)
StopInv ==
    \A c \in 1..Len(closes) :
        closes[c].of # None =>
            /\ closes[c].of \in 1..Len(bun) /\ closes[c].of # server
            /\ bun[closes[c].of].stop # "none"

SaysClosed(told) == told = <<"closed">>

(* close() reports success only after the handlers of a graceful stop.      *)
ToldInv ==
    \A c \in 1..Len(closes) :
        SaysClosed(closes[c].told) =>
            /\ closes[c].of # None
            /\ ~bun[closes[c].of].connected
            /\ ~forceCloseConnections => ~bun[closes[c].of].running

(* A forced stop leaves no connection, and is the only one under            *)
(* forceCloseConnections: no graceful stop comes first.                     *)
ServerInv ==
    \A i \in 1..Len(bun) :
        /\ bun[i].stop = "forced" => ~bun[i].connected
        /\ bun[i].stop = "graceful" => ~forceCloseConnections

(* What the deferred reports of close() may say.                            *)
TickInv ==
    \A k \in 1..Len(ticks) :
        /\ ticks[k].event = "error" => ticks[k].call \in 1..Len(listens)
        /\ ticks[k].event \in {"closed", "notRunning"} => ticks[k].call \in 1..Len(closes)
        /\ ticks[k].event = "closed" =>
              forceCloseConnections /\ closes[ticks[k].call].of # None

(* Without retries elsewhere a path is set only for the server that         *)
(* listens, or left by a failure to listen at one.                          *)
AddressInv ==
    /\ server # None => (unixSocketPath <=> listens[server].target = "unix")
    /\ server = None /\ unixSocketPath => LastFailed /\ listens[Len(listens)].target = "unix"

IInv == /\ TypeOK /\ StopInv /\ ToldInv /\ ServerInv /\ TickInv
        /\ ~RetriesElsewhere => AddressInv

-----------------------------------------------------------------------------
LEMMA ServedIs == NotServed \in Server /\ Served \in Server /\ Served.stop = "none"
                  /\ NotServed.stop = "none" /\ ~Served.connected /\ ~NotServed.connected
                  /\ ~NotServed.accepting
  BY DEF NotServed, Served, Server

(* Only the first stop counts, and a stopped server accepts nothing.        *)
LEMMA StoppedIs ==
    ASSUME NEW s \in Server, NEW forced \in BOOLEAN, s.accepting => s.stop = "none"
    PROVE  /\ Stopped(s, forced) \in Server
           /\ Stopped(s, forced).stop # "none" /\ ~Stopped(s, forced).accepting
           /\ Stopped(s, forced).running = s.running
           /\ Stopped(s, forced).connected => s.connected
           /\ s.stop # "none" => Stopped(s, forced) = s
           /\ s.stop = "none" => /\ Stopped(s, forced).stop = IF forced THEN "forced" ELSE "graceful"
                                 /\ forced => ~Stopped(s, forced).connected
  BY DEF Stopped, Server

LEMMA SaysClosedIs ==
    /\ ~SaysClosed(<<>>)
    /\ \A told \in Seq(Report) : ~SaysClosed(Append(told, "error"))
  <1>1. ~SaysClosed(<<>>)
    BY DEF SaysClosed
  <1>2. ASSUME NEW told \in Seq(Report), SaysClosed(Append(told, "error"))
        PROVE  FALSE
    <2>1. Append(told, "error")[Len(told) + 1] = "error" /\ Len(Append(told, "error")) = Len(told) + 1
      BY DEF Report
    <2>2. Append(told, "error") = <<"closed">>
      BY <1>2 DEF SaysClosed
    <2>3. Len(<<"closed">>) = 1 /\ <<"closed">>[1] = "closed"
      OBVIOUS
    <2>4. Len(told) = 0
      BY <2>1, <2>2, <2>3
    <2> QED
      BY <2>1, <2>2, <2>3, <2>4
  <1> QED
    BY <1>1, <1>2

LEMMA InitInv == Init => IInv
  <1> SUFFICES ASSUME Init PROVE IInv
    OBVIOUS
  <1>1. /\ listens \in Seq(Listen) /\ closes \in Seq(Close)
        /\ bun \in Seq(Server) /\ ticks \in Seq(Tick)
        /\ Len(bun) = 0 /\ Len(listens) = 0 /\ Len(closes) = 0 /\ Len(ticks) = 0
    BY DEF Init
  <1>2. TypeOK
    <2>1. server \in 0..Len(bun) /\ waiting \subseteq 1..Len(bun)
      BY <1>1 DEF Init, None
    <2>2. \A i \in 1..Len(bun) : bun[i].accepting => bun[i].stop = "none"
      BY <1>1
    <2>3. forceCloseConnections \in BOOLEAN /\ unixSocketPath \in BOOLEAN
      BY DEF Init
    <2> QED
      BY <1>1, <2>1, <2>2, <2>3 DEF TypeOK
  <1>3. StopInv /\ ToldInv /\ ServerInv /\ TickInv
    BY <1>1 DEF Init, StopInv, ToldInv, ServerInv, TickInv
  <1>4. AddressInv
    BY DEF Init, AddressInv, None
  <1> QED
    BY <1>2, <1>3, <1>4 DEF IInv

LEMMA ListenCallStep ==
    ASSUME IInv, NEW target \in Targets, NEW started \in BOOLEAN, ListenCall(target, started)
    PROVE  IInv'
  <1> USE DEF IInv
  <1> DEFINE served == IF started THEN Served ELSE NotServed
             tick == [event |-> IF started THEN "listening" ELSE "error", call |-> Len(listens) + 1]
             record == [target |-> target, started |-> started, told |-> <<>>]
  <1>1. /\ served \in Server /\ tick \in Tick /\ record \in Listen
        /\ ~served.connected /\ served.stop = "none"
    BY ServedIs DEF Tick, Listen, TypeOK, Report
  <1>2. /\ bun' = Append(bun, served) /\ ticks' = Append(ticks, tick)
        /\ listens' = Append(listens, record)
        /\ server' = IF started THEN Len(listens) + 1 ELSE None
        /\ server = None /\ UNCHANGED <<forceCloseConnections, closes>>
        /\ waiting' \subseteq waiting \cup {Len(listens) + 1}
        /\ unixSocketPath' \in BOOLEAN
    BY DEF ListenCall, Waiting, SetsPath, TypeOK
  <1> HIDE DEF served, tick, record
  <1>3. /\ bun' \in Seq(Server) /\ Len(bun') = Len(bun) + 1
        /\ \A i \in 1..Len(bun) : bun'[i] = bun[i]
        /\ bun'[Len(bun) + 1] = served
    BY <1>1, <1>2 DEF TypeOK
  <1>4. /\ ticks' \in Seq(Tick) /\ Len(ticks') = Len(ticks) + 1
        /\ \A k \in 1..Len(ticks) : ticks'[k] = ticks[k]
        /\ ticks'[Len(ticks) + 1] = tick
    BY <1>1, <1>2 DEF TypeOK
  <1>5. /\ listens' \in Seq(Listen) /\ Len(listens') = Len(listens) + 1
        /\ listens'[Len(listens) + 1] = record
    BY <1>1, <1>2 DEF TypeOK
  <1>6. TypeOK'
    <2>1. ASSUME NEW i \in 1..Len(bun')
          PROVE  bun'[i].accepting => bun'[i].stop = "none"
      <3>1. CASE i \in 1..Len(bun)
        BY <1>3, <3>1 DEF TypeOK
      <3>2. CASE i = Len(bun) + 1
        BY <1>1, <1>3, <3>2
      <3>3. Len(bun) \in Nat
        BY DEF TypeOK
      <3> QED
        BY <1>3, <3>1, <3>2, <3>3
    <2>2. server' \in 0..Len(bun') /\ Len(bun') = Len(listens')
      BY <1>2, <1>3, <1>5 DEF TypeOK, None
    <2>3. waiting' \subseteq 1..Len(bun')
      <3>1. Len(bun) \in Nat /\ Len(bun) = Len(listens) /\ waiting \subseteq 1..Len(bun)
        BY DEF TypeOK
      <3> SUFFICES ASSUME NEW i \in waiting' PROVE i \in 1..Len(bun')
        OBVIOUS
      <3>2. i \in 1..Len(bun) \/ i = Len(bun) + 1
        BY <1>2, <3>1
      <3>3. Len(bun') = Len(bun) + 1
        BY <1>3
      <3> QED
        BY <3>1, <3>2, <3>3
    <2> QED
      BY <1>2, <1>3, <1>4, <1>5, <2>1, <2>2, <2>3 DEF TypeOK
  <1>7. StopInv'
    BY <1>2, <1>3 DEF StopInv, TypeOK, None
  <1>8. ToldInv'
    BY <1>2, <1>3 DEF ToldInv, StopInv, TypeOK
  <1>9. ServerInv'
    BY <1>1, <1>2, <1>3 DEF ServerInv, TypeOK
  <1>10. TickInv'
    BY <1>2, <1>4, <1>5 DEF TickInv, TypeOK, tick
  <1>11. ASSUME ~RetriesElsewhere PROVE AddressInv'
    <2>1. (unixSocketPath' <=> unixSocketPath \/ target = "unix")
      BY DEF ListenCall, SetsPath
    <2>2. unixSocketPath => target = "unix"
      BY <1>2, <1>11 DEF ListenCall, AddressInv
    <2>3. record.target = target /\ record.started = started
      BY DEF record
    <2> QED
      BY <1>2, <1>5, <2>1, <2>2, <2>3 DEF AddressInv, LastFailed, TypeOK, None
  <1> QED
    BY <1>6, <1>7, <1>8, <1>9, <1>10, <1>11

LEMMA CloseNotRunningStep ==
    ASSUME IInv, CloseNotRunning
    PROVE  IInv'
  <1> USE DEF IInv
  <1> DEFINE record == [of |-> None, stopped |-> FALSE, told |-> <<>>]
             tick == [event |-> "notRunning", call |-> Len(closes) + 1]
  <1>1. record \in Close /\ tick \in Tick /\ record.of = None /\ ~SaysClosed(record.told)
    BY SaysClosedIs DEF Close, Tick, TypeOK, None, Report
  <1>2. /\ closes' = Append(closes, record) /\ ticks' = Append(ticks, tick)
        /\ UNCHANGED <<forceCloseConnections, server, unixSocketPath, waiting, listens, bun>>
    BY DEF CloseNotRunning, state
  <1>3. /\ closes' \in Seq(Close) /\ Len(closes') = Len(closes) + 1
        /\ \A c \in 1..Len(closes) : closes'[c] = closes[c]
        /\ closes'[Len(closes) + 1] = record
    BY <1>1, <1>2 DEF TypeOK
  <1>4. /\ ticks' \in Seq(Tick) /\ Len(ticks') = Len(ticks) + 1
        /\ \A k \in 1..Len(ticks) : ticks'[k] = ticks[k]
        /\ ticks'[Len(ticks) + 1] = tick
    BY <1>1, <1>2 DEF TypeOK
  <1>5. TypeOK' /\ ServerInv'
    BY <1>2, <1>3, <1>4 DEF TypeOK, ServerInv
  <1>6. StopInv' /\ ToldInv'
    BY <1>1, <1>2, <1>3 DEF StopInv, ToldInv, TypeOK
  <1>7. TickInv'
    BY <1>2, <1>3, <1>4 DEF TickInv, TypeOK
  <1>8. AddressInv => AddressInv'
    BY <1>2 DEF AddressInv, LastFailed
  <1> QED
    BY <1>5, <1>6, <1>7, <1>8

LEMMA CloseCallStep ==
    ASSUME IInv, CloseCall
    PROVE  IInv'
  <1> USE DEF IInv
  <1> DEFINE record == [of |-> server, stopped |-> FALSE, told |-> <<>>]
             tick == [event |-> "closed", call |-> Len(closes) + 1]
             stopped == Stopped(bun[server], forceCloseConnections)
  <1>0. server \in 1..Len(bun) /\ forceCloseConnections \in BOOLEAN /\ bun[server] \in Server
    BY DEF CloseCall, TypeOK, None
  <1>1. record \in Close /\ tick \in Tick /\ record.of = server /\ ~SaysClosed(record.told)
    BY <1>0, SaysClosedIs DEF Close, Tick, TypeOK, Report
  <1>2. /\ closes' = Append(closes, record)
        /\ ticks' = IF forceCloseConnections THEN Append(ticks, tick) ELSE ticks
        /\ bun' = [bun EXCEPT ![server] = stopped]
        /\ server' = None /\ unixSocketPath' = FALSE
        /\ UNCHANGED <<forceCloseConnections, waiting, listens>>
    BY DEF CloseCall, StopsForced, PathAfterClose
  <1>3. /\ closes' \in Seq(Close) /\ Len(closes') = Len(closes) + 1
        /\ \A c \in 1..Len(closes) : closes'[c] = closes[c]
        /\ closes'[Len(closes) + 1] = record
    BY <1>1, <1>2 DEF TypeOK
  <1>4. /\ ticks' \in Seq(Tick) /\ Len(ticks') >= Len(ticks)
        /\ \A k \in 1..Len(ticks) : ticks'[k] = ticks[k]
        /\ \A k \in 1..Len(ticks') : k > Len(ticks) => forceCloseConnections /\ ticks'[k] = tick
    BY <1>1, <1>2 DEF TypeOK
  <1>5. /\ stopped \in Server /\ stopped.stop # "none" /\ ~stopped.accepting
        /\ stopped.running = bun[server].running
        /\ stopped.connected => bun[server].connected
        /\ stopped.stop = "forced" => ~stopped.connected
        /\ stopped.stop = "graceful" => ~forceCloseConnections
    BY <1>0, StoppedIs DEF TypeOK, ServerInv
  <1> HIDE DEF stopped
  <1>6. /\ bun' \in Seq(Server) /\ Len(bun') = Len(bun) /\ bun'[server] = stopped
        /\ \A i \in 1..Len(bun) : i # server => bun'[i] = bun[i]
    BY <1>0, <1>2, <1>5 DEF TypeOK
  <1>7. TypeOK'
    <2>1. \A i \in 1..Len(bun') : bun'[i].accepting => bun'[i].stop = "none"
      BY <1>5, <1>6 DEF TypeOK
    <2>2. server' \in 0..Len(bun')
      <3>1. server' = 0
        BY <1>2 DEF None
      <3>2. Len(bun') \in Nat
        BY <1>6
      <3> QED
        BY <3>1, <3>2
    <2>3. unixSocketPath' \in BOOLEAN
      BY <1>2
    <2> QED
      BY <1>2, <1>3, <1>4, <1>6, <2>1, <2>2, <2>3 DEF TypeOK
  <1>8. StopInv'
    BY <1>0, <1>1, <1>2, <1>3, <1>5, <1>6 DEF StopInv, TypeOK, None
  <1>9. ToldInv'
    BY <1>0, <1>1, <1>2, <1>3, <1>5, <1>6 DEF ToldInv, StopInv, TypeOK
  <1>10. ServerInv'
    BY <1>0, <1>2, <1>5, <1>6 DEF ServerInv, TypeOK
  <1>11. TickInv'
    <2> SUFFICES ASSUME NEW k \in 1..Len(ticks')
                 PROVE  /\ ticks'[k].event = "error" => ticks'[k].call \in 1..Len(listens')
                        /\ ticks'[k].event \in {"closed", "notRunning"} =>
                              ticks'[k].call \in 1..Len(closes')
                        /\ ticks'[k].event = "closed" =>
                              forceCloseConnections' /\ closes'[ticks'[k].call].of # None
      BY DEF TickInv
    <2>1. CASE k \in 1..Len(ticks)
      BY <1>2, <1>3, <1>4, <2>1 DEF TickInv, TypeOK
    <2>2. CASE k > Len(ticks)
      BY <1>0, <1>1, <1>2, <1>3, <1>4, <2>2 DEF TypeOK, None
    <2> QED
      BY <1>4, <2>1, <2>2 DEF TypeOK
  <1>12. AddressInv'
    BY <1>2 DEF AddressInv, None
  <1> QED
    BY <1>7, <1>8, <1>9, <1>10, <1>11, <1>12

(* A step of Bun changes one server, and reports nothing.                   *)
LEMMA BunStep ==
    ASSUME IInv, NEW i \in 1..Len(bun), NEW s \in Server,
           bun' = [bun EXCEPT ![i] = s],
           UNCHANGED <<forceCloseConnections, state, listens, closes, ticks>>,
           s.accepting => s.stop = "none",
           bun[i].stop # "none" =>
              /\ s.stop = bun[i].stop
              /\ s.connected => bun[i].connected
              /\ s.running => bun[i].running \/ bun[i].connected,
           bun[i].stop = "none" => (s.stop = "forced" => ~s.connected) /\ s.stop # "graceful"
    PROVE  IInv'
  <1> USE DEF IInv, state
  <1>1. /\ bun' \in Seq(Server) /\ Len(bun') = Len(bun) /\ bun'[i] = s
        /\ \A j \in 1..Len(bun) : j # i => bun'[j] = bun[j]
    BY DEF TypeOK
  <1>2. TypeOK' /\ TickInv'
    BY <1>1 DEF TypeOK, TickInv
  <1>3. StopInv'
    BY <1>1 DEF StopInv, TypeOK
  <1>4. ToldInv'
    BY <1>1 DEF ToldInv, StopInv, TypeOK
  <1>5. ServerInv'
    BY <1>1 DEF ServerInv, TypeOK
  <1>6. AddressInv => AddressInv'
    BY DEF AddressInv, LastFailed
  <1> QED
    BY <1>2, <1>3, <1>4, <1>5, <1>6

(* A settled stop tells the caller of one close().                          *)
LEMMA SettlesStep ==
    ASSUME IInv, NEW c \in 1..Len(closes), StopEnds(c) \/ StopFails(c)
    PROVE  IInv'
  <1> USE DEF IInv, state
  <1> DEFINE of == closes[c].of
  <1>1. /\ UNCHANGED <<forceCloseConnections, server, unixSocketPath, waiting, listens, ticks>>
        /\ of # None /\ ~forceCloseConnections
    BY DEF StopEnds, StopFails, Settles, AwaitsStop
  <1>2. of \in 1..Len(bun) /\ of # server /\ bun[of].stop # "none" /\ bun[of] \in Server
        /\ closes[c] \in Close
    BY <1>1 DEF StopInv, TypeOK
  <1>3. PICK told \in Seq(Report) :
            /\ closes' = [closes EXCEPT ![c] = [@ EXCEPT !.stopped = TRUE, !.told = told]]
            /\ StopEnds(c) \/ ~SaysClosed(told)
    <2>1. CASE StopEnds(c)
      <3>1. Append(closes[c].told, "closed") \in Seq(Report)
        BY <1>2 DEF Close, Report
      <3> QED
        BY <2>1, <3>1, <1>2 DEF StopEnds, Settles, Close
    <2>2. CASE StopFails(c)
      <3>1. Append(closes[c].told, "error") \in Seq(Report) /\ closes[c].told \in Seq(Report)
        BY <1>2 DEF Close, Report
      <3> QED
        BY <2>2, <3>1, <1>2, SaysClosedIs DEF StopFails, Settles, Close
    <2> QED
      BY <2>1, <2>2
  <1> DEFINE record == [closes[c] EXCEPT !.stopped = TRUE, !.told = told]
  <1>4. record \in Close /\ record.of = of /\ record.told = told
    BY <1>2 DEF Close
  <1>5. closes' = [closes EXCEPT ![c] = record]
    BY <1>3
  <1> HIDE DEF record
  <1>6. /\ closes' \in Seq(Close) /\ Len(closes') = Len(closes) /\ closes'[c] = record
        /\ \A d \in 1..Len(closes) : d # c => closes'[d] = closes[d]
    BY <1>4, <1>5 DEF TypeOK
  <1>7. /\ bun' \in Seq(Server) /\ Len(bun') = Len(bun)
        /\ \A i \in 1..Len(bun) :
              /\ bun'[i].accepting = bun[i].accepting /\ bun'[i].running = bun[i].running
              /\ bun'[i].stop = bun[i].stop /\ (bun'[i].connected => bun[i].connected)
        /\ StopEnds(c) => ~bun'[of].connected /\ ~bun[of].running
    <2>1. CASE StopEnds(c)
      <3> DEFINE s == [bun[of] EXCEPT !.connected = FALSE]
      <3>1. /\ s \in Server /\ ~s.connected /\ s.accepting = bun[of].accepting
            /\ s.running = bun[of].running /\ s.stop = bun[of].stop
        BY <1>2 DEF Server
      <3>2. bun' = [bun EXCEPT ![of] = s] /\ ~bun[of].running
        BY <2>1 DEF StopEnds
      <3> HIDE DEF s
      <3>3. /\ bun' \in Seq(Server) /\ Len(bun') = Len(bun) /\ bun'[of] = s
            /\ \A i \in 1..Len(bun) : i # of => bun'[i] = bun[i]
        BY <1>2, <3>1, <3>2 DEF TypeOK
      <3> QED
        BY <1>2, <3>1, <3>2, <3>3
    <2>2. CASE StopFails(c) /\ ~StopEnds(c)
      BY <2>2 DEF StopFails, TypeOK
    <2> QED
      BY <2>1, <2>2
  <1>8. TypeOK' /\ ServerInv'
    BY <1>1, <1>6, <1>7 DEF TypeOK, ServerInv
  <1>9. StopInv'
    <2> SUFFICES ASSUME NEW d \in 1..Len(closes'), closes'[d].of # None
                 PROVE  /\ closes'[d].of \in 1..Len(bun') /\ closes'[d].of # server'
                        /\ bun'[closes'[d].of].stop # "none"
      BY DEF StopInv
    <2>1. closes'[d].of = closes[d].of /\ d \in 1..Len(closes)
      BY <1>4, <1>6
    <2>2. /\ closes[d].of \in 1..Len(bun) /\ closes[d].of # server
          /\ bun[closes[d].of].stop # "none"
      BY <2>1 DEF StopInv
    <2> QED
      BY <1>1, <1>7, <2>1, <2>2
  <1>10. TickInv'
    BY <1>1, <1>4, <1>6, <1>7 DEF TickInv, TypeOK
  <1>11. ToldInv'
    <2> SUFFICES ASSUME NEW d \in 1..Len(closes'), SaysClosed(closes'[d].told)
                 PROVE  /\ closes'[d].of # None /\ ~bun'[closes'[d].of].connected
                        /\ ~bun'[closes'[d].of].running
      BY DEF ToldInv
    <2>1. CASE d = c
      BY <1>1, <1>2, <1>3, <1>4, <1>6, <1>7, <2>1
    <2>2. CASE d # c
      <3>1. d \in 1..Len(closes) /\ closes'[d] = closes[d]
        BY <1>6, <2>2
      <3>2. /\ closes[d].of # None /\ ~bun[closes[d].of].connected
            /\ ~bun[closes[d].of].running
        BY <1>1, <3>1 DEF ToldInv
      <3>3. closes[d].of \in 1..Len(bun)
        BY <3>1, <3>2 DEF StopInv
      <3> QED
        BY <1>7, <3>1, <3>2, <3>3
    <2> QED
      BY <2>1, <2>2
  <1>12. AddressInv => AddressInv'
    BY <1>1 DEF AddressInv, LastFailed
  <1> QED
    BY <1>8, <1>9, <1>10, <1>11, <1>12

-----------------------------------------------------------------------------
(* A tick whose report reached its caller: nothing else changed.            *)
LEMMA TickQueue ==
    ASSUME IInv, RunTick
    PROVE  /\ ticks # <<>> /\ Head(ticks) = ticks[1] /\ 1 \in 1..Len(ticks)
           /\ ticks' \in Seq(Tick) /\ Len(ticks') = Len(ticks) - 1
           /\ \A k \in 1..Len(ticks') : k + 1 \in 1..Len(ticks) /\ ticks'[k] = ticks[k + 1]
  BY DEF IInv, TypeOK, RunTick

(* listen() calls are told: their target and outcome stay.                  *)
LEMMA ListensToldStep ==
    ASSUME IInv, RunTick, UNCHANGED closes, waiting' \subseteq waiting,
           listens' \in Seq(Listen), Len(listens') = Len(listens),
           \A i \in 1..Len(listens) : /\ listens'[i].target = listens[i].target
                                      /\ listens'[i].started = listens[i].started
    PROVE  IInv'
  <1> USE DEF IInv
  <1>1. UNCHANGED <<forceCloseConnections, server, unixSocketPath, bun>>
    BY DEF RunTick
  <1>2. TypeOK'
    BY <1>1, TickQueue DEF TypeOK
  <1>3. StopInv' /\ ToldInv' /\ ServerInv'
    BY <1>1 DEF StopInv, ToldInv, ServerInv
  <1>4. TickInv'
    BY <1>1, TickQueue DEF TickInv
  <1>5. AddressInv => AddressInv'
    <2> SUFFICES ASSUME AddressInv PROVE AddressInv'
      OBVIOUS
    <2>1. server # None => server \in 1..Len(listens)
      BY DEF TypeOK, None
    <2>2. LastFailed => Len(listens) \in 1..Len(listens) /\ LastFailed'
      BY DEF LastFailed, TypeOK
    <2> QED
      BY <1>1, <2>1, <2>2 DEF AddressInv
  <1> QED
    BY <1>2, <1>3, <1>4, <1>5

(* A close() is told the truth by its tick.                                 *)
LEMMA CloseToldStep ==
    ASSUME IInv, RunTick, UNCHANGED <<listens, waiting>>,
           NEW c \in 1..Len(closes), NEW record \in Close,
           closes' = [closes EXCEPT ![c] = record], record.of = closes[c].of,
           SaysClosed(record.told) => forceCloseConnections /\ closes[c].of # None
    PROVE  IInv'
  <1> USE DEF IInv
  <1>1. UNCHANGED <<forceCloseConnections, server, unixSocketPath, bun>>
    BY DEF RunTick
  <1>4. /\ closes' \in Seq(Close) /\ Len(closes') = Len(closes) /\ closes'[c] = record
        /\ \A d \in 1..Len(closes) : d # c => closes'[d] = closes[d]
    BY DEF TypeOK
  <1>5. TypeOK' /\ ServerInv'
    BY <1>1, <1>4, TickQueue DEF TypeOK, ServerInv
  <1>6. StopInv'
    BY <1>1, <1>4 DEF StopInv
  <1>7. ToldInv'
    <2> SUFFICES ASSUME NEW d \in 1..Len(closes'), SaysClosed(closes'[d].told)
                 PROVE  /\ closes'[d].of # None /\ ~bun'[closes'[d].of].connected
                        /\ ~forceCloseConnections' => ~bun'[closes'[d].of].running
      BY DEF ToldInv
    <2>1. CASE d = c
      <3>1. forceCloseConnections /\ closes'[d].of = closes[c].of /\ closes[c].of # None
        BY <1>4, <2>1
      <3>2. bun[closes[c].of].stop # "none" /\ closes[c].of \in 1..Len(bun)
        BY <3>1 DEF StopInv
      <3>3. bun[closes[c].of].stop \in {"none", "graceful", "forced"}
        <4>1. bun[closes[c].of] \in Server
          BY <3>2 DEF TypeOK
        <4> QED
          BY <4>1 DEF Server
      <3> QED
        BY <1>1, <3>1, <3>2, <3>3 DEF ServerInv
    <2>2. CASE d # c
      BY <1>1, <1>4, <2>2 DEF ToldInv
    <2> QED
      BY <2>1, <2>2
  <1>8. TickInv'
    <2> SUFFICES ASSUME NEW k \in 1..Len(ticks')
                 PROVE  /\ ticks'[k].event = "error" => ticks'[k].call \in 1..Len(listens')
                        /\ ticks'[k].event \in {"closed", "notRunning"} =>
                              ticks'[k].call \in 1..Len(closes')
                        /\ ticks'[k].event = "closed" =>
                              forceCloseConnections' /\ closes'[ticks'[k].call].of # None
      BY DEF TickInv
    <2> QED
      BY <1>1, <1>4, TickQueue DEF TickInv
  <1>9. AddressInv => AddressInv'
    BY <1>1 DEF AddressInv, LastFailed
  <1> QED
    BY <1>5, <1>6, <1>7, <1>8, <1>9

LEMMA RunTickStep ==
    ASSUME IInv, RunTick
    PROVE  IInv'
  <1> DEFINE tick == Head(ticks)
  <1>1. tick \in Tick /\ tick = ticks[1] /\ 1 \in 1..Len(ticks)
    BY TickQueue DEF IInv, TypeOK
  <1>2. CASE tick.event = "listening"
    <2>1. /\ listens' = [i \in DOMAIN listens |->
                IF i \in waiting THEN [listens[i] EXCEPT !.told = Append(@, "listening")]
                ELSE listens[i]]
          /\ waiting' = {} /\ UNCHANGED closes
      BY <1>2 DEF RunTick
    <2>2. ASSUME NEW i \in 1..Len(listens)
          PROVE  /\ [listens[i] EXCEPT !.told = Append(@, "listening")] \in Listen
                 /\ listens[i] \in Listen
      <3>1. listens[i] \in Listen /\ listens[i].told \in Seq(Report)
        <4>1. listens[i] \in Listen
          BY DEF IInv, TypeOK
        <4> QED
          BY <4>1 DEF Listen
      <3>2. Append(listens[i].told, "listening") \in Seq(Report)
        BY <3>1 DEF Report
      <3> QED
        BY <3>1, <3>2 DEF Listen
    <2>3. DOMAIN listens = 1..Len(listens) /\ Len(listens) \in Nat
      BY DEF IInv, TypeOK
    <2>4. listens' \in [1..Len(listens) -> Listen]
      BY <2>1, <2>2, <2>3
    <2>5. listens' \in Seq(Listen) /\ Len(listens') = Len(listens)
      BY <2>3, <2>4, SeqDef, LenProperties
    <2>6. \A i \in 1..Len(listens) : /\ listens'[i].target = listens[i].target
                                     /\ listens'[i].started = listens[i].started
      BY <2>1, <2>2, <2>3 DEF Listen
    <2> QED
      BY <2>1, <2>5, <2>6, ListensToldStep
  <1>3. CASE tick.event = "error"
    <2> DEFINE i == tick.call
               record == [listens[i] EXCEPT !.told = Append(@, "error")]
    <2>1. i \in 1..Len(listens) /\ UNCHANGED <<waiting, closes>>
      BY <1>1, <1>3 DEF RunTick, IInv, TickInv
    <2>2. listens' = [listens EXCEPT ![i] = record]
      BY <1>3 DEF RunTick
    <2>3. listens[i] \in Listen /\ listens[i].told \in Seq(Report)
      <3>1. listens[i] \in Listen
        BY <2>1 DEF IInv, TypeOK
      <3> QED
        BY <3>1 DEF Listen
    <2>4. Append(listens[i].told, "error") \in Seq(Report)
      BY <2>3 DEF Report
    <2>5. /\ record \in Listen /\ record.target = listens[i].target
          /\ record.started = listens[i].started
      BY <2>3, <2>4 DEF Listen
    <2> HIDE DEF record, i
    <2>6. /\ listens' \in Seq(Listen) /\ Len(listens') = Len(listens) /\ listens'[i] = record
          /\ \A j \in 1..Len(listens) : j # i => listens'[j] = listens[j]
      BY <2>1, <2>2, <2>5 DEF IInv, TypeOK
    <2> QED
      BY <2>1, <2>5, <2>6, ListensToldStep
  <1>4. CASE tick.event \in {"closed", "notRunning"}
    <2> DEFINE c == tick.call
               record(report) == [closes[c] EXCEPT !.told = Append(@, report)]
    <2>1. c \in 1..Len(closes) /\ UNCHANGED <<waiting, listens>>
      BY <1>1, <1>4 DEF RunTick, IInv, TickInv
    <2>2. closes[c] \in Close
      BY <2>1 DEF IInv, TypeOK
    <2>3. closes[c].told \in Seq(Report)
      BY <2>2 DEF Close
    <2>4. ASSUME NEW report \in Report
          PROVE  /\ record(report) \in Close /\ record(report).of = closes[c].of
                 /\ record(report).told = Append(closes[c].told, report)
      <3>1. Append(closes[c].told, report) \in Seq(Report)
        BY <2>3
      <3> QED
        BY <2>2, <3>1 DEF Close
    <2>5. CASE tick.event = "closed"
      <3>1. /\ closes' = [closes EXCEPT ![c] = record("closed")]
            /\ forceCloseConnections /\ closes[c].of # None
        BY <1>1, <2>5 DEF RunTick, IInv, TickInv
      <3>2. record("closed") \in Close /\ record("closed").of = closes[c].of
        BY <2>4 DEF Report
      <3> HIDE DEF record, c
      <3> QED
        BY <2>1, <3>1, <3>2, CloseToldStep
    <2>6. CASE tick.event = "notRunning"
      <3>1. closes' = [closes EXCEPT ![c] = record("error")]
        BY <2>6 DEF RunTick
      <3>2. /\ record("error") \in Close /\ record("error").of = closes[c].of
            /\ ~SaysClosed(record("error").told)
        BY <2>3, <2>4, SaysClosedIs DEF Report
      <3> HIDE DEF record, c
      <3> QED
        BY <2>1, <3>1, <3>2, CloseToldStep
    <2> QED
      BY <1>4, <2>5, <2>6
  <1> QED
    BY <1>1, <1>2, <1>3, <1>4 DEF Tick

-----------------------------------------------------------------------------
LEMMA BunSteps ==
    ASSUME IInv, CloseAllConnections \/ \E i \in DOMAIN bun : Connects(i) \/ RequestArrives(i) \/ HandlerEnds(i)
    PROVE  IInv'
  <1> USE DEF IInv
  <1>1. CASE CloseAllConnections
    <2>1. server \in 1..Len(bun) /\ bun[server] \in Server
      BY <1>1 DEF CloseAllConnections, TypeOK, None
    <2> DEFINE s == Stopped(bun[server], TRUE)
    <2>2. /\ s \in Server /\ (s.accepting => s.stop = "none")
          /\ bun[server].stop # "none" => s = bun[server]
          /\ bun[server].stop = "none" => s.stop = "forced" /\ ~s.connected
      BY <2>1, StoppedIs DEF TypeOK
    <2>3. bun' = [bun EXCEPT ![server] = s]
          /\ UNCHANGED <<forceCloseConnections, state, listens, closes, ticks>>
      BY <1>1 DEF CloseAllConnections
    <2> HIDE DEF s
    <2> QED
      BY <2>1, <2>2, <2>3, BunStep
  <1>2. CASE \E i \in DOMAIN bun : Connects(i) \/ RequestArrives(i) \/ HandlerEnds(i)
    <2>1. PICK i \in 1..Len(bun) : Connects(i) \/ RequestArrives(i) \/ HandlerEnds(i)
      BY <1>2 DEF TypeOK
    <2>2. bun[i] \in Server
      BY DEF TypeOK
    <2>3. PICK s \in Server :
            /\ bun' = [bun EXCEPT ![i] = s]
            /\ s.accepting = bun[i].accepting /\ s.stop = bun[i].stop
            /\ s.connected => bun[i].connected \/ bun[i].accepting
            /\ s.running => bun[i].running \/ bun[i].connected
      <3>1. CASE Connects(i)
        <4> [bun[i] EXCEPT !.connected = TRUE] \in Server
          BY <2>2 DEF Server
        <4> WITNESS [bun[i] EXCEPT !.connected = TRUE] \in Server
        <4> QED
          BY <2>2, <3>1 DEF Connects, Server
      <3>2. CASE RequestArrives(i)
        <4> [bun[i] EXCEPT !.running = TRUE] \in Server
          BY <2>2 DEF Server
        <4> WITNESS [bun[i] EXCEPT !.running = TRUE] \in Server
        <4> QED
          BY <2>2, <3>2 DEF RequestArrives, Server
      <3>3. CASE HandlerEnds(i)
        <4> [bun[i] EXCEPT !.running = FALSE] \in Server
          BY <2>2 DEF Server
        <4> WITNESS [bun[i] EXCEPT !.running = FALSE] \in Server
        <4> QED
          BY <2>2, <3>3 DEF HandlerEnds, Server
      <3> QED
        BY <2>1, <3>1, <3>2, <3>3
    <2>4. UNCHANGED <<forceCloseConnections, state, listens, closes, ticks>>
      BY <2>1 DEF Connects, RequestArrives, HandlerEnds
    <2>5. (bun[i].accepting => bun[i].stop = "none")
          /\ (bun[i].stop = "forced" => ~bun[i].connected)
      BY DEF TypeOK, ServerInv
    <2> QED
      BY <2>2, <2>3, <2>4, <2>5, BunStep DEF Server
  <1> QED
    BY <1>1, <1>2

LEMMA StepInv == IInv /\ [Next]_vars => IInv'
  <1> SUFFICES ASSUME IInv, [Next]_vars PROVE IInv'
    OBVIOUS
  <1>1. ASSUME NEW target \in Targets, NEW started \in BOOLEAN, ListenCall(target, started)
        PROVE  IInv'
    BY <1>1, ListenCallStep
  <1>2. CASE CloseNotRunning
    BY <1>2, CloseNotRunningStep
  <1>3. CASE CloseCall
    BY <1>3, CloseCallStep
  <1>4. CASE RunTick
    BY <1>4, RunTickStep
  <1>5. ASSUME NEW c \in DOMAIN closes, StopEnds(c) \/ StopFails(c)
        PROVE  IInv'
    <2>1. c \in 1..Len(closes)
      BY DEF IInv, TypeOK
    <2> QED
      BY <1>5, <2>1, SettlesStep
  <1>6. CASE CloseAllConnections \/ \E i \in DOMAIN bun :
                 Connects(i) \/ RequestArrives(i) \/ HandlerEnds(i)
    BY <1>6, BunSteps
  <1>7. CASE UNCHANGED vars
    BY <1>7 DEF IInv, TypeOK, StopInv, ToldInv, ServerInv, TickInv, AddressInv,
                LastFailed, vars, state
  <1> QED
    BY <1>1, <1>2, <1>3, <1>4, <1>5, <1>6, <1>7 DEF Next

(* The strengthened invariant is inductive.                                 *)
THEOREM Inductive == Spec => []IInv
  BY InitInv, StepInv, PTL DEF Spec

(* Every variable of the model keeps its type: no event is deferred for a   *)
(* call that was not made, and a stopped server does not accept.            *)
THEOREM TypeCorrect == Spec => []TypeOK
  <1>1. IInv => TypeOK
    BY DEF IInv
  <1> QED
    BY <1>1, Inductive, PTL

(* However many listen() and close() calls cross each other, a close() that *)
(* reports success has stopped its server (ClosedMeansStopped).             *)
THEOREM ReportedCloseIsDone == Spec => []ClosedMeansStopped
  <1>1. IInv => ClosedMeansStopped
    <2> SUFFICES ASSUME IInv, NEW c \in DOMAIN closes, closes[c].told = <<"closed">>
                 PROVE  /\ ~bun[closes[c].of].accepting /\ ~bun[closes[c].of].connected
                        /\ ~forceCloseConnections => ~bun[closes[c].of].running
      BY DEF ClosedMeansStopped
    <2>1. c \in 1..Len(closes) /\ SaysClosed(closes[c].told)
      BY DEF IInv, TypeOK, SaysClosed
    <2>2. /\ closes[c].of # None /\ ~bun[closes[c].of].connected
          /\ ~forceCloseConnections => ~bun[closes[c].of].running
      BY <2>1 DEF IInv, ToldInv
    <2>3. closes[c].of \in 1..Len(bun) /\ bun[closes[c].of].stop # "none"
      BY <2>1, <2>2 DEF IInv, StopInv
    <2>4. ~bun[closes[c].of].accepting
      BY <2>3 DEF IInv, TypeOK
    <2> QED
      BY <2>2, <2>4
  <1> QED
    BY <1>1, Inductive, PTL

(* address() is current when a failed listen() is followed by another of    *)
(* its kind only (AddressIsCurrent).                                        *)
THEOREM AddressStaysCurrent ==
    ASSUME ~RetriesElsewhere
    PROVE  Spec => []AddressIsCurrent
  <1>1. IInv => AddressIsCurrent
    <2> SUFFICES ASSUME IInv PROVE AddressIsCurrent
      OBVIOUS
    <2>1. CASE server = None
      BY <2>1 DEF AddressIsCurrent, address
    <2>2. CASE server # None
      <3>1. listens[server].target \in Targets
        <4>1. server \in 1..Len(listens)
          BY <2>2 DEF IInv, TypeOK, None
        <4>2. listens[server] \in Listen
          BY <4>1 DEF IInv, TypeOK
        <4> QED
          BY <4>2 DEF Listen
      <3>2. unixSocketPath <=> listens[server].target = "unix"
        BY <2>2 DEF IInv, AddressInv
      <3> QED
        BY <2>2, <3>1, <3>2 DEF AddressIsCurrent, address, Targets
    <2> QED
      BY <2>1, <2>2
  <1> QED
    BY <1>1, Inductive, PTL
=============================================================================
