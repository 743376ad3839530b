------------------------- MODULE SocketBridgeProofs -------------------------
(* Proofs about SocketBridge for every set of requests and listeners.       *)
EXTENDS SocketBridge, TLAPS

-----------------------------------------------------------------------------
(* What the operations of a bridge do.                                      *)

(* A bridge is on the open socket exactly while its flag says so.           *)
OnSocketInv == FlagInv /\ OneSocketListener

(* listen() puts one bridge on the socket, once.                            *)
LEMMA ListensIs ==
    ASSUME TypeOK, OnSocketInv, NEW r \in Requests, Listens(r), UNCHANGED <<socket, forwarding>>
    PROVE  /\ listening' = listening \cup {r}
           /\ onSocket' \in [Requests -> Nat]
           /\ \A q \in Requests : onSocket'[q] >= onSocket[q]
           /\ OnSocketInv'
  BY DEF Listens, TypeOK, OnSocketInv, FlagInv, OneSocketListener

(* stopListening() takes one bridge off it.                                 *)
LEMMA StopsListeningIs ==
    ASSUME TypeOK, OnSocketInv, NEW r \in Requests, StopsListening(r), UNCHANGED <<socket, forwarding>>
    PROVE  /\ listening' = listening \ {r}
           /\ onSocket' \in [Requests -> Nat]
           /\ \A q \in Requests : q # r => onSocket'[q] = onSocket[q]
           /\ OnSocketInv'
  BY DEF StopsListening, TypeOK, OnSocketInv, FlagInv, OneSocketListener

(* removeCloseListener() takes the bridge off the socket only when it has   *)
(* no listener left, and then always.                                       *)
LEMMA RemoveIs ==
    ASSUME TypeOK, OnSocketInv, NEW i \in Ids, RemoveCloseListener(i), UNCHANGED <<socket, forwarding>>
    PROVE  /\ events' = events \ {i}
           /\ listening' \subseteq listening
           /\ onSocket' \in [Requests -> Nat]
           /\ \A q \in Requests : q # Owner[i] => onSocket'[q] = onSocket[q]
           /\ (\E j \in events' : Owner[j] = Owner[i]) => onSocket' = onSocket
           /\ ~(\E j \in events' : Owner[j] = Owner[i]) => Owner[i] \notin listening'
           /\ \A q \in listening : q # Owner[i] => q \in listening'
           /\ OnSocketInv'
  <1>1. Owner[i] \in Requests /\ events' = events \ {i} /\ events' \subseteq Ids
    BY OwnerAssumption DEF RemoveCloseListener, TypeOK
  <1>2. CASE Mine(Owner[i]) \cap events' = {}
    BY <1>1, <1>2, StopsListeningIs DEF RemoveCloseListener, Mine
  <1>3. CASE Mine(Owner[i]) \cap events' # {}
    BY <1>1, <1>3 DEF RemoveCloseListener, Mine, TypeOK, OnSocketInv, FlagInv, OneSocketListener
  <1> QED
    BY <1>2, <1>3

(* invokeListener() calls a listener once and unregisters it.               *)
LEMMA InvokeIs ==
    ASSUME TypeOK, OnSocketInv, NEW i \in Ids, Invoke(i), UNCHANGED <<socket, forwarding>>
    PROVE  \/ /\ calls[i] > 0
              /\ UNCHANGED <<calls, onSignal, onStream, onOutgoing, bridges>>
           \/ /\ calls[i] = 0
              /\ calls' = [calls EXCEPT ![i] = 1]
              /\ onSignal' = onSignal \ {i}
              /\ onStream' = onStream \ {i}
              /\ onOutgoing' = onOutgoing \ {i}
              /\ RemoveCloseListener(i)
  BY DEF Invoke, Called, Counted, TypeOK, Several

-----------------------------------------------------------------------------
(* Types, and the bridges' listeners on the socket.                         *)

(* Every step keeps the types, and the bridges' flags.                      *)
LEMMA TypeStep ==
    ASSUME TypeOK, OnSocketInv, [Next]_vars
    PROVE  TypeOK' /\ OnSocketInv'
  <1> USE DEF world, bridges, registered
  <1>0. \A i \in Ids : Owner[i] \in Requests
    BY OwnerAssumption
  <1>1. CASE UNCHANGED vars
    BY <1>1 DEF vars, TypeOK, OnSocketInv, FlagInv, OneSocketListener
  <1>2. ASSUME NEW i \in Ids, RequestOn(i) PROVE TypeOK' /\ OnSocketInv'
    <2>1. CASE Owner[i] \in aborted
      BY <1>2, <2>1 DEF RequestOn, Register, TypeOK, OnSocketInv, FlagInv, OneSocketListener
    <2>2. CASE Owner[i] \notin aborted
      BY <1>0, <1>2, <2>2, ListensIs DEF RequestOn, Register, AddCloseListener, TypeOK
    <2> QED
      BY <2>1, <2>2
  <1>3. ASSUME NEW i \in Ids, NEW how \in {"on", "once"}, SocketOn(i, how)
        PROVE  TypeOK' /\ OnSocketInv'
    BY <1>0, <1>3, ListensIs DEF SocketOn, Register, AddCloseListener, TypeOK
  <1>4. ASSUME NEW i \in Ids, SocketOff(i) PROVE TypeOK' /\ OnSocketInv'
    BY <1>4, RemoveIs DEF SocketOff, TypeOK
  <1>5. ASSUME NEW r \in Requests, CreateStream(r) PROVE TypeOK' /\ OnSocketInv'
    BY <1>5 DEF CreateStream, TypeOK, OnSocketInv, FlagInv, OneSocketListener
  <1>6. ASSUME NEW i \in Ids, Invoke(i), UNCHANGED <<socket, forwarding>>
        PROVE  /\ calls' \in [Ids -> 0..Several]
               /\ onSignal' \subseteq Ids /\ onStream' \subseteq Ids /\ onOutgoing' \subseteq Ids
               /\ events' \subseteq Ids /\ listening' \subseteq Requests
               /\ onSocket' \in [Requests -> Nat]
               /\ OnSocketInv'
    BY <1>6, InvokeIs, RemoveIs DEF TypeOK, Several, OnSocketInv, FlagInv, OneSocketListener
  <1>7. ASSUME NEW i \in Ids, Call(i) \/ CallSignalled(i) \/ HearAbort(i)
        PROVE  TypeOK' /\ OnSocketInv'
    <2>1. CASE Invoke(i)
      BY <1>6, <1>7, <2>1 DEF Call, CallSignalled, HearAbort, TypeOK
    <2>2. CASE ~Invoke(i)
      BY <1>7, <2>2 DEF Call, CallSignalled, HearAbort, Hear, Counted, Several, TypeOK,
                        OnSocketInv, FlagInv, OneSocketListener
    <2> QED
      BY <2>1, <2>2
  <1>8. ASSUME NEW i \in Ids, RunMicrotask(i) PROVE TypeOK' /\ OnSocketInv'
    BY <1>6, <1>8 DEF RunMicrotask, TypeOK
  <1>9. ASSUME NEW r \in Requests, SignalClose(r) PROVE TypeOK' /\ OnSocketInv'
    BY <1>9, StopsListeningIs DEF SignalClose, TypeOK
  <1>10. CASE SocketCloses
    BY <1>10 DEF SocketCloses, TypeOK, OnSocketInv, FlagInv, OneSocketListener
  <1>11. ASSUME NEW r \in Requests, ForwardClose(r)
         PROVE  TypeOK' /\ OnSocketInv'
    BY <1>11 DEF ForwardClose, TypeOK, OnSocketInv, FlagInv, OneSocketListener
  <1>12. ASSUME NEW r \in Requests,
                Opens(r) \/ OutgoingCloses(r) \/ Aborts(r) \/ StreamCloses(r)
         PROVE  TypeOK' /\ OnSocketInv'
    BY <1>12 DEF Opens, OutgoingCloses, Aborts, StreamCloses, TypeOK, OnSocketInv, FlagInv,
                 OneSocketListener
  <1> QED
    BY <1>1, <1>2, <1>3, <1>4, <1>5, <1>7, <1>8, <1>9, <1>10, <1>11, <1>12
    DEF Next, HandlerStep, Event

-----------------------------------------------------------------------------
(* The steps of the inductive invariant.                                    *)

(* A listener that was not registered stays nowhere.                        *)
LEMMA FreshStep ==
    ASSUME TypeOK, OnSocketInv, FreshInv, [Next]_vars
    PROVE  FreshInv'
  <1> USE DEF world, bridges, registered
  <1>0. \A i \in Ids : Owner[i] \in Requests
    BY OwnerAssumption
  <1>1. CASE UNCHANGED vars
    BY <1>1 DEF vars, FreshInv
  <1>2. ASSUME NEW i \in Ids, RequestOn(i) PROVE FreshInv'
    BY <1>2 DEF RequestOn, Register, Fresh, AddCloseListener, TypeOK, FreshInv
  <1>3. ASSUME NEW i \in Ids, NEW how \in {"on", "once"}, SocketOn(i, how) PROVE FreshInv'
    BY <1>3 DEF SocketOn, Register, Fresh, AddCloseListener, TypeOK, FreshInv
  <1>4. ASSUME NEW i \in Ids, SocketOff(i) PROVE FreshInv'
    BY <1>4 DEF SocketOff, RemoveCloseListener, FreshInv
  <1>5. ASSUME NEW i \in Ids, Call(i) \/ CallSignalled(i) \/ HearAbort(i) PROVE FreshInv'
    <2>1. kind[i] # "none" /\ UNCHANGED <<kind, phase, late, queued>>
      BY <1>5 DEF Call, CallSignalled, HearAbort, aborting, FreshInv
    <2>2. calling' \subseteq calling /\ signalling' \subseteq signalling
      BY <1>5 DEF Call, CallSignalled, HearAbort
    <2>3. CASE Invoke(i)
      BY <2>1, <2>2, <2>3 DEF Invoke, Counted, RemoveCloseListener, TypeOK, FreshInv
    <2>4. CASE ~Invoke(i)
      <3>1. /\ events' \subseteq events
            /\ UNCHANGED <<onSignal, onStream, onOutgoing>>
            /\ \A j \in Ids : j # i => calls'[j] = calls[j]
        BY <1>5, <2>4 DEF Call, CallSignalled, HearAbort, Hear, Counted, TypeOK
      <3> QED
        BY <2>1, <2>2, <3>1 DEF TypeOK, FreshInv
    <2> QED
      BY <2>3, <2>4
  <1>6. ASSUME NEW i \in Ids, RunMicrotask(i) PROVE FreshInv'
    <2>1. kind[i] # "none"
      BY <1>6 DEF RunMicrotask, FreshInv
    <2> QED
      BY <1>6, <2>1 DEF RunMicrotask, Invoke, Counted, RemoveCloseListener, TypeOK, FreshInv
  <1>7. ASSUME NEW r \in Requests,
               \/ SignalClose(r) \/ ForwardClose(r) \/ Opens(r) \/ CreateStream(r)
               \/ OutgoingCloses(r) \/ Aborts(r) \/ StreamCloses(r)
        PROVE  FreshInv'
    BY <1>0, <1>7 DEF SignalClose, ForwardClose, Opens, CreateStream, OutgoingCloses, Aborts,
                StreamCloses, TypeOK, FreshInv
  <1>8. CASE SocketCloses
    BY <1>8 DEF SocketCloses, FreshInv
  <1> QED
    BY <1>1, <1>2, <1>3, <1>4, <1>5, <1>6, <1>7, <1>8 DEF Next, HandlerStep, Event

(* invokeListener() keeps what holds of every listener of req.on("close").  *)
LEMMA InvokeRequest ==
    ASSUME TypeOK, OnSocketInv, FreshInv, RequestInv, NEW i \in Ids, Invoke(i),
           UNCHANGED <<socket, forwarding, kind, late, phase>>, kind[i] = "request",
           calling' \in {calling, calling \ {i}}, queued' = queued \ {i},
           signalling' \subseteq signalling
    PROVE  RequestInv'
  <1>1. CASE calls[i] > 0
    BY <1>1, InvokeIs DEF TypeOK, RequestInv, bridges
  <1>2. CASE calls[i] = 0
    BY <1>2, InvokeIs, RemoveIs DEF TypeOK, RequestInv
  <1> QED
    BY <1>1, <1>2 DEF TypeOK

(* A listener of req.on("close") stays registered until it is called.       *)
LEMMA RequestStep ==
    ASSUME TypeOK, OnSocketInv, FreshInv, RequestInv, [Next]_vars
    PROVE  RequestInv'
  <1> USE DEF world, bridges, registered
  <1>0. \A i \in Ids : Owner[i] \in Requests
    BY OwnerAssumption
  <1>1. CASE UNCHANGED vars
    BY <1>1 DEF vars, RequestInv
  <1>2. ASSUME NEW i \in Ids, RequestOn(i) PROVE RequestInv'
    <2>1. CASE Owner[i] \in aborted
      BY <1>2, <2>1 DEF RequestOn, Register, Fresh, TypeOK, FreshInv, RequestInv
    <2>2. CASE Owner[i] \notin aborted
      BY <1>2, <2>2 DEF RequestOn, Register, Fresh, AddCloseListener, TypeOK,
                        FreshInv, RequestInv
    <2> QED
      BY <2>1, <2>2
  <1>3. ASSUME NEW i \in Ids, NEW how \in {"on", "once"}, SocketOn(i, how) PROVE RequestInv'
    BY <1>3 DEF SocketOn, Register, Fresh, AddCloseListener, TypeOK, FreshInv, RequestInv
  <1>4. ASSUME NEW i \in Ids, SocketOff(i) PROVE RequestInv'
    BY <1>4 DEF SocketOff, RemoveCloseListener, TypeOK, RequestInv
  <1>5. ASSUME NEW i \in Ids, Call(i) \/ CallSignalled(i) \/ HearAbort(i) PROVE RequestInv'
    <2>1. CASE kind[i] = "request"
      <3>1. i \notin queued
        BY <1>5, <2>1 DEF Call, CallSignalled, HearAbort, aborting, RequestInv
      <3>2. /\ Invoke(i) /\ queued' = queued \ {i} /\ signalling' \subseteq signalling
            /\ calling' \in {calling, calling \ {i}}
            /\ UNCHANGED <<socket, forwarding, kind, late, phase>>
        BY <1>5, <2>1, <3>1 DEF Call, CallSignalled, HearAbort, Hear
      <3> QED
        BY <2>1, <3>2, InvokeRequest
    <2>2. CASE kind[i] # "request"
      <3>1. kind[i] # "request" /\ (Call(i) \/ CallSignalled(i))
        BY <1>5, <2>2 DEF HearAbort, aborting, FreshInv
      <3>2. /\ \A j \in Ids : j # i => calls'[j] = calls[j]
            /\ events' \in {events, events \ {i}}
            /\ calling' \in {calling, calling \ {i}} /\ signalling' \subseteq signalling
            /\ UNCHANGED <<onSignal, onStream, onOutgoing, queued, kind, late, phase>>
        BY <3>1 DEF Call, CallSignalled, Hear, Counted, TypeOK
      <3> QED
        BY <2>2, <3>2 DEF TypeOK, RequestInv
    <2> QED
      BY <2>1, <2>2
  <1>6. ASSUME NEW i \in Ids, RunMicrotask(i) PROVE RequestInv'
    <2>1. kind[i] = "request"
      BY <1>6 DEF RunMicrotask, FreshInv
    <2> QED
      BY <1>6, <2>1, InvokeRequest DEF RunMicrotask
  <1>7. ASSUME NEW r \in Requests, SignalClose(r) \/ ForwardClose(r) PROVE RequestInv'
    BY <1>7 DEF SignalClose, ForwardClose, Busy, RequestInv
  <1>8. ASSUME NEW r \in Requests, Opens(r) \/ CreateStream(r) PROVE RequestInv'
    BY <1>0, <1>8 DEF Opens, CreateStream, TypeOK, RequestInv
  <1>9. ASSUME NEW r \in Requests, OutgoingCloses(r) PROVE RequestInv'
    BY <1>0, <1>9 DEF OutgoingCloses, Busy, Mine, TypeOK, RequestInv
  <1>10. ASSUME NEW r \in Requests, Aborts(r) \/ StreamCloses(r) PROVE RequestInv'
    BY <1>10 DEF Aborts, StreamCloses, Busy, Inside, RequestInv
  <1>11. CASE SocketCloses
    BY <1>11 DEF SocketCloses, RequestInv
  <1> QED
    BY <1>1, <1>2, <1>3, <1>4, <1>5, <1>6, <1>7, <1>8, <1>9, <1>10, <1>11
    DEF Next, HandlerStep, Event

(* Removing a listener disconnects no other one.                            *)
LEMMA RemoveHeard ==
    ASSUME TypeOK, OnSocketInv, BridgedIsHeard, NEW i \in Ids, RemoveCloseListener(i),
           UNCHANGED <<socket, forwarding>>, signalling' \in {signalling, signalling \ {i}},
           \A j \in Ids : j # i => calls'[j] = calls[j]
    PROVE  BridgedIsHeard'
  <1> SUFFICES ASSUME socket = "open", NEW j \in events', j \notin signalling', calls'[j] = 0
               PROVE  onSocket'[Owner[j]] = 1
    BY DEF BridgedIsHeard
  <1>1. j \in events /\ j # i /\ j \in Ids /\ Owner[j] \in Requests
    BY RemoveIs, OwnerAssumption DEF TypeOK
  <1>2. onSocket[Owner[j]] = 1
    BY <1>1 DEF BridgedIsHeard
  <1> QED
    BY <1>1, <1>2, RemoveIs

(* Adding a listener connects it, and disconnects no other one.             *)
LEMMA AddHeard ==
    ASSUME TypeOK, OnSocketInv, BridgedIsHeard, NEW i \in Ids, AddCloseListener(i),
           UNCHANGED <<socket, forwarding, signalling, calls>>
    PROVE  BridgedIsHeard'
  <1> SUFFICES ASSUME socket = "open", NEW j \in events', j \notin signalling, calls[j] = 0
               PROVE  onSocket'[Owner[j]] = 1
    BY DEF BridgedIsHeard
  <1>1. \A k \in Ids : Owner[k] \in Requests
    BY OwnerAssumption
  <1>2. Listens(Owner[i]) /\ j \in Ids /\ j \in events \cup {i}
    BY DEF AddCloseListener, TypeOK
  <1>3. /\ OnSocketInv' /\ Owner[i] \in listening'
        /\ onSocket' \in [Requests -> Nat] /\ listening \subseteq listening'
    BY <1>1, <1>2, ListensIs
  <1>4. Owner[j] \in listening'
    BY <1>1, <1>2, <1>3 DEF BridgedIsHeard, OnSocketInv, OneSocketListener
  <1> QED
    BY <1>1, <1>2, <1>3, <1>4 DEF OnSocketInv, OneSocketListener

(* No step disconnects a listener that was not called.                      *)
LEMMA HeardStep ==
    ASSUME TypeOK, OnSocketInv, FreshInv, BridgedIsHeard, [Next]_vars
    PROVE  BridgedIsHeard'
  <1> USE DEF world, bridges, registered
  <1>1. CASE UNCHANGED vars
    BY <1>1 DEF vars, BridgedIsHeard
  <1>2. ASSUME NEW i \in Ids, RequestOn(i) PROVE BridgedIsHeard'
    BY <1>2, AddHeard DEF RequestOn, BridgedIsHeard
  <1>3. ASSUME NEW i \in Ids, NEW how \in {"on", "once"}, SocketOn(i, how)
        PROVE  BridgedIsHeard'
    BY <1>3, AddHeard DEF SocketOn
  <1>4. ASSUME NEW i \in Ids, SocketOff(i) PROVE BridgedIsHeard'
    BY <1>4, RemoveHeard DEF SocketOff
  <1>5. ASSUME NEW i \in Ids, Invoke(i), UNCHANGED <<socket, forwarding>>,
               signalling' \in {signalling, signalling \ {i}}
        PROVE  BridgedIsHeard'
    <2>1. CASE calls[i] > 0
      BY <1>5, <2>1, InvokeIs DEF BridgedIsHeard, TypeOK
    <2>2. CASE calls[i] = 0
      <3>1. RemoveCloseListener(i) /\ \A j \in Ids : j # i => calls'[j] = calls[j]
        BY <1>5, <2>2, InvokeIs DEF TypeOK
      <3> QED
        BY <1>5, <3>1, RemoveHeard
    <2> QED
      BY <2>1, <2>2 DEF TypeOK
  <1>6. ASSUME NEW i \in Ids, Call(i) \/ CallSignalled(i) \/ HearAbort(i)
        PROVE  BridgedIsHeard'
    <2>1. /\ UNCHANGED <<socket, forwarding>>
          /\ signalling' \in {signalling, signalling \ {i}}
      BY <1>6 DEF Call, CallSignalled, HearAbort
    <2>2. CASE Invoke(i)
      BY <1>5, <2>1, <2>2
    <2>3. CASE ~Invoke(i)
      <3>1. kind[i] \in {"on", "once"} /\ Hear(i)
        BY <1>6, <2>3 DEF Call, CallSignalled, HearAbort, Hear, FreshInv, TypeOK
      <3>2. /\ events' \subseteq events /\ UNCHANGED onSocket
            /\ \A j \in Ids : j # i => calls'[j] = calls[j]
            /\ calls'[i] > 0
        BY <2>3, <3>1 DEF Hear, Counted, Several, TypeOK
      <3> QED
        BY <2>1, <3>2 DEF TypeOK, BridgedIsHeard
    <2> QED
      BY <2>2, <2>3
  <1>7. ASSUME NEW i \in Ids, RunMicrotask(i) PROVE BridgedIsHeard'
    BY <1>5, <1>7 DEF RunMicrotask, Busy
  <1>8. ASSUME NEW r \in Requests, SignalClose(r) PROVE BridgedIsHeard'
    <2>1. \A j \in events : Owner[j] # r => onSocket'[Owner[j]] = onSocket[Owner[j]]
      BY <1>8, StopsListeningIs, OwnerAssumption DEF SignalClose, TypeOK
    <2> QED
      BY <1>8, <2>1 DEF SignalClose, Busy, Mine, TypeOK, BridgedIsHeard
  <1>9. ASSUME NEW r \in Requests, ForwardClose(r) PROVE BridgedIsHeard'
    BY <1>9 DEF ForwardClose, OnSocketInv, FlagInv, BridgedIsHeard
  <1>10. ASSUME NEW r \in Requests,
                \/ Opens(r) \/ CreateStream(r)
                \/ OutgoingCloses(r) \/ Aborts(r) \/ StreamCloses(r)
         PROVE  BridgedIsHeard'
    BY <1>10 DEF Opens, CreateStream, OutgoingCloses, Aborts, StreamCloses, Busy,
                 BridgedIsHeard
  <1>11. CASE SocketCloses
    BY <1>11 DEF SocketCloses, BridgedIsHeard
  <1> QED
    BY <1>1, <1>2, <1>3, <1>4, <1>6, <1>7, <1>8, <1>9, <1>10, <1>11
    DEF Next, HandlerStep, Event

(* Removing a listener of req.on("close") leaves no bridge on the socket    *)
(* without a listener.                                                      *)
LEMMA RemoveRelease ==
    ASSUME TypeOK, OnSocketInv, ReleaseInv, NEW i \in Ids, RemoveCloseListener(i),
           UNCHANGED <<socket, forwarding, kind>>
    PROVE  ReleaseInv'
  <1> SUFFICES ASSUME NEW r \in listening', \A j \in Mine(r) : kind[j] \notin {"on", "once"}
               PROVE  \E j \in Mine(r) : j \in events'
    BY DEF ReleaseInv
  <1>1. r \in listening /\ r \in Requests /\ events' = events \ {i} /\ events' \subseteq Ids
    BY RemoveIs DEF TypeOK
  <1>2. CASE r = Owner[i]
    BY <1>1, <1>2, RemoveIs DEF Mine
  <1>3. CASE r # Owner[i]
    BY <1>1, <1>3 DEF ReleaseInv, Mine
  <1> QED
    BY <1>2, <1>3

(* A bridge with listeners of req.on("close") only leaves with the last.    *)
LEMMA ReleaseStep ==
    ASSUME TypeOK, OnSocketInv, FreshInv, ReleaseInv, [Next]_vars
    PROVE  ReleaseInv'
  <1> USE DEF world, bridges, registered
  <1>1. CASE UNCHANGED vars
    BY <1>1 DEF vars, ReleaseInv
  <1>2. ASSUME NEW i \in Ids, AddCloseListener(i),
               \A j \in Ids : kind[j] # "none" => kind'[j] = kind[j]
        PROVE  ReleaseInv'
    <2>1. listening' = listening \cup {Owner[i]} /\ events' = events \cup {i}
      BY <1>2 DEF AddCloseListener, Listens
    <2> QED
      BY <1>2, <2>1 DEF ReleaseInv, Mine
  <1>3. ASSUME NEW i \in Ids, RequestOn(i) PROVE ReleaseInv'
    <2>1. \A j \in Ids : kind[j] # "none" => kind'[j] = kind[j]
      BY <1>3 DEF RequestOn, Register, Fresh, TypeOK
    <2> QED
      BY <1>2, <1>3, <2>1 DEF RequestOn, ReleaseInv, Mine
  <1>4. ASSUME NEW i \in Ids, NEW how \in {"on", "once"}, SocketOn(i, how) PROVE ReleaseInv'
    <2>1. \A j \in Ids : kind[j] # "none" => kind'[j] = kind[j]
      BY <1>4 DEF SocketOn, Register, Fresh, TypeOK
    <2> QED
      BY <1>2, <1>4, <2>1 DEF SocketOn
  <1>5. ASSUME NEW i \in Ids, SocketOff(i) PROVE ReleaseInv'
    BY <1>5, RemoveRelease DEF SocketOff
  <1>6. ASSUME NEW i \in Ids, Invoke(i), UNCHANGED <<socket, forwarding, kind>>
        PROVE  ReleaseInv'
    BY <1>6, InvokeIs, RemoveRelease DEF ReleaseInv
  <1>7. ASSUME NEW i \in Ids, Call(i) \/ CallSignalled(i) \/ HearAbort(i) PROVE ReleaseInv'
    <2>1. CASE Invoke(i)
      BY <1>6, <1>7, <2>1 DEF Call, CallSignalled, HearAbort
    <2>2. CASE ~Invoke(i)
      <3>1. kind[i] \in {"on", "once"} /\ Hear(i) /\ UNCHANGED kind
        BY <1>7, <2>2 DEF Call, CallSignalled, HearAbort, Hear, FreshInv, TypeOK
      <3>2. /\ UNCHANGED <<kind, listening>>
            /\ \A j \in events : j = i \/ j \in events'
        BY <3>1 DEF Hear
      <3> QED
        BY <3>1, <3>2 DEF ReleaseInv, Mine
    <2> QED
      BY <2>1, <2>2
  <1>8. ASSUME NEW i \in Ids, RunMicrotask(i) PROVE ReleaseInv'
    BY <1>6, <1>8 DEF RunMicrotask
  <1>9. ASSUME NEW r \in Requests, SignalClose(r) \/ ForwardClose(r) PROVE ReleaseInv'
    BY <1>9 DEF SignalClose, ForwardClose, StopsListening, ReleaseInv, Mine
  <1>10. ASSUME NEW r \in Requests,
                \/ Opens(r) \/ CreateStream(r)
                \/ OutgoingCloses(r) \/ Aborts(r) \/ StreamCloses(r)
         PROVE  ReleaseInv'
    BY <1>10 DEF Opens, CreateStream, OutgoingCloses, Aborts, StreamCloses, ReleaseInv
  <1>11. CASE SocketCloses
    BY <1>11 DEF SocketCloses, ReleaseInv
  <1> QED
    BY <1>1, <1>3, <1>4, <1>5, <1>7, <1>8, <1>9, <1>10, <1>11 DEF Next, HandlerStep, Event

-----------------------------------------------------------------------------
(* The theorems.                                                            *)

(* The strengthening holds initially.                                       *)
LEMMA InitInv == Init => IInv
  BY OwnerAssumption
  DEF Init, IInv, TypeOK, Several, OneSocketListener, BridgedIsHeard, FlagInv, FreshInv,
      RequestInv, ReleaseInv

(* Every step, and every stutter, keeps the strengthening.                  *)
LEMMA StepInv == IInv /\ [Next]_vars => IInv'
  BY TypeStep, HeardStep, FreshStep, RequestStep, ReleaseStep DEF IInv, OnSocketInv

(* The strengthening holds in every behaviour of the connection.            *)
THEOREM Inductive == Spec => []IInv
  BY InitInv, StepInv, PTL DEF Spec

(* A bridge has one listener on the open socket while it has any listener   *)
(* of its own to serve, and none otherwise (socket-bridge.ts:29-38).        *)
THEOREM BridgeListensOnce == Spec => []OneSocketListener
  <1>1. IInv => OneSocketListener
    BY DEF IInv
  <1> QED
    BY <1>1, Inductive, PTL

(* No call of the bridge disconnects a listener that was not called yet     *)
(* (socket-bridge.ts:39-48).                                                *)
THEOREM ListenersStayConnected == Spec => []BridgedIsHeard
  <1>1. IInv => BridgedIsHeard
    BY DEF IInv
  <1> QED
    BY <1>1, Inductive, PTL

(* req.on("close") reports the end of a request exactly once                *)
(* (request-state.ts:36-54).                                                *)
THEOREM CloseIsReportedOnce == Spec => []CloseReportedOnce
  <1>1. IInv => CloseReportedOnce
    BY DEF IInv, TypeOK, Several, FreshInv, RequestInv, CloseReportedOnce, Busy
  <1> QED
    BY <1>1, Inductive, PTL

(* A request that uses req.on("close") only leaves the keep-alive socket as *)
(* it found it.                                                             *)
THEOREM SocketIsReleased == Spec => []ResponseReleasesSocket
  <1>1. ASSUME IInv, socket = "open", ~Busy, NEW r \in Requests, phase[r] = "closed",
               onSocket[r] > 0
        PROVE  \E i \in Mine(r) : kind[i] \in {"on", "once"} \/ i \in late
    <2>1. r \in listening
      BY <1>1 DEF IInv, OneSocketListener
    <2>2. CASE \E i \in Mine(r) : kind[i] \in {"on", "once"}
      BY <2>2
    <2>3. CASE \E i \in Mine(r) : i \in events /\ kind[i] \notin {"on", "once"}
      <3>1. PICK i \in Mine(r) : i \in events /\ kind[i] \notin {"on", "once"}
        BY <2>3
      <3>2. i \in Ids /\ Owner[i] = r /\ kind[i] = "request" /\ calls[i] \in 0..Several
        BY <1>1, <3>1 DEF Mine, IInv, TypeOK, FreshInv
      <3>3. calls[i] = 0 /\ i \notin queued
        BY <1>1, <3>1, <3>2 DEF IInv, RequestInv, Several
      <3>4. i \in late
        BY <1>1, <3>2, <3>3 DEF IInv, RequestInv, Busy
      <3> QED
        BY <3>1, <3>4
    <2> QED
      BY <1>1, <2>1, <2>2, <2>3 DEF IInv, ReleaseInv
  <1>2. IInv => ResponseReleasesSocket
    BY <1>1 DEF ResponseReleasesSocket
  <1> QED
    BY <1>2, Inductive, PTL
=============================================================================
