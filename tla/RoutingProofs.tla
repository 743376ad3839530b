--------------------------- MODULE RoutingProofs ---------------------------
(***************************************************************************)
(* Theorems of Routing, for any paths, registrations, requests and router. *)
(* The exchange of the fast path implements FastDispatch's Hono.  WalkInv  *)
(* is what every other proof of the layers rests on; OnceInv, LateInv,     *)
(* HeadInv, EditsInv and OrderInv each hold the property of their section  *)
(* together with what keeps it true.                                       *)
(***************************************************************************)
EXTENDS Routing, SequenceTheorems, WellFoundedInduction, TLAPS

-----------------------------------------------------------------------------
(* The exchange of the fast path implements Hono's #dispatch() and          *)
(* compose().                                                               *)

(* What the phase of the exchange says of the layer, the error and the      *)
(* result at hand.                                                          *)
FastInv ==
    /\ layer \in 0..2
    /\ phase = "prepare" => layer = 0
    /\ phase = "prepared" => layer = 1
    /\ phase \in {"route", "pendingRoute"} => layer = 2
    /\ phase \in {"finish", "handleError", "done"} => layer = 0
    /\ phase = "outer" => value = "context" /\ isError = FALSE
    /\ phase = "pendingError" => error = "Error"
    /\ phase \in {"fail", "handleError"} => error \in Fast!Errors

HonoNext == [Fast!Hono!Next]_(Fast!Hono!vars)

USE DEF Fast!REQUEST_LAYER, Fast!ROUTE_LAYER

(* Every step of the exchange keeps the invariant.                          *)
LEMMA FastInvStep ==
    ASSUME FastInv, [Fast!Next]_fastVars PROVE FastInv'
<1> USE DEF FastInv, Fast!Errors
<1>1. CASE Fast!Prepare
  BY <1>1 DEF Fast!Prepare, Fast!Fail
<1>2. CASE Fast!RunRoute
  BY <1>2 DEF Fast!RunRoute
<1>3. CASE Fast!PromiseSettles
  BY <1>3 DEF Fast!PromiseSettles, Fast!Settle, Fast!Fail, Fast!FailOuter,
              Fast!ToHandleError
<1>4. CASE Fast!SetResponse
  BY <1>4 DEF Fast!SetResponse, Fast!Outward, Fast!FailOuter, Fast!Fail,
              Fast!ToHandleError
<1>5. CASE Fast!PassOuter
  BY <1>5 DEF Fast!PassOuter, Fast!Outward, Fast!FailOuter, Fast!Fail, Fast!ToHandleError
<1>6. CASE Fast!Finish
  BY <1>6 DEF Fast!Finish, Fast!ToHandleError
<1>7. CASE Fast!CallErrorHandler
  BY <1>7 DEF Fast!CallErrorHandler, Fast!FailOuter, Fast!Fail, Fast!ToHandleError,
              Fast!Settle
<1>8. CASE Fast!FailWithOther
  BY <1>8 DEF Fast!FailWithOther, Fast!ToHandleError
<1>9. CASE Fast!HandleError
  BY <1>9 DEF Fast!HandleError
<1>10. CASE Fast!RouteReports
  BY <1>10 DEF Fast!RouteReports, Fast!Settle, Fast!Fail
<1>11. CASE Fast!Reply
  BY <1>11 DEF Fast!Reply
<1>12. CASE Fast!CallNext
  BY <1>12 DEF Fast!CallNext
<1>13. CASE Fast!NotFoundReturns
  BY <1>13 DEF Fast!NotFoundReturns
<1>14. CASE UNCHANGED fastVars
  BY <1>14 DEF fastVars
<1> QED
  BY <1>1, <1>2, <1>3, <1>4, <1>5, <1>6, <1>7, <1>8, <1>9, <1>10, <1>11, <1>12, <1>13,
     <1>14 DEF Fast!Next, Fast!Step

(* Every step of the exchange is a step of compose(), or none of it sees.   *)
LEMMA FastRefines ==
    ASSUME FastInv, [Fast!Next]_fastVars PROVE HonoNext
<1> USE DEF FastInv, Fast!Errors, Fast!Values, Fast!Handled,
            Fast!Hono!Errors, Fast!Hono!Values, Fast!Hono!Handled, Fast!Mode
<1>1. CASE Fast!Prepare
  <2>1. Fast!Hono!Descend \/ Fast!Hono!Throws
    BY <1>1 DEF Fast!Prepare, Fast!Fail, Fast!Hono!Descend, Fast!Hono!Throws
  <2> QED
    BY <2>1 DEF HonoNext, Fast!Hono!Next
<1>2. CASE Fast!RunRoute
  <2>1. Fast!Hono!Descend
    BY <1>2 DEF Fast!RunRoute, Fast!Hono!Descend
  <2> QED
    BY <2>1 DEF HonoNext, Fast!Hono!Next
<1>3. CASE Fast!PromiseSettles
  <2>1. Fast!Hono!RouteReturns \/ Fast!Hono!Throws \/ Fast!Hono!Catch
    <3>1. CASE phase = "pendingRoute"
      BY <1>3, <3>1 DEF Fast!PromiseSettles, Fast!Settle, Fast!Fail,
         Fast!Hono!RouteReturns, Fast!Hono!Throws
    <3>2. CASE phase = "pendingError"
      BY <1>3, <3>2 DEF Fast!PromiseSettles, Fast!Settle, Fast!FailOuter, Fast!Fail,
         Fast!ToHandleError, Fast!Hono!Catch, Fast!Hono!Rejects
    <3> QED
      BY <1>3, <3>1, <3>2 DEF Fast!PromiseSettles
  <2> QED
    BY <2>1 DEF HonoNext, Fast!Hono!Next
<1>4. CASE Fast!SetResponse
  <2>1. Fast!Hono!Assign
    BY <1>4 DEF Fast!SetResponse, Fast!Assigns, Fast!Outward, Fast!FailOuter,
       Fast!Fail, Fast!ToHandleError, Fast!Hono!Assign, Fast!Hono!Rejects
  <2> QED
    BY <2>1 DEF HonoNext, Fast!Hono!Next
<1>5. CASE Fast!PassOuter
  <2>1. Fast!Hono!Assign
    BY <1>5 DEF Fast!PassOuter, Fast!Outward, Fast!FailOuter,
       Fast!Fail, Fast!ToHandleError, Fast!Hono!Assign, Fast!Hono!Rejects
  <2> QED
    BY <2>1 DEF HonoNext, Fast!Hono!Next
<1>6. CASE Fast!Finish
  <2>1. Fast!Hono!Finish
    BY <1>6 DEF Fast!Finish, Fast!ToHandleError, Fast!Hono!Finish
  <2> QED
    BY <2>1 DEF HonoNext, Fast!Hono!Next
<1>7. CASE Fast!CallErrorHandler
  <2>1. Fast!Hono!Catch \/ UNCHANGED Fast!Hono!vars
    BY <1>7 DEF Fast!CallErrorHandler, Fast!FailOuter, Fast!Fail, Fast!ToHandleError,
       Fast!Settle, Fast!Hono!Catch, Fast!Hono!Rejects, Fast!Hono!vars
  <2> QED
    BY <2>1 DEF HonoNext, Fast!Hono!Next
<1>8. CASE Fast!FailWithOther
  <2>1. Fast!Hono!Catch
    BY <1>8 DEF Fast!FailWithOther, Fast!ToHandleError, Fast!Hono!Catch
  <2> QED
    BY <2>1 DEF HonoNext, Fast!Hono!Next
<1>9. CASE Fast!HandleError
  <2>1. Fast!Hono!HandleError
    BY <1>9 DEF Fast!HandleError, Fast!Hono!HandleError
  <2> QED
    BY <2>1 DEF HonoNext, Fast!Hono!Next
<1>10. CASE Fast!RouteReports
  <2>1. phase = "route"
    BY <1>10 DEF Fast!RouteReports, Fast!FirstReport
  <2>2. Fast!Hono!RouteReturns \/ Fast!Hono!Throws \/ UNCHANGED Fast!Hono!vars
    BY <1>10, <2>1 DEF Fast!RouteReports, Fast!Settle, Fast!Fail,
       Fast!Hono!RouteReturns, Fast!Hono!Throws, Fast!Hono!vars
  <2> QED
    BY <2>2 DEF HonoNext, Fast!Hono!Next
<1>11. CASE Fast!Reply
  <2>1. Fast!Hono!Reply
    BY <1>11 DEF Fast!Reply, Fast!Hono!Reply
  <2> QED
    BY <2>1 DEF HonoNext, Fast!Hono!Next
<1>12. CASE Fast!CallNext
  <2>1. Fast!Hono!CallNext
    BY <1>12 DEF Fast!CallNext, Fast!Waiting, Fast!Hono!CallNext
  <2> QED
    BY <2>1 DEF HonoNext, Fast!Hono!Next
<1>13. CASE Fast!NotFoundReturns
  <2>1. Fast!Hono!NotFoundReturns
    BY <1>13 DEF Fast!NotFoundReturns, Fast!NotFoundResponses, Fast!Hono!NotFoundReturns
  <2> QED
    BY <2>1 DEF HonoNext, Fast!Hono!Next
<1>14. CASE UNCHANGED fastVars
  BY <1>14 DEF fastVars, HonoNext, Fast!Hono!vars
<1> QED
  BY <1>1, <1>2, <1>3, <1>4, <1>5, <1>6, <1>7, <1>8, <1>9, <1>10, <1>11, <1>12, <1>13,
     <1>14 DEF Fast!Next, Fast!Step

(* Every step of Routing is a step of the exchange, or leaves it alone.     *)
LEMMA FastSteps ==
    ASSUME [Next]_vars PROVE [Fast!Next]_fastVars
BY DEF Next, vars, Register, ReplaceFetch, ReplaceGetPath, InitHttpServer,
   SetNotFoundHandler, PrepareClose, Arrive, ArriveBad, Shutdown, TryHeadRoutes,
   RunHandler, NotFound, FastStep, FastOther, Done, Fast!Next

(* The phase of the exchange says what layer, error and result it has at    *)
(* hand: an invariant.                                                      *)
THEOREM FastInductive == Spec => []FastInv
<1>1. Init => FastInv
  <2>1. Init => Fast!Init
    BY DEF Init
  <2>2. Fast!Init => FastInv
    BY DEF Fast!Init, FastInv
  <2> QED
    BY <2>1, <2>2
<1>2. FastInv /\ [Next]_vars => FastInv'
  BY FastSteps, FastInvStep
<1> QED
  BY <1>1, <1>2, PTL DEF Spec

(* FastDispatch implements Hono's #dispatch() and compose() for the         *)
(* requests that Routing gives it.                                          *)
THEOREM SemanticsKept == Spec => KeepsHonoSemantics
<1>1. Init => Fast!Hono!Init
  BY DEF Init, Fast!Init, Fast!Hono!Init, Fast!Mode
<1>2. FastInv /\ [Next]_vars => [Fast!Hono!Next]_(Fast!Hono!vars)
  BY FastSteps, FastRefines DEF HonoNext
<1> QED
  BY <1>1, <1>2, FastInductive, PTL DEF Spec, KeepsHonoSemantics, Fast!KeepsHonoSemantics,
     Fast!Hono!Spec

-----------------------------------------------------------------------------
(* Lemmas about sets and sequences.                                         *)

(* A set of naturals has a least member.                                    *)
LEMMA Least ==
    ASSUME NEW T, T \subseteq Nat, T # {} PROVE \E x \in T : \A y \in T : x <= y
<1>1. IsWellFoundedOn(OpToRel(<, Nat), Nat)
  BY NatLessThanWellFounded
<1>2. PICK x \in T : \A y \in T : ~ (<<y, x>> \in OpToRel(<, Nat))
  BY <1>1, WFMin, Zenon
<1>3. ASSUME NEW y \in T PROVE x <= y
  <2>2. x \in Nat /\ y \in Nat
    OBVIOUS
  <2>3. ~(<<y, x>> \in OpToRel(<, Nat))
    BY <1>2
  <2>4. <<y, x>> \in OpToRel(<, Nat) <=> y < x
    BY <2>2 DEF OpToRel
  <2>5. ~(y < x)
    BY <2>3, <2>4, Zenon
  <2> QED
    BY <2>2, <2>5
<1> QED
  BY <1>3

(* Min is that member.                                                      *)
LEMMA MinIsLeast ==
    ASSUME NEW T, T \subseteq Nat, T # {} PROVE Min(T) \in T /\ \A y \in T : Min(T) <= y
BY Least, Zenon DEF Min

(* Append() of what is known to be a sequence by its length only.           *)
LEMMA AppendIs ==
    ASSUME NEW s, NEW e, Len(s) \in Nat, s = [i \in 1..Len(s) |-> s[i]]
    PROVE  /\ Len(Append(s, e)) = Len(s) + 1
           /\ Append(s, e) = [i \in 1..Len(Append(s, e)) |-> Append(s, e)[i]]
           /\ \A i \in 1..Len(s) : Append(s, e)[i] = s[i]
           /\ Append(s, e)[Len(s) + 1] = e
<1> DEFINE S == {s[i] : i \in 1..Len(s)} \cup {e}
<1>1. s \in Seq(S)
  BY SeqDef
<1> HIDE DEF S
<1>2. e \in S
  BY DEF S
<1>3. /\ Append(s, e) \in Seq(S) /\ Len(Append(s, e)) = Len(s) + 1
      /\ \A i \in 1..Len(s) : Append(s, e)[i] = s[i]
      /\ Append(s, e)[Len(s) + 1] = e
  BY <1>1, <1>2, AppendProperties
<1>4. Append(s, e) = [i \in 1..Len(Append(s, e)) |-> Append(s, e)[i]]
  BY <1>3, LenProperties
<1> QED
  BY <1>3, <1>4

-----------------------------------------------------------------------------
(* hono.routes, whatever is registered and in whatever order.               *)

(* What the layers are: their kinds, those the adapter adds itself, and     *)
(* those that are only handlers of a layer.                                 *)
AdapterKinds == {"request", "shutdown", "body"}
RunKinds == {"headRun", "getRun"}
Kinds == AdapterKinds \cup {"catchAll", "parser", "useAll", "use", "all", "get", "head",
                            "other", "middleware", "headMiddleware"}
LayerPaths == HonoPaths \cup {PrefixOf[path] : path \in HonoPaths} \cup {AnyPath}
Layers ==
    [method : {"ALL", "GET", "POST"}, path : LayerPaths, kind : Kinds \cup RunKinds,
     reg : 0..MaxSetup, nest : Paths \cup {<<>>}]

(* What a layer of hono.routes is like, whatever was registered.            *)
LayerOK(l) ==
    /\ l.kind \in Kinds
    /\ l.reg = 0 <=> l.kind \in AdapterKinds
    /\ l.kind \in {"get", "head"} => l.path \in HonoPaths
    /\ l.kind \in {"use", "useAll", "shutdown"} => l.method = "ALL"
    /\ l.kind \in {"useAll", "shutdown"} => l.path = AnyPath

(* The kind and the method of the layers of a registration.                 *)
KindOf(method) ==
    CASE method \in {"useAll", "catchAll", "parser", "all", "use", "get", "head"} -> method
      [] method = "post" -> "other"
      [] method \in {"middleware ALL", "middleware GET"} -> "middleware"
      [] method = "middleware HEAD" -> "headMiddleware"
MethodOf(method) ==
    CASE method \in {"useAll", "catchAll", "parser", "all", "use", "middleware ALL"} -> "ALL"
      [] method \in {"get", "head", "middleware GET", "middleware HEAD"} -> "GET"
      [] method = "post" -> "POST"

(* The layers of a registration are such layers.                            *)
LEMMA NewIsOK ==
    ASSUME NEW r \in Registrations, NEW reg \in 1..MaxSetup, NEW l, 
      l.reg = reg, l.kind = KindOf(r.method), l.method = MethodOf(r.method),
      l.kind \in {"get", "head"} => l.path \in HonoPaths,
      l.kind = "useAll" => l.path = AnyPath
    PROVE LayerOK(l)
<1>1. r.method \in {"all", "use", "useAll", "catchAll", "parser", "get", "head", "post",
               "middleware ALL", "middleware GET", "middleware HEAD"}
  BY DEF Registrations
<1>2. KindOf(r.method) \in Kinds \ AdapterKinds
  BY <1>1 DEF KindOf, Kinds, AdapterKinds
<1>3. KindOf(r.method) \in {"use", "useAll"} => MethodOf(r.method) = "ALL"
  BY <1>1 DEF KindOf, MethodOf
<1>4. l.kind # "shutdown" /\ l.kind \in Kinds
  BY <1>2 DEF AdapterKinds
<1>5. l.reg # 0
  BY SetupAssumption
<1> QED
  BY <1>2, <1>3, <1>4, <1>5 DEF LayerOK

(* LayersOf() is a sequence of layers of one registration.                  *)
LEMMA LayersOfIs ==
    ASSUME NEW r \in Registrations, NEW reg \in 1..MaxSetup
    PROVE  /\ LayersOf(r, reg) \in Seq(Layers)
           /\ \A i \in DOMAIN LayersOf(r, reg) :
                LET l == LayersOf(r, reg)[i]
                IN  /\ l.reg = reg /\ l.kind = KindOf(r.method)
                    /\ l.method = MethodOf(r.method) /\ LayerOK(l)
           /\ r.method = "head" => DOMAIN LayersOf(r, reg) = DOMAIN HonoPathsOf[r.path]
<1>1. r.method \in {"all", "use", "useAll", "catchAll", "parser", "get", "head", "post",
               "middleware ALL", "middleware GET", "middleware HEAD"} /\ r.path \in Paths
  BY DEF Registrations
<1>2. HonoPathsOf[r.path] \in Seq(HonoPaths)
  BY <1>1, PathsAssumption
<1>3. reg \in 0..MaxSetup /\ reg \in Nat /\ reg # 0 /\ MaxSetup \in Nat
  BY SetupAssumption
<1>4. CASE r.method \in {"useAll", "catchAll", "parser"}
  <2> DEFINE l == EveryRequest(r.method, reg)
  <2>1. LayersOf(r, reg) = <<l>>
    BY <1>4 DEF LayersOf
  <2>2. l \in Layers /\ l.reg = reg /\ l.kind = r.method /\ l.method = "ALL" /\ l.path = AnyPath
    BY <1>3, <1>4 DEF EveryRequest, Layer, Layers, Kinds, AdapterKinds, LayerPaths
  <2>3. r.method = KindOf(r.method) /\ "ALL" = MethodOf(r.method)
    BY <1>4 DEF KindOf, MethodOf
  <2> HIDE DEF l
  <2>4. LayerOK(l)
    BY <2>2, <2>3, <1>4, NewIsOK
  <2> QED
    BY <2>1, <2>2, <2>3, <2>4, <1>4
<1>5. CASE r.method \notin {"useAll", "catchAll", "parser"}
  <2> DEFINE honoPaths == HonoPathsOf[r.path]
             P(i) == IF r.method = "use" THEN PrefixOf[honoPaths[i]] ELSE honoPaths[i]
             L(i) == Layer(MethodOf(r.method), P(i), KindOf(r.method), reg, r.path)
  <2>1. LayersOf(r, reg) = [i \in DOMAIN honoPaths |-> L(i)]
    BY <1>1, <1>5 DEF LayersOf, KindOf, MethodOf
  <2>2. ASSUME NEW i \in DOMAIN honoPaths
        PROVE  /\ L(i) \in Layers /\ L(i).reg = reg /\ L(i).kind = KindOf(r.method)
               /\ L(i).method = MethodOf(r.method) /\ L(i).path = P(i)
    <3>1. honoPaths[i] \in HonoPaths
      BY <1>2
    <3>2. P(i) \in LayerPaths
      BY <3>1 DEF LayerPaths
    <3>3. KindOf(r.method) \in Kinds /\ MethodOf(r.method) \in {"ALL", "GET", "POST"}
      BY <1>1 DEF KindOf, MethodOf, Kinds
    <3> QED
      BY <3>2, <3>3, <1>1, <1>3 DEF Layer, Layers
  <2>3. ASSUME NEW i \in DOMAIN honoPaths PROVE LayerOK(L(i))
    <3>1. honoPaths[i] \in HonoPaths
      BY <1>2
    <3>2. L(i).kind \in {"get", "head"} => L(i).path \in HonoPaths
      BY <2>2, <3>1, <1>1 DEF KindOf
    <3>3. L(i).kind # "useAll"
      BY <2>2, <1>1, <1>5 DEF KindOf
    <3> HIDE DEF L
    <3> QED
      BY <2>2, <3>2, <3>3, NewIsOK
  <2> HIDE DEF L, P
  <2>4. LayersOf(r, reg) \in Seq(Layers) /\ DOMAIN LayersOf(r, reg) = DOMAIN honoPaths
    <3>1. honoPaths \in [1..Len(honoPaths) -> HonoPaths] /\ Len(honoPaths) \in Nat
      BY <1>2, LenProperties
    <3>2. [i \in DOMAIN honoPaths |-> L(i)] \in [1..Len(honoPaths) -> Layers]
      BY <3>1, <2>2
    <3> QED
      BY <3>1, <3>2, <2>1, SeqDef
  <2> QED
    BY <2>1, <2>2, <2>3, <2>4
<1> QED
  BY <1>4, <1>5

HeadEntries == [reg : 0..MaxSetup, nest : Paths]

(* The types of what registration changes.                                  *)
RoutesOK ==
    /\ routes \in Seq(Layers)
    /\ headRouteHandlers \in [HonoPaths -> Seq(HeadEntries)]
    /\ setup \in 0..MaxSetup
    /\ fetch \in {"hono", "own"}

(* The layers are in the order of their registrations, and a registration   *)
(* has layers of one kind and method.                                       *)
RegistrationsInv ==
    /\ \A i \in DOMAIN routes : LayerOK(routes[i]) /\ routes[i].reg <= setup
    /\ \A i, j \in DOMAIN routes :
          i < j /\ routes[j].reg # 0 => routes[i].reg <= routes[j].reg
    /\ \A i, j \in DOMAIN routes :
          routes[i].reg = routes[j].reg /\ routes[i].reg # 0 =>
            routes[i].kind = routes[j].kind /\ routes[i].method = routes[j].method

(* Every HEAD handler is that of a registered HEAD route.                   *)
IsFrom(rs, kind, reg) == \E i \in DOMAIN rs : rs[i].reg = reg /\ rs[i].kind = kind

HandlersInv ==
    \A path \in HonoPaths : \A k \in DOMAIN headRouteHandlers[path] :
        IsFrom(routes, "head", headRouteHandlers[path][k].reg)

(* Until the server is made only handlers that pass on are registered, so   *)
(* that the shutdown layer comes before every other; it exists once the     *)
(* flag is set.                                                             *)
Passing == {"request", "catchAll"}
ShutdownInv ==
    /\ serverFetch = None => \A i \in DOMAIN routes : routes[i].kind \in Passing
    /\ \A i, k \in DOMAIN routes :
          routes[i].kind = "shutdown" /\ k < i => routes[k].kind \in Passing
    /\ isShuttingDown => \E i \in DOMAIN routes : routes[i].kind = "shutdown"

(* All of it.                                                               *)
RoutesInv == RoutesOK /\ RegistrationsInv /\ HandlersInv /\ ShutdownInv

(* The elements of two sequences, one behind the other.                     *)
LEMMA Grown ==
    ASSUME NEW rs \in Seq(Layers), NEW new \in Seq(Layers)
    PROVE  /\ rs \o new \in Seq(Layers)
           /\ \A i \in DOMAIN rs : i \in DOMAIN (rs \o new) /\ (rs \o new)[i] = rs[i]
           /\ \A k \in DOMAIN new :
                /\ Len(rs) + k \in DOMAIN (rs \o new) /\ (rs \o new)[Len(rs) + k] = new[k]
           /\ \A i \in DOMAIN (rs \o new) :
                \/ i \in DOMAIN rs /\ (rs \o new)[i] = rs[i]
                \/ \E k \in DOMAIN new : i = Len(rs) + k /\ (rs \o new)[i] = new[k]
<1>1. /\ DOMAIN rs = 1..Len(rs) /\ Len(rs) \in Nat
      /\ DOMAIN new = 1..Len(new) /\ Len(new) \in Nat
  BY LenProperties
<1>2. /\ rs \o new \in Seq(Layers) /\ Len(rs \o new) = Len(rs) + Len(new)
      /\ \A i \in 1..(Len(rs) + Len(new)) :
            (rs \o new)[i] = IF i <= Len(rs) THEN rs[i] ELSE new[i - Len(rs)]
  BY ConcatProperties
<1>3. DOMAIN (rs \o new) = 1..(Len(rs) + Len(new))
  BY <1>2, LenProperties
<1> DEFINE all == rs \o new
<1> HIDE DEF all
<1>4. ASSUME NEW i \in DOMAIN rs PROVE i \in DOMAIN all /\ all[i] = rs[i]
  BY <1>1, <1>2, <1>3 DEF all
<1>5. ASSUME NEW k \in DOMAIN new
      PROVE  Len(rs) + k \in DOMAIN all /\ all[Len(rs) + k] = new[k]
  BY <1>1, <1>2, <1>3 DEF all
<1>6. ASSUME NEW i \in DOMAIN all
      PROVE  \/ i \in DOMAIN rs /\ all[i] = rs[i]
             \/ \E k \in DOMAIN new : i = Len(rs) + k /\ all[i] = new[k]
  <2>1. CASE i <= Len(rs)
    BY <2>1, <1>1, <1>2, <1>3 DEF all
  <2>2. CASE ~(i <= Len(rs))
    <3>1. i - Len(rs) \in DOMAIN new /\ all[i] = new[i - Len(rs)] /\ i = Len(rs) + (i - Len(rs))
      BY <2>2, <1>1, <1>2, <1>3 DEF all
    <3> QED
      BY <3>1
  <2> QED
    BY <2>1, <2>2
<1> QED
  BY <1>2, <1>4, <1>5, <1>6 DEF all

(* all is rs with new behind it.                                           *)
Joins(all, rs, new) ==
    /\ all \in Seq(Layers)
    /\ \A i \in DOMAIN rs : i \in DOMAIN all /\ all[i] = rs[i]
    /\ \A k \in DOMAIN new : Len(rs) + k \in DOMAIN all /\ all[Len(rs) + k] = new[k]
    /\ \A i \in DOMAIN all :
         \/ i \in DOMAIN rs /\ all[i] = rs[i]
         \/ \E k \in DOMAIN new : i = Len(rs) + k /\ all[i] = new[k]

LEMMA GrownJoins ==
    ASSUME NEW rs \in Seq(Layers), NEW new \in Seq(Layers)
    PROVE  Joins(rs \o new, rs, new)
  BY Grown DEF Joins

(* What a registration changes,                                             *)
RegisterIs(r) ==
    /\ r \in Registrations /\ ~frozen /\ setup < MaxSetup /\ setup' = setup + 1
    /\ serverFetch # None \/ r.method = "catchAll"
    /\ routes' = routes \o LayersOf(r, setup + 1)
    /\ headRouteHandlers' = HeadHandlers(r, setup + 1)
    /\ UNCHANGED <<serverFetch, fetch, isShuttingDown>>

(* keeps what holds of the routes.                                          *)
LEMMA RegisterKeeps ==
    ASSUME RoutesInv, NEW r, RegisterIs(r) PROVE RoutesInv'
<1> DEFINE reg == setup + 1
           new == LayersOf(r, reg)
<1>1. /\ routes \in Seq(Layers) /\ setup \in Nat /\ reg \in 1..MaxSetup /\ reg # 0
      /\ setup' = reg /\ setup' \in 0..MaxSetup /\ r \in Registrations /\ setup < reg
      /\ \A n \in Nat : n <= setup => n <= reg /\ n # reg
  BY SetupAssumption DEF RoutesInv, RoutesOK, RegisterIs
<1>2. routes' = routes \o new
  BY DEF RegisterIs
<1>3. headRouteHandlers' = HeadHandlers(r, reg)
  BY DEF RegisterIs
<1> HIDE DEF reg
<1>4. /\ new \in Seq(Layers)
      /\ \A k \in DOMAIN new : /\ new[k].reg = reg /\ LayerOK(new[k])
                               /\ new[k].kind = KindOf(r.method)
                               /\ new[k].method = MethodOf(r.method)
      /\ r.method = "head" => DOMAIN new = DOMAIN HonoPathsOf[r.path]
  BY <1>1, LayersOfIs
<1> HIDE DEF new
<1>5. /\ routes' \in Seq(Layers)
      /\ \A i \in DOMAIN routes : i \in DOMAIN routes' /\ routes'[i] = routes[i]
      /\ \A k \in DOMAIN new :
            Len(routes) + k \in DOMAIN routes' /\ routes'[Len(routes) + k] = new[k]
      /\ \A i \in DOMAIN routes' :
            \/ i \in DOMAIN routes /\ routes'[i] = routes[i]
            \/ \E k \in DOMAIN new : i = Len(routes) + k /\ routes'[i] = new[k]
  BY <1>1, <1>2, <1>4, Grown
<1> DEFINE IsOld(i) == i \in DOMAIN routes /\ routes'[i] = routes[i]
           IsNewLayer(i) == /\ routes'[i].reg = reg /\ LayerOK(routes'[i])
                            /\ routes'[i].kind = KindOf(r.method)
                            /\ routes'[i].method = MethodOf(r.method)
                            /\ i > Len(routes)
<1>6. DOMAIN routes = 1..Len(routes) /\ Len(routes) \in Nat /\ DOMAIN new \subseteq Nat \ {0}
      /\ DOMAIN routes' \subseteq Nat
  BY <1>1, <1>4, <1>5, LenProperties
<1>7. \A i \in DOMAIN routes' : IsOld(i) \/ IsNewLayer(i)
  BY <1>4, <1>5, <1>6
<1>8. \A i \in DOMAIN routes : routes[i].reg \in Nat /\ routes[i].reg <= setup
      /\ LayerOK(routes[i])
  <2>1. ASSUME NEW i \in DOMAIN routes PROVE routes[i] \in Layers
    BY <1>1
  <2>2. ASSUME NEW i \in DOMAIN routes PROVE routes[i].reg \in Nat
    BY <2>1, SetupAssumption DEF Layers
  <2> QED
    BY <2>2 DEF RoutesInv, RegistrationsInv
<1> HIDE DEF IsOld, IsNewLayer
<1>9. RoutesOK'
  <2>1. headRouteHandlers' \in [HonoPaths -> Seq(HeadEntries)]
    <3>1. [reg |-> reg, nest |-> r.path] \in HeadEntries
      BY <1>1 DEF Registrations, HeadEntries
    <3>2. ASSUME NEW path \in HonoPaths
          PROVE  Append(headRouteHandlers[path], [reg |-> reg, nest |-> r.path])
                    \in Seq(HeadEntries)
      BY <3>1, AppendProperties DEF RoutesInv, RoutesOK
    <3> QED
      BY <1>3, <3>2 DEF RoutesInv, RoutesOK, HeadHandlers
  <2> QED
    BY <1>1, <1>5, <2>1 DEF RoutesInv, RoutesOK, RegisterIs
<1>10. RegistrationsInv'
  <2>1. ASSUME NEW i \in DOMAIN routes' PROVE LayerOK(routes'[i]) /\ routes'[i].reg <= setup'
    BY <1>1, <1>7, <1>8 DEF IsOld, IsNewLayer
  <2>2. ASSUME NEW i \in DOMAIN routes', NEW j \in DOMAIN routes', i < j, routes'[j].reg # 0
        PROVE  routes'[i].reg <= routes'[j].reg
    <3>1. CASE IsOld(j)
      <4>1. IsOld(i)
        BY <2>2, <3>1, <1>6, <1>7 DEF IsOld, IsNewLayer
      <4> QED
        BY <2>2, <3>1, <4>1 DEF IsOld, RoutesInv, RegistrationsInv
    <3>2. CASE IsNewLayer(j)
      BY <3>2, <1>1, <1>7, <1>8 DEF IsOld, IsNewLayer
    <3> QED
      BY <3>1, <3>2, <1>7
  <2>3. ASSUME NEW i \in DOMAIN routes', NEW j \in DOMAIN routes',
               routes'[i].reg = routes'[j].reg, routes'[i].reg # 0
        PROVE  routes'[i].kind = routes'[j].kind /\ routes'[i].method = routes'[j].method
    <3>1. CASE IsOld(i) /\ IsOld(j)
      BY <2>3, <3>1 DEF IsOld, RoutesInv, RegistrationsInv
    <3>2. CASE IsNewLayer(i) /\ IsNewLayer(j)
      BY <3>2 DEF IsNewLayer
    <3>3. ~(IsOld(i) /\ IsNewLayer(j)) /\ ~(IsNewLayer(i) /\ IsOld(j))
      BY <2>3, <1>1, <1>8 DEF IsOld, IsNewLayer
    <3> QED
      BY <3>1, <3>2, <3>3, <1>7
  <2>4. \A i \in DOMAIN routes' : LayerOK(routes[i])' /\ routes'[i].reg <= setup'
    BY <2>1 DEF LayerOK
  <2> QED
    BY <2>2, <2>3, <2>4 DEF RegistrationsInv
<1>11. \A kind, n : IsFrom(routes, kind, n) => IsFrom(routes', kind, n)
  BY <1>5 DEF IsFrom
<1>12. HandlersInv'
  <2> SUFFICES ASSUME NEW path \in HonoPaths, NEW k \in DOMAIN headRouteHandlers'[path]
               PROVE  IsFrom(routes', "head", headRouteHandlers'[path][k].reg)
    BY DEF HandlersInv
  <2> DEFINE old == headRouteHandlers[path]
             entry == [reg |-> reg, nest |-> r.path]
  <2>1. old \in Seq(HeadEntries) /\ DOMAIN old = 1..Len(old)
        /\ Len(old) \in Nat
    BY LenProperties DEF RoutesInv, RoutesOK
  <2>2. CASE k \in DOMAIN old /\ headRouteHandlers'[path][k] = old[k]
    <3>1. IsFrom(routes, "head", old[k].reg)
      BY <2>2 DEF RoutesInv, HandlersInv
    <3>2. IsFrom(routes', "head", old[k].reg)
      BY <3>1, <1>11
    <3> QED
      BY <3>2, <2>2
  <2>3. CASE /\ headRouteHandlers'[path][k] = entry
             /\ r.method = "head" /\ path \in ToSet(HonoPathsOf[r.path])
    <3>1. PICK n \in DOMAIN HonoPathsOf[r.path] : TRUE
      BY <2>3 DEF ToSet
    <3>2. n \in DOMAIN new
      BY <3>1, <2>3, <1>4
    <3>3. Len(routes) + n \in DOMAIN routes' /\ routes'[Len(routes) + n].reg = reg
          /\ routes'[Len(routes) + n].kind = "head"
      BY <3>2, <2>3, <1>4, <1>5 DEF KindOf
    <3>4. headRouteHandlers'[path][k].reg = reg
      BY <2>3
    <3> QED
      BY <3>3, <3>4 DEF IsFrom
  <2>4. CASE r.method = "head" /\ path \in ToSet(HonoPathsOf[r.path])
    <3>1. headRouteHandlers'[path] = Append(old, entry)
      BY <2>4, <1>3 DEF HeadHandlers
    <3>2. entry \in HeadEntries
      BY <1>1 DEF Registrations, HeadEntries
    <3> HIDE DEF old, entry
    <3>3. /\ \A i \in 1..Len(old) : Append(old, entry)[i] = old[i]
          /\ Append(old, entry)[Len(old) + 1] = entry
          /\ Len(Append(old, entry)) = Len(old) + 1
          /\ Append(old, entry) \in Seq(HeadEntries)
      BY <2>1, <3>2, AppendProperties
    <3>4. k \in 1..Len(old) \/ k = Len(old) + 1
      BY <3>1, <3>3, <2>1, LenProperties
    <3> QED
      BY <3>1, <3>3, <3>4, <2>1, <2>2, <2>3, <2>4
  <2>5. CASE ~(r.method = "head" /\ path \in ToSet(HonoPathsOf[r.path]))
    <3>1. headRouteHandlers'[path] = old
      BY <2>5, <1>3 DEF HeadHandlers
    <3> QED
      BY <3>1, <2>2
  <2> QED
    BY <2>4, <2>5
<1>13. ShutdownInv'
  <2>1. ASSUME serverFetch' = None, NEW i \in DOMAIN routes' PROVE routes'[i].kind \in Passing
    BY <2>1, <1>7 DEF IsOld, IsNewLayer, RegisterIs, RoutesInv, ShutdownInv, KindOf, Passing
  <2>2. ASSUME NEW i \in DOMAIN routes', NEW k \in DOMAIN routes',
               routes'[i].kind = "shutdown", k < i
        PROVE  routes'[k].kind \in Passing
    <3>1. ~IsNewLayer(i)
      BY <2>2, <1>1 DEF IsNewLayer, LayerOK, AdapterKinds
    <3>2. IsOld(i) /\ IsOld(k)
      BY <3>1, <2>2, <1>6, <1>7 DEF IsOld, IsNewLayer
    <3> QED
      BY <3>2, <2>2 DEF IsOld, RoutesInv, ShutdownInv
  <2>3. isShuttingDown' => \E i \in DOMAIN routes' : routes'[i].kind = "shutdown"
    BY <1>5 DEF RegisterIs, RoutesInv, ShutdownInv
  <2> QED
    BY <2>1, <2>2, <2>3 DEF ShutdownInv
<1> QED
  BY <1>9, <1>10, <1>12, <1>13 DEF RoutesInv

(* So do the layers of initHttpServer(),                                    *)
LEMMA InitHttpServerKeeps ==
    ASSUME RoutesInv, InitHttpServer PROVE RoutesInv'
<1> DEFINE shutdown == EveryRequest("shutdown", 0)
           body == EveryRequest("body", 0)
<1>1. PICK new \in {<<shutdown, body>>, <<body>>} : routes' = routes \o new
  BY DEF InitHttpServer
<1>2. /\ serverFetch = None /\ serverFetch' = fetch
      /\ UNCHANGED <<headRouteHandlers, setup, fetch, isShuttingDown>>
  BY DEF InitHttpServer
<1>3. routes \in Seq(Layers)
  BY DEF RoutesInv, RoutesOK
<1>4. LayerOK(shutdown) /\ LayerOK(body) /\ shutdown \in Layers /\ body \in Layers
      /\ shutdown.reg = 0 /\ body.reg = 0 /\ body.kind = "body" /\ shutdown.kind = "shutdown"
  BY SetupAssumption DEF EveryRequest, Layer, LayerOK, Layers, Kinds, AdapterKinds, LayerPaths
<1> HIDE DEF shutdown, body
<1>5. /\ new \in Seq(Layers)
      /\ \A k \in DOMAIN new : LayerOK(new[k]) /\ new[k].reg = 0
      /\ \A k \in DOMAIN new : new[k].kind = "shutdown" => k = 1
  BY <1>1, <1>4
<1>6. /\ routes' \in Seq(Layers)
      /\ \A i \in DOMAIN routes : i \in DOMAIN routes' /\ routes'[i] = routes[i]
      /\ \A i \in DOMAIN routes' :
            \/ i \in DOMAIN routes /\ routes'[i] = routes[i]
            \/ \E k \in DOMAIN new : i = Len(routes) + k /\ routes'[i] = new[k]
  BY <1>1, <1>3, <1>5, Grown
<1> DEFINE IsOld(i) == i \in DOMAIN routes /\ routes'[i] = routes[i]
           IsNewLayer(i) == /\ routes'[i].reg = 0 /\ LayerOK(routes'[i])
                            /\ routes'[i].kind = "shutdown" => i = Len(routes) + 1
<1>7. \A i \in DOMAIN routes' : IsOld(i) \/ IsNewLayer(i)
  BY <1>5, <1>6
<1>8. DOMAIN routes = 1..Len(routes) /\ Len(routes) \in Nat /\ DOMAIN routes' \subseteq Nat
      /\ DOMAIN routes' = 1..Len(routes')
  BY <1>3, <1>6, LenProperties
<1> HIDE DEF IsOld, IsNewLayer
<1>9. RoutesOK'
  BY <1>2, <1>6 DEF RoutesInv, RoutesOK
<1>10. RegistrationsInv'
  <2>1. \A i \in DOMAIN routes' : LayerOK(routes[i])' /\ routes'[i].reg <= setup'
    <3>1. setup \in Nat
      BY SetupAssumption DEF RoutesInv, RoutesOK
    <3>2. ASSUME NEW i \in DOMAIN routes' PROVE LayerOK(routes'[i]) /\ routes'[i].reg <= setup
      BY <3>1, <1>7 DEF IsOld, IsNewLayer, RoutesInv, RegistrationsInv
    <3> QED
      BY <3>2, <1>2 DEF LayerOK
  <2>2. ASSUME NEW i \in DOMAIN routes', NEW j \in DOMAIN routes', i < j, routes'[j].reg # 0
        PROVE  routes'[i].reg <= routes'[j].reg
    <3>1. IsOld(j)
      BY <2>2, <1>7 DEF IsNewLayer
    <3>2. i \in DOMAIN routes
      BY <2>2, <3>1, <1>8 DEF IsOld
    <3> QED
      BY <2>2, <3>1, <3>2, <1>6 DEF IsOld, RoutesInv, RegistrationsInv
  <2>3. ASSUME NEW i \in DOMAIN routes', NEW j \in DOMAIN routes',
               routes'[i].reg = routes'[j].reg, routes'[i].reg # 0
        PROVE  routes'[i].kind = routes'[j].kind /\ routes'[i].method = routes'[j].method
    <3>1. IsOld(i) /\ IsOld(j)
      BY <2>3, <1>7 DEF IsNewLayer
    <3> QED
      BY <2>3, <3>1 DEF IsOld, RoutesInv, RegistrationsInv
  <2> QED
    BY <2>1, <2>2, <2>3 DEF RegistrationsInv
<1>11. \A kind, n : IsFrom(routes, kind, n) => IsFrom(routes', kind, n)
  BY <1>6 DEF IsFrom
<1>12. HandlersInv'
  BY <1>2, <1>11 DEF RoutesInv, HandlersInv
<1>13. ShutdownInv'
  <2>1. serverFetch' # None
    BY <1>2 DEF RoutesInv, RoutesOK, None
  <2>2. ASSUME NEW i \in DOMAIN routes', NEW k \in DOMAIN routes',
               routes'[i].kind = "shutdown", k < i
        PROVE  routes'[k].kind \in Passing
    <3>1. i \in DOMAIN routes \/ i = Len(routes) + 1
      BY <2>2, <1>7 DEF IsOld, IsNewLayer
    <3>2. k \in DOMAIN routes /\ routes'[k] = routes[k]
      BY <2>2, <3>1, <1>6, <1>8
    <3> QED
      BY <3>2, <1>2 DEF RoutesInv, ShutdownInv
  <2>3. isShuttingDown' => \E i \in DOMAIN routes' : routes'[i].kind = "shutdown"
    BY <1>2, <1>6 DEF RoutesInv, ShutdownInv
  <2> QED
    BY <2>1, <2>2, <2>3 DEF ShutdownInv
<1> QED
  BY <1>9, <1>10, <1>12, <1>13 DEF RoutesInv

(* and the configurations that add no layer.                                *)
LEMMA SetupGrows ==
    ASSUME RoutesInv, setup < MaxSetup, setup' = setup + 1, fetch' \in {fetch, "own"},
           UNCHANGED <<routes, headRouteHandlers, serverFetch, isShuttingDown>>
    PROVE  RoutesInv'
<1>1. setup \in Nat /\ setup' \in 0..MaxSetup
  BY SetupAssumption DEF RoutesInv, RoutesOK
<1>2. RoutesOK'
  BY <1>1 DEF RoutesInv, RoutesOK
<1>3. RegistrationsInv'
  <2>1. ASSUME NEW i \in DOMAIN routes PROVE routes[i].reg <= setup + 1
    <3>1. routes[i] \in Layers
      BY DEF RoutesInv, RoutesOK
    <3>2. routes[i].reg \in Nat /\ routes[i].reg <= setup
      BY <3>1, SetupAssumption DEF Layers, RoutesInv, RegistrationsInv
    <3> QED
      BY <3>2, <1>1
  <2> QED
    BY <2>1 DEF RoutesInv, RegistrationsInv, LayerOK
<1>4. HandlersInv' /\ ShutdownInv'
  BY DEF RoutesInv, HandlersInv, ShutdownInv
<1> QED
  BY <1>2, <1>3, <1>4 DEF RoutesInv

(* What holds of the routes holds at first,                                 *)
LEMMA RoutesInit == Init => RoutesInv
<1> SUFFICES ASSUME Init PROVE RoutesInv
  OBVIOUS
<1> DEFINE first == EveryRequest("request", 0)
<1>1. /\ routes = <<first>> /\ headRouteHandlers = [path \in HonoPaths |-> <<>>]
      /\ setup = 0 /\ fetch = "hono" /\ isShuttingDown = FALSE
  BY DEF Init
<1>2. first \in Layers /\ LayerOK(first) /\ first.reg = 0 /\ first.kind = "request"
  BY SetupAssumption DEF EveryRequest, Layer, LayerOK, Layers, Kinds, AdapterKinds, LayerPaths
<1> HIDE DEF first
<1>3. RoutesOK
  <2>1. routes \in Seq(Layers)
    BY <1>1, <1>2
  <2>2. headRouteHandlers \in [HonoPaths -> Seq(HeadEntries)]
    BY <1>1, EmptySeq
  <2> QED
    BY <1>1, <2>1, <2>2, SetupAssumption DEF RoutesOK
<1>4. DOMAIN routes = {1} /\ routes[1] = first
  BY <1>1
<1>5. RegistrationsInv
  BY <1>1, <1>2, <1>4 DEF RegistrationsInv
<1>6. HandlersInv
  BY <1>1 DEF HandlersInv
<1>7. ShutdownInv
  BY <1>1, <1>2, <1>4 DEF ShutdownInv, Passing
<1> QED
  BY <1>3, <1>5, <1>6, <1>7 DEF RoutesInv

(* and every step keeps it.                                                 *)
LEMMA RoutesStep ==
    ASSUME RoutesInv, [Next]_vars PROVE RoutesInv'
<1>1. CASE Register
  <2>1. PICK r \in Offered(setup) :
          /\ serverFetch # None \/ r.method = "catchAll"
          /\ routes' = routes \o LayersOf(r, setup + 1)
          /\ headRouteHandlers' = HeadHandlers(r, setup + 1)
    BY <1>1 DEF Register
  <2>2. ~frozen /\ setup < MaxSetup /\ setup' = setup + 1
        /\ UNCHANGED <<serverFetch, fetch, isShuttingDown>>
    BY <1>1 DEF Register, Configures
  <2>3. r \in Registrations
    BY SetupAssumption DEF RoutesInv, RoutesOK
  <2>4. RegisterIs(r)
    BY <2>1, <2>2, <2>3 DEF RegisterIs
  <2> QED
    BY <2>4, RegisterKeeps
<1>2. CASE InitHttpServer
  BY <1>2, InitHttpServerKeeps
<1>3. CASE ReplaceFetch
  <2>1. fetch' = "own" /\ setup' = setup + 1 /\ setup < MaxSetup
        /\ UNCHANGED <<routes, headRouteHandlers, serverFetch, isShuttingDown>>
    BY <1>3 DEF ReplaceFetch, Configures
  <2> QED
    BY <2>1, SetupGrows
<1>4. CASE ReplaceGetPath
  <2>1. fetch' = fetch /\ setup' = setup + 1 /\ setup < MaxSetup
        /\ UNCHANGED <<routes, headRouteHandlers, serverFetch, isShuttingDown>>
    BY <1>4 DEF ReplaceGetPath, Configures
  <2> QED
    BY <2>1, SetupGrows
<1>5. CASE PrepareClose
  <2>1. UNCHANGED <<routes, headRouteHandlers, setup, fetch, serverFetch>>
        /\ \E i \in DOMAIN routes : routes[i].kind = "shutdown"
    BY <1>5 DEF PrepareClose, appVars
  <2>2. RoutesOK'
    BY <2>1 DEF RoutesInv, RoutesOK
  <2>3. RegistrationsInv'
    BY <2>1 DEF RoutesInv, RegistrationsInv, LayerOK
  <2>4. HandlersInv' /\ ShutdownInv'
    BY <2>1 DEF RoutesInv, HandlersInv, ShutdownInv
  <2> QED
    BY <2>2, <2>3, <2>4 DEF RoutesInv
<1>6. CASE UNCHANGED <<routes, headRouteHandlers, setup, fetch, serverFetch, isShuttingDown>>
  <2>1. RoutesOK'
    BY <1>6 DEF RoutesInv, RoutesOK
  <2>2. RegistrationsInv'
    BY <1>6 DEF RoutesInv, RegistrationsInv, LayerOK
  <2>3. HandlersInv' /\ ShutdownInv'
    BY <1>6 DEF RoutesInv, HandlersInv, ShutdownInv
  <2> QED
    BY <2>1, <2>2, <2>3 DEF RoutesInv
<1>7. CASE \/ SetNotFoundHandler \/ Arrive \/ ArriveBad \/ Shutdown \/ TryHeadRoutes
           \/ RunHandler \/ NotFound \/ FastStep \/ FastOther \/ Done \/ UNCHANGED vars
  <2>1. UNCHANGED <<routes, headRouteHandlers, setup, fetch, serverFetch, isShuttingDown>>
    BY <1>7 DEF SetNotFoundHandler, Arrive, ArriveBad, Shutdown, TryHeadRoutes, RunHandler,
       NotFound, FastStep, FastOther, OnFastPath, Done, vars, appVars
  <2> QED
    BY <2>1, <1>6
<1> QED
  BY <1>1, <1>2, <1>3, <1>4, <1>5, <1>7 DEF Next

-----------------------------------------------------------------------------
(* The way of a request through the layers.                                 *)

(* The first layer that does not pass on.                                   *)
At(a) ==
    /\ a \in DOMAIN todo /\ ~PassesOn(todo[a])
    /\ \A m \in 1..(a - 1) : PassesOn(todo[m])

(* What Ahead begins with.                                                  *)
LEMMA AheadIs ==
    ASSUME todo \in Seq(Layers), Ahead # <<>>
    PROVE  \E a \in DOMAIN todo :
              /\ At(a) /\ Head(Ahead) = todo[a]
              /\ Tail(Ahead) \in Seq(Layers) /\ Len(Tail(Ahead)) = Len(todo) - a
              /\ \A n \in DOMAIN Tail(Ahead) : Tail(Ahead)[n] = todo[n + a]
<1> DEFINE I == {i \in 1..Len(todo) : ~PassesOn(todo[i])}
           a == Min(I)
<1>1. I # {} /\ Ahead = SubSeq(todo, a, Len(todo))
  <2>1. SelectInSeq(todo, LAMBDA call : ~PassesOn(call)) = IF I # {} THEN Min(I) ELSE 0
    BY DEF SelectInSeq
  <2> HIDE DEF I
  <2>2. Ahead = IF (IF I # {} THEN Min(I) ELSE 0) = 0 THEN <<>>
                ELSE SubSeq(todo, IF I # {} THEN Min(I) ELSE 0, Len(todo))
    BY <2>1 DEF Ahead
  <2> QED
    BY <2>2
<1>2. I \subseteq Nat
  OBVIOUS
<1>3. a \in I /\ \A i \in I : a <= i
  BY <1>1, <1>2, MinIsLeast
<1> HIDE DEF a
<1>4. a \in 1..Len(todo) /\ a \in DOMAIN todo /\ Len(todo) \in Nat
  BY <1>3
<1>5. At(a)
  <2>1. ~PassesOn(todo[a])
    BY <1>3
  <2>2. ASSUME NEW m \in 1..(a - 1) PROVE PassesOn(todo[m])
    BY <1>3, <1>4
  <2> QED
    BY <1>4, <2>1, <2>2 DEF At
<1> HIDE DEF I
<1>6. Head(Ahead) = todo[a]
  BY <1>1, <1>4
<1>7. /\ Tail(Ahead) \in Seq(Layers) /\ Len(Tail(Ahead)) = Len(todo) - a
      /\ \A n \in DOMAIN Tail(Ahead) : Tail(Ahead)[n] = todo[n + a]
  <2>1. Ahead \in Seq(Layers) /\ Len(Ahead) = Len(todo) - a + 1
    BY <1>1, <1>4, SubSeqProperties
  <2>2. \A n \in 1..Len(Ahead) : Ahead[n] = todo[n + a - 1]
    BY <1>1, <1>4, SubSeqProperties
  <2>3. /\ Tail(Ahead) \in Seq(Layers) /\ Len(Tail(Ahead)) = Len(Ahead) - 1
        /\ \A n \in 1..Len(Tail(Ahead)) : Tail(Ahead)[n] = Ahead[n + 1]
    BY <2>1, HeadTailProperties
  <2>4. /\ Len(Tail(Ahead)) = Len(todo) - a /\ Len(Ahead) = Len(todo) - a + 1
        /\ DOMAIN Tail(Ahead) = 1..Len(Tail(Ahead)) /\ a \in Nat /\ Len(todo) \in Nat
    BY <1>4, <2>1, <2>3, LenProperties
  <2>5. ASSUME NEW n \in DOMAIN Tail(Ahead)
        PROVE  Tail(Ahead)[n] = todo[n + a]
    <3>1. n \in Nat /\ n + 1 \in 1..Len(Ahead) /\ n + 1 + a - 1 = n + a
      BY <2>4, <2>5
    <3>2. Tail(Ahead)[n] = Ahead[n + 1]
      BY <2>3, <2>4, <2>5
    <3>3. Ahead[n + 1] = todo[n + 1 + a - 1]
      BY <2>2, <3>1
    <3> QED
      BY <3>1, <3>2, <3>3
  <2> QED
    BY <2>3, <2>4, <2>5
<1> QED
  BY <1>4, <1>5, <1>6, <1>7

(* The last of three indexes.                                               *)
LEMMA MaxOfThree ==
    ASSUME NEW first \in Nat, NEW second \in Nat, NEW last \in Nat,
           first < second, second < last
    PROVE  Max({first, second, last}) = last
<1> DEFINE S == {first, second, last}
           IsMax(x) == x \in S /\ \A y \in S : x >= y
<1>1. IsMax(last)
  OBVIOUS
<1>2. \A x : IsMax(x) => x = last
  OBVIOUS
<1>3. Max(S) = CHOOSE x \in S : \A y \in S : x >= y
  BY DEF Max
<1>4. IsMax(Max(S))
  BY <1>1, <1>3
<1> HIDE DEF IsMax
<1> QED
  BY <1>2, <1>4

(* The steps, from where the request is: before it arrives, without effect  *)
(* on it, its arrival, on Hono's path and on the fast path.                 *)
Idle == ~frozen /\ UNCHANGED <<requestVars, walkVars, fastVars>>
Still ==
    /\ UNCHANGED <<routes, headRouteHandlers, serverFetch, requestVars, walkVars, fastVars>>
    /\ isShuttingDown => isShuttingDown'

(* What is at rest before the request arrives, and what is settled then.    *)
ArrivalInv ==
    /\ via \in {None, "hono", "fast"}
    /\ ~frozen => /\ via = None /\ todo = <<>> /\ ran = <<>> /\ routeParams = NoParams
                  /\ invoked = {} /\ triedHeadRoutes = {}
    /\ ~frozen => ~request.late
    /\ frozen => via # None /\ serverFetch # None /\ request.target \in Targets
    /\ via # "fast" => phase = "prepare"
    /\ request.late => isShuttingDown

(* The steps on Hono's path.                                                *)
OnHonoPath == Shutdown \/ TryHeadRoutes \/ RunHandler \/ NotFound

(* There are no other steps.                                                *)
LEMMA WalkSteps ==
    ASSUME ArrivalInv, [Next]_vars
    PROVE  Idle \/ Still \/ Arrive \/ OnHonoPath \/ (OnFastPath /\ Fast!Next)
<1>1. CASE Register \/ ReplaceFetch \/ ReplaceGetPath
  BY <1>1 DEF Register, ReplaceFetch, ReplaceGetPath, Configures, Idle
<1>2. CASE InitHttpServer
  <2>1. ~frozen
    BY <1>2 DEF InitHttpServer, ArrivalInv
  <2> QED
    BY <1>2, <2>1 DEF InitHttpServer, Idle
<1>3. CASE SetNotFoundHandler \/ ArriveBad
  BY <1>3 DEF SetNotFoundHandler, ArriveBad, Idle
<1>4. CASE PrepareClose
  BY <1>4 DEF PrepareClose, Still, appVars
<1>5. CASE FastStep \/ FastOther
  BY <1>5 DEF FastStep, FastOther, Fast!Next
<1>6. CASE Done \/ UNCHANGED vars
  BY <1>6 DEF Done, vars, Still, appVars
<1> QED
  BY <1>1, <1>2, <1>3, <1>4, <1>5, <1>6 DEF Next, OnHonoPath

(* A request that walks changes neither the routes nor its path.            *)
Walks(path) ==
    /\ via = path /\ frozen
    /\ UNCHANGED <<routes, headRouteHandlers, serverFetch, request, via, isShuttingDown>>

(* So on Hono's path,                                                       *)
LEMMA HonoWalks ==
    ASSUME ArrivalInv, OnHonoPath
    PROVE  Walks("hono") /\ outcome = None /\ phase' = phase
<1>1. HonoStep /\ UNCHANGED <<appVars, requestVars, isShuttingDown, phase>>
  BY DEF OnHonoPath, Shutdown, TryHeadRoutes, RunHandler, NotFound, fastVars
<1>2. via = "hono" /\ outcome = None
  BY <1>1 DEF HonoStep
<1>3. frozen
  BY <1>2 DEF ArrivalInv, None
<1> QED
  BY <1>1, <1>2, <1>3 DEF Walks, appVars, requestVars

(* and on the fast path.                                                    *)
LEMMA FastWalks ==
    ASSUME ArrivalInv, OnFastPath PROVE Walks("fast") /\ UNCHANGED <<todo, outcome>>
<1>1. via = "fast" /\ UNCHANGED <<appVars, requestVars, isShuttingDown, todo, outcome>>
  BY DEF OnFastPath
<1>2. frozen
  BY <1>1 DEF ArrivalInv, None
<1> QED
  BY <1>1, <1>2 DEF Walks, appVars, requestVars

(* What arriving changes.                                                   *)
LEMMA Arrives ==
    ASSUME Arrive
    PROVE  /\ ~frozen /\ frozen' /\ request'.target \in Targets /\ serverFetch # None
           /\ request'.late = isShuttingDown /\ todo' = routes
           /\ UNCHANGED <<routes, headRouteHandlers, serverFetch, isShuttingDown,
                          triedHeadRoutes, invoked, params, routeParams, ran, outcome, phase>>
           /\ via' \in {"hono", "fast"}
           /\ via' = "fast" => /\ request'.method = "GET"
                               /\ IsFastRoute(Matched(request'))
<1>1. PICK r \in Requests, plain \in BOOLEAN :
        /\ request' = [method |-> r.method, target |-> r.target, late |-> isShuttingDown]
        /\ via' = IF TakesFastPath(r, plain) THEN "fast" ELSE "hono"
  BY DEF Arrive
<1>2. /\ ~frozen /\ serverFetch # None /\ todo' = routes
      /\ UNCHANGED <<routes, headRouteHandlers, serverFetch, isShuttingDown,
                     triedHeadRoutes, invoked, params, routeParams, ran, outcome, phase>>
  BY DEF Arrive, appVars, paramVars, fastVars
<1>3. request'.method = r.method /\ request'.target = r.target
      /\ request'.late = isShuttingDown
  BY <1>1
<1>4. r.method # None /\ r.target \in Targets
  BY PathsAssumption
<1>5. frozen'
  BY <1>3, <1>4 DEF frozen, NoRequest
<1>6. TakesFastPath(r, plain) => r.method = "GET" /\ IsFastRoute(Matched(request'))
  <2>1. TakesFastPath(r, plain) => r.method = "GET" /\ IsFastRoute(Matched(r))
    BY DEF TakesFastPath
  <2>2. Matched(r) = Matched(request')
    BY <1>3 DEF Matched, Matches, IsFor
  <2> QED
    BY <2>1, <2>2
<1> QED
  BY <1>1, <1>2, <1>3, <1>4, <1>5, <1>6

(* Every step keeps what is settled at the arrival.                         *)
LEMMA ArrivalStep ==
    ASSUME ArrivalInv, [Next]_vars PROVE ArrivalInv'
<1>1. CASE Idle
  BY <1>1 DEF Idle, ArrivalInv, frozen, requestVars, walkVars, paramVars, fastVars, NoRequest
<1>2. CASE Still
  BY <1>2 DEF Still, ArrivalInv, frozen, requestVars, walkVars, paramVars, fastVars
<1>3. CASE Arrive
  <2>1. phase = "prepare"
    BY Arrives, <1>3 DEF ArrivalInv, None
  <2> QED
    BY <1>3, <2>1, Arrives DEF ArrivalInv, None
<1>4. CASE OnHonoPath
  BY <1>4, HonoWalks DEF Walks, ArrivalInv, frozen
<1>5. CASE OnFastPath /\ Fast!Next
  BY <1>5, FastWalks DEF Walks, ArrivalInv, frozen
<1> QED
  BY <1>1, <1>2, <1>3, <1>4, <1>5, WalkSteps

(* A sequence by its length.                                                *)
IsSeq(s) == Len(s) \in Nat /\ s = [i \in 1..Len(s) |-> s[i]]

(* The request of the fast path is a GET request with a fast route, and did *)
(* not arrive late.                                                         *)
FastRouteInv ==
    via = "fast" => /\ request.method = "GET" /\ ~request.late
                    /\ IsFastRoute(Matched(request))

(* What ran is a sequence, and one handler on the fast path.                *)
RanInv ==
    /\ IsSeq(ran)
    /\ via = "fast" => /\ phase \in {"prepare", "prepared"} => ran = <<>>
                       /\ Len(ran) <= 1

(* The kinds of the layers of a fast route.                                 *)
FastKinds == {"request", "body", "get", "all"}

(* The layers of a fast route are three, none of them of another kind.      *)
LEMMA FastRouteIs ==
    ASSUME NEW matched, matched \subseteq Nat, IsFastRoute(matched)
    PROVE  /\ \A i \in matched : routes[i].kind \in FastKinds
           /\ Max(matched) \in matched /\ routes[Max(matched)].kind \in {"get", "all"}
<1>1. PICK first \in matched, second \in matched, last \in matched :
        /\ matched = {first, second, last} /\ first < second /\ second < last
        /\ routes[first].kind = "request" /\ routes[second].kind = "body"
        /\ routes[last].kind \in {"get", "all"}
  BY DEF IsFastRoute
<1>2. Max(matched) = last
  BY <1>1, MaxOfThree
<1> QED
  BY <1>1, <1>2 DEF FastKinds

(* Every step keeps the fast route.                                         *)
LEMMA FastRouteStep ==
    ASSUME RoutesInv, ArrivalInv, FastRouteInv, [Next]_vars PROVE FastRouteInv'
<1>1. CASE Idle
  BY <1>1 DEF Idle, ArrivalInv, FastRouteInv, requestVars, None
<1>2. CASE Still
  <2>1. UNCHANGED <<via, request, routes>>
    BY <1>2 DEF Still, requestVars
  <2> QED
    BY <2>1 DEF FastRouteInv, Matched, IsFastRoute
<1>3. CASE Arrive
  <2> SUFFICES ASSUME via' = "fast" PROVE FastRouteInv'
    BY DEF FastRouteInv
  <2>1. /\ request'.method = "GET" /\ IsFastRoute(Matched(request'))
        /\ request'.target \in Targets /\ routes' = routes
        /\ request'.late = isShuttingDown
    BY <1>3, Arrives
  <2>2. ~request'.late
    <3> SUFFICES ASSUME isShuttingDown PROVE FALSE
      BY <2>1
    <3>1. PICK i \in DOMAIN routes : routes[i].kind = "shutdown"
      BY DEF RoutesInv, ShutdownInv
    <3>2. routes[i].method = "ALL" /\ routes[i].path = AnyPath
      BY <3>1 DEF RoutesInv, RegistrationsInv, LayerOK
    <3>3. i \in Matched(request')
      BY <3>2, <2>1, PathsAssumption DEF Matched, Matches, IsFor
    <3>4. Matched(request') \subseteq Nat
      BY LenProperties DEF Matched, RoutesInv, RoutesOK
    <3>5. routes[i].kind \in FastKinds
      BY <2>1, <3>3, <3>4, FastRouteIs
    <3> QED
      BY <3>1, <3>5 DEF FastKinds
  <2>3. IsFastRoute(Matched(request))'
    BY <2>1 DEF Matched, IsFastRoute
  <2> QED
    BY <2>1, <2>2, <2>3 DEF FastRouteInv
<1>4. CASE OnHonoPath
  BY <1>4, HonoWalks DEF Walks, FastRouteInv
<1>5. CASE OnFastPath /\ Fast!Next
  <2>1. UNCHANGED <<via, request, routes>>
    BY <1>5, FastWalks DEF Walks
  <2> QED
    BY <2>1 DEF FastRouteInv, Matched, IsFastRoute
<1> QED
  BY <1>1, <1>2, <1>3, <1>4, <1>5, WalkSteps

(* A handler that runs is the last entry of ran.                            *)
Entry(call) ==
    [reg |-> call.reg, kind |-> call.kind, path |-> call.path,
     given |-> RouteParams(call), seen |-> Seen(call), left |-> params']

(* Runs() adds this entry.                                                  *)
LEMMA RunsIs ==
    ASSUME NEW call, NEW isLastLayer, Runs(call, isLastLayer), IsSeq(ran)
    PROVE  /\ IsSeq(ran') /\ Len(ran') = Len(ran) + 1 /\ Len(ran) \in Nat
           /\ DOMAIN ran = 1..Len(ran) /\ DOMAIN ran' = 1..(Len(ran) + 1)
           /\ \A i \in 1..Len(ran) : ran'[i] = ran[i]
           /\ ran'[Len(ran) + 1] = Entry(call)
<1>1. ran' = Append(ran, Entry(call))
  BY DEF Runs, Entry
<1> DEFINE e == Entry(call)
<1> HIDE DEF e
<1>2. /\ IsSeq(ran') /\ Len(ran') = Len(ran) + 1 /\ Len(ran) \in Nat
      /\ \A i \in 1..Len(ran) : ran'[i] = ran[i]
      /\ ran'[Len(ran) + 1] = e
  BY <1>1, AppendIs DEF IsSeq, e
<1>3. DOMAIN ran = 1..Len(ran) /\ DOMAIN ran' = 1..(Len(ran) + 1)
  BY <1>2 DEF IsSeq
<1> QED
  BY <1>2, <1>3 DEF e

(* The layer the fast path runs.                                            *)
FastRoute == routes[Max(Matched(request))]

(* A step of the exchange runs it once, and else leaves the params alone.   *)
LEMMA RouteSteps ==
    ASSUME OnFastPath, Fast!Next
    PROVE  \/ phase = "prepared" /\ phase' = "route" /\ Runs(FastRoute, TRUE)
           \/ /\ UNCHANGED <<params, routeParams, ran>>
              /\ phase' \in {"prepare", "prepared"} => phase = "prepare"
<1>1. CASE phase = "prepared"
  <2>1. Fast!RunRoute
    BY <1>1 DEF Fast!Next, Fast!Step, Fast!Prepare, Fast!PromiseSettles, Fast!SetResponse,
       Fast!PassOuter, Fast!Finish, Fast!CallErrorHandler, Fast!FailWithOther,
       Fast!HandleError, Fast!RouteReports, Fast!Reply, Fast!CallNext,
       Fast!NotFoundReturns, Fast!Waiting
  <2> QED
    BY <1>1, <2>1 DEF OnFastPath, Fast!RunRoute, FastRoute
<1>2. CASE phase # "prepared"
  <2>1. UNCHANGED <<params, routeParams, ran>>
    BY <1>2 DEF OnFastPath, paramVars
  <2>2. phase' \in {"prepare", "prepared"} => phase = "prepare"
    BY <1>2 DEF Fast!Next, Fast!Step, Fast!Prepare, Fast!RunRoute, Fast!PromiseSettles,
       Fast!SetResponse, Fast!PassOuter, Fast!Finish, Fast!CallErrorHandler,
       Fast!FailWithOther, Fast!HandleError, Fast!RouteReports, Fast!Reply, Fast!CallNext,
       Fast!NotFoundReturns, Fast!Fail, Fast!FailOuter, Fast!ToHandleError, Fast!Settle,
       Fast!Outward, Fast!REQUEST_LAYER
  <2> QED
    BY <2>1, <2>2
<1> QED
  BY <1>1, <1>2

(* Nothing ran at first.                                                    *)
LEMMA EmptyIsSeq == IsSeq(<<>>)
BY DEF IsSeq

(* Every step keeps what is said of ran.                                    *)
LEMMA RanStep ==
    ASSUME ArrivalInv, RanInv, [Next]_vars PROVE RanInv'
<1>1. CASE Idle \/ Still
  BY <1>1 DEF Idle, Still, RanInv, IsSeq, requestVars, walkVars, paramVars, fastVars
<1>2. CASE Arrive
  <2>1. ran' = <<>>
    BY <1>2, Arrives DEF ArrivalInv
  <2> QED
    BY <2>1, EmptyIsSeq DEF RanInv
<1>3. CASE OnHonoPath
  <2>1. via' = "hono"
    BY <1>3, HonoWalks DEF Walks
  <2>2. CASE RunHandler
    <3>1. Runs(Head(Ahead), FALSE)
      BY <2>2 DEF RunHandler
    <3>2. IsSeq(ran')
      BY <3>1, RunsIs DEF RanInv
    <3> QED
      BY <3>2, <2>1 DEF RanInv, IsSeq
  <2>3. CASE Shutdown \/ TryHeadRoutes \/ NotFound
    <3>1. ran' = ran
      BY <2>3 DEF Shutdown, TryHeadRoutes, NotFound, paramVars
    <3> QED
      BY <3>1, <2>1 DEF RanInv, IsSeq
  <2> QED
    BY <1>3, <2>2, <2>3 DEF OnHonoPath
<1>4. CASE OnFastPath /\ Fast!Next
  <2>1. via = "fast"
    BY <1>4 DEF OnFastPath
  <2>2. CASE phase = "prepared" /\ phase' = "route" /\ Runs(FastRoute, TRUE)
    <3>1. ran = <<>> /\ Len(ran) = 0 /\ IsSeq(ran)
      BY <2>1, <2>2 DEF RanInv
    <3>2. IsSeq(ran') /\ Len(ran') = Len(ran) + 1
      BY <2>2, <3>1, RunsIs
    <3>3. Len(ran') <= 1
      BY <3>1, <3>2
    <3> QED
      BY <2>2, <3>2, <3>3 DEF RanInv
  <2>3. CASE /\ UNCHANGED <<params, routeParams, ran>>
             /\ phase' \in {"prepare", "prepared"} => phase = "prepare"
    BY <2>1, <2>3 DEF RanInv, IsSeq
  <2> QED
    BY <1>4, <2>2, <2>3, RouteSteps
<1> QED
  BY <1>1, <1>2, <1>3, <1>4, WalkSteps

(* The kind of the layer that a handler belongs to.                         *)
BaseKind(kind) ==
    IF kind = "headRun" THEN "head" ELSE IF kind = "getRun" THEN "get" ELSE kind

(* What is ahead of a request are layers that are registered, and handlers  *)
(* of layers that matched and whose path was tried.                         *)
WalkOK(l, rs, r, tried) ==
    /\ l.kind \notin RunKinds => LayerOK(l)
    /\ l.kind \in RunKinds => Matches(l, r) /\ l.path \in HonoPaths
    /\ l.kind = "getRun" => l.path \in tried
    /\ IsFrom(rs, BaseKind(l.kind), l.reg)

(* That of all that is ahead.                                               *)
TodoInv ==
    /\ todo \in Seq(Layers)
    /\ \A n \in DOMAIN todo : WalkOK(todo[n], routes, request, triedHeadRoutes)
    /\ triedHeadRoutes \subseteq HonoPaths

(* Index a is where the layers ahead begin, and their tail is what is       *)
(* behind.                                                                  *)
Popped(a) ==
    /\ a \in DOMAIN todo /\ At(a) /\ Head(Ahead) = todo[a] /\ Ahead # <<>>
    /\ Tail(Ahead) \in Seq(Layers) /\ Len(Tail(Ahead)) = Len(todo) - a
    /\ \A n \in DOMAIN Tail(Ahead) : n + a \in DOMAIN todo /\ Tail(Ahead)[n] = todo[n + a]
    /\ \A n \in DOMAIN todo : n > a => /\ n - a \in DOMAIN Tail(Ahead)
                                       /\ Tail(Ahead)[n - a] = todo[n]
    /\ DOMAIN Tail(Ahead) \subseteq Nat

(* There is such an index where something is ahead.                         *)
LEMMA PoppedIs ==
    ASSUME todo \in Seq(Layers), Ahead # <<>> PROVE \E a \in DOMAIN todo : Popped(a)
<1>1. PICK a \in DOMAIN todo :
        /\ At(a) /\ Head(Ahead) = todo[a]
        /\ Tail(Ahead) \in Seq(Layers) /\ Len(Tail(Ahead)) = Len(todo) - a
        /\ \A n \in DOMAIN Tail(Ahead) : Tail(Ahead)[n] = todo[n + a]
  BY AheadIs
<1>2. DOMAIN todo = 1..Len(todo) /\ Len(todo) \in Nat
      /\ DOMAIN Tail(Ahead) = 1..Len(Tail(Ahead))
  BY <1>1, LenProperties
<1>3. \A n \in DOMAIN Tail(Ahead) : n + a \in DOMAIN todo
  BY <1>1, <1>2
<1>4. ASSUME NEW n \in DOMAIN todo, n > a
      PROVE  n - a \in DOMAIN Tail(Ahead) /\ Tail(Ahead)[n - a] = todo[n]
  <2>1. n - a \in DOMAIN Tail(Ahead) /\ (n - a) + a = n
    BY <1>1, <1>2, <1>4
  <2> QED
    BY <1>1, <2>1
<1>5. DOMAIN Tail(Ahead) \subseteq Nat
  BY <1>2
<1> QED
  BY <1>1, <1>3, <1>4, <1>5 DEF Popped

(* The HEAD handlers of the path of a layer.                                *)
Heads(call) == headRouteHandlers[call.path]

(* HandlersOf(): the HEAD handlers, and then the GET route if it is its     *)
(* layer.                                                                   *)
LEMMA HandlersOfIs ==
    ASSUME RoutesOK, NEW call \in Layers, call.path \in HonoPaths
    PROVE  /\ HandlersOf(call) \in Seq(Layers)
           /\ Heads(call) \in Seq(HeadEntries)
           /\ \A i \in DOMAIN Heads(call) :
                /\ i \in DOMAIN HandlersOf(call)
                /\ HandlersOf(call)[i].kind = "headRun"
                /\ HandlersOf(call)[i].reg = Heads(call)[i].reg
                /\ HandlersOf(call)[i].nest = Heads(call)[i].nest
           /\ \A i \in DOMAIN HandlersOf(call) :
                /\ HandlersOf(call)[i].path = call.path
                /\ HandlersOf(call)[i].method = call.method
                /\ \/ i \in DOMAIN Heads(call)
                   \/ /\ i = Len(Heads(call)) + 1 /\ call.kind = "get"
                      /\ HandlersOf(call)[i].kind = "getRun"
                      /\ HandlersOf(call)[i].reg = call.reg
                      /\ HandlersOf(call)[i].nest = call.nest
           /\ call.kind = "get" =>
                \E i \in DOMAIN HandlersOf(call) : HandlersOf(call)[i].kind = "getRun"
<1> DEFINE H(i) == [call EXCEPT !.kind = "headRun", !.reg = Heads(call)[i].reg,
                                !.nest = Heads(call)[i].nest]
           G == [call EXCEPT !.kind = "getRun"]
           runs == [i \in DOMAIN Heads(call) |-> H(i)]
           own == IF call.kind = "get" THEN <<G>> ELSE <<>>
           HeadRun(i) == /\ i \in DOMAIN HandlersOf(call)
                         /\ HandlersOf(call)[i].kind = "headRun"
                         /\ HandlersOf(call)[i].reg = Heads(call)[i].reg
                         /\ HandlersOf(call)[i].nest = Heads(call)[i].nest
           GetRun(l) == /\ call.kind = "get" /\ l.kind = "getRun"
                        /\ l.reg = call.reg /\ l.nest = call.nest
           Handler(i) == /\ HandlersOf(call)[i].path = call.path
                         /\ HandlersOf(call)[i].method = call.method
                         /\ \/ i \in DOMAIN Heads(call)
                            \/ i = Len(Heads(call)) + 1 /\ GetRun(HandlersOf(call)[i])
<1> HIDE DEF HeadRun, GetRun, Handler
<1>1. /\ Heads(call) \in Seq(HeadEntries)
      /\ DOMAIN Heads(call) = 1..Len(Heads(call)) /\ Len(Heads(call)) \in Nat
  BY LenProperties DEF RoutesOK, Heads
<1>2. ASSUME NEW i \in DOMAIN Heads(call)
      PROVE  /\ H(i) \in Layers /\ H(i).kind = "headRun" /\ H(i).reg = Heads(call)[i].reg
             /\ H(i).path = call.path /\ H(i).method = call.method
             /\ H(i).nest = Heads(call)[i].nest
  <2>1. Heads(call)[i] \in HeadEntries
    BY <1>1
  <2> QED
    BY <2>1 DEF Layers, RunKinds, HeadEntries
<1>3. /\ G \in Layers /\ G.kind = "getRun" /\ G.reg = call.reg
      /\ G.path = call.path /\ G.method = call.method /\ G.nest = call.nest
  BY DEF Layers, RunKinds
<1> HIDE DEF H, G
<1>4. runs \in Seq(Layers) /\ Len(runs) = Len(Heads(call)) /\ DOMAIN runs = DOMAIN Heads(call)
  <2>1. runs \in [1..Len(Heads(call)) -> Layers]
    BY <1>1, <1>2
  <2>2. runs \in Seq(Layers)
    BY <1>1, <2>1, SeqDef
  <2> QED
    BY <1>1, <2>1, <2>2, LenProperties
<1>5. /\ own \in Seq(Layers) /\ DOMAIN own \subseteq {1}
      /\ \A k \in DOMAIN own : k = 1 /\ own[k] = G /\ call.kind = "get"
      /\ call.kind = "get" => 1 \in DOMAIN own
  <2>1. CASE call.kind = "get"
    <3>1. own = <<G>>
      BY <2>1
    <3> HIDE DEF own
    <3>2. own \in Seq(Layers) /\ DOMAIN own = {1} /\ own[1] = G
      BY <1>3, <3>1
    <3> QED
      BY <2>1, <3>2
  <2>2. CASE call.kind # "get"
    BY <2>2, EmptySeq
  <2> QED
    BY <2>1, <2>2
<1>6. HandlersOf(call) = runs \o own
  BY DEF HandlersOf, H, G, Heads
<1>7. \A i \in DOMAIN runs : runs[i] = H(i)
  OBVIOUS
<1> HIDE DEF runs, own
<1>8. Joins(HandlersOf(call), runs, own)
  <2>1. Joins(runs \o own, runs, own)
    BY <1>4, <1>5, GrownJoins
  <2> QED
    BY <1>6, <2>1
<1>9. HandlersOf(call) \in Seq(Layers)
  BY <1>8 DEF Joins
<1>10. ASSUME NEW i \in DOMAIN Heads(call) PROVE HeadRun(i)
  <2>1. i \in DOMAIN HandlersOf(call) /\ HandlersOf(call)[i] = H(i)
    BY <1>4, <1>7, <1>8 DEF Joins
  <2> QED
    BY <1>2, <2>1 DEF HeadRun
<1>11. ASSUME NEW i \in DOMAIN HandlersOf(call) PROVE Handler(i)
  <2>1. CASE i \in DOMAIN runs /\ HandlersOf(call)[i] = runs[i]
    BY <2>1, <1>2, <1>4, <1>7 DEF Handler
  <2>2. ASSUME NEW k \in DOMAIN own, i = Len(runs) + k, HandlersOf(call)[i] = own[k]
        PROVE  Handler(i)
    <3>1. i = Len(Heads(call)) + 1 /\ HandlersOf(call)[i] = G /\ call.kind = "get"
      <4>1. k = 1 /\ own[k] = G /\ call.kind = "get"
        BY <1>5
      <4> QED
        BY <1>4, <2>2, <4>1
    <3> QED
      BY <1>3, <3>1 DEF Handler, GetRun
  <2> QED
    BY <2>1, <2>2, <1>8 DEF Joins
<1>12. ASSUME call.kind = "get"
       PROVE  \E i \in DOMAIN HandlersOf(call) : HandlersOf(call)[i].kind = "getRun"
  <2>1. 1 \in DOMAIN own /\ own[1] = G
    BY <1>5, <1>12
  <2>2. Len(runs) + 1 \in DOMAIN HandlersOf(call) /\ HandlersOf(call)[Len(runs) + 1] = G
    BY <1>8, <2>1 DEF Joins
  <2> QED
    BY <1>3, <2>2
<1>13. (\A i \in DOMAIN Heads(call) : HeadRun(i)) /\ \A i \in DOMAIN HandlersOf(call) : Handler(i)
  BY <1>10, <1>11
<1> QED
  BY <1>1, <1>9, <1>12, <1>13 DEF HeadRun, Handler, GetRun

(* A registered layer is no handler of another.                             *)
LEMMA BaseKindOfLayer ==
    ASSUME NEW l, LayerOK(l)
    PROVE  l.kind \notin RunKinds /\ BaseKind(l.kind) = l.kind
BY DEF LayerOK, Kinds, AdapterKinds, RunKinds, BaseKind

(* What trying the HEAD routes of a path does.                              *)
LEMMA TriesHeadIs ==
    ASSUME TodoInv, HonoStep, TryHeadRoutes, NEW a, Popped(a)
    PROVE  /\ todo[a] \in Layers /\ todo[a].kind \in {"head", "get"}
           /\ todo[a].path \in HonoPaths /\ todo[a].path \notin triedHeadRoutes
           /\ WalkOK(todo[a], routes, request, triedHeadRoutes)
           /\ Matches(todo[a], request)
           /\ todo' = HandlersOf(todo[a]) \o Tail(Ahead)
           /\ triedHeadRoutes' = triedHeadRoutes \cup {todo[a].path}
<1>1. /\ todo[a] \in Layers /\ WalkOK(todo[a], routes, request, triedHeadRoutes)
      /\ Head(Ahead) = todo[a] /\ ~PassesOn(todo[a])
  BY DEF Popped, TodoInv, At
<1>2. /\ TriesHead(todo[a]) /\ todo' = HandlersOf(todo[a]) \o Tail(Ahead)
      /\ triedHeadRoutes' = triedHeadRoutes \cup {todo[a].path}
  BY <1>1 DEF TryHeadRoutes
<1>3. todo[a].kind \in {"head", "get"} /\ todo[a].path \notin triedHeadRoutes
  BY <1>2 DEF TriesHead
<1>4. LayerOK(todo[a])
  BY <1>1, <1>3 DEF WalkOK, RunKinds
<1>5. todo[a].path \in HonoPaths
  BY <1>3, <1>4 DEF LayerOK
<1>6. Matches(todo[a], request)
  BY <1>1 DEF PassesOn
<1> QED
  BY <1>1, <1>2, <1>3, <1>5, <1>6

(* Every step keeps what is said of the layers ahead.                       *)
LEMMA TodoStep ==
    ASSUME RoutesInv, ArrivalInv, TodoInv, [Next]_vars PROVE TodoInv'
<1>1. CASE Idle
  <2>1. todo' = <<>> /\ triedHeadRoutes' = {}
    BY <1>1 DEF Idle, ArrivalInv, walkVars
  <2> QED
    BY <2>1, EmptySeq DEF TodoInv
<1>2. ASSUME UNCHANGED <<todo, triedHeadRoutes, routes, request>> PROVE TodoInv'
  BY <1>2 DEF TodoInv
<1>3. CASE Still
  BY <1>2, <1>3 DEF Still, walkVars, requestVars
<1>4. CASE Arrive
  <2>1. todo' = routes /\ routes' = routes /\ triedHeadRoutes' = {}
    BY <1>4, Arrives DEF ArrivalInv
  <2>2. ASSUME NEW n \in DOMAIN routes
        PROVE  WalkOK(routes[n], routes, request', triedHeadRoutes')
    <3>1. LayerOK(routes[n])
      BY DEF RoutesInv, RegistrationsInv
    <3> QED
      BY <3>1, BaseKindOfLayer DEF WalkOK, IsFrom, RunKinds
  <2> QED
    BY <2>1, <2>2 DEF TodoInv, RoutesInv, RoutesOK
<1>5. CASE OnHonoPath
  <2>1. /\ UNCHANGED <<routes, request>> /\ HonoStep
    BY <1>5, HonoWalks DEF Walks, HonoStep
  <2>2. CASE Shutdown \/ RunHandler
    <3>1. Ahead # <<>> /\ todo' = Tail(Ahead) /\ triedHeadRoutes' = triedHeadRoutes
      BY <2>2 DEF Shutdown, RunHandler
    <3>2. PICK a \in DOMAIN todo : Popped(a)
      BY <3>1, PoppedIs DEF TodoInv
    <3>3. ASSUME NEW n \in DOMAIN todo'
          PROVE  WalkOK(todo'[n], routes, request, triedHeadRoutes)
      BY <3>1, <3>2 DEF Popped, TodoInv
    <3>4. todo' \in Seq(Layers)
      BY <3>1, <3>2 DEF Popped
    <3> QED
      BY <2>1, <3>1, <3>3, <3>4 DEF TodoInv
  <2>3. CASE TryHeadRoutes
    <3>1. Ahead # <<>>
      BY <2>3 DEF TryHeadRoutes
    <3>2. PICK a \in DOMAIN todo : Popped(a)
      BY <3>1, PoppedIs DEF TodoInv
    <3> DEFINE call == todo[a]
               rest == Tail(Ahead)
    <3>3. /\ call \in Layers /\ call.kind \in {"head", "get"}
          /\ call.path \in HonoPaths /\ call.path \notin triedHeadRoutes
          /\ WalkOK(call, routes, request, triedHeadRoutes)
          /\ Matches(call, request)
          /\ todo' = HandlersOf(call) \o rest
          /\ triedHeadRoutes' = triedHeadRoutes \cup {call.path}
      BY <2>1, <2>3, <3>2, TriesHeadIs
    <3>4. rest \in Seq(Layers)
          /\ \A n \in DOMAIN rest : WalkOK(rest[n], routes, request, triedHeadRoutes)
      BY <3>2 DEF Popped, TodoInv
    <3>5. RoutesOK /\ HandlersInv
      BY DEF RoutesInv
    <3> HIDE DEF call, rest
    <3>6. /\ HandlersOf(call) \in Seq(Layers)
          /\ \A i \in DOMAIN Heads(call) :
                /\ HandlersOf(call)[i].kind = "headRun"
                /\ HandlersOf(call)[i].reg = Heads(call)[i].reg
          /\ \A i \in DOMAIN HandlersOf(call) :
                /\ HandlersOf(call)[i].path = call.path
                /\ HandlersOf(call)[i].method = call.method
                /\ \/ i \in DOMAIN Heads(call)
                   \/ /\ call.kind = "get"
                      /\ HandlersOf(call)[i].kind = "getRun"
                      /\ HandlersOf(call)[i].reg = call.reg
      BY <3>3, <3>5, HandlersOfIs
    <3>7. ASSUME NEW i \in DOMAIN HandlersOf(call)
          PROVE  WalkOK(HandlersOf(call)[i], routes, request, triedHeadRoutes')
      <4> DEFINE l == HandlersOf(call)[i]
      <4>1. Matches(l, request) /\ l.path \in HonoPaths /\ l.path \in triedHeadRoutes'
        BY <3>3, <3>6 DEF Matches, IsFor
      <4>2. CASE i \in DOMAIN Heads(call)
        <5>1. l.kind = "headRun" /\ l.reg = Heads(call)[i].reg
          BY <4>2, <3>6
        <5>2. IsFrom(routes, "head", l.reg)
          BY <5>1, <4>2, <3>3, <3>5 DEF HandlersInv, Heads
        <5> HIDE DEF l
        <5> QED
          BY <4>1, <5>1, <5>2 DEF WalkOK, RunKinds, BaseKind, l
      <4>3. CASE call.kind = "get" /\ l.kind = "getRun" /\ l.reg = call.reg
        <5>1. IsFrom(routes, "get", l.reg)
          BY <4>3, <3>3 DEF WalkOK, BaseKind
        <5> HIDE DEF l
        <5> QED
          BY <4>1, <4>3, <5>1 DEF WalkOK, RunKinds, BaseKind, l
      <4> QED
        BY <4>2, <4>3, <3>6
    <3>8. \A l : WalkOK(l, routes, request, triedHeadRoutes) =>
                   WalkOK(l, routes, request, triedHeadRoutes')
      BY <3>3 DEF WalkOK
    <3>9. todo' \in Seq(Layers)
          /\ \A n \in DOMAIN todo' : WalkOK(todo'[n], routes, request, triedHeadRoutes')
      <4>1. /\ todo' \in Seq(Layers)
            /\ \A i \in DOMAIN todo' :
                 \/ i \in DOMAIN HandlersOf(call) /\ todo'[i] = HandlersOf(call)[i]
                 \/ \E k \in DOMAIN rest : todo'[i] = rest[k]
        BY <3>3, <3>4, <3>6, Grown
      <4> QED
        BY <4>1, <3>4, <3>7, <3>8
    <3> QED
      BY <2>1, <3>3, <3>9 DEF TodoInv
  <2>4. CASE NotFound
    BY <2>1, <2>4, <1>2 DEF NotFound
  <2> QED
    BY <1>5, <2>2, <2>3, <2>4 DEF OnHonoPath
<1>6. CASE OnFastPath /\ Fast!Next
  <2>1. UNCHANGED <<todo, triedHeadRoutes, routes, request>>
    BY <1>6, FastWalks DEF Walks, OnFastPath
  <2> QED
    BY <2>1, <1>2
<1> QED
  BY <1>1, <1>3, <1>4, <1>5, <1>6, WalkSteps

(* What the walk of a request rests on.                                     *)
WalkInv == RoutesInv /\ ArrivalInv /\ FastRouteInv /\ RanInv /\ TodoInv

(* What running a handler does, at the index it is at.                      *)
RunHandlerIs(a) ==
    /\ Popped(a) /\ todo[a] \in Layers
    /\ ~PassesOn(todo[a]) /\ ~TriesHead(todo[a]) /\ todo[a].kind # "shutdown"
    /\ WalkOK(todo[a], routes, request, triedHeadRoutes)
    /\ Runs(todo[a], FALSE) /\ todo' = Tail(Ahead)
    /\ invoked' = IF todo[a].kind \in Once THEN invoked \cup {todo[a].reg} ELSE invoked
    /\ UNCHANGED <<triedHeadRoutes, isShuttingDown>>

(* There is such an index when a handler runs.                              *)
LEMMA RunHandlerRuns ==
    ASSUME TodoInv, RunHandler PROVE \E a \in DOMAIN todo : RunHandlerIs(a)
<1>1. Ahead # <<>>
  BY DEF RunHandler
<1>2. PICK a \in DOMAIN todo : Popped(a)
  BY <1>1, PoppedIs DEF TodoInv
<1>3. /\ todo[a] \in Layers /\ WalkOK(todo[a], routes, request, triedHeadRoutes)
      /\ Head(Ahead) = todo[a] /\ ~PassesOn(todo[a])
  BY <1>2 DEF Popped, TodoInv, At
<1>4. /\ ~TriesHead(todo[a]) /\ todo[a].kind # "shutdown" /\ Runs(todo[a], FALSE)
      /\ invoked' = IF todo[a].kind \in Once THEN invoked \cup {todo[a].reg} ELSE invoked
      /\ todo' = Tail(Ahead) /\ UNCHANGED <<triedHeadRoutes, isShuttingDown>>
  BY <1>3 DEF RunHandler
<1> QED
  BY <1>2, <1>3, <1>4 DEF RunHandlerIs

(* The layer that the fast path runs is a registered route.                 *)
LEMMA FastRouteRuns ==
    ASSUME RoutesInv, FastRouteInv, via = "fast"
    PROVE  /\ FastRoute.kind \in {"get", "all"} /\ LayerOK(FastRoute)
           /\ IsFrom(routes, FastRoute.kind, FastRoute.reg)
           /\ BaseKind(FastRoute.kind) = FastRoute.kind
<1>1. Matched(request) \subseteq DOMAIN routes /\ DOMAIN routes \subseteq Nat
  BY LenProperties DEF Matched, RoutesInv, RoutesOK
<1>2. Max(Matched(request)) \in DOMAIN routes /\ FastRoute.kind \in {"get", "all"}
  BY <1>1, FastRouteIs DEF FastRouteInv, FastRoute
<1>3. LayerOK(FastRoute) /\ IsFrom(routes, FastRoute.kind, FastRoute.reg)
  BY <1>2 DEF FastRoute, RoutesInv, RegistrationsInv, IsFrom
<1> QED
  BY <1>2, <1>3, BaseKindOfLayer

(* What a handler that runs adds to ran, field by field.                    *)
LEMMA RunAdds ==
    ASSUME RanInv, NEW call, NEW isLastLayer, Runs(call, isLastLayer)
    PROVE  LET n == Len(ran) + 1
           IN  /\ Len(ran) \in Nat /\ DOMAIN ran = 1..Len(ran) /\ DOMAIN ran' = 1..n
               /\ \A i \in DOMAIN ran : i \in DOMAIN ran' /\ ran'[i] = ran[i]
               /\ \A i \in DOMAIN ran' : i \in DOMAIN ran \/ i = n
               /\ n \in DOMAIN ran' /\ Len(ran') = n
               /\ ran'[n].reg = call.reg /\ ran'[n].kind = call.kind
               /\ ran'[n].path = call.path /\ ran'[n].given = RouteParams(call)
               /\ ran'[n].seen = Seen(call) /\ ran'[n].left = params'
<1> DEFINE n == Len(ran) + 1
           e == Entry(call)
<1>1. /\ IsSeq(ran') /\ Len(ran') = n /\ Len(ran) \in Nat
      /\ DOMAIN ran = 1..Len(ran) /\ DOMAIN ran' = 1..n
      /\ \A i \in 1..Len(ran) : ran'[i] = ran[i]
      /\ ran'[n] = e
  BY RunsIs DEF RanInv
<1>2. /\ e.reg = call.reg /\ e.kind = call.kind /\ e.path = call.path
      /\ e.given = RouteParams(call) /\ e.seen = Seen(call) /\ e.left = params'
  BY DEF Entry
<1> HIDE DEF e
<1> QED
  BY <1>1, <1>2

-----------------------------------------------------------------------------
(* Middleware runs once.                                                    *)

(* A registration ran, and a middleware that did is remembered by its       *)
(* WeakSet.                                                                 *)
RanReg(reg) == \E i \in DOMAIN ran : ran[i].reg = reg

OnceInv ==
    /\ \A i \in DOMAIN ran : IsFrom(routes, BaseKind(ran[i].kind), ran[i].reg)
    /\ \A i \in DOMAIN ran : ran[i].kind \in Once => ran[i].reg \in invoked
    /\ \A reg \in invoked : RanReg(reg)
    /\ MiddlewareOnce

(* Layers of one middleware are of its kind.                                *)
LEMMA SameKind ==
    ASSUME RoutesInv, NEW one, NEW other, NEW reg, one \in Once,
           IsFrom(routes, one, reg), IsFrom(routes, other, reg)
    PROVE  other = one
<1>1. PICK i \in DOMAIN routes : routes[i].reg = reg /\ routes[i].kind = one
  BY DEF IsFrom
<1>2. PICK j \in DOMAIN routes : routes[j].reg = reg /\ routes[j].kind = other
  BY DEF IsFrom
<1>3. reg # 0
  BY <1>1 DEF RoutesInv, RegistrationsInv, LayerOK, AdapterKinds, Once
<1> QED
  BY <1>1, <1>2, <1>3 DEF RoutesInv, RegistrationsInv

(* Every step keeps that a middleware runs once.                            *)
LEMMA OnceStep ==
    ASSUME WalkInv, OnceInv, [Next]_vars PROVE OnceInv'
<1> USE DEF WalkInv
<1>1. ASSUME UNCHANGED <<ran, invoked, routes>> PROVE OnceInv'
  <2>1. UNCHANGED MiddlewareOnce
    BY <1>1 DEF MiddlewareOnce, FirstRun
  <2> QED
    BY <1>1, <2>1 DEF OnceInv, RanReg
<1>2. ASSUME ran' = <<>>, invoked' = {} PROVE OnceInv'
  BY <1>2 DEF OnceInv, MiddlewareOnce
<1>3. CASE Idle
  BY <1>2, <1>3 DEF Idle, ArrivalInv, walkVars, paramVars
<1>4. CASE Still
  BY <1>1, <1>4 DEF Still, walkVars, paramVars
<1>5. CASE Arrive
  <2>1. ran' = <<>> /\ invoked' = {}
    BY <1>5, Arrives DEF ArrivalInv
  <2> QED
    BY <2>1, <1>2
<1>6. CASE OnHonoPath
  <2>1. routes' = routes
    BY <1>6, HonoWalks DEF Walks
  <2>2. CASE RunHandler
    <3>1. PICK a \in DOMAIN todo : RunHandlerIs(a)
      BY <2>2, RunHandlerRuns
    <3> DEFINE call == todo[a]
               n == Len(ran) + 1
    <3>2. /\ ~PassesOn(call) /\ WalkOK(call, routes, request, triedHeadRoutes)
          /\ Runs(call, FALSE)
          /\ invoked' = IF call.kind \in Once THEN invoked \cup {call.reg} ELSE invoked
      BY <3>1 DEF RunHandlerIs
    <3> HIDE DEF call
    <3>3. /\ Len(ran) \in Nat /\ DOMAIN ran = 1..Len(ran) /\ DOMAIN ran' = 1..n
          /\ \A i \in DOMAIN ran : i \in DOMAIN ran' /\ ran'[i] = ran[i]
          /\ ran'[n].reg = call.reg /\ ran'[n].kind = call.kind
      BY <3>2, RunAdds
    <3>4. \A i \in DOMAIN ran' : i \in DOMAIN ran \/ i = n
      BY <3>3
    <3> HIDE DEF n
    <3>5. IsFrom(routes, BaseKind(call.kind), call.reg)
      BY <3>2 DEF WalkOK
    <3>6. call.kind \in Once => call.reg \notin invoked
      BY <3>2 DEF PassesOn, RanBefore
    <3>7. \A i \in DOMAIN ran' : IsFrom(routes', BaseKind(ran'[i].kind), ran'[i].reg)
      BY <2>1, <3>3, <3>4, <3>5 DEF OnceInv
    <3>8. \A i \in DOMAIN ran' : ran'[i].kind \in Once => ran'[i].reg \in invoked'
      BY <3>2, <3>3, <3>4 DEF OnceInv
    <3>9. \A reg \in invoked' : RanReg(reg)'
      <4>1. \A i \in DOMAIN ran : i \in DOMAIN ran' /\ ran'[i] = ran[i]
        BY <3>3 DEF n
      <4>2. n \in DOMAIN ran'
        BY <3>3 DEF n
      <4> QED
        BY <3>2, <3>3, <4>1, <4>2 DEF OnceInv, RanReg
    <3>10. ASSUME NEW i \in DOMAIN ran', ran'[i].kind \in Once, NEW j \in 1..(i - 1)
           PROVE  ran'[j].reg # ran'[i].reg
      <4>1. CASE i \in DOMAIN ran
        <5>1. j \in DOMAIN ran
          BY <4>1, <3>3
        <5> QED
          BY <3>10, <4>1, <5>1, <3>3 DEF OnceInv, MiddlewareOnce, FirstRun
      <4>2. CASE i = n
        <5>1. j \in DOMAIN ran /\ ran'[j] = ran[j]
          BY <3>10, <4>2, <3>3 DEF n
        <5>2. call.kind \in Once /\ BaseKind(call.kind) = call.kind
          BY <3>10, <4>2, <3>3 DEF Once, BaseKind
        <5>3. SUFFICES ASSUME ran[j].reg = call.reg PROVE FALSE
          BY <4>2, <5>1, <3>3
        <5>4. IsFrom(routes, BaseKind(ran[j].kind), call.reg)
          BY <5>1, <5>3 DEF OnceInv
        <5>5. BaseKind(ran[j].kind) = call.kind
          BY <5>2, <5>4, <3>5, SameKind
        <5>6. ran[j].kind \in Once
          BY <5>2, <5>5 DEF BaseKind, Once
        <5> QED
          BY <5>1, <5>2, <5>3, <5>6, <3>6 DEF OnceInv
      <4> QED
        BY <4>1, <4>2, <3>4
    <3>11. MiddlewareOnce'
      BY <3>10 DEF MiddlewareOnce, FirstRun
    <3> QED
      BY <3>7, <3>8, <3>9, <3>11 DEF OnceInv
  <2>3. CASE Shutdown \/ TryHeadRoutes \/ NotFound
    <3>1. UNCHANGED <<ran, invoked>>
      BY <2>3 DEF Shutdown, TryHeadRoutes, NotFound, paramVars
    <3> QED
      BY <2>1, <3>1, <1>1
  <2> QED
    BY <1>6, <2>2, <2>3 DEF OnHonoPath
<1>7. CASE OnFastPath /\ Fast!Next
  <2>1. routes' = routes /\ invoked' = invoked /\ via = "fast"
    BY <1>7, FastWalks DEF Walks, OnFastPath
  <2>2. CASE phase = "prepared" /\ phase' = "route" /\ Runs(FastRoute, TRUE)
    <3>1. ran = <<>> /\ Len(ran) = 0
      BY <2>1, <2>2 DEF RanInv
    <3>2. DOMAIN ran' = {1} /\ ran'[1].kind = FastRoute.kind /\ ran'[1].reg = FastRoute.reg
      <4> DEFINE call == FastRoute
      <4> HIDE DEF call
      <4>1. Runs(call, TRUE)
        BY <2>2 DEF call
      <4>2. /\ DOMAIN ran' = 1..(0 + 1) /\ ran'[0 + 1].kind = call.kind
            /\ ran'[0 + 1].reg = call.reg
        BY <4>1, <3>1, RunAdds
      <4> QED
        BY <4>2 DEF call
    <3>3. FastRoute.kind \notin Once /\ IsFrom(routes, BaseKind(FastRoute.kind), FastRoute.reg)
      BY <2>1, FastRouteRuns DEF Once
    <3>4. \A reg \in invoked : FALSE
      BY <3>1 DEF OnceInv, RanReg
    <3>5. MiddlewareOnce'
      BY <3>2, <3>3 DEF MiddlewareOnce
    <3> QED
      BY <2>1, <3>2, <3>3, <3>4, <3>5 DEF OnceInv
  <2>3. CASE UNCHANGED <<params, routeParams, ran>>
    BY <2>1, <2>3, <1>1
  <2> QED
    BY <1>7, <2>2, <2>3, RouteSteps
<1> QED
  BY <1>3, <1>4, <1>5, <1>6, <1>7, WalkSteps

-----------------------------------------------------------------------------
(* The shutdown layer is the first that answers.                            *)

(* Where nothing is ahead, every layer left only passes on.                 *)
LEMMA NothingAhead ==
    ASSUME todo \in Seq(Layers), Ahead = <<>>
    PROVE  \A n \in DOMAIN todo : PassesOn(todo[n])
<1> DEFINE I == {i \in 1..Len(todo) : ~PassesOn(todo[i])}
           a == Min(I)
<1>1. Len(todo) \in Nat /\ DOMAIN todo = 1..Len(todo)
  BY LenProperties
<1>2. SUFFICES ASSUME I # {} PROVE FALSE
  BY <1>1
<1>3. Ahead = SubSeq(todo, a, Len(todo)) \/ a = 0
  <2>1. SelectInSeq(todo, LAMBDA call : ~PassesOn(call)) = IF I # {} THEN Min(I) ELSE 0
    BY DEF SelectInSeq
  <2> HIDE DEF I
  <2>2. Ahead = IF (IF I # {} THEN Min(I) ELSE 0) = 0 THEN <<>>
                ELSE SubSeq(todo, IF I # {} THEN Min(I) ELSE 0, Len(todo))
    BY <2>1 DEF Ahead
  <2> QED
    BY <2>2, <1>2
<1>4. I \subseteq Nat
  OBVIOUS
<1>5. a \in I
  BY <1>2, <1>4, MinIsLeast
<1> HIDE DEF a
<1>6. a \in 1..Len(todo)
  BY <1>5
<1> HIDE DEF I
<1>7. /\ SubSeq(todo, a, Len(todo)) \in Seq(Layers)
      /\ Len(SubSeq(todo, a, Len(todo))) = Len(todo) - a + 1
  BY <1>1, <1>6, SubSeqProperties
<1>8. SubSeq(todo, a, Len(todo)) = <<>>
  BY <1>1, <1>3, <1>6
<1> HIDE DEF a
<1> QED
  BY <1>1, <1>6, <1>7, <1>8

(* A late request has a shutdown layer ahead, behind layers that pass on.   *)
LateInv ==
    request.late =>
        /\ ran = <<>>
        /\ outcome = None =>
             \E s \in DOMAIN todo : /\ todo[s].kind = "shutdown"
                                    /\ \A n \in 1..(s - 1) : todo[n].kind \in Passing

(* So its next step is that of the shutdown middleware.                     *)
LEMMA ShutdownIsAhead ==
    ASSUME WalkInv, LateInv, OnHonoPath, request.late
    PROVE  Shutdown /\ isShuttingDown
<1> USE DEF WalkInv
<1>1. outcome = None /\ isShuttingDown /\ request.target \in Targets
  BY HonoWalks DEF Walks, ArrivalInv
<1>2. PICK s \in DOMAIN todo : /\ todo[s].kind = "shutdown"
                               /\ \A n \in 1..(s - 1) : todo[n].kind \in Passing
  BY <1>1 DEF LateInv
<1>3. ~PassesOn(todo[s])
  <2>1. LayerOK(todo[s])
    BY <1>2 DEF TodoInv, WalkOK, RunKinds
  <2>2. todo[s].method = "ALL" /\ todo[s].path = AnyPath
    BY <2>1, <1>2 DEF LayerOK
  <2>3. Matches(todo[s], request)
    BY <2>2, <1>1, PathsAssumption DEF Matches, IsFor
  <2> QED
    BY <2>3, <1>2 DEF PassesOn, RanBefore, Once
<1>4. \A n \in 1..(s - 1) : PassesOn(todo[n])
  BY <1>2 DEF Passing, PassesOn
<1>5. todo \in Seq(Layers) /\ DOMAIN todo \subseteq Nat /\ \A n \in DOMAIN todo : n # 0
  BY LenProperties DEF TodoInv
<1>6. Ahead # <<>>
  BY <1>3, <1>5, NothingAhead
<1>7. PICK a \in DOMAIN todo : Popped(a)
  BY <1>5, <1>6, PoppedIs
<1>8. ~PassesOn(todo[a]) /\ (\A n \in 1..(a - 1) : PassesOn(todo[n])) /\ Head(Ahead) = todo[a]
  BY <1>7 DEF Popped, At
<1>9. a = s
  <2>1. ~(a < s) /\ ~(s < a)
    BY <1>3, <1>4, <1>5, <1>8
  <2> QED
    BY <2>1, <1>5
<1>10. Head(Ahead).kind = "shutdown"
  BY <1>2, <1>8, <1>9
<1>11. ~TryHeadRoutes /\ ~RunHandler /\ ~NotFound
  BY <1>6, <1>10 DEF TryHeadRoutes, TriesHead, RunHandler, NotFound
<1> QED
  BY <1>1, <1>11 DEF OnHonoPath

(* Every step keeps that a late request is stopped.                         *)
LEMMA LateStep ==
    ASSUME WalkInv, LateInv, [Next]_vars PROVE LateInv'
<1> USE DEF WalkInv
<1>1. CASE Idle
  BY <1>1 DEF Idle, ArrivalInv, requestVars, LateInv
<1>2. CASE Still
  BY <1>2 DEF Still, requestVars, walkVars, paramVars, LateInv
<1>3. CASE Arrive
  <2> SUFFICES ASSUME request'.late PROVE LateInv'
    BY DEF LateInv
  <2>1. isShuttingDown /\ todo' = routes /\ ran' = <<>>
    BY <1>3, Arrives DEF ArrivalInv
  <2>2. PICK s \in DOMAIN routes : routes[s].kind = "shutdown"
    BY <2>1 DEF RoutesInv, ShutdownInv
  <2>3. DOMAIN routes = 1..Len(routes) /\ Len(routes) \in Nat
    BY LenProperties DEF RoutesInv, RoutesOK
  <2>4. \A n \in 1..(s - 1) : n \in DOMAIN routes /\ n < s
    BY <2>3
  <2>5. \A n \in 1..(s - 1) : routes[n].kind \in Passing
    BY <2>2, <2>4 DEF RoutesInv, ShutdownInv
  <2> QED
    BY <2>1, <2>2, <2>5 DEF LateInv
<1>4. CASE OnHonoPath
  <2> SUFFICES ASSUME request.late PROVE LateInv'
    BY <1>4, HonoWalks DEF Walks, LateInv
  <2>1. Shutdown /\ isShuttingDown
    BY <1>4, ShutdownIsAhead
  <2>2. outcome' = "503" /\ ran' = ran
    BY <2>1 DEF Shutdown, paramVars
  <2>3. ran = <<>>
    BY DEF LateInv
  <2> QED
    BY <2>2, <2>3 DEF LateInv, None
<1>5. CASE OnFastPath /\ Fast!Next
  BY <1>5, FastWalks DEF Walks, FastRouteInv, LateInv
<1> QED
  BY <1>1, <1>2, <1>3, <1>4, <1>5, WalkSteps

-----------------------------------------------------------------------------
(* The HEAD routes of a path come before its GET routes.                    *)

(* A GET route of a path: its layer, or its handler behind the HEAD         *)
(* handlers.                                                                *)
GetKinds == {"get", "getRun"}
IsGetOf(l, path) == l.kind \in GetKinds /\ l.path = path

(* A HEAD handler is ahead, before any GET route of its path.               *)
HeadAwaits(calls, reg, path) ==
    \E n \in DOMAIN calls :
        /\ calls[n].kind = "headRun" /\ calls[n].reg = reg
        /\ \A m \in 1..(n - 1) : ~IsGetOf(calls[m], path)

(* The HEAD handlers of a path that was tried ran or are ahead.             *)
HeadInv ==
    /\ \A path \in triedHeadRoutes : \A k \in DOMAIN headRouteHandlers[path] :
          \/ RanReg(headRouteHandlers[path][k].reg)
          \/ HeadAwaits(todo, headRouteHandlers[path][k].reg, path)
    /\ HeadFirst

(* They stay ahead until they run.                                          *)
LEMMA HeadsStay ==
    ASSUME TodoInv, NEW a, Popped(a), NEW reg, NEW path, HeadAwaits(todo, reg, path)
    PROVE  \/ todo[a].kind = "headRun" /\ todo[a].reg = reg
           \/ ~IsGetOf(todo[a], path) /\ HeadAwaits(Tail(Ahead), reg, path)
<1>1. PICK n \in DOMAIN todo :
        /\ todo[n].kind = "headRun" /\ todo[n].reg = reg
        /\ \A m \in 1..(n - 1) : ~IsGetOf(todo[m], path)
  BY DEF HeadAwaits
<1>2. ~PassesOn(todo[n])
  <2>1. Matches(todo[n], request)
    BY <1>1 DEF TodoInv, WalkOK, RunKinds
  <2> QED
    BY <1>1, <2>1 DEF PassesOn, RanBefore, Once
<1>3. DOMAIN todo \subseteq Nat \ {0} /\ a \in DOMAIN todo
  BY LenProperties DEF TodoInv, Popped
<1>4. ~(n < a)
  <2>1. \A m \in 1..(a - 1) : PassesOn(todo[m])
    BY DEF Popped, At
  <2> QED
    BY <1>2, <1>3, <2>1
<1>5. CASE n = a
  BY <1>1, <1>5
<1>6. CASE n > a
  <2>1. n - a \in DOMAIN Tail(Ahead) /\ Tail(Ahead)[n - a] = todo[n]
    BY <1>6 DEF Popped
  <2>2. ASSUME NEW m \in 1..((n - a) - 1) PROVE ~IsGetOf(Tail(Ahead)[m], path)
    <3>1. m + a \in 1..(n - 1) /\ m \in 1..(n - a)
      BY <1>3, <1>6
    <3>2. DOMAIN Tail(Ahead) = 1..Len(Tail(Ahead)) /\ Len(Tail(Ahead)) \in Nat
      BY LenProperties DEF Popped
    <3>3. m \in DOMAIN Tail(Ahead)
      BY <1>3, <2>1, <3>1, <3>2
    <3>4. Tail(Ahead)[m] = todo[m + a]
      BY <3>3 DEF Popped
    <3> QED
      BY <1>1, <3>1, <3>4
  <2>3. a \in 1..(n - 1)
    BY <1>3, <1>6
  <2> QED
    BY <1>1, <2>1, <2>2, <2>3 DEF HeadAwaits
<1> QED
  BY <1>3, <1>4, <1>5, <1>6

(* Every step keeps that the HEAD handlers come first.                      *)
LEMMA HeadStep ==
    ASSUME WalkInv, HeadInv, [Next]_vars PROVE HeadInv'
<1> USE DEF WalkInv
<1>1. ASSUME UNCHANGED <<ran, todo, triedHeadRoutes, headRouteHandlers, request>>
      PROVE  HeadInv'
  BY <1>1 DEF HeadInv, HeadFirst, RanReg, IsHead
<1>2. ASSUME triedHeadRoutes' = {}, ran' = <<>> PROVE HeadInv'
  BY <1>2 DEF HeadInv, HeadFirst
<1>3. CASE Idle
  BY <1>2, <1>3 DEF Idle, ArrivalInv, walkVars, paramVars
<1>4. CASE Still
  BY <1>1, <1>4 DEF Still, walkVars, paramVars, requestVars
<1>5. CASE Arrive
  BY <1>2, <1>5, Arrives DEF ArrivalInv
<1>6. CASE OnHonoPath
  <2>1. UNCHANGED <<routes, request, headRouteHandlers>> /\ HonoStep
    BY <1>6, HonoWalks DEF Walks, HonoStep
  <2>2. CASE RunHandler
    <3>1. PICK a \in DOMAIN todo : RunHandlerIs(a)
      BY <2>2, RunHandlerRuns
    <3> DEFINE call == todo[a]
               n == Len(ran) + 1
    <3>2. /\ Popped(a) /\ ~TriesHead(call) /\ Runs(call, FALSE)
          /\ WalkOK(call, routes, request, triedHeadRoutes)
          /\ todo' = Tail(Ahead) /\ triedHeadRoutes' = triedHeadRoutes
      BY <3>1 DEF RunHandlerIs
    <3> HIDE DEF call
    <3>3. /\ Len(ran) \in Nat /\ DOMAIN ran = 1..Len(ran) /\ DOMAIN ran' = 1..n
          /\ \A i \in DOMAIN ran : i \in DOMAIN ran' /\ ran'[i] = ran[i]
          /\ \A i \in DOMAIN ran' : i \in DOMAIN ran \/ i = n
          /\ n \in DOMAIN ran'
          /\ ran'[n].reg = call.reg /\ ran'[n].kind = call.kind /\ ran'[n].path = call.path
      BY <3>2, RunAdds
    <3>4. ASSUME NEW path \in triedHeadRoutes, NEW k \in DOMAIN headRouteHandlers[path]
          PROVE  \/ RanReg(headRouteHandlers[path][k].reg)
                 \/ call.kind = "headRun" /\ call.reg = headRouteHandlers[path][k].reg
                 \/ /\ ~IsGetOf(call, path)
                    /\ HeadAwaits(todo', headRouteHandlers[path][k].reg, path)
      BY <3>2, HeadsStay DEF HeadInv, call
    <3> HIDE DEF n
    <3>5. \A reg : RanReg(reg) \/ call.reg = reg => \E i \in DOMAIN ran' : ran'[i].reg = reg
      BY <3>3 DEF RanReg
    <3>6. \A path \in triedHeadRoutes' : \A k \in DOMAIN headRouteHandlers'[path] :
             \/ \E i \in DOMAIN ran' : ran'[i].reg = headRouteHandlers'[path][k].reg
             \/ HeadAwaits(todo', headRouteHandlers'[path][k].reg, path)
      BY <2>1, <3>2, <3>4, <3>5
    <3>7. ASSUME NEW i \in DOMAIN ran', IsHead, ran'[i].kind \in GetKinds,
                 NEW k \in DOMAIN headRouteHandlers[ran'[i].path]
          PROVE  \E j \in 1..(i - 1) : ran'[j].reg = headRouteHandlers[ran'[i].path][k].reg
      <4>1. CASE i \in DOMAIN ran
        <5>1. PICK j \in 1..(i - 1) : ran[j].reg = headRouteHandlers[ran[i].path][k].reg
          BY <3>7, <4>1, <3>3 DEF HeadInv, HeadFirst, GetKinds
        <5>2. j \in DOMAIN ran
          BY <4>1, <3>3
        <5> QED
          BY <4>1, <5>1, <5>2, <3>3
      <4>2. CASE i = n
        <5>1. call.kind \in GetKinds /\ call.path = ran'[i].path
          BY <3>7, <4>2, <3>3
        <5>2. call.path \in triedHeadRoutes
          <6>1. CASE call.kind = "get"
            <7>1. headRouteHandlers[call.path] # <<>>
              BY <3>7, <5>1
            <7> QED
              BY <6>1, <7>1, <3>2, <3>7 DEF TriesHead
          <6>2. CASE call.kind = "getRun"
            BY <6>2, <3>2 DEF WalkOK
          <6> QED
            BY <5>1, <6>1, <6>2 DEF GetKinds
        <5>3. RanReg(headRouteHandlers[call.path][k].reg)
          BY <3>4, <3>7, <5>1, <5>2 DEF GetKinds, IsGetOf
        <5>4. PICK j \in DOMAIN ran : ran[j].reg = headRouteHandlers[call.path][k].reg
          BY <5>3 DEF RanReg
        <5>5. j \in 1..(i - 1)
          BY <4>2, <3>3 DEF n
        <5> QED
          BY <5>1, <5>4, <5>5, <3>3
      <4> QED
        BY <4>1, <4>2, <3>3
    <3>8. HeadFirst'
      BY <3>7, <2>1 DEF HeadFirst, GetKinds, IsHead
    <3> QED
      BY <3>6, <3>8 DEF HeadInv, RanReg
  <2>3. CASE Shutdown
    <3>1. Ahead # <<>> /\ Head(Ahead).kind = "shutdown" /\ todo' = Tail(Ahead)
          /\ UNCHANGED <<ran, triedHeadRoutes>>
      BY <2>3 DEF Shutdown, paramVars
    <3>2. PICK a \in DOMAIN todo : Popped(a)
      BY <3>1, PoppedIs DEF TodoInv
    <3>3. todo[a].kind = "shutdown"
      BY <3>1, <3>2 DEF Popped
    <3>4. \A reg, path : HeadAwaits(todo, reg, path) => HeadAwaits(todo', reg, path)
      BY <3>1, <3>2, <3>3, HeadsStay
    <3>5. HeadFirst'
      BY <2>1, <3>1 DEF HeadInv, HeadFirst, IsHead
    <3> QED
      BY <2>1, <3>1, <3>4, <3>5 DEF HeadInv, RanReg
  <2>4. CASE TryHeadRoutes
    <3>1. Ahead # <<>> /\ ran' = ran
      BY <2>4 DEF TryHeadRoutes, paramVars
    <3>2. PICK a \in DOMAIN todo : Popped(a)
      BY <3>1, PoppedIs DEF TodoInv
    <3> DEFINE call == todo[a]
               rest == Tail(Ahead)
               own == HandlersOf(call)
    <3>3. /\ call \in Layers /\ call.kind \in {"head", "get"}
          /\ call.path \in HonoPaths /\ call.path \notin triedHeadRoutes
          /\ todo' = own \o rest /\ rest \in Seq(Layers)
          /\ triedHeadRoutes' = triedHeadRoutes \cup {call.path}
      BY <2>1, <2>4, <3>2, TriesHeadIs DEF Popped
    <3>4. \A reg, path : HeadAwaits(todo, reg, path) => HeadAwaits(rest, reg, path)
      BY <3>2, <3>3, HeadsStay
    <3> HIDE DEF call, rest
    <3>5. /\ own \in Seq(Layers) /\ Heads(call) \in Seq(HeadEntries)
          /\ \A i \in DOMAIN Heads(call) :
                /\ i \in DOMAIN own /\ own[i].kind = "headRun"
                /\ own[i].reg = Heads(call)[i].reg
          /\ \A i \in DOMAIN own : own[i].path = call.path
      BY <3>3, HandlersOfIs DEF RoutesInv
    <3> HIDE DEF own
    <3>6. /\ todo' \in Seq(Layers)
          /\ \A i \in DOMAIN own : i \in DOMAIN todo' /\ todo'[i] = own[i]
          /\ \A k \in DOMAIN rest :
               Len(own) + k \in DOMAIN todo' /\ todo'[Len(own) + k] = rest[k]
          /\ \A i \in DOMAIN todo' :
                \/ i \in DOMAIN own /\ todo'[i] = own[i]
                \/ \E k \in DOMAIN rest : i = Len(own) + k /\ todo'[i] = rest[k]
      <4>1. own \in Seq(Layers) /\ rest \in Seq(Layers) /\ todo' = own \o rest
        BY <3>3, <3>5
      <4>2. Joins(own \o rest, own, rest)
        BY <4>1, GrownJoins
      <4>3. Joins(todo', own, rest)
        BY <4>1, <4>2
      <4> QED
        BY <4>3 DEF Joins
    <3>7. /\ DOMAIN rest = 1..Len(rest) /\ DOMAIN own = 1..Len(own)
          /\ DOMAIN todo' = 1..Len(todo') /\ DOMAIN Heads(call) = 1..Len(Heads(call))
          /\ Len(rest) \in Nat /\ Len(own) \in Nat /\ Len(todo') \in Nat
          /\ Len(Heads(call)) \in Nat
      BY <3>3, <3>5, <3>6, LenProperties
    <3>8. ASSUME NEW path, path # call.path, NEW reg, HeadAwaits(rest, reg, path)
          PROVE  HeadAwaits(todo', reg, path)
      <4>1. PICK k \in DOMAIN rest :
              /\ rest[k].kind = "headRun" /\ rest[k].reg = reg
              /\ \A m \in 1..(k - 1) : ~IsGetOf(rest[m], path)
        BY <3>8 DEF HeadAwaits
      <4> DEFINE n == Len(own) + k
      <4>2. ASSUME NEW m \in 1..(n - 1) PROVE ~IsGetOf(todo'[m], path)
        <5>1. Len(own) + k \in DOMAIN todo'
          BY <3>6
        <5>2. m \in DOMAIN todo'
          BY <5>1, <3>7
        <5>3. CASE m \in DOMAIN own /\ todo'[m] = own[m]
          BY <5>3, <3>5, <3>8 DEF IsGetOf
        <5>4. ASSUME NEW i \in DOMAIN rest, m = Len(own) + i, todo'[m] = rest[i]
              PROVE  ~IsGetOf(todo'[m], path)
          <6>1. i \in 1..(k - 1)
            BY <5>4, <3>7
          <6> QED
            BY <6>1, <5>4, <4>1
        <5> QED
          BY <5>2, <5>3, <5>4, <3>6
      <4>3. Len(own) + k \in DOMAIN todo' /\ todo'[Len(own) + k] = rest[k]
        BY <3>6
      <4>4. n \in DOMAIN todo' /\ todo'[n].kind = "headRun" /\ todo'[n].reg = reg
        BY <4>1, <4>3
      <4> HIDE DEF n
      <4> QED
        BY <4>2, <4>4 DEF HeadAwaits
    <3>9. ASSUME NEW k \in DOMAIN Heads(call)
          PROVE  HeadAwaits(todo', Heads(call)[k].reg, call.path)
      <4>1. k \in DOMAIN todo' /\ todo'[k].kind = "headRun" /\ todo'[k].reg = Heads(call)[k].reg
        BY <3>5, <3>6
      <4>2. ASSUME NEW m \in 1..(k - 1) PROVE ~IsGetOf(todo'[m], call.path)
        <5>1. m \in DOMAIN Heads(call)
          BY <3>7
        <5>2. todo'[m].kind = "headRun"
          BY <5>1, <3>5, <3>6
        <5> QED
          BY <5>2 DEF IsGetOf, GetKinds
      <4> QED
        BY <4>1, <4>2 DEF HeadAwaits
    <3>10. ASSUME NEW path \in triedHeadRoutes', NEW k \in DOMAIN headRouteHandlers[path]
           PROVE  \/ RanReg(headRouteHandlers[path][k].reg)
                  \/ HeadAwaits(todo', headRouteHandlers[path][k].reg, path)
      <4>1. CASE path = call.path
        BY <4>1, <3>9 DEF Heads
      <4>2. CASE path # call.path
        BY <4>2, <3>3, <3>4, <3>8 DEF HeadInv
      <4> QED
        BY <4>1, <4>2
    <3>11. HeadFirst'
      BY <2>1, <3>1 DEF HeadInv, HeadFirst, IsHead
    <3> QED
      BY <2>1, <3>1, <3>10, <3>11 DEF HeadInv, RanReg
  <2>5. CASE NotFound
    BY <1>1, <2>1, <2>5 DEF NotFound, paramVars
  <2> QED
    BY <1>6, <2>2, <2>3, <2>4, <2>5 DEF OnHonoPath
<1>7. CASE OnFastPath /\ Fast!Next
  <2>1. UNCHANGED <<todo, triedHeadRoutes, request, headRouteHandlers>> /\ via = "fast"
    BY <1>7, FastWalks DEF Walks, OnFastPath
  <2>2. ~IsHead /\ ~IsHead'
    BY <2>1 DEF FastRouteInv, IsHead
  <2>3. HeadFirst'
    BY <2>2 DEF HeadFirst
  <2>4. ASSUME NEW reg, RanReg(reg) PROVE \E i \in DOMAIN ran' : ran'[i].reg = reg
    <3>1. CASE Runs(FastRoute, TRUE)
      BY <3>1, <2>4, RunAdds DEF RanReg
    <3>2. CASE ran' = ran
      BY <3>2, <2>4 DEF RanReg
    <3> QED
      BY <1>7, <3>1, <3>2, RouteSteps
  <2> QED
    BY <2>1, <2>3, <2>4 DEF HeadInv, RanReg
<1> QED
  BY <1>3, <1>4, <1>5, <1>6, <1>7, WalkSteps

-----------------------------------------------------------------------------
(* Edits of req.params reach the next layers.                               *)

(* req.params and what the path gave are those of the handler that ran      *)
(* last.                                                                    *)
EditsInv ==
    /\ via = "hono" /\ ran # <<>> =>
          /\ params = ran[Len(ran)].left /\ routeParams = ran[Len(ran)].given
          /\ DOMAIN routeParams = Names
    /\ ran = <<>> => routeParams = NoParams
    /\ EditsReachNextLayers

(* A value that a path gives again leaves the edited one in req.params.     *)
LEMMA EditIsSeen ==
    ASSUME NEW call, NEW name \in Names, DOMAIN routeParams = Names,
           RouteParams(call)[name] = routeParams[name]
    PROVE  Seen(call)[name] = params[name]
<1>1. routeParams # NoParams
  BY DEF NoParams
<1> DEFINE new == RouteParams(call)
<1>2. Seen(call) = keepParameterEdits(new, routeParams)
  BY <1>1 DEF Seen
<1> HIDE DEF new
<1>3. Seen(call)[name] = IF /\ params[name] # routeParams[name]
                            /\ new[name] \in {Absent, routeParams[name]}
                         THEN params[name] ELSE new[name]
  BY <1>2 DEF keepParameterEdits
<1> QED
  BY <1>3 DEF new

(* Every step keeps that edits reach the next layers.                       *)
LEMMA EditsStep ==
    ASSUME WalkInv, EditsInv, [Next]_vars PROVE EditsInv'
<1> USE DEF WalkInv
<1>1. ASSUME UNCHANGED <<ran, via, params, routeParams>> PROVE EditsInv'
  <2>1. UNCHANGED EditsReachNextLayers
    BY <1>1 DEF EditsReachNextLayers, Reaches, EditedAt
  <2> QED
    BY <1>1, <2>1 DEF EditsInv
<1>2. CASE Idle
  BY <1>1, <1>2 DEF Idle, walkVars, paramVars, requestVars
<1>3. CASE Still
  BY <1>1, <1>3 DEF Still, walkVars, paramVars, requestVars
<1>4. CASE Arrive
  <2>1. ran' = <<>> /\ routeParams' = routeParams /\ routeParams = NoParams
    BY <1>4, Arrives DEF ArrivalInv
  <2>2. EditsReachNextLayers'
    BY <2>1 DEF EditsReachNextLayers
  <2> QED
    BY <2>1, <2>2 DEF EditsInv
<1>5. CASE OnHonoPath
  <2>1. via' = via /\ via = "hono"
    BY <1>5, HonoWalks DEF Walks
  <2>2. CASE RunHandler
    <3>1. PICK a \in DOMAIN todo : RunHandlerIs(a)
      BY <2>2, RunHandlerRuns
    <3> DEFINE call == todo[a]
               n == Len(ran) + 1
    <3>2. Runs(call, FALSE)
      BY <3>1 DEF RunHandlerIs
    <3> HIDE DEF call
    <3>3. /\ Len(ran) \in Nat /\ DOMAIN ran = 1..Len(ran) /\ DOMAIN ran' = 1..n
          /\ \A i \in DOMAIN ran : i \in DOMAIN ran' /\ ran'[i] = ran[i]
          /\ \A i \in DOMAIN ran' : i \in DOMAIN ran \/ i = n
          /\ n \in DOMAIN ran' /\ Len(ran') = n
          /\ ran'[n].given = RouteParams(call)
          /\ ran'[n].seen = Seen(call) /\ ran'[n].left = params'
      BY <3>2, RunAdds DEF RanInv
    <3>4. routeParams' = RouteParams(call)
      BY <3>2 DEF Runs
    <3>5. DOMAIN RouteParams(call) = Names
      BY DEF RouteParams, Stripped
    <3>6. ran' # <<>>
      BY <3>3
    <3>7. ASSUME NEW i \in DOMAIN ran', NEW j \in DOMAIN ran', NEW name \in Names, i < j,
                 Reaches(i, j, name)',
                 \A k \in (i + 1)..(j - 1) : ran'[k].given[name] = ran'[i].given[name]
          PROVE  ran'[j].seen[name] = ran'[i].left[name]
      <4>1. i \in DOMAIN ran /\ ran'[i] = ran[i]
        BY <3>3, <3>7
      <4>2. /\ ran[i].left[name] # ran[i].seen[name]
            /\ ran'[j].given[name] = ran[i].given[name]
            /\ \A k \in (i + 1)..(j - 1) : ran'[k].left[name] = ran'[k].seen[name]
        BY <3>7, <4>1 DEF Reaches, EditedAt
      <4>3. \A k \in (i + 1)..(j - 1) : k \in DOMAIN ran /\ ran'[k] = ran[k]
        BY <3>3, <3>7
      <4>4. \A k \in (i + 1)..(j - 1) : /\ ran[k].left[name] = ran[k].seen[name]
                                        /\ ran[k].given[name] = ran[i].given[name]
        BY <4>1, <4>2, <4>3, <3>7
      <4>5. ASSUME NEW m \in DOMAIN ran, i < m, m <= j,
                   ran[m].given[name] = ran[i].given[name]
            PROVE  ran[m].seen[name] = ran[i].left[name]
        <5>1. \A k \in (i + 1)..(m - 1) : k \in (i + 1)..(j - 1)
          BY <3>3, <4>1, <4>5, <3>7
        <5> QED
          BY <4>1, <4>2, <4>4, <4>5, <5>1 DEF EditsInv, EditsReachNextLayers, Reaches, EditedAt
      <4>6. CASE j \in DOMAIN ran
        <5>1. ran'[j] = ran[j]
          BY <4>6, <3>3
        <5>2. j <= j
          BY <4>6, <3>3
        <5> QED
          BY <4>1, <4>2, <4>5, <4>6, <5>1, <5>2, <3>7
      <4>7. CASE j = n
        <5> DEFINE last == Len(ran)
        <5>1. last \in DOMAIN ran /\ i <= last /\ last <= j /\ ran # <<>>
          BY <4>1, <4>7, <3>3
        <5>2. ran[last].left[name] = ran[i].left[name]
              /\ ran[last].given[name] = ran[i].given[name]
          <6>1. CASE last = i
            BY <6>1
          <6>2. CASE last # i
            <7>1. i < last /\ last \in (i + 1)..(j - 1)
              BY <6>2, <5>1, <4>1, <4>7, <3>3
            <7> HIDE DEF last
            <7> QED
              BY <7>1, <5>1, <4>4, <4>5
          <6> QED
            BY <6>1, <6>2
        <5>3. params[name] = ran[i].left[name] /\ routeParams[name] = ran[i].given[name]
              /\ DOMAIN routeParams = Names
          BY <2>1, <5>1, <5>2 DEF EditsInv
        <5>4. RouteParams(call)[name] = routeParams[name]
          BY <4>2, <4>7, <5>3, <3>3
        <5>5. Seen(call)[name] = params[name]
          BY <5>3, <5>4, EditIsSeen
        <5> QED
          BY <4>1, <4>7, <5>3, <5>5, <3>3
      <4> QED
        BY <4>6, <4>7, <3>3
    <3>8. EditsReachNextLayers'
      BY <3>7 DEF EditsReachNextLayers
    <3> QED
      BY <3>3, <3>4, <3>5, <3>6, <3>8 DEF EditsInv
  <2>3. CASE Shutdown \/ TryHeadRoutes \/ NotFound
    <3>1. UNCHANGED <<ran, params, routeParams>>
      BY <2>3 DEF Shutdown, TryHeadRoutes, NotFound, paramVars
    <3> QED
      BY <2>1, <3>1, <1>1
  <2> QED
    BY <1>5, <2>2, <2>3 DEF OnHonoPath
<1>6. CASE OnFastPath /\ Fast!Next
  <2>1. via' = "fast" /\ via = "fast"
    BY <1>6, FastWalks DEF Walks
  <2>2. CASE Runs(FastRoute, TRUE)
    <3>1. Len(ran') <= 1 /\ Len(ran') \in Nat /\ DOMAIN ran' = 1..Len(ran')
      BY <2>1, RanStep DEF RanInv, IsSeq
    <3>2. \A i, j \in DOMAIN ran' : ~(i < j)
      BY <3>1
    <3>3. EditsReachNextLayers'
      BY <3>2 DEF EditsReachNextLayers
    <3>4. ran' # <<>>
      <4>1. Len(ran) + 1 \in DOMAIN ran' /\ Len(ran) \in Nat
        BY <2>2, RunAdds
      <4> QED
        BY <4>1
    <3> QED
      BY <2>1, <3>3, <3>4 DEF EditsInv
  <2>3. CASE UNCHANGED <<params, routeParams, ran>>
    BY <2>1, <2>3, <1>1
  <2> QED
    BY <1>6, <2>2, <2>3, RouteSteps
<1> QED
  BY <1>2, <1>3, <1>4, <1>5, <1>6, WalkSteps

-----------------------------------------------------------------------------
(* Middleware comes before the routes behind it.                            *)

(* A middleware the request has to pass.                                    *)
MiddlewareKinds == {"useAll", "use", "middleware", "headMiddleware"}
Required(l) ==
    /\ l.kind \in MiddlewareKinds /\ Matches(l, request)
    /\ l.kind = "headMiddleware" => IsHead

(* A call belongs no later than layer l: a HEAD handler where the first     *)
(* GET or HEAD route of its Hono path does.                                 *)
BelongsBy(call, l) ==
    IF call.kind # "headRun" THEN call.reg <= l.reg
    ELSE \E m \in DOMAIN routes :
            /\ routes[m].kind \in {"get", "head"} /\ routes[m].path = call.path
            /\ routes[m].reg <= l.reg

(* It is ahead, and behind no handler that belongs later.                   *)
Awaits(calls, l) ==
    \E n \in DOMAIN calls :
        /\ calls[n] = l
        /\ \A m \in 1..(n - 1) : BelongsBy(calls[m], l)

(* The GET and HEAD layers ahead are layers of the table.                   *)
FromTable(calls) ==
    \A n \in DOMAIN calls : calls[n].kind \in {"get", "head"} =>
        \E m \in DOMAIN routes : routes[m] = calls[n]

(* Each of them ran or is ahead.                                            *)
OrderInv ==
    /\ via = "hono" => \A i \in DOMAIN routes :
          Required(routes[i]) => RanReg(routes[i].reg) \/ Awaits(todo, routes[i])
    /\ FromTable(todo)
    /\ MiddlewareFirst

(* The layers of every registration match what its Nest path does.          *)
AllCovered == \A i \in DOMAIN routes : IsCovered(routes[i])

(* Then a middleware that covers the request has a layer that matches it.   *)
LEMMA MiddlewareMatches ==
    ASSUME RoutesInv, AllCovered, request.target \in Targets,
           NEW k \in DOMAIN routes, MayCall(routes[k])
    PROVE  \E j \in DOMAIN routes : routes[j].reg = routes[k].reg /\ Required(routes[j])
<1> DEFINE l == routes[k]
<1>1. /\ IsFor(l, request) /\ l.kind \in MiddlewareKinds
      /\ l.kind = "headMiddleware" => IsHead
      /\ l.kind # "useAll" => Covers(l)[request.target] # {}
  BY DEF MayCall, MiddlewareKinds
<1>2. LayerOK(l) /\ k \in DOMAIN routes /\ l = routes[k]
  BY DEF RoutesInv, RegistrationsInv
<1> HIDE DEF l
<1>3. CASE l.kind = "useAll"
  <2>1. l.path = AnyPath
    BY <1>2, <1>3 DEF LayerOK
  <2>2. Matches(l, request)
    BY <1>1, <2>1, PathsAssumption DEF Matches
  <2> QED
    BY <1>1, <1>2, <2>2 DEF Required
<1>4. CASE l.kind # "useAll"
  <2>1. HasPath(l) /\ l.reg # 0
    BY <1>1, <1>2, <1>4 DEF HasPath, MiddlewareKinds, LayerOK, AdapterKinds
  <2>2. PICK j \in DOMAIN routes :
          routes[j].reg = l.reg /\ ParamsOf[routes[j].path][request.target] # NoMatch
    BY <1>1, <1>2, <1>4, <2>1 DEF AllCovered, IsCovered
  <2>3. routes[j].kind = l.kind /\ routes[j].method = l.method
    BY <1>2, <2>1, <2>2 DEF RoutesInv, RegistrationsInv
  <2>4. IsFor(routes[j], request)
    BY <1>1, <2>3 DEF IsFor
  <2> QED
    BY <1>1, <1>2, <2>2, <2>3, <2>4 DEF Required, Matches
<1> QED
  BY <1>3, <1>4

(* It stays ahead until it runs.                                            *)
LEMMA AwaitsStays ==
    ASSUME TodoInv, OnceInv, NEW a, Popped(a), NEW l, Required(l), Awaits(todo, l)
    PROVE  \/ RanReg(l.reg)
           \/ todo[a] = l
           \/ BelongsBy(todo[a], l) /\ Awaits(Tail(Ahead), l)
<1>1. PICK n \in DOMAIN todo :
        /\ todo[n] = l
        /\ \A m \in 1..(n - 1) : BelongsBy(todo[m], l)
  BY DEF Awaits
<1>2. PassesOn(l) => RanReg(l.reg)
  BY DEF PassesOn, RanBefore, Required, MiddlewareKinds, OnceInv
<1>3. DOMAIN todo \subseteq Nat \ {0} /\ a \in DOMAIN todo
  BY LenProperties DEF TodoInv, Popped
<1>4. CASE n < a
  <2>1. \A m \in 1..(a - 1) : PassesOn(todo[m])
    BY DEF Popped, At
  <2> QED
    BY <1>1, <1>2, <1>3, <1>4, <2>1
<1>5. CASE n = a
  BY <1>1, <1>5
<1>6. CASE n > a
  <2>1. n - a \in DOMAIN Tail(Ahead) /\ Tail(Ahead)[n - a] = todo[n]
    BY <1>6 DEF Popped
  <2>2. ASSUME NEW m \in 1..((n - a) - 1)
        PROVE  BelongsBy(Tail(Ahead)[m], l)
    <3>1. m + a \in 1..(n - 1) /\ m \in 1..(n - a)
      BY <1>3, <1>6
    <3>2. DOMAIN Tail(Ahead) = 1..Len(Tail(Ahead)) /\ Len(Tail(Ahead)) \in Nat
      BY LenProperties DEF Popped
    <3>3. m \in DOMAIN Tail(Ahead)
      BY <1>3, <2>1, <3>1, <3>2
    <3>4. Tail(Ahead)[m] = todo[m + a]
      BY <3>3 DEF Popped
    <3> QED
      BY <1>1, <3>1, <3>4
  <2>3. a \in 1..(n - 1)
    BY <1>3, <1>6
  <2>4. Awaits(Tail(Ahead), l)
    BY <1>1, <2>1, <2>2 DEF Awaits
  <2> QED
    BY <1>1, <2>3, <2>4
<1> QED
  BY <1>3, <1>4, <1>5, <1>6

(* Where that holds before the request arrives, it holds afterwards.        *)
LEMMA CoveredStep ==
    ASSUME ArrivalInv, [Next]_vars, frozen => AllCovered, PathsCovered
    PROVE  frozen' => AllCovered'
<1>1. AllCovered
  BY DEF PathsCovered, AllCovered
<1>2. ASSUME routes' = routes PROVE AllCovered'
  BY <1>1, <1>2 DEF AllCovered, IsCovered, HasPath, Covers
<1>3. CASE Idle
  BY <1>3 DEF Idle, requestVars, frozen
<1>4. CASE Still \/ Arrive
  BY <1>2, <1>4, Arrives DEF Still
<1>5. CASE OnHonoPath \/ (OnFastPath /\ Fast!Next)
  BY <1>2, <1>5, HonoWalks, FastWalks DEF Walks
<1> QED
  BY <1>3, <1>4, <1>5, WalkSteps

(* Every step keeps that no route overtakes a middleware.                   *)
LEMMA OrderStep ==
    ASSUME WalkInv, OnceInv, OrderInv, frozen => AllCovered, [Next]_vars
    PROVE  OrderInv'
<1> USE DEF WalkInv
<1>1. ASSUME UNCHANGED <<ran, todo, routes, request, via>> PROVE OrderInv'
  <2>1. UNCHANGED MiddlewareFirst
    BY <1>1 DEF MiddlewareFirst, MayCall, Precedes, Covers, IsHead
  <2>2. UNCHANGED FromTable(todo)
    BY <1>1 DEF FromTable
  <2>3. \A i \in DOMAIN routes : UNCHANGED Awaits(todo, routes[i])
    BY <1>1 DEF Awaits, BelongsBy
  <2> QED
    BY <1>1, <2>1, <2>2, <2>3 DEF OrderInv, Required, RanReg, IsHead
<1>2. ASSUME ran' = <<>> PROVE MiddlewareFirst'
  BY <1>2 DEF MiddlewareFirst
<1>3. CASE Idle
  BY <1>2, <1>3
  DEF Idle, ArrivalInv, walkVars, paramVars, requestVars, OrderInv, FromTable, None
<1>4. CASE Still
  BY <1>1, <1>4 DEF Still, walkVars, paramVars, requestVars
<1>5. CASE Arrive
  <2>1. todo' = routes /\ routes' = routes /\ ran' = <<>>
    BY <1>5, Arrives DEF ArrivalInv
  <2>2. ASSUME NEW i \in DOMAIN routes, Required(routes[i])' PROVE Awaits(todo', routes[i])
    <3>1. routes[i].kind \in MiddlewareKinds
      BY <2>1, <2>2 DEF Required
    <3>2. routes[i].reg # 0
      BY <3>1 DEF MiddlewareKinds, RoutesInv, RegistrationsInv, LayerOK, AdapterKinds
    <3>3. DOMAIN routes = 1..Len(routes) /\ Len(routes) \in Nat
      BY LenProperties DEF RoutesInv, RoutesOK
    <3>4. \A m \in 1..(i - 1) : m \in DOMAIN routes /\ m < i
      BY <3>3
    <3>5. \A m \in 1..(i - 1) : BelongsBy(routes[m], routes[i])
      <4>1. \A m \in 1..(i - 1) : routes[m].reg <= routes[i].reg
        BY <3>2, <3>4 DEF RoutesInv, RegistrationsInv
      <4>2. \A m \in 1..(i - 1) : routes[m].kind # "headRun"
        BY <3>4 DEF RoutesInv, RegistrationsInv, LayerOK, Kinds, AdapterKinds
      <4> QED
        BY <4>1, <4>2 DEF BelongsBy
    <3> QED
      BY <2>1, <3>5 DEF Awaits
  <2>3. \A i \in DOMAIN routes : Awaits(todo', routes[i]) => Awaits(todo, routes[i])'
    BY <2>1 DEF Awaits, BelongsBy
  <2>4. FromTable(todo)'
    BY <2>1 DEF FromTable
  <2> QED
    BY <2>1, <2>2, <2>3, <2>4, <1>2 DEF OrderInv
<1>6. CASE OnHonoPath
  <2>1. UNCHANGED <<routes, request, via>> /\ HonoStep /\ via = "hono" /\ AllCovered
        /\ request.target \in Targets
    BY <1>6, HonoWalks DEF Walks, HonoStep, ArrivalInv
  <2>0. \A i \in DOMAIN routes : Awaits(todo', routes[i]) => Awaits(todo, routes[i])'
    BY <2>1 DEF Awaits, BelongsBy
  <2>7. ASSUME NEW a, Popped(a) PROVE FromTable(Tail(Ahead))
    BY <2>7 DEF Popped, FromTable, OrderInv
  <2>2. CASE RunHandler
    <3>1. PICK a \in DOMAIN todo : RunHandlerIs(a)
      BY <2>2, RunHandlerRuns
    <3> DEFINE call == todo[a]
               n == Len(ran) + 1
    <3>2. Popped(a) /\ Runs(call, FALSE) /\ todo' = Tail(Ahead) /\ call \in Layers
      BY <3>1 DEF RunHandlerIs
    <3>3. ASSUME NEW l, Required(l), Awaits(todo, l)
          PROVE  \/ RanReg(l.reg)
                 \/ call = l
                 \/ BelongsBy(call, l) /\ Awaits(todo', l)
      BY <3>2, <3>3, AwaitsStays
    <3> HIDE DEF call
    <3>4. /\ Len(ran) \in Nat /\ DOMAIN ran = 1..Len(ran) /\ DOMAIN ran' = 1..n
          /\ \A i \in DOMAIN ran : i \in DOMAIN ran' /\ ran'[i] = ran[i]
          /\ \A i \in DOMAIN ran' : i \in DOMAIN ran \/ i = n
          /\ n \in DOMAIN ran'
          /\ ran'[n].reg = call.reg /\ ran'[n].kind = call.kind /\ ran'[n].path = call.path
      BY <3>2, RunAdds
    <3> HIDE DEF n
    <3>5. \A reg : RanReg(reg) \/ call.reg = reg => \E i \in DOMAIN ran' : ran'[i].reg = reg
      BY <3>4 DEF RanReg
    <3>6. ASSUME NEW i \in DOMAIN routes, Required(routes[i])
          PROVE  \/ \E j \in DOMAIN ran' : ran'[j].reg = routes[i].reg
                 \/ Awaits(todo', routes[i])
      BY <2>1, <3>3, <3>5, <3>6 DEF OrderInv
    <3>7. ASSUME NEW i \in DOMAIN ran', NEW k \in DOMAIN routes,
                 Precedes(routes[k], ran'[i]), MayCall(routes[k])
          PROVE  \E j \in 1..(i - 1) : ran'[j].reg = routes[k].reg
      <4>1. CASE i \in DOMAIN ran
        <5>1. PICK j \in 1..(i - 1) : ran[j].reg = routes[k].reg
          BY <3>7, <4>1, <3>4 DEF OrderInv, MiddlewareFirst
        <5>2. j \in DOMAIN ran
          BY <4>1, <3>4
        <5> QED
          BY <5>1, <5>2, <3>4
      <4>2. CASE i = n
        <5>1. PICK p \in DOMAIN routes : routes[p].reg = routes[k].reg /\ Required(routes[p])
          BY <2>1, <3>7, MiddlewareMatches
        <5>2. Precedes(routes[p], call)
          BY <3>4, <3>7, <4>2, <5>1 DEF Precedes
        <5>3. call.reg \in Nat /\ \A m \in DOMAIN routes : routes[m].reg \in Nat
          <6>1. call \in Layers /\ \A m \in DOMAIN routes : routes[m] \in Layers
            BY <3>2 DEF RoutesInv, RoutesOK
          <6> QED
            BY <6>1, SetupAssumption DEF Layers
        <5>4. ~BelongsBy(call, routes[p])
          BY <5>2, <5>3 DEF Precedes, BelongsBy
        <5>5. RanReg(routes[p].reg)
          <6>1. CASE call = routes[p]
            <7>1. call.kind # "headRun"
              BY <5>1, <6>1 DEF Required, MiddlewareKinds
            <7> QED
              BY <5>3, <5>4, <6>1, <7>1 DEF BelongsBy
          <6> QED
            BY <2>1, <3>3, <5>1, <5>4, <6>1 DEF OrderInv
        <5>6. PICK j \in DOMAIN ran : ran[j].reg = routes[k].reg
          BY <5>1, <5>5 DEF RanReg
        <5>7. j \in 1..(i - 1)
          BY <4>2, <3>4 DEF n
        <5> QED
          BY <5>6, <5>7, <3>4
      <4> QED
        BY <4>1, <4>2, <3>4
    <3>8. MiddlewareFirst'
      BY <2>1, <3>7 DEF MiddlewareFirst, MayCall, Precedes, Covers, IsHead
    <3>9. \A i \in DOMAIN routes' :
            Required(routes[i])' => RanReg(routes[i].reg)' \/ Awaits(todo, routes[i])'
      BY <2>0, <2>1, <3>6 DEF RanReg, Required, IsHead
    <3>10. FromTable(todo)'
      BY <2>1, <2>7, <3>2 DEF FromTable
    <3> QED
      BY <3>8, <3>9, <3>10 DEF OrderInv
  <2>3. ASSUME ran' = ran, FromTable(todo'),
               \A l : Required(l) /\ Awaits(todo, l) => RanReg(l.reg) \/ Awaits(todo', l)
        PROVE  OrderInv'
    <3>1. MiddlewareFirst'
      BY <2>1, <2>3 DEF OrderInv, MiddlewareFirst, MayCall, Precedes, Covers, IsHead
    <3>2. \A i \in DOMAIN routes' :
            Required(routes[i])' => RanReg(routes[i].reg)' \/ Awaits(todo, routes[i])'
      BY <2>0, <2>1, <2>3 DEF OrderInv, RanReg, Required, IsHead
    <3>3. FromTable(todo)'
      BY <2>1, <2>3 DEF FromTable
    <3> QED
      BY <3>1, <3>2, <3>3 DEF OrderInv
  <2>4. CASE Shutdown
    <3>1. Ahead # <<>> /\ Head(Ahead).kind = "shutdown" /\ todo' = Tail(Ahead) /\ ran' = ran
      BY <2>4 DEF Shutdown, paramVars
    <3>2. PICK a \in DOMAIN todo : Popped(a)
      BY <3>1, PoppedIs DEF TodoInv
    <3>3. todo[a].kind = "shutdown"
      BY <3>1, <3>2 DEF Popped
    <3>4. \A l : Required(l) => todo[a] # l
      BY <3>3 DEF Required, MiddlewareKinds
    <3> QED
      BY <3>1, <3>2, <3>4, AwaitsStays, <2>3, <2>7
  <2>5. CASE TryHeadRoutes
    <3>1. Ahead # <<>> /\ ran' = ran
      BY <2>5 DEF TryHeadRoutes, paramVars
    <3>2. PICK a \in DOMAIN todo : Popped(a)
      BY <3>1, PoppedIs DEF TodoInv
    <3> DEFINE call == todo[a]
               rest == Tail(Ahead)
               own == HandlersOf(call)
    <3>3. /\ call \in Layers /\ call.kind \in {"head", "get"}
          /\ call.path \in HonoPaths
          /\ todo' = own \o rest /\ rest \in Seq(Layers)
      BY <2>1, <2>5, <3>2, TriesHeadIs DEF Popped
    <3>4. ASSUME NEW l, Required(l), Awaits(todo, l)
          PROVE  RanReg(l.reg) \/ (call.reg <= l.reg /\ Awaits(rest, l))
      <4>1. call # l /\ call.kind # "headRun"
        BY <3>3, <3>4 DEF Required, MiddlewareKinds
      <4>2. BelongsBy(call, l) => call.reg <= l.reg
        BY <4>1 DEF BelongsBy
      <4> QED
        BY <3>2, <3>4, <4>1, <4>2, AwaitsStays
    <3>9. FromTable(rest) /\ \E m \in DOMAIN routes : routes[m] = call
      BY <2>7, <3>2, <3>3 DEF OrderInv, FromTable, Popped
    <3> HIDE DEF call, rest
    <3>5. /\ own \in Seq(Layers)
          /\ \A i \in DOMAIN own :
                /\ own[i].path = call.path
                /\ own[i].kind = "headRun" \/ (own[i].kind = "getRun" /\ own[i].reg = call.reg)
      BY <3>3, HandlersOfIs DEF RoutesInv
    <3> HIDE DEF own
    <3>6. /\ todo' \in Seq(Layers)
          /\ \A k \in DOMAIN rest :
               Len(own) + k \in DOMAIN todo' /\ todo'[Len(own) + k] = rest[k]
          /\ \A i \in DOMAIN todo' :
                \/ i \in DOMAIN own /\ todo'[i] = own[i]
                \/ \E k \in DOMAIN rest : i = Len(own) + k /\ todo'[i] = rest[k]
      <4>1. own \in Seq(Layers) /\ rest \in Seq(Layers) /\ todo' = own \o rest
        BY <3>3, <3>5
      <4>2. Joins(own \o rest, own, rest)
        BY <4>1, GrownJoins
      <4>3. Joins(todo', own, rest)
        BY <4>1, <4>2
      <4> QED
        BY <4>3 DEF Joins
    <3>7. /\ DOMAIN rest = 1..Len(rest) /\ DOMAIN todo' = 1..Len(todo')
          /\ Len(rest) \in Nat /\ Len(own) \in Nat /\ Len(todo') \in Nat
      BY <3>3, <3>5, <3>6, LenProperties
    <3>8. ASSUME NEW l, call.reg <= l.reg, Awaits(rest, l) PROVE Awaits(todo', l)
      <4>1. PICK k \in DOMAIN rest :
              /\ rest[k] = l
              /\ \A m \in 1..(k - 1) : BelongsBy(rest[m], l)
        BY <3>8 DEF Awaits
      <4> DEFINE n == Len(own) + k
      <4>2. n \in DOMAIN todo' /\ todo'[n] = l
        BY <4>1, <3>6
      <4>3. ASSUME NEW m \in 1..(n - 1) PROVE BelongsBy(todo'[m], l)
        <5>1. m \in DOMAIN todo'
          BY <4>2, <3>7
        <5>2. CASE m \in DOMAIN own /\ todo'[m] = own[m]
          BY <5>2, <3>3, <3>5, <3>8, <3>9 DEF BelongsBy
        <5>3. ASSUME NEW i \in DOMAIN rest, m = Len(own) + i, todo'[m] = rest[i]
              PROVE  BelongsBy(todo'[m], l)
          <6>1. i \in 1..(k - 1)
            BY <5>3, <3>7
          <6> QED
            BY <6>1, <5>3, <4>1
        <5> QED
          BY <5>1, <5>2, <5>3, <3>6
      <4> HIDE DEF n
      <4> QED
        BY <4>2, <4>3 DEF Awaits
    <3>10. FromTable(todo')
      BY <3>5, <3>6, <3>9 DEF FromTable
    <3> QED
      BY <3>1, <3>4, <3>8, <3>10, <2>3
  <2>6. CASE NotFound
    BY <1>1, <2>1, <2>6 DEF NotFound, paramVars
  <2> QED
    BY <1>6, <2>2, <2>4, <2>5, <2>6 DEF OnHonoPath
<1>7. CASE OnFastPath /\ Fast!Next
  <2>1. UNCHANGED <<todo, routes, request, via>> /\ via = "fast" /\ frozen
        /\ request.target \in Targets
    BY <1>7, FastWalks DEF Walks, ArrivalInv
  <2>2. CASE Runs(FastRoute, TRUE)
    <3>1. \A k \in DOMAIN routes : ~MayCall(routes[k])
      <4> SUFFICES ASSUME NEW k \in DOMAIN routes, MayCall(routes[k]) PROVE FALSE
        OBVIOUS
      <4>1. PICK j \in DOMAIN routes : Required(routes[j])
        BY <2>1, MiddlewareMatches
      <4>2. j \in Matched(request)
        BY <4>1 DEF Required, Matched
      <4>3. Matched(request) \subseteq Nat
        BY LenProperties DEF Matched, RoutesInv, RoutesOK
      <4>4. routes[j].kind \in FastKinds
        BY <2>1, <4>2, <4>3, FastRouteIs DEF FastRouteInv
      <4> QED
        BY <4>1, <4>4 DEF FastKinds, Required, MiddlewareKinds
    <3>2. MiddlewareFirst'
      BY <2>1, <3>1 DEF MiddlewareFirst, MayCall, Covers, IsHead
    <3>3. FromTable(todo)'
      BY <2>1 DEF OrderInv, FromTable
    <3> QED
      BY <2>1, <3>2, <3>3 DEF OrderInv
  <2>3. CASE ran' = ran
    BY <2>1, <2>3, <1>1
  <2> QED
    BY <1>7, <2>2, <2>3, RouteSteps
<1> QED
  BY <1>3, <1>4, <1>5, <1>6, <1>7, WalkSteps

-----------------------------------------------------------------------------
(* The table covers what each registration covers.                          *)

(* Each registration offered matches on Hono what its Nest path matches.    *)
PathsAgree == \A n \in 0..MaxSetup : \A r \in Offered(n) : PathAgrees(r)

(* The Hono paths of a registration.                                        *)
LEMMA LayersOfPaths ==
    ASSUME NEW r \in Registrations, NEW reg, HasNestPath(r)
    PROVE  /\ DOMAIN LayersOf(r, reg) = DOMAIN HonoPathsOf[r.path]
           /\ \A i \in DOMAIN LayersOf(r, reg) :
                /\ LayersOf(r, reg)[i].path = HonoPathOf(r, HonoPathsOf[r.path][i])
                /\ LayersOf(r, reg)[i].nest = r.path
                /\ LayersOf(r, reg)[i].kind = "use" <=> r.method = "use"
<1>1. r.method \in {"all", "use", "get", "head", "post", "middleware ALL",
                    "middleware GET", "middleware HEAD"}
  BY DEF Registrations, HasNestPath
<1>2. LayersOf(r, reg) =
        [i \in DOMAIN HonoPathsOf[r.path] |->
            Layer(MethodOf(r.method), HonoPathOf(r, HonoPathsOf[r.path][i]),
                  KindOf(r.method), reg, r.path)]
  BY <1>1 DEF LayersOf, KindOf, MethodOf, HonoPathOf
<1>3. KindOf(r.method) = "use" <=> r.method = "use"
  BY <1>1 DEF KindOf
<1> QED
  BY <1>2, <1>3 DEF Layer

(* Layers of another registration do not change what one matches.           *)
LEMMA CoveredGrows ==
    ASSUME RoutesInv, AllCovered, NEW new \in Seq(Layers), routes' = routes \o new,
           \A k \in DOMAIN new : \A i \in DOMAIN routes :
                HasPath(routes[i]) => new[k].reg # routes[i].reg,
           \A k \in DOMAIN new : HasPath(new[k]) =>
                /\ \A i \in DOMAIN routes : routes[i].reg # new[k].reg
                /\ \A target \in Targets :
                      (Covers(new[k])[target] # {}) <=>
                        \E j \in DOMAIN new : /\ new[j].reg = new[k].reg
                                              /\ ParamsOf[new[j].path][target] # NoMatch
    PROVE  AllCovered'
<1>1. routes \in Seq(Layers)
  BY DEF RoutesInv, RoutesOK
<1>2. /\ \A i \in DOMAIN routes : i \in DOMAIN routes' /\ routes'[i] = routes[i]
      /\ \A k \in DOMAIN new :
            Len(routes) + k \in DOMAIN routes' /\ routes'[Len(routes) + k] = new[k]
      /\ \A i \in DOMAIN routes' :
            \/ i \in DOMAIN routes /\ routes'[i] = routes[i]
            \/ \E k \in DOMAIN new : i = Len(routes) + k /\ routes'[i] = new[k]
  BY <1>1, Grown
<1> SUFFICES ASSUME NEW i \in DOMAIN routes', HasPath(routes'[i]), NEW target \in Targets
             PROVE  (Covers(routes'[i])[target] # {}) <=>
                       \E j \in DOMAIN routes' :
                          /\ routes'[j].reg = routes'[i].reg
                          /\ ParamsOf[routes'[j].path][target] # NoMatch
  BY DEF AllCovered, IsCovered, HasPath, Covers
<1>3. CASE i \in DOMAIN routes /\ routes'[i] = routes[i]
  <2>1. (Covers(routes[i])[target] # {}) <=>
            \E j \in DOMAIN routes : /\ routes[j].reg = routes[i].reg
                                     /\ ParamsOf[routes[j].path][target] # NoMatch
    BY <1>3 DEF AllCovered, IsCovered
  <2>2. ASSUME NEW j \in DOMAIN routes', routes'[j].reg = routes[i].reg
        PROVE  j \in DOMAIN routes /\ routes'[j] = routes[j]
    <3>1. HasPath(routes[i])
      BY <1>3
    <3> QED
      BY <1>2, <1>3, <2>2, <3>1
  <2> DEFINE Hits(l) == l.reg = routes[i].reg /\ ParamsOf[l.path][target] # NoMatch
  <2>3. (Covers(routes[i])[target] # {}) <=> \E j \in DOMAIN routes : Hits(routes[j])
    BY <2>1
  <2>4. \A j \in DOMAIN routes' : Hits(routes'[j]) => j \in DOMAIN routes /\ routes'[j] = routes[j]
    BY <2>2
  <2> HIDE DEF Hits
  <2>5. (Covers(routes[i])[target] # {}) <=> \E j \in DOMAIN routes' : Hits(routes'[j])
    BY <1>2, <2>3, <2>4
  <2> QED
    BY <1>3, <2>5 DEF Hits
<1>4. ASSUME NEW k \in DOMAIN new, routes'[i] = new[k]
      PROVE  (Covers(routes'[i])[target] # {}) <=>
                \E j \in DOMAIN routes' :
                   /\ routes'[j].reg = routes'[i].reg
                   /\ ParamsOf[routes'[j].path][target] # NoMatch
  <2>1. (Covers(new[k])[target] # {}) <=>
            \E j \in DOMAIN new : /\ new[j].reg = new[k].reg
                                  /\ ParamsOf[new[j].path][target] # NoMatch
    BY <1>4
  <2>2. ASSUME NEW j \in DOMAIN routes', routes'[j].reg = new[k].reg
        PROVE  \E m \in DOMAIN new : routes'[j] = new[m]
    <3>1. HasPath(new[k])
      BY <1>4
    <3>2. \A m \in DOMAIN routes : routes[m].reg # new[k].reg
      BY <3>1
    <3> QED
      BY <1>2, <2>2, <3>2
  <2> DEFINE Hits(l) == l.reg = new[k].reg /\ ParamsOf[l.path][target] # NoMatch
  <2>3. (Covers(new[k])[target] # {}) <=> \E j \in DOMAIN new : Hits(new[j])
    BY <2>1
  <2>4. \A j \in DOMAIN routes' : Hits(routes'[j]) => \E m \in DOMAIN new : routes'[j] = new[m]
    BY <2>2
  <2>5. \A m \in DOMAIN new : \E j \in DOMAIN routes' : routes'[j] = new[m]
    BY <1>2
  <2> HIDE DEF Hits
  <2>6. (Covers(new[k])[target] # {}) <=> \E j \in DOMAIN routes' : Hits(routes'[j])
    BY <2>3, <2>4, <2>5
  <2> QED
    BY <1>4, <2>6 DEF Hits
<1> QED
  BY <1>2, <1>3, <1>4

(* What is registered stays covered when more is.                           *)
LEMMA PathsStep ==
    ASSUME PathsAgree, RoutesInv, ArrivalInv, AllCovered, [Next]_vars PROVE AllCovered'
<1>1. ASSUME routes' = routes PROVE AllCovered'
  BY <1>1 DEF AllCovered, IsCovered, HasPath, Covers
<1>2. CASE Register
  <2>1. PICK r \in Offered(setup) : routes' = routes \o LayersOf(r, setup + 1)
    BY <1>2 DEF Register
  <2> DEFINE reg == setup + 1
             new == LayersOf(r, reg)
  <2>2. r \in Registrations /\ setup \in 0..MaxSetup /\ setup < MaxSetup /\ MaxSetup \in Nat
    BY <1>2, SetupAssumption DEF RoutesInv, RoutesOK, Register, Configures
  <2>3. reg \in 1..MaxSetup /\ setup < reg /\ setup \in Nat
    BY <2>2
  <2> HIDE DEF reg
  <2>4. /\ new \in Seq(Layers)
        /\ \A k \in DOMAIN new : new[k].reg = reg /\ new[k].kind = KindOf(r.method)
    BY <2>2, <2>3, LayersOfIs
  <2>5. \A i \in DOMAIN routes : routes[i].reg # reg
    <3>1. ASSUME NEW i \in DOMAIN routes PROVE routes[i].reg # reg
      <4>1. routes[i] \in Layers
        BY DEF RoutesInv, RoutesOK
      <4>2. routes[i].reg \in Nat /\ routes[i].reg <= setup
        BY <4>1, <2>2 DEF Layers, RoutesInv, RegistrationsInv
      <4> QED
        BY <4>2, <2>3
    <3> QED
      BY <3>1
  <2>6. ASSUME NEW k \in DOMAIN new, HasPath(new[k]), NEW target \in Targets
        PROVE  (Covers(new[k])[target] # {}) <=>
                  \E j \in DOMAIN new : /\ new[j].reg = new[k].reg
                                        /\ ParamsOf[new[j].path][target] # NoMatch
    <3>1. HasNestPath(r)
      BY <2>4, <2>6 DEF HasNestPath, HasPath, KindOf
    <3>2. /\ DOMAIN new = DOMAIN HonoPathsOf[r.path]
          /\ \A i \in DOMAIN new : /\ new[i].path = HonoPathOf(r, HonoPathsOf[r.path][i])
                                   /\ new[i].nest = r.path
                                   /\ new[i].kind = "use" <=> r.method = "use"
      BY <2>2, <3>1, LayersOfPaths
    <3>3. (NestMatch[r.path][r.method = "use"][target] # {}) <=>
             \E i \in DOMAIN HonoPathsOf[r.path] :
                ParamsOf[HonoPathOf(r, HonoPathsOf[r.path][i])][target] # NoMatch
      BY <2>1, <2>2, <2>6, <3>1 DEF PathsAgree, PathAgrees, OnHono, InNest
    <3>4. Covers(new[k]) = NestMatch[r.path][r.method = "use"]
      <4>1. (new[k].kind = "use") = (r.method = "use") /\ new[k].nest = r.path
        BY <2>6, <3>2
      <4> QED
        BY <4>1 DEF Covers
    <3> HIDE DEF new
    <3>5. (\E j \in DOMAIN new : /\ new[j].reg = new[k].reg
                                /\ ParamsOf[new[j].path][target] # NoMatch)
          <=> \E i \in DOMAIN HonoPathsOf[r.path] :
                 ParamsOf[HonoPathOf(r, HonoPathsOf[r.path][i])][target] # NoMatch
      BY <2>4, <3>2
    <3> QED
      BY <3>3, <3>4, <3>5
  <2>7. routes' = routes \o new
    BY <2>1 DEF reg
  <2> HIDE DEF new
  <2>8. /\ \A k \in DOMAIN new : \A i \in DOMAIN routes :
              HasPath(routes[i]) => new[k].reg # routes[i].reg
        /\ \A k \in DOMAIN new : \A i \in DOMAIN routes : routes[i].reg # new[k].reg
    BY <2>4, <2>5
  <2>9. \A k \in DOMAIN new : HasPath(new[k]) =>
            /\ \A i \in DOMAIN routes : routes[i].reg # new[k].reg
            /\ \A target \in Targets :
                  (Covers(new[k])[target] # {}) <=>
                    \E j \in DOMAIN new : /\ new[j].reg = new[k].reg
                                          /\ ParamsOf[new[j].path][target] # NoMatch
    BY <2>6, <2>8
  <2>10. new \in Seq(Layers)
    BY <2>4
  <2> QED
    BY <2>7, <2>8, <2>9, <2>10, CoveredGrows
<1>3. CASE InitHttpServer
  <2> DEFINE shutdown == EveryRequest("shutdown", 0)
             body == EveryRequest("body", 0)
  <2>1. PICK new \in {<<shutdown, body>>, <<body>>} : routes' = routes \o new
    BY <1>3 DEF InitHttpServer
  <2>2. /\ shutdown \in Layers /\ body \in Layers /\ shutdown.reg = 0 /\ body.reg = 0
        /\ ~HasPath(shutdown) /\ ~HasPath(body)
    BY SetupAssumption DEF EveryRequest, Layer, Layers, Kinds, AdapterKinds, LayerPaths, HasPath
  <2> HIDE DEF shutdown, body
  <2>3. /\ new \in Seq(Layers)
        /\ \A k \in DOMAIN new : new[k].reg = 0 /\ ~HasPath(new[k])
    BY <2>1, <2>2
  <2>4. \A i \in DOMAIN routes : HasPath(routes[i]) => routes[i].reg # 0
    BY DEF RoutesInv, RegistrationsInv, LayerOK, HasPath, AdapterKinds
  <2>5. \A k \in DOMAIN new : \A i \in DOMAIN routes :
            HasPath(routes[i]) => new[k].reg # routes[i].reg
    BY <2>3, <2>4
  <2> QED
    BY <2>1, <2>3, <2>5, CoveredGrows
<1>4. CASE \/ ReplaceFetch \/ ReplaceGetPath \/ SetNotFoundHandler \/ PrepareClose
           \/ Arrive \/ ArriveBad \/ OnHonoPath \/ FastStep \/ FastOther \/ Done
           \/ UNCHANGED vars
  BY <1>1, <1>4 DEF ReplaceFetch, ReplaceGetPath, SetNotFoundHandler, PrepareClose, Arrive,
     ArriveBad, OnHonoPath, Shutdown, TryHeadRoutes, RunHandler, NotFound, FastStep,
     FastOther, OnFastPath, Done, vars, appVars
<1> QED
  BY <1>2, <1>3, <1>4 DEF Next, OnHonoPath

-----------------------------------------------------------------------------
(* The params of a path are those its Nest path names.                      *)

(* Each registration offered gives on Hono what its Nest path names.        *)
ParamsAgree == \A n \in 0..MaxSetup : \A r \in Offered(n) : ParamAgrees(r)

(* A layer matches a target, and gives params that its Nest path names.     *)
Hits(l, target) == ParamsOf[l.path][target] # NoMatch
Agrees(l, target) ==
    Stripped(ParamsOf[l.path][target], SuffixesOf[l.nest]) \in Covers(l)[target]

(* The layers of a registration are of one Nest path, and the first of them *)
(* that matches agrees with it.                                             *)
SameNest(rs) ==
    \A i, j \in DOMAIN rs :
        rs[i].reg = rs[j].reg /\ rs[i].reg # 0 => rs[i].nest = rs[j].nest
FirstAgrees(rs) ==
    \A i \in DOMAIN rs : HasPath(rs[i]) =>
        \A target \in Targets :
            /\ Hits(rs[i], target)
            /\ \A j \in 1..(i - 1) : rs[j].reg = rs[i].reg => ~Hits(rs[j], target)
            => Agrees(rs[i], target)

(* A HEAD handler is of a registered HEAD route, and its path agrees with   *)
(* the Nest path of it.                                                     *)
HeadAgrees(rs, entry, path) ==
    /\ \E i \in DOMAIN rs : /\ rs[i].reg = entry.reg /\ rs[i].kind = "head"
                            /\ rs[i].nest = entry.nest
    /\ \A target \in Targets :
          ParamsOf[path][target] # NoMatch =>
            Stripped(ParamsOf[path][target], SuffixesOf[entry.nest])
                \in NestMatch[entry.nest][FALSE][target]

(* All of it.                                                               *)
ParamsInv ==
    /\ SameNest(routes) /\ FirstAgrees(routes)
    /\ \A path \in HonoPaths : \A k \in DOMAIN headRouteHandlers[path] :
          HeadAgrees(routes, headRouteHandlers[path][k], path)

(* Layers of another registration behind them change nothing of it.         *)
LEMMA ParamsGrow ==
    ASSUME NEW rs \in Seq(Layers), SameNest(rs), FirstAgrees(rs),
           NEW new \in Seq(Layers), SameNest(new), FirstAgrees(new),
           \A i \in DOMAIN rs : \A k \in DOMAIN new :
                new[k].reg # 0 => rs[i].reg # new[k].reg
    PROVE  SameNest(rs \o new) /\ FirstAgrees(rs \o new)
<1> DEFINE all == rs \o new
           IsOld(i) == i \in DOMAIN rs /\ all[i] = rs[i]
           IsNew(i, k) == k \in DOMAIN new /\ i = Len(rs) + k /\ all[i] = new[k]
<1>1. Joins(all, rs, new)
  BY GrownJoins
<1> HIDE DEF all
<1>2. /\ DOMAIN rs = 1..Len(rs) /\ Len(rs) \in Nat
      /\ DOMAIN new = 1..Len(new) /\ Len(new) \in Nat
  BY LenProperties
<1>3. \A i \in DOMAIN all : IsOld(i) \/ \E k \in DOMAIN new : IsNew(i, k)
  BY <1>1 DEF Joins
<1>4. \A i \in DOMAIN rs : IsOld(i)
  BY <1>1 DEF Joins
<1>5. \A k \in DOMAIN new : IsNew(Len(rs) + k, k)
  BY <1>1 DEF Joins
<1>6. ASSUME NEW i \in DOMAIN all, NEW j \in DOMAIN all,
             all[i].reg = all[j].reg, all[i].reg # 0
      PROVE  all[i].nest = all[j].nest
  <2>1. CASE IsOld(i) /\ IsOld(j)
    BY <1>6, <2>1 DEF SameNest
  <2>2. CASE \E k, m \in DOMAIN new : IsNew(i, k) /\ IsNew(j, m)
    BY <1>6, <2>2 DEF SameNest
  <2>3. ~(IsOld(i) /\ \E k \in DOMAIN new : IsNew(j, k))
    BY <1>6
  <2>4. ~(IsOld(j) /\ \E k \in DOMAIN new : IsNew(i, k))
    BY <1>6
  <2> QED
    BY <1>3, <2>1, <2>2, <2>3, <2>4
<1>7. ASSUME NEW i \in DOMAIN all, HasPath(all[i]), NEW target \in Targets,
             Hits(all[i], target),
             \A j \in 1..(i - 1) : all[j].reg = all[i].reg => ~Hits(all[j], target)
      PROVE  Agrees(all[i], target)
  <2>1. CASE IsOld(i)
    <3>1. \A j \in 1..(i - 1) : j \in DOMAIN rs
      BY <1>2, <2>1
    <3>2. \A j \in 1..(i - 1) : rs[j].reg = rs[i].reg => ~Hits(rs[j], target)
      BY <1>4, <1>7, <2>1, <3>1
    <3> QED
      BY <1>7, <2>1, <3>2 DEF FirstAgrees
  <2>2. ASSUME NEW k \in DOMAIN new, IsNew(i, k) PROVE Agrees(all[i], target)
    <3>1. \A j \in 1..(k - 1) : j \in DOMAIN new /\ Len(rs) + j \in 1..(i - 1)
      BY <1>2, <2>2
    <3>2. \A j \in 1..(k - 1) : new[j].reg = new[k].reg => ~Hits(new[j], target)
      BY <1>5, <1>7, <2>2, <3>1
    <3> QED
      BY <1>7, <2>2, <3>2 DEF FirstAgrees
  <2> QED
    BY <1>3, <2>1, <2>2
<1> HIDE DEF IsOld, IsNew
<1>8. SameNest(all)
  BY <1>6 DEF SameNest
<1>9. FirstAgrees(all)
  BY <1>7 DEF FirstAgrees
<1> QED
  BY <1>8, <1>9 DEF all

(* The layers of a registration by themselves.                              *)
LEMMA NewAgrees ==
    ASSUME ParamsAgree, NEW n \in 0..MaxSetup, NEW r \in Offered(n),
           NEW reg \in 1..MaxSetup
    PROVE  SameNest(LayersOf(r, reg)) /\ FirstAgrees(LayersOf(r, reg))
<1>1. r \in Registrations
  BY SetupAssumption
<1>2. CASE ~HasNestPath(r)
  <2> DEFINE l == EveryRequest(r.method, reg)
  <2>1. LayersOf(r, reg) = <<l>> /\ ~HasPath(l)
    BY <1>2 DEF HasNestPath, LayersOf, HasPath, EveryRequest, Layer
  <2> HIDE DEF l
  <2>2. DOMAIN LayersOf(r, reg) = {1} /\ LayersOf(r, reg)[1] = l
    BY <2>1
  <2> QED
    BY <2>1, <2>2 DEF SameNest, FirstAgrees
<1>3. CASE HasNestPath(r)
  <2> DEFINE new == LayersOf(r, reg)
             honoPaths == HonoPathsOf[r.path]
             Given(i, target) == ParamsOf[HonoPathOf(r, honoPaths[i])][target]
  <2>1. /\ DOMAIN new = DOMAIN honoPaths
        /\ \A i \in DOMAIN new : /\ new[i].path = HonoPathOf(r, honoPaths[i])
                                 /\ new[i].nest = r.path
                                 /\ new[i].kind = "use" <=> r.method = "use"
    BY <1>1, <1>3, LayersOfPaths
  <2>2. /\ new \in Seq(Layers) /\ DOMAIN new = 1..Len(new) /\ Len(new) \in Nat
        /\ \A i \in DOMAIN new : new[i].reg = reg
    BY <1>1, LayersOfIs, LenProperties
  <2>3. \A target \in Targets : \A i \in DOMAIN honoPaths :
            /\ Given(i, target) # NoMatch
            /\ \A j \in 1..(i - 1) : Given(j, target) = NoMatch
            => Stripped(Given(i, target), SuffixesOf[r.path])
                  \in NestMatch[r.path][r.method = "use"][target]
    BY <1>3 DEF ParamsAgree, ParamAgrees, OnHono, InNest
  <2>4. \A i \in DOMAIN new : \A target : ParamsOf[new[i].path][target] = Given(i, target)
    BY <2>1
  <2>5. \A i \in DOMAIN new : Covers(new[i]) = NestMatch[r.path][r.method = "use"]
    <3>1. ASSUME NEW i \in DOMAIN new PROVE (new[i].kind = "use") = (r.method = "use")
      BY <2>1
    <3> QED
      BY <2>1, <3>1 DEF Covers
  <2> HIDE DEF new, Given, honoPaths
  <2>6. SameNest(new)
    BY <2>1 DEF SameNest
  <2>7. ASSUME NEW i \in DOMAIN new, NEW target \in Targets, Hits(new[i], target),
               \A j \in 1..(i - 1) : new[j].reg = new[i].reg => ~Hits(new[j], target)
        PROVE  Agrees(new[i], target)
    <3>1. \A j \in 1..(i - 1) : j \in DOMAIN new /\ new[j].reg = new[i].reg
      BY <2>2
    <3>2. \A j \in 1..(i - 1) : Given(j, target) = NoMatch
      BY <2>4, <2>7, <3>1 DEF Hits
    <3>3. Given(i, target) # NoMatch /\ i \in DOMAIN honoPaths
      BY <2>1, <2>4, <2>7 DEF Hits
    <3>4. Stripped(Given(i, target), SuffixesOf[r.path])
             \in NestMatch[r.path][r.method = "use"][target]
      BY <2>3, <3>2, <3>3
    <3> QED
      BY <2>1, <2>4, <2>5, <3>4 DEF Agrees
  <2>8. FirstAgrees(new)
    BY <2>7 DEF FirstAgrees
  <2> QED
    BY <2>6, <2>8 DEF new
<1> QED
  BY <1>2, <1>3

(* The HEAD handlers that a registration adds.                              *)
LEMMA NewHeads ==
    ASSUME ParamsAgree, RoutesInv, NEW r \in Offered(setup), NEW reg \in 1..MaxSetup,
           NEW path \in HonoPaths,
           NEW k \in DOMAIN HeadHandlers(r, reg)[path]
    PROVE  LET entry == HeadHandlers(r, reg)[path][k]
           IN  \/ k \in DOMAIN headRouteHandlers[path] /\ entry = headRouteHandlers[path][k]
               \/ HeadAgrees(LayersOf(r, reg), entry, path)
<1> DEFINE old == headRouteHandlers[path]
           added == [reg |-> reg, nest |-> r.path]
           new == LayersOf(r, reg)
<1>1. r \in Registrations /\ setup \in 0..MaxSetup /\ reg \in 0..MaxSetup
  BY SetupAssumption DEF RoutesInv, RoutesOK
<1>2. old \in Seq(HeadEntries) /\ DOMAIN old = 1..Len(old) /\ Len(old) \in Nat
  BY LenProperties DEF RoutesInv, RoutesOK
<1>3. CASE ~(r.method = "head" /\ path \in ToSet(HonoPathsOf[r.path]))
  <2>1. HeadHandlers(r, reg)[path] = old
    BY <1>3 DEF HeadHandlers
  <2> QED
    BY <2>1
<1>4. CASE r.method = "head" /\ path \in ToSet(HonoPathsOf[r.path])
  <2>1. HeadHandlers(r, reg)[path] = Append(old, added)
    BY <1>4 DEF HeadHandlers
  <2>2. added \in HeadEntries /\ added.reg = reg /\ added.nest = r.path
    BY <1>1 DEF Registrations, HeadEntries
  <2> HIDE DEF added, old
  <2>3. /\ \A i \in 1..Len(old) : Append(old, added)[i] = old[i]
        /\ Append(old, added)[Len(old) + 1] = added
        /\ DOMAIN Append(old, added) = 1..(Len(old) + 1)
    BY <1>2, <2>2, AppendProperties
  <2>4. PICK n \in DOMAIN HonoPathsOf[r.path] : HonoPathsOf[r.path][n] = path
    BY <1>4 DEF ToSet
  <2>5. HasNestPath(r) /\ HonoPathOf(r, path) = path /\ r.method # "use"
    BY <1>4 DEF HasNestPath, HonoPathOf
  <2>6. /\ n \in DOMAIN new /\ new[n].reg = reg /\ new[n].kind = "head"
        /\ new[n].nest = r.path
    <3>1. n \in DOMAIN new /\ new[n].nest = r.path
      BY <1>1, <2>4, <2>5, LayersOfPaths
    <3>2. new[n].reg = reg /\ new[n].kind = KindOf("head")
      BY <1>1, <1>4, <3>1, LayersOfIs
    <3> QED
      BY <3>1, <3>2 DEF KindOf
  <2>7. ASSUME NEW target \in Targets, ParamsOf[path][target] # NoMatch
        PROVE  Stripped(ParamsOf[path][target], SuffixesOf[r.path])
                  \in NestMatch[r.path][FALSE][target]
    <3>1. (r.method = "use") = FALSE /\ HonoPathOf(r, HonoPathsOf[r.path][n]) = path
      BY <2>4, <2>5
    <3>2. ParamsOf[HonoPathOf(r, HonoPathsOf[r.path][n])][target] # NoMatch
      BY <2>7, <3>1
    <3>3. Stripped(ParamsOf[HonoPathOf(r, HonoPathsOf[r.path][n])][target],
                   SuffixesOf[r.path])
             \in NestMatch[r.path][r.method = "use"][target]
      BY <1>1, <1>4, <2>4, <2>5, <3>2 DEF ParamsAgree, ParamAgrees, OnHono, InNest
    <3> QED
      BY <3>1, <3>3
  <2> HIDE DEF new
  <2>8. HeadAgrees(new, added, path)
    BY <2>2, <2>6, <2>7 DEF HeadAgrees
  <2> QED
    BY <1>2, <2>1, <2>3, <2>8 DEF old, new
<1> QED
  BY <1>3, <1>4

(* Every registration keeps it.                                             *)
LEMMA ParamsStep ==
    ASSUME ParamsAgree, RoutesInv, ParamsInv, [Next]_vars PROVE ParamsInv'
<1>1. ASSUME UNCHANGED <<routes, headRouteHandlers>> PROVE ParamsInv'
  BY <1>1 DEF ParamsInv
<1>2. routes \in Seq(Layers) /\ headRouteHandlers \in [HonoPaths -> Seq(HeadEntries)]
  BY DEF RoutesInv, RoutesOK
<1>3. ASSUME NEW rs \in Seq(Layers), NEW new \in Seq(Layers), NEW entry, NEW path,
             HeadAgrees(rs, entry, path) \/ HeadAgrees(new, entry, path)
      PROVE  HeadAgrees(rs \o new, entry, path)
  <2>1. /\ \A i \in DOMAIN rs : i \in DOMAIN (rs \o new) /\ (rs \o new)[i] = rs[i]
        /\ \A k \in DOMAIN new :
             Len(rs) + k \in DOMAIN (rs \o new) /\ (rs \o new)[Len(rs) + k] = new[k]
    BY Grown
  <2> DEFINE all == rs \o new
             IsHeadOf(l) == l.reg = entry.reg /\ l.kind = "head" /\ l.nest = entry.nest
  <2>2. (\E i \in DOMAIN rs : IsHeadOf(rs[i])) \/ (\E i \in DOMAIN new : IsHeadOf(new[i]))
    BY <1>3 DEF HeadAgrees
  <2> HIDE DEF IsHeadOf
  <2>3. \E i \in DOMAIN all : IsHeadOf(all[i])
    BY <2>1, <2>2
  <2> HIDE DEF all
  <2>4. \A target \in Targets :
          ParamsOf[path][target] # NoMatch =>
            Stripped(ParamsOf[path][target], SuffixesOf[entry.nest])
                \in NestMatch[entry.nest][FALSE][target]
    BY <1>3 DEF HeadAgrees
  <2>5. HeadAgrees(all, entry, path)
    BY <2>3, <2>4 DEF HeadAgrees, IsHeadOf
  <2> QED
    BY <2>5 DEF all
<1>4. CASE Register
  <2>1. PICK r \in Offered(setup) : /\ routes' = routes \o LayersOf(r, setup + 1)
                                    /\ headRouteHandlers' = HeadHandlers(r, setup + 1)
    BY <1>4 DEF Register
  <2> DEFINE reg == setup + 1
             new == LayersOf(r, reg)
  <2>2. r \in Registrations /\ setup \in 0..MaxSetup /\ setup < MaxSetup /\ MaxSetup \in Nat
    BY <1>4, SetupAssumption DEF RoutesInv, RoutesOK, Register, Configures
  <2>3. reg \in 1..MaxSetup /\ setup < reg /\ setup \in Nat
    BY <2>2
  <2>4. routes' = routes \o new /\ headRouteHandlers' = HeadHandlers(r, reg)
    BY <2>1
  <2> HIDE DEF reg
  <2>5. /\ new \in Seq(Layers)
        /\ \A k \in DOMAIN new : new[k].reg = reg
    BY <2>2, <2>3, LayersOfIs
  <2>6. SameNest(new) /\ FirstAgrees(new)
    BY <2>2, <2>3, NewAgrees
  <2>7. ASSUME NEW i \in DOMAIN routes PROVE routes[i].reg # reg
    <3>1. routes[i] \in Layers
      BY <1>2
    <3>2. routes[i].reg \in Nat /\ routes[i].reg <= setup
      BY <3>1, <2>2 DEF Layers, RoutesInv, RegistrationsInv
    <3> QED
      BY <3>2, <2>3
  <2>8. ASSUME NEW path \in HonoPaths, NEW k \in DOMAIN headRouteHandlers'[path]
        PROVE  HeadAgrees(routes', headRouteHandlers'[path][k], path)
    <3> DEFINE entry == HeadHandlers(r, reg)[path][k]
    <3>1. headRouteHandlers'[path][k] = entry
      BY <2>4
    <3>2. \/ k \in DOMAIN headRouteHandlers[path] /\ entry = headRouteHandlers[path][k]
          \/ HeadAgrees(new, entry, path)
      BY <2>3, <2>4, <2>8, NewHeads
    <3> HIDE DEF entry
    <3>3. HeadAgrees(routes, entry, path) \/ HeadAgrees(new, entry, path)
      BY <3>2 DEF ParamsInv
    <3> HIDE DEF new
    <3>4. HeadAgrees(routes \o new, entry, path)
      BY <1>2, <1>3, <2>5, <3>3
    <3> QED
      BY <2>4, <3>1, <3>4
  <2> HIDE DEF new
  <2>9. SameNest(routes \o new) /\ FirstAgrees(routes \o new)
    BY <1>2, <2>5, <2>6, <2>7, ParamsGrow DEF ParamsInv
  <2>10. SameNest(routes)' /\ FirstAgrees(routes)'
    BY <2>4, <2>9
  <2> QED
    BY <2>8, <2>10 DEF ParamsInv
<1>5. CASE InitHttpServer
  <2> DEFINE shutdown == EveryRequest("shutdown", 0)
             body == EveryRequest("body", 0)
  <2>1. PICK new \in {<<shutdown, body>>, <<body>>} : routes' = routes \o new
    BY <1>5 DEF InitHttpServer
  <2>2. headRouteHandlers' = headRouteHandlers
    BY <1>5 DEF InitHttpServer
  <2>3. /\ shutdown \in Layers /\ body \in Layers /\ shutdown.reg = 0 /\ body.reg = 0
        /\ ~HasPath(shutdown) /\ ~HasPath(body)
    BY SetupAssumption DEF EveryRequest, Layer, Layers, Kinds, AdapterKinds, LayerPaths, HasPath
  <2> HIDE DEF shutdown, body
  <2>4. /\ new \in Seq(Layers)
        /\ \A k \in DOMAIN new : new[k].reg = 0 /\ ~HasPath(new[k])
    <3>1. CASE new = <<shutdown, body>>
      BY <2>3, <3>1
    <3>2. CASE new = <<body>>
      BY <2>3, <3>2
    <3> QED
      BY <2>1, <3>1, <3>2
  <2>5. SameNest(new) /\ FirstAgrees(new)
    BY <2>4 DEF SameNest, FirstAgrees
  <2>6. SameNest(routes \o new) /\ FirstAgrees(routes \o new)
    BY <1>2, <2>4, <2>5, ParamsGrow DEF ParamsInv
  <2>7. ASSUME NEW path \in HonoPaths, NEW k \in DOMAIN headRouteHandlers[path]
        PROVE  HeadAgrees(routes \o new, headRouteHandlers[path][k], path)
    <3>1. HeadAgrees(routes, headRouteHandlers[path][k], path)
      BY DEF ParamsInv
    <3> QED
      BY <1>2, <1>3, <2>4, <3>1
  <2>8. SameNest(routes)' /\ FirstAgrees(routes)'
    BY <2>1, <2>6
  <2>9. \A path \in HonoPaths : \A k \in DOMAIN headRouteHandlers'[path] :
            HeadAgrees(routes', headRouteHandlers'[path][k], path)
    BY <2>1, <2>2, <2>7
  <2> QED
    BY <2>8, <2>9 DEF ParamsInv
<1>6. CASE \/ ReplaceFetch \/ ReplaceGetPath \/ SetNotFoundHandler \/ PrepareClose
           \/ Arrive \/ ArriveBad \/ OnHonoPath \/ FastStep \/ FastOther \/ Done
           \/ UNCHANGED vars
  BY <1>1, <1>6 DEF ReplaceFetch, ReplaceGetPath, SetNotFoundHandler, PrepareClose, Arrive,
     ArriveBad, OnHonoPath, Shutdown, TryHeadRoutes, RunHandler, NotFound, FastStep,
     FastOther, OnFastPath, Done, vars, appVars
<1> QED
  BY <1>4, <1>5, <1>6 DEF Next, OnHonoPath

(* What is ahead of a request: a layer whose registration's handler may run *)
(* here, a handler of a registered layer, and one whose params agree.       *)
Runnable(l) ==
    /\ HasPath(l) /\ Matches(l, request) /\ l.kind \notin {"head", "headRun"}
    /\ l.kind = "headMiddleware" => IsHead
Belongs(l) ==
    \E i \in DOMAIN routes : /\ routes[i].reg = l.reg /\ routes[i].kind = BaseKind(l.kind)
                             /\ routes[i].nest = l.nest
GivesNest(l) == RouteParams(l) \in Covers(l)[request.target]

(* A layer is the first of its registration that may run.                   *)
Leads(calls, n) ==
    /\ Runnable(calls[n])
    /\ \A m \in 1..(n - 1) : Runnable(calls[m]) => calls[m].reg # calls[n].reg

(* The first one gives the params of the Nest path, every HEAD handler does,*)
(* and so did each handler that ran.                                        *)
GivenInv ==
    /\ via = "hono" => \A n \in DOMAIN todo :
          /\ Belongs(todo[n])
          /\ todo[n].kind = "headRun" => GivesNest(todo[n])
          /\ Leads(todo, n) => RanReg(todo[n].reg) \/ GivesNest(todo[n])
    /\ ParamsAreNest

(* The Nest path of a registration is that of its layers.                   *)
LEMMA NestOfIs ==
    ASSUME RoutesInv, SameNest(routes), NEW l, Belongs(l), l.kind \notin AdapterKinds
    PROVE  /\ HasPath(NestOf(l.reg)) => HasPath(l)
           /\ Covers(NestOf(l.reg)) = Covers(l)
<1>1. PICK i \in DOMAIN routes : /\ routes[i].reg = l.reg /\ routes[i].kind = BaseKind(l.kind)
                                 /\ routes[i].nest = l.nest
  BY DEF Belongs
<1>2. l.reg # 0
  <2>1. LayerOK(routes[i]) /\ BaseKind(l.kind) \notin AdapterKinds
    BY DEF RoutesInv, RegistrationsInv, BaseKind, AdapterKinds
  <2> QED
    BY <1>1, <2>1 DEF LayerOK
<1> DEFINE c == CHOOSE j \in DOMAIN routes : routes[j].reg = l.reg
<1>3. c \in DOMAIN routes /\ routes[c].reg = l.reg
  BY <1>1
<1>4. NestOf(l.reg) = routes[c]
  BY DEF NestOf
<1> HIDE DEF c
<1>5. routes[c].kind = BaseKind(l.kind) /\ routes[c].nest = l.nest
  BY <1>1, <1>2, <1>3 DEF RoutesInv, RegistrationsInv, SameNest
<1>6. HasPath(routes[c]) => HasPath(l)
  BY <1>5 DEF HasPath, BaseKind
<1>7. (routes[c].kind = "use") = (l.kind = "use")
  BY <1>5 DEF BaseKind
<1>8. Covers(routes[c]) = Covers(l)
  BY <1>5, <1>7 DEF Covers
<1> QED
  BY <1>4, <1>6, <1>8

(* A layer that passes on though its handler may run has run.               *)
LEMMA PassedRan ==
    ASSUME OnceInv, NEW l, Runnable(l), PassesOn(l) PROVE RanReg(l.reg)
BY DEF Runnable, PassesOn, RanBefore, OnceInv, HasPath

(* Where the request is, the first of a registration gives its params,      *)
LEMMA HereGives ==
    ASSUME OnceInv, GivenInv, via = "hono", NEW a, Popped(a), Runnable(todo[a])
    PROVE  RanReg(todo[a].reg) \/ GivesNest(todo[a])
<1>1. CASE Leads(todo, a)
  BY <1>1 DEF GivenInv, Popped
<1>2. CASE ~Leads(todo, a)
  <2>1. PICK m \in 1..(a - 1) : Runnable(todo[m]) /\ todo[m].reg = todo[a].reg
    BY <1>2 DEF Leads
  <2>2. PassesOn(todo[m])
    BY DEF Popped, At
  <2> QED
    BY <2>1, <2>2, PassedRan
<1> QED
  BY <1>1, <1>2

(* and so does the first of a registration behind it, unless it is of the   *)
(* same registration.                                                       *)
LEMMA BehindGives ==
    ASSUME TodoInv, OnceInv, GivenInv, via = "hono", NEW a, Popped(a),
           NEW k \in DOMAIN Tail(Ahead), Leads(Tail(Ahead), k)
    PROVE  LET l == Tail(Ahead)[k]
           IN  \/ RanReg(l.reg) \/ GivesNest(l)
               \/ Runnable(todo[a]) /\ todo[a].reg = l.reg
<1> DEFINE rest == Tail(Ahead)
           n == k + a
<1>1. /\ n \in DOMAIN todo /\ rest[k] = todo[n]
      /\ \A m \in DOMAIN todo : m > a => m - a \in DOMAIN rest /\ rest[m - a] = todo[m]
      /\ DOMAIN rest \subseteq Nat /\ a \in DOMAIN todo
      /\ \A m \in 1..(a - 1) : PassesOn(todo[m])
  BY DEF Popped, At
<1>2. DOMAIN todo = 1..Len(todo) /\ Len(todo) \in Nat
  BY LenProperties DEF TodoInv
<1>3. Leads(rest, k)
  OBVIOUS
<1> HIDE DEF rest
<1>4. Runnable(todo[n])
  BY <1>1, <1>3 DEF Leads
<1>5. k \in Nat /\ a \in Nat
  BY <1>1, <1>2 DEF rest
<1>6. CASE Leads(todo, n)
  BY <1>1, <1>6 DEF GivenInv, rest
<1>7. CASE ~Leads(todo, n)
  <2>1. PICK m \in 1..(n - 1) : Runnable(todo[m]) /\ todo[m].reg = todo[n].reg
    BY <1>4, <1>7 DEF Leads
  <2>2. CASE m < a
    <3>1. PassesOn(todo[m])
      BY <1>1, <1>5, <2>2
    <3> QED
      BY <1>1, <2>1, <3>1, PassedRan DEF rest
  <2>3. CASE m = a
    BY <1>1, <2>1, <2>3 DEF rest
  <2>4. CASE m > a
    <3>1. m \in DOMAIN todo /\ m - a \in 1..(k - 1)
      BY <1>1, <1>2, <1>5, <2>4
    <3>2. rest[m - a] = todo[m]
      BY <1>1, <2>4, <3>1
    <3> QED
      BY <1>1, <1>3, <2>1, <3>1, <3>2 DEF Leads
  <2> QED
    BY <1>5, <2>2, <2>3, <2>4
<1> QED
  BY <1>6, <1>7

(* The HEAD handlers and the GET route of a layer, in place of the layer.   *)
LEMMA HandlersGive ==
    ASSUME RoutesInv, ParamsInv, request.target \in Targets,
           NEW call \in Layers, call.path \in HonoPaths, call.kind \in {"head", "get"},
           Matches(call, request), Belongs(call), NEW i \in DOMAIN HandlersOf(call)
    PROVE  LET l == HandlersOf(call)[i]
           IN  /\ Belongs(l)
               /\ l.kind = "headRun" => GivesNest(l)
               /\ l.kind # "headRun" =>
                    /\ call.kind = "get" /\ l.reg = call.reg /\ Runnable(l) /\ Runnable(call)
                    /\ GivesNest(call) => GivesNest(l)
<1> DEFINE l == HandlersOf(call)[i]
           head == Heads(call)[i]
<1>1. RoutesOK
  BY DEF RoutesInv
<1>2. /\ l.path = call.path /\ l.method = call.method
      /\ \/ /\ i \in DOMAIN Heads(call) /\ l.kind = "headRun" /\ l.reg = head.reg
            /\ l.nest = head.nest
         \/ /\ call.kind = "get" /\ l.kind = "getRun" /\ l.reg = call.reg
            /\ l.nest = call.nest
  BY <1>1, HandlersOfIs
<1> HIDE DEF l, head
<1>3. CASE /\ i \in DOMAIN Heads(call) /\ l.kind = "headRun" /\ l.reg = head.reg
           /\ l.nest = head.nest
  <2>1. HeadAgrees(routes, head, call.path)
    BY <1>3 DEF ParamsInv, head, Heads
  <2>2. Belongs(l)
    BY <1>3, <2>1 DEF HeadAgrees, Belongs, BaseKind
  <2>3. ParamsOf[call.path][request.target] # NoMatch
    BY DEF Matches
  <2>4. Stripped(ParamsOf[call.path][request.target], SuffixesOf[head.nest])
           \in NestMatch[head.nest][FALSE][request.target]
    BY <2>1, <2>3 DEF HeadAgrees
  <2>5. Covers(l) = NestMatch[head.nest][FALSE]
    <3>1. (l.kind = "use") = FALSE
      BY <1>3
    <3> QED
      BY <1>3, <3>1 DEF Covers
  <2>6. RouteParams(l) = Stripped(ParamsOf[call.path][request.target], SuffixesOf[head.nest])
    BY <1>2, <1>3 DEF RouteParams
  <2>7. GivesNest(l)
    BY <2>4, <2>5, <2>6 DEF GivesNest
  <2> QED
    BY <1>3, <2>2, <2>7 DEF l
<1>4. CASE /\ call.kind = "get" /\ l.kind = "getRun" /\ l.reg = call.reg
           /\ l.nest = call.nest
  <2>1. Belongs(l)
    BY <1>4 DEF Belongs, BaseKind
  <2>2. Runnable(l) /\ Runnable(call)
    BY <1>2, <1>4 DEF Runnable, HasPath, Matches, IsFor
  <2>3. Covers(l) = Covers(call)
    <3>1. (l.kind = "use") = FALSE /\ (call.kind = "use") = FALSE
      BY <1>4
    <3> QED
      BY <1>4, <3>1 DEF Covers
  <2>4. RouteParams(l) = RouteParams(call)
    BY <1>2, <1>4 DEF RouteParams
  <2>5. GivesNest(call) => GivesNest(l)
    BY <2>3, <2>4 DEF GivesNest
  <2> QED
    BY <1>4, <2>1, <2>2, <2>5 DEF l
<1> QED
  BY <1>2, <1>3, <1>4

(* A handler that runs gives the params, unless its registration ran.       *)
LEMMA RunGives ==
    ASSUME TodoInv, OnceInv, GivenInv, via = "hono", NEW a, RunHandlerIs(a)
    PROVE  RanReg(todo[a].reg) \/ (HasPath(todo[a]) => GivesNest(todo[a]))
<1>1. Popped(a) /\ ~PassesOn(todo[a]) /\ ~TriesHead(todo[a])
  BY DEF RunHandlerIs
<1>2. CASE todo[a].kind = "headRun"
  BY <1>1, <1>2 DEF GivenInv, Popped
<1>3. CASE todo[a].kind # "headRun" /\ HasPath(todo[a])
  <2>1. Runnable(todo[a])
    BY <1>1, <1>3 DEF Runnable, PassesOn
  <2> QED
    BY <1>1, <2>1, HereGives
<1> QED
  BY <1>2, <1>3

(* So does the route of the fast path: no other of its layers matches.      *)
LEMMA FastRouteGives ==
    ASSUME RoutesInv, FastRouteInv, ParamsInv, via = "fast", request.target \in Targets
    PROVE  Belongs(FastRoute) /\ HasPath(FastRoute) /\ GivesNest(FastRoute)
<1>1. PICK first \in Matched(request), second \in Matched(request),
           last \in Matched(request) :
        /\ Matched(request) = {first, second, last} /\ first < second /\ second < last
        /\ routes[first].kind = "request" /\ routes[second].kind = "body"
        /\ routes[last].kind \in {"get", "all"}
  BY DEF FastRouteInv, IsFastRoute
<1>2. /\ Matched(request) \subseteq DOMAIN routes
      /\ DOMAIN routes = 1..Len(routes) /\ Len(routes) \in Nat
  BY LenProperties DEF Matched, RoutesInv, RoutesOK
<1>3. Max(Matched(request)) = last
  BY <1>1, <1>2, MaxOfThree
<1>4. FastRoute = routes[last] /\ last \in DOMAIN routes /\ Matches(routes[last], request)
  BY <1>1, <1>2, <1>3 DEF FastRoute, Matched
<1>5. HasPath(routes[last]) /\ routes[last].reg # 0
  BY <1>1, <1>4 DEF HasPath, RoutesInv, RegistrationsInv, LayerOK, AdapterKinds
<1>6. Belongs(routes[last])
  BY <1>1, <1>4 DEF Belongs, BaseKind
<1>7. ASSUME NEW j \in 1..(last - 1), routes[j].reg = routes[last].reg,
             Hits(routes[j], request.target)
      PROVE  FALSE
  <2>1. j \in DOMAIN routes
    BY <1>2, <1>4
  <2>2. routes[j].kind = routes[last].kind /\ routes[j].method = routes[last].method
    BY <1>4, <1>5, <1>7, <2>1 DEF RoutesInv, RegistrationsInv
  <2>3. j \in Matched(request)
    BY <1>4, <1>7, <2>1, <2>2 DEF Matched, Matches, IsFor, Hits
  <2>4. j # last
    BY <1>2, <1>4
  <2> QED
    BY <1>1, <2>2, <2>3, <2>4
<1>8. Agrees(routes[last], request.target)
  BY <1>4, <1>5, <1>7 DEF ParamsInv, FirstAgrees, Matches, Hits
<1> QED
  BY <1>4, <1>5, <1>6, <1>8 DEF Agrees, GivesNest, RouteParams

(* Every step keeps that the params are those of the Nest path.             *)
LEMMA GivenStep ==
    ASSUME WalkInv, OnceInv, ParamsInv, GivenInv, [Next]_vars PROVE GivenInv'
<1> USE DEF WalkInv
<1>1. ASSUME UNCHANGED <<ran, todo, routes, request, via>> PROVE GivenInv'
  <2>1. UNCHANGED ParamsAreNest
    BY <1>1 DEF ParamsAreNest, NestOf, FirstRun, HasPath, Covers
  <2>2. \A n : UNCHANGED <<Belongs(todo[n]), GivesNest(todo[n]), Leads(todo, n),
                           RanReg(todo[n].reg)>>
    BY <1>1 DEF Belongs, GivesNest, RouteParams, Covers, Leads, Runnable, HasPath, Matches,
       IsFor, IsHead, RanReg
  <2> QED
    BY <1>1, <2>1, <2>2 DEF GivenInv
<1>2. ASSUME ran' = <<>> PROVE ParamsAreNest'
  BY <1>2 DEF ParamsAreNest
<1>3. CASE Idle
  BY <1>2, <1>3 DEF Idle, ArrivalInv, walkVars, paramVars, requestVars, GivenInv, None
<1>4. CASE Still
  BY <1>1, <1>4 DEF Still, walkVars, paramVars, requestVars
<1>5. CASE Arrive
  <2>1. todo' = routes /\ routes' = routes /\ ran' = <<>> /\ request'.target \in Targets
    BY <1>5, Arrives DEF ArrivalInv
  <2>2. ASSUME NEW n \in DOMAIN routes PROVE Belongs(routes[n])' /\ routes[n].kind # "headRun"
    <3>1. LayerOK(routes[n])
      BY DEF RoutesInv, RegistrationsInv
    <3>2. BaseKind(routes[n].kind) = routes[n].kind /\ routes[n].kind \notin RunKinds
      BY <3>1, BaseKindOfLayer
    <3> QED
      BY <2>1, <3>2 DEF Belongs, RunKinds
  <2>3. ASSUME NEW n \in DOMAIN routes, Leads(todo, n)' PROVE GivesNest(routes[n])'
    <3>1. HasPath(routes[n]) /\ Matches(routes[n], request')
      BY <2>1, <2>3 DEF Leads, Runnable, HasPath
    <3>2. routes[n].reg # 0
      BY <3>1 DEF RoutesInv, RegistrationsInv, LayerOK, HasPath, AdapterKinds
    <3>3. ASSUME NEW j \in 1..(n - 1), routes[j].reg = routes[n].reg,
                 Hits(routes[j], request'.target)
          PROVE  FALSE
      <4>1. DOMAIN routes = 1..Len(routes) /\ Len(routes) \in Nat
        BY LenProperties DEF RoutesInv, RoutesOK
      <4>2. j \in DOMAIN routes
        BY <4>1
      <4>3. routes[j].kind = routes[n].kind /\ routes[j].method = routes[n].method
        BY <3>2, <3>3, <4>2 DEF RoutesInv, RegistrationsInv
      <4>4. HasPath(routes[j]) /\ Matches(routes[j], request')
        BY <3>1, <3>3, <4>3 DEF HasPath, Matches, IsFor, Hits
      <4>5. Runnable(routes[j])'
        BY <2>1, <2>3, <4>3, <4>4 DEF Leads, Runnable, HasPath, IsHead
      <4> QED
        BY <2>1, <2>3, <3>3, <4>5 DEF Leads
    <3>4. Hits(routes[n], request'.target)
      BY <3>1 DEF Matches, Hits
    <3>5. Agrees(routes[n], request'.target)
      BY <2>1, <3>1, <3>3, <3>4 DEF ParamsInv, FirstAgrees
    <3> QED
      BY <2>1, <3>5 DEF Agrees, GivesNest, RouteParams, Covers
  <2> QED
    BY <2>1, <2>2, <2>3, <1>2 DEF GivenInv
<1>6. CASE OnHonoPath
  <2>1. UNCHANGED <<routes, request, via>> /\ HonoStep /\ via = "hono"
        /\ request.target \in Targets
    BY <1>6, HonoWalks DEF Walks, HonoStep, ArrivalInv
  <2>2. ASSUME ParamsAreNest',
               \A k \in DOMAIN todo' :
                  /\ Belongs(todo'[k]) /\ (todo'[k].kind = "headRun" => GivesNest(todo'[k]))
                  /\ Leads(todo', k) => \/ \E i \in DOMAIN ran' : ran'[i].reg = todo'[k].reg
                                        \/ GivesNest(todo'[k])
        PROVE  GivenInv'
    <3>1. \A k : Belongs(todo[k])' = Belongs(todo'[k])
      BY <2>1 DEF Belongs
    <3>2. \A k : GivesNest(todo[k])' = GivesNest(todo'[k])
      BY <2>1 DEF GivesNest, RouteParams, Covers
    <3>3. \A k : Runnable(todo[k])' = Runnable(todo'[k])
      BY <2>1 DEF Runnable, HasPath, Matches, IsFor, IsHead
    <3>4. \A k : Leads(todo, k)' = Leads(todo', k)
      BY <3>3 DEF Leads
    <3>5. \A k : RanReg(todo[k].reg)' = \E i \in DOMAIN ran' : ran'[i].reg = todo'[k].reg
      BY DEF RanReg
    <3> QED
      BY <2>2, <3>1, <3>2, <3>4, <3>5 DEF GivenInv
  <2>3. CASE RunHandler
    <3>1. PICK a \in DOMAIN todo : RunHandlerIs(a)
      BY <2>3, RunHandlerRuns
    <3> DEFINE call == todo[a]
               rest == Tail(Ahead)
               n == Len(ran) + 1
    <3>2. /\ Popped(a) /\ Runs(call, FALSE) /\ todo' = rest /\ ~PassesOn(call)
          /\ call.kind # "shutdown" /\ Belongs(call)
      BY <2>1, <3>1 DEF RunHandlerIs, GivenInv
    <3>3. call.kind \notin AdapterKinds
      BY <3>2 DEF AdapterKinds, PassesOn
    <3>4. RanReg(call.reg) \/ (HasPath(call) => GivesNest(call))
      BY <2>1, <3>1, RunGives
    <3>5. ASSUME NEW k \in DOMAIN rest
          PROVE  /\ Belongs(rest[k]) /\ (rest[k].kind = "headRun" => GivesNest(rest[k]))
                 /\ Leads(rest, k) => \/ RanReg(rest[k].reg) \/ GivesNest(rest[k])
                                      \/ call.reg = rest[k].reg
      <4>1. k + a \in DOMAIN todo /\ rest[k] = todo[k + a]
        BY <3>2 DEF Popped
      <4> QED
        BY <2>1, <3>2, <4>1, BehindGives DEF GivenInv
    <3> HIDE DEF call, rest
    <3>6. /\ Len(ran) \in Nat /\ DOMAIN ran = 1..Len(ran) /\ DOMAIN ran' = 1..n
          /\ \A i \in DOMAIN ran : i \in DOMAIN ran' /\ ran'[i] = ran[i]
          /\ \A i \in DOMAIN ran' : i \in DOMAIN ran \/ i = n
          /\ n \in DOMAIN ran'
          /\ ran'[n].reg = call.reg /\ ran'[n].given = RouteParams(call)
      BY <3>2, RunAdds
    <3>7. ASSUME NEW i \in DOMAIN ran', FirstRun(i)', HasPath(NestOf(ran'[i].reg))
          PROVE  ran'[i].given \in Covers(NestOf(ran'[i].reg))[request.target]
      <4>1. CASE i \in DOMAIN ran
        <5>1. \A j \in 1..(i - 1) : j \in DOMAIN ran
          BY <3>6, <4>1
        <5>2. FirstRun(i)
          BY <3>6, <3>7, <4>1, <5>1 DEF FirstRun
        <5> QED
          BY <3>6, <3>7, <4>1, <5>2 DEF GivenInv, ParamsAreNest
      <4>2. CASE i = n
        <5>1. ~RanReg(call.reg)
          BY <3>6, <3>7, <4>2 DEF FirstRun, RanReg
        <5>2. HasPath(call) /\ Covers(NestOf(call.reg)) = Covers(call)
          BY <3>2, <3>3, <3>6, <3>7, <4>2, NestOfIs DEF ParamsInv
        <5> QED
          BY <3>4, <3>6, <4>2, <5>1, <5>2 DEF GivesNest
      <4> QED
        BY <4>1, <4>2, <3>6
    <3> HIDE DEF n
    <3>8. ParamsAreNest'
      BY <2>1, <3>7 DEF ParamsAreNest, NestOf, HasPath, Covers
    <3>9. \A reg : RanReg(reg) \/ call.reg = reg => \E i \in DOMAIN ran' : ran'[i].reg = reg
      BY <3>6 DEF RanReg
    <3>10. ASSUME NEW k \in DOMAIN rest, Leads(rest, k)
           PROVE  (\E i \in DOMAIN ran' : ran'[i].reg = rest[k].reg) \/ GivesNest(rest[k])
      BY <3>5, <3>9, <3>10
    <3>11. /\ todo' = rest
           /\ \A k \in DOMAIN rest :
                Belongs(rest[k]) /\ (rest[k].kind = "headRun" => GivesNest(rest[k]))
      BY <3>2, <3>5
    <3>12. \A k \in DOMAIN todo' :
              /\ Belongs(todo'[k]) /\ (todo'[k].kind = "headRun" => GivesNest(todo'[k]))
              /\ Leads(todo', k) => \/ \E i \in DOMAIN ran' : ran'[i].reg = todo'[k].reg
                                    \/ GivesNest(todo'[k])
      BY <3>10, <3>11
    <3> QED
      BY <2>2, <3>8, <3>12
  <2>4. ASSUME ran' = ran PROVE ParamsAreNest'
    <3>1. UNCHANGED ParamsAreNest
      BY <2>1, <2>4 DEF ParamsAreNest, NestOf, FirstRun, HasPath, Covers
    <3> QED
      BY <3>1 DEF GivenInv
  <2>5. CASE Shutdown
    <3>1. Ahead # <<>> /\ Head(Ahead).kind = "shutdown" /\ todo' = Tail(Ahead) /\ ran' = ran
      BY <2>5 DEF Shutdown, paramVars
    <3>2. PICK a \in DOMAIN todo : Popped(a)
      BY <3>1, PoppedIs DEF TodoInv
    <3>3. ~Runnable(todo[a])
      BY <3>1, <3>2 DEF Popped, Runnable, HasPath
    <3>4. ASSUME NEW k \in DOMAIN Tail(Ahead)
          PROVE  LET l == Tail(Ahead)[k]
                 IN  /\ Belongs(l) /\ (l.kind = "headRun" => GivesNest(l))
                     /\ Leads(Tail(Ahead), k) => RanReg(l.reg) \/ GivesNest(l)
      <4>1. k + a \in DOMAIN todo /\ Tail(Ahead)[k] = todo[k + a]
        BY <3>2 DEF Popped
      <4> QED
        BY <2>1, <3>2, <3>3, <4>1, BehindGives DEF GivenInv
    <3> QED
      BY <2>2, <2>4, <3>1, <3>4 DEF RanReg
  <2>6. CASE TryHeadRoutes
    <3>1. Ahead # <<>> /\ ran' = ran
      BY <2>6 DEF TryHeadRoutes, paramVars
    <3>2. PICK a \in DOMAIN todo : Popped(a)
      BY <3>1, PoppedIs DEF TodoInv
    <3> DEFINE call == todo[a]
               rest == Tail(Ahead)
               own == HandlersOf(call)
    <3>3. /\ call \in Layers /\ call.kind \in {"head", "get"}
          /\ call.path \in HonoPaths /\ Matches(call, request) /\ Belongs(call)
          /\ todo' = own \o rest /\ rest \in Seq(Layers)
      BY <2>1, <2>6, <3>2, TriesHeadIs DEF Popped, GivenInv
    <3>4. Runnable(call) => RanReg(call.reg) \/ GivesNest(call)
      BY <2>1, <3>2, HereGives
    <3>5. ASSUME NEW k \in DOMAIN rest
          PROVE  /\ Belongs(rest[k]) /\ (rest[k].kind = "headRun" => GivesNest(rest[k]))
                 /\ Leads(rest, k) => \/ RanReg(rest[k].reg) \/ GivesNest(rest[k])
                                      \/ Runnable(call) /\ call.reg = rest[k].reg
      <4>1. k + a \in DOMAIN todo /\ rest[k] = todo[k + a]
        BY <3>2 DEF Popped
      <4> QED
        BY <2>1, <3>2, <4>1, BehindGives DEF GivenInv
    <3>6. Runnable(call) => call.kind = "get"
      BY <3>3 DEF Runnable
    <3> HIDE DEF call, rest
    <3>7. ASSUME NEW i \in DOMAIN own
          PROVE  /\ Belongs(own[i]) /\ (own[i].kind = "headRun" => GivesNest(own[i]))
                 /\ own[i].kind # "headRun" =>
                      /\ own[i].reg = call.reg /\ Runnable(own[i]) /\ Runnable(call)
                      /\ GivesNest(call) => GivesNest(own[i])
      BY <2>1, <3>3, HandlersGive
    <3>8. /\ own \in Seq(Layers)
          /\ Runnable(call) => \E i \in DOMAIN own : own[i].kind = "getRun"
      BY <3>3, <3>6, HandlersOfIs DEF RoutesInv
    <3> HIDE DEF own
    <3>9. Joins(todo', own, rest)
      <4>1. Joins(own \o rest, own, rest)
        BY <3>3, <3>8, GrownJoins
      <4> QED
        BY <3>3, <4>1
    <3>10. /\ DOMAIN own = 1..Len(own) /\ Len(own) \in Nat
           /\ DOMAIN rest = 1..Len(rest) /\ Len(rest) \in Nat
      BY <3>3, <3>8, LenProperties
    <3>11. ASSUME NEW k \in DOMAIN rest, Leads(todo', Len(own) + k)
           PROVE  RanReg(rest[k].reg) \/ GivesNest(rest[k])
      <4>1. todo'[Len(own) + k] = rest[k]
        BY <3>9 DEF Joins
      <4>2. ASSUME NEW m \in 1..(k - 1), Runnable(rest[m]) PROVE rest[m].reg # rest[k].reg
        <5>1. m \in DOMAIN rest /\ Len(own) + m \in 1..((Len(own) + k) - 1)
          BY <3>10
        <5>2. todo'[Len(own) + m] = rest[m]
          BY <3>9, <5>1 DEF Joins
        <5> QED
          BY <3>11, <4>1, <4>2, <5>1, <5>2 DEF Leads
      <4>3. Leads(rest, k)
        BY <3>11, <4>1, <4>2 DEF Leads
      <4>4. ~(Runnable(call) /\ call.reg = rest[k].reg)
        <5> SUFFICES ASSUME Runnable(call), call.reg = rest[k].reg PROVE FALSE
          OBVIOUS
        <5>1. PICK i \in DOMAIN own : own[i].kind = "getRun"
          BY <3>8
        <5>2. Runnable(own[i]) /\ own[i].reg = rest[k].reg
          BY <3>7, <5>1
        <5>3. todo'[i] = own[i] /\ i \in 1..((Len(own) + k) - 1)
          BY <3>9, <3>10 DEF Joins
        <5> QED
          BY <3>11, <4>1, <5>2, <5>3 DEF Leads
      <4> QED
        BY <3>5, <4>3, <4>4
    <3>12. ASSUME NEW k \in DOMAIN todo'
           PROVE  /\ Belongs(todo'[k]) /\ (todo'[k].kind = "headRun" => GivesNest(todo'[k]))
                  /\ Leads(todo', k) => RanReg(todo'[k].reg) \/ GivesNest(todo'[k])
      <4>1. CASE k \in DOMAIN own /\ todo'[k] = own[k]
        BY <3>4, <3>7, <4>1
      <4>2. ASSUME NEW m \in DOMAIN rest, k = Len(own) + m, todo'[k] = rest[m]
            PROVE  /\ Belongs(todo'[k])
                   /\ todo'[k].kind = "headRun" => GivesNest(todo'[k])
                   /\ Leads(todo', k) => RanReg(todo'[k].reg) \/ GivesNest(todo'[k])
        BY <3>5, <3>11, <4>2
      <4> QED
        BY <3>9, <4>1, <4>2 DEF Joins
    <3> QED
      BY <2>2, <2>4, <3>1, <3>12 DEF RanReg
  <2>7. CASE NotFound
    BY <1>1, <2>1, <2>7 DEF NotFound, paramVars
  <2> QED
    BY <1>6, <2>3, <2>5, <2>6, <2>7 DEF OnHonoPath
<1>7. CASE OnFastPath /\ Fast!Next
  <2>1. UNCHANGED <<todo, routes, request, via>> /\ via = "fast" /\ frozen
        /\ request.target \in Targets
    BY <1>7, FastWalks DEF Walks, ArrivalInv
  <2>2. CASE phase = "prepared" /\ phase' = "route" /\ Runs(FastRoute, TRUE)
    <3> DEFINE call == FastRoute
    <3>1. ran = <<>> /\ Len(ran) = 0
      BY <2>1, <2>2 DEF RanInv
    <3>2. Belongs(call) /\ HasPath(call) /\ GivesNest(call)
      BY <2>1, FastRouteGives
    <3>3. Covers(NestOf(call.reg)) = Covers(call)
      <4>1. call.kind \notin AdapterKinds
        BY <3>2 DEF HasPath, AdapterKinds
      <4> HIDE DEF call
      <4> QED
        BY <3>2, <4>1, NestOfIs DEF ParamsInv
    <3> HIDE DEF call
    <3>4. DOMAIN ran' = 1..(0 + 1) /\ ran'[0 + 1].reg = call.reg
          /\ ran'[0 + 1].given = RouteParams(call)
      BY <2>2, <3>1, RunAdds DEF call
    <3>5. DOMAIN ran' = {1} /\ ran'[1].reg = call.reg /\ ran'[1].given = RouteParams(call)
      BY <3>4
    <3>6. ASSUME NEW i \in DOMAIN ran'
          PROVE  ran'[i].given \in Covers(NestOf(ran'[i].reg))[request.target]
      BY <3>2, <3>3, <3>5 DEF GivesNest
    <3>7. ParamsAreNest'
      BY <2>1, <3>6 DEF ParamsAreNest, NestOf, HasPath, Covers
    <3> QED
      BY <2>1, <3>7 DEF GivenInv
  <2>3. CASE UNCHANGED <<params, routeParams, ran>>
    BY <2>1, <2>3, <1>1
  <2> QED
    BY <1>7, <2>2, <2>3, RouteSteps
<1> QED
  BY <1>3, <1>4, <1>5, <1>6, <1>7, WalkSteps

-----------------------------------------------------------------------------
(* The theorems.                                                            *)

(* All the invariants hold at first.                                        *)
LEMMA WalkInit == Init => WalkInv /\ OnceInv /\ LateInv /\ HeadInv /\ EditsInv /\ OrderInv
<1> SUFFICES ASSUME Init
             PROVE  WalkInv /\ OnceInv /\ LateInv /\ HeadInv /\ EditsInv /\ OrderInv
  OBVIOUS
<1>1. RoutesInv
  BY RoutesInit
<1>2. /\ request = NoRequest /\ ~request.late /\ ~frozen /\ via = None /\ todo = <<>>
      /\ triedHeadRoutes = {} /\ invoked = {} /\ routeParams = NoParams /\ ran = <<>>
      /\ phase = "prepare"
  BY DEF Init, NoRequest, frozen, Fast!Init
<1>3. via # "fast" /\ via # "hono"
  BY <1>2 DEF None
<1>4. ArrivalInv /\ FastRouteInv
  BY <1>2, <1>3 DEF ArrivalInv, FastRouteInv
<1>5. RanInv
  BY <1>2, <1>3, EmptyIsSeq DEF RanInv
<1>6. TodoInv
  BY <1>2, EmptySeq DEF TodoInv
<1>7. OnceInv
  BY <1>2 DEF OnceInv, MiddlewareOnce
<1>8. LateInv
  BY <1>2 DEF LateInv
<1>9. HeadInv
  BY <1>2 DEF HeadInv, HeadFirst
<1>10. EditsInv
  BY <1>2, <1>3 DEF EditsInv, EditsReachNextLayers
<1>11. OrderInv
  BY <1>2, <1>3 DEF OrderInv, MiddlewareFirst, FromTable
<1> QED
  BY <1>1, <1>4, <1>5, <1>6, <1>7, <1>8, <1>9, <1>10, <1>11 DEF WalkInv

(* The layers are in the order of registration, what is ahead of a request  *)
(* are registered layers and their handlers, and what ran on the fast path  *)
(* is its route: an invariant.                                              *)
THEOREM WalkInductive == Spec => []WalkInv
<1>1. Init => WalkInv
  BY WalkInit
<1>2. WalkInv /\ [Next]_vars => WalkInv'
  BY RoutesStep, ArrivalStep, FastRouteStep, RanStep, TodoStep DEF WalkInv
<1> QED
  BY <1>1, <1>2, PTL DEF Spec

(* A middleware of Nest's runs once for a request, on however many Hono     *)
(* paths registerMiddleware() put it and however often a registration of    *)
(* another method of that path repeats it.                                  *)
THEOREM MiddlewareRunsOnce == Spec => []MiddlewareOnce
<1>1. Init => OnceInv
  BY WalkInit
<1>2. WalkInv /\ OnceInv /\ [Next]_vars => OnceInv'
  BY OnceStep
<1>3. OnceInv => MiddlewareOnce
  BY DEF OnceInv
<1> QED
  BY <1>1, <1>2, <1>3, WalkInductive, PTL DEF Spec

(* A request that arrives after prepareClose() with return503OnClosing      *)
(* reaches no handler: the shutdown layer is the first that answers,        *)
(* whatever was registered before the server was made.                      *)
THEOREM ClosingStops == Spec => []ClosingStopsRequests
<1>1. Init => LateInv
  BY WalkInit
<1>2. WalkInv /\ LateInv /\ [Next]_vars => LateInv'
  BY LateStep
<1>3. LateInv => ClosingStopsRequests
  BY DEF LateInv, ClosingStopsRequests
<1> QED
  BY <1>1, <1>2, <1>3, WalkInductive, PTL DEF Spec

(* No GET route answers a HEAD request before the @Head() routes of its     *)
(* path: runHandlers() and markHeadRouteTried() over any layers.            *)
THEOREM HeadsComeFirst == Spec => []HeadFirst
<1>1. Init => HeadInv
  BY WalkInit
<1>2. WalkInv /\ HeadInv /\ [Next]_vars => HeadInv'
  BY HeadStep
<1>3. HeadInv => HeadFirst
  BY DEF HeadInv
<1> QED
  BY <1>1, <1>2, <1>3, WalkInductive, PTL DEF Spec

(* Edits of req.params reach each next layer that is given the same value:  *)
(* setRouteParams() and keepParameterEdits() over any sequence of handlers. *)
THEOREM EditsReach == Spec => []EditsReachNextLayers
<1>1. Init => EditsInv
  BY WalkInit
<1>2. WalkInv /\ EditsInv /\ [Next]_vars => EditsInv'
  BY EditsStep
<1>3. EditsInv => EditsReachNextLayers
  BY DEF EditsInv
<1> QED
  BY <1>1, <1>2, <1>3, WalkInductive, PTL DEF Spec

(* Where paths are covered, as the runs check, no handler runs before a     *)
(* middleware that was registered earlier and covers the request, on Hono's *)
(* path and on the fast path, which has room for none.  A HEAD handler      *)
(* counts from the first GET or HEAD route of its Hono path, so that a      *)
(* middleware registered between the two is not promised to come first.     *)
THEOREM MiddlewareComesFirst == Spec /\ []PathsCovered => []MiddlewareFirst
<1> DEFINE Frozen == frozen => AllCovered
<1>1. Init => OnceInv /\ OrderInv /\ Frozen
  <2>1. Init => ~frozen
    BY DEF Init, frozen
  <2> QED
    BY <2>1, WalkInit
<1>2. WalkInv /\ OnceInv /\ [Next]_vars => OnceInv'
  BY OnceStep
<1>3. WalkInv /\ Frozen /\ PathsCovered /\ [Next]_vars => Frozen'
  BY CoveredStep DEF WalkInv
<1>4. WalkInv /\ OnceInv /\ OrderInv /\ Frozen /\ [Next]_vars => OrderInv'
  BY OrderStep
<1>5. OrderInv => MiddlewareFirst
  BY DEF OrderInv
<1> HIDE DEF Frozen
<1> QED
  BY <1>1, <1>2, <1>3, <1>4, <1>5, WalkInductive, PTL DEF Spec

(* Where the Hono paths of every registration by itself match what its Nest *)
(* path matches, so they do in the table of all routes, in whatever order   *)
(* they came.                                                               *)
THEOREM PathsStayCovered == ASSUME PathsAgree PROVE Spec => []PathsCovered
<1>1. Init => AllCovered
  BY DEF Init, AllCovered, IsCovered, HasPath, EveryRequest, Layer
<1>2. WalkInv /\ AllCovered /\ [Next]_vars => AllCovered'
  BY PathsStep DEF WalkInv
<1>3. AllCovered => PathsCovered
  BY DEF AllCovered, PathsCovered
<1> QED
  BY <1>1, <1>2, <1>3, WalkInductive, PTL DEF Spec

(* So middleware comes first, in the sense of MiddlewareFirst, where each   *)
(* registration's own paths match what its Nest path does: nothing else is  *)
(* asked of what is offered, the order it comes in, or the requests.        *)
THEOREM MiddlewareStaysFirst == ASSUME PathsAgree PROVE Spec => []MiddlewareFirst
<1> QED
  BY PathsStayCovered, MiddlewareComesFirst, PTL

(* The params a handler is given are those its Nest path names, without the *)
(* literal suffix of an optional group, on Hono's path, among the HEAD      *)
(* handlers and on the fast path, where each registration by itself agrees  *)
(* with its Nest path: what runs first of a registration is the first of    *)
(* its Hono paths that matches, however registrations mix.                  *)
THEOREM ParamsStayNest == ASSUME ParamsAgree PROVE Spec => []ParamsAreNest
<1>1. Init => ParamsInv /\ OnceInv /\ GivenInv
  <2> SUFFICES ASSUME Init PROVE ParamsInv /\ OnceInv /\ GivenInv
    OBVIOUS
  <2>1. /\ routes = <<EveryRequest("request", 0)>> /\ ~HasPath(EveryRequest("request", 0))
        /\ headRouteHandlers = [path \in HonoPaths |-> <<>>]
        /\ via # "hono" /\ ran = <<>>
    BY DEF Init, HasPath, EveryRequest, Layer, None
  <2>2. SameNest(routes) /\ FirstAgrees(routes)
    BY <2>1 DEF SameNest, FirstAgrees
  <2>3. ParamsInv
    BY <2>1, <2>2 DEF ParamsInv
  <2>4. GivenInv
    BY <2>1 DEF GivenInv, ParamsAreNest
  <2> QED
    BY <2>3, <2>4, WalkInit
<1>2. WalkInv /\ ParamsInv /\ [Next]_vars => ParamsInv'
  BY ParamsStep DEF WalkInv
<1>3. WalkInv /\ OnceInv /\ [Next]_vars => OnceInv'
  BY OnceStep
<1>4. WalkInv /\ OnceInv /\ ParamsInv /\ GivenInv /\ [Next]_vars => GivenInv'
  BY GivenStep
<1>5. GivenInv => ParamsAreNest
  BY DEF GivenInv
<1> QED
  BY <1>1, <1>2, <1>3, <1>4, <1>5, WalkInductive, PTL DEF Spec
=============================================================================
