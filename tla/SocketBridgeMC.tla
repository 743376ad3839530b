--------------------------- MODULE SocketBridgeMC ---------------------------
(* Instances of SocketBridge for TLC: two pipelined requests, a HEAD with   *)
(* two listeners, which may answer with a stream, and a GET with one.       *)
EXTENDS SocketBridge, TLC

CONSTANTS head, get, first, second, third

OneRequest == {head}
Pipelined == {head, get}

ThreeListeners == {first, second, third}
TwoAndOne == first :> head @@ second :> head @@ third :> get
Swap == Permutations({first, second})
=============================================================================
