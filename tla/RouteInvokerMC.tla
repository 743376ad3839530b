--------------------------- MODULE RouteInvokerMC ---------------------------
(* Instances of RouteInvoker for TLC: which of the layers are middleware    *)
(* and which of them run through runRoute().                                *)
EXTENDS RouteInvoker

\* app.use() middleware in front of a route.
UseWaits == {1}
UseRouted == {1, 2}

\* A request that reaches middleware only, of both kinds, and no route.
UnmatchedWaits == {1, 2}
UnmatchedRouted == {2}
=============================================================================
