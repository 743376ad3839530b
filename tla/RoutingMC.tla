----------------------------- MODULE RoutingMC -----------------------------
(***************************************************************************)
(* Instances of Routing: the paths and targets, what Hono matches, and     *)
(* what the Nest paths say they match, which is stated without the code's  *)
(* expansion: an optional group is left out, or only its braces are.       *)
(***************************************************************************)
EXTENDS Routing, RoutePaths, FiniteSets

PathA == <<"/", "a">>
PathParam == <<"/", "a", "/", ":p">>
PathOptional == <<"/", "a", "{", "/", ":p", "}">>
PathSuffix == <<"/", "a", "/", ":p", "{", ".", "x", "}">>
PathAnything == <<"/", "{", "*w", "}">>
PathOverlap == <<"{", "/", "a", "}", "/", "*w">>
PathConstraint == <<"/", "a", "/", ":p", "{", "[", "1", "}", "]", "+", "}">>
PathConstraintInGroup ==
    <<"/", "a", "{", "/", ":p", "{", "[", "1", "}", "]", "+", "}", "}", "/", "b">>
PathTwoGroups == <<"/", "a", "{", "/", ":p", "}", "{", "/", ":q", "}">>
PathSuffixInside == <<"/", ":p", "{", ".", "x", "}", "/", "b">>
PathLiteralGroup == <<"/", "a", "{", ".", "x", "}", "/", ":q">>
PathSuffixInGroup == <<"/", "a", "{", "/", ":p", "{", ".", "x", "}", "}">>

BasicPaths ==
    {<<>>, PathA, PathParam, PathOptional, PathSuffix, PathAnything, PathOverlap,
     PathConstraint, PathConstraintInGroup, PathTwoGroups, PathSuffixInside,
     PathLiteralGroup}
PathsMC == BasicPaths \cup {PathSuffixInGroup}

NamesMC == {":p", ":q", ":w"}
TargetsMC ==
    {<< <<"a">> >>, << <<"a">>, <<"v">> >>, << <<"a">>, <<"1">> >>,
     << <<"a">>, <<"v", ".", "x">> >>, << <<"v", ".", "x">>, <<"b">> >>,
     << <<"a">>, <<"1">>, <<"b">> >>, << <<"a">>, <<"v">>, <<"b">> >>, << <<"b">> >>,
     << <<"a", ".", "x">>, <<"v">> >>}

-----------------------------------------------------------------------------
(* Matching, segment by segment, with a value for every parameter.          *)

NoMatchMC == [name \in NamesMC |-> "no match"]
Nothing == [name \in NamesMC |-> Absent]

Segments(path) ==
    SelectSeq(FoldLeft(LAMBDA acc, token :
                            IF token = "/" THEN Append(acc, <<>>)
                            ELSE Front(acc) \o <<Append(Last(acc), token)>>,
                       <<>>, path),
              LAMBDA segment : segment # <<>>)

Rest == <<"{", ".", "+", "}">>
IsRest(segment) == segment = <<"*w">> \/ \E name \in NamesMC : segment = <<name>> \o Rest
IsTail(segment) == segment = <<"*">>

(* One segment: a literal, a parameter with a constraint (digits), or a     *)
(* parameter with a literal behind it, which only Nest paths have.          *)
SegmentMatches(segment, text) ==
    IF ~IsParam(segment[1]) THEN segment = text
    ELSE LET after == Tail(segment)
         IN  IF after # <<>> /\ after[1] = "{" THEN text = <<"1">>
             ELSE IsSuffix(after, text) /\ (after = <<>> \/ after # text)

(* The value of a parameter, without the literal behind it.                 *)
SegmentValue(segment, text) ==
    LET after == Tail(segment)
    IN  IF after # <<>> /\ after[1] = "{" THEN text
        ELSE SubSeq(text, 1, Len(text) - Len(after))

RECURSIVE Match(_, _)
Match(pattern, target) ==
    IF pattern = <<>> THEN IF target = <<>> THEN Nothing ELSE NoMatchMC
    ELSE LET segment == pattern[1]
         IN  IF IsTail(segment) THEN Nothing
             ELSE IF target = <<>> THEN NoMatchMC
             ELSE IF IsRest(segment) THEN [Nothing EXCEPT ![NameOf(segment[1])] = target]
             ELSE IF ~SegmentMatches(segment, target[1]) THEN NoMatchMC
             ELSE LET rest == Match(Tail(pattern), Tail(target))
                  IN  IF rest = NoMatchMC \/ ~IsParam(segment[1]) THEN rest
                      ELSE [rest EXCEPT ![segment[1]] = <<SegmentValue(segment, target[1])>>]

HonoMatch(path) ==
    [target \in TargetsMC |-> Match(Segments(path), target)]

-----------------------------------------------------------------------------
(* What a Nest path says: Kept is the set of its optional groups that are   *)
(* there.  A group is a pair of braces that does not hold a constraint.     *)

InClass(path, i) == \E j \in 1..(i - 1) : path[j] = "["
                    /\ \A k \in j..i : path[k] # "]"

Groups(path) ==
    LET Opens(i) == path[i] = "{" /\ ~InClass(path, i)
        Closes(i, j) == /\ path[j] = "}" /\ ~InClass(path, j) /\ i < j
                        /\ Cardinality({k \in i..j : path[k] = "{" /\ ~InClass(path, k)})
                           = Cardinality({k \in i..j : path[k] = "}" /\ ~InClass(path, k)})
        End(i) == CHOOSE j \in DOMAIN path :
                    Closes(i, j) /\ \A k \in DOMAIN path : Closes(i, k) => j <= k
    IN  {<<i, End(i)>> : i \in {k \in DOMAIN path : Opens(k)
            /\ ~(k > 1 /\ IsParam(path[k - 1]) /\ path[k + 1] = "[")}}

Reading(path, kept) ==
    LET left == Groups(path) \ kept
        Stays(i) == /\ \A g \in left : i \notin g[1]..g[2]
                    /\ \A g \in kept : i \notin {g[1], g[2]}
        Indexes == SelectSeq([i \in DOMAIN path |-> i], Stays)
    IN  [i \in DOMAIN Indexes |-> path[Indexes[i]]]

(* The readings that match, of which none keeps more groups.                *)
NestParams(path, target, end) ==
    LET Matching == {kept \in SUBSET Groups(path) :
                        Match(Segments(Reading(path, kept) \o end), target) # NoMatchMC}
    IN  {Match(Segments(Reading(path, kept) \o end), target) :
            kept \in {k \in Matching : \A other \in Matching : ~(k \subseteq other /\ k # other)}}

(* A path of use() covers what is below it.                                 *)
NestTable ==
    [path \in PathsMC |->
        [prefix \in BOOLEAN |-> [target \in TargetsMC |->
            NestParams(path, target, IF prefix THEN <<"/", "*">> ELSE <<>>)]]]

-----------------------------------------------------------------------------
Distinct(s) ==
    FoldLeft(LAMBDA acc, e : IF Contains(acc, e) THEN acc ELSE Append(acc, e), <<>>, s)

HonoPathsTable == [path \in PathsMC |-> Distinct(normalizeHonoPaths(path))]
SuffixesMC == [path \in PathsMC |-> getOptionalParameterSuffixes(path)]
RoutePathsMC == UNION {ToSet(HonoPathsTable[path]) : path \in DOMAIN HonoPathsTable}
PrefixMC == [path \in RoutePathsMC |-> normalizeHonoMiddlewarePath(path)]
ParamsTable ==
    [path \in RoutePathsMC \cup {PrefixMC[path] : path \in RoutePathsMC}
        \cup {AnyPath} |-> HonoMatch(path)]
RequestsMC ==
    [method : {"GET", "HEAD"}, target : {<< <<"a">> >>, << <<"a">>, <<"v">> >>}]
    \cup [method : {"GET"}, target : {<< <<"a">>, <<"v", ".", "x">> >>,
                                     << <<"v", ".", "x">>, <<"b">> >>}]
(* TLC evaluates a table once if it is a definition of its own.             *)
NestMatchMC == NestTable
ParamsMC == ParamsTable
HonoPathsMC == HonoPathsTable
EditedMC == <<"e">>

Reg(method, path) == [method |-> method, path |-> path]

(* Every path once; then what competes for the same targets; then a HEAD    *)
(* route, which runs where the first route of its Hono path stands.         *)
Competing ==
    {Reg("get", PathParam), Reg("get", PathOptional), Reg("head", PathParam),
     Reg("middleware ALL", PathAnything), Reg("middleware GET", PathParam)}

OfferedMC(n) ==
    CASE n = 0 -> Competing
            \cup {Reg(method, path) : method \in {"get", "use"}, path \in BasicPaths \ {<<>>}}
            \cup {Reg("middleware ALL", PathOverlap), Reg("middleware HEAD", PathParam),
                  Reg("head", PathOptional), Reg("all", PathSuffix), Reg("post", PathParam)}
            \cup {Reg(method, <<>>) : method \in {"use", "useAll", "catchAll", "parser"}}
      [] n = 1 -> Competing
      [] OTHER -> {Reg("head", PathParam)}

(* For a wider run: any three that compete for one target.                  *)
OfferedOrder(n) ==
    Competing \cup {Reg("head", PathOptional), Reg("use", PathOptional),
                    Reg("middleware HEAD", PathParam)}
RequestsOrder == [method : {"GET", "HEAD"}, target : {<< <<"a">>, <<"v">> >>}]

(* What the theorems on the paths and the params assume of a registration   *)
(* holds of each one offered here, where PathSuffixInGroup is not.          *)
ASSUME OfferedAgree ==
    \A n \in 0..MaxSetup :
        \A r \in OfferedMC(n) \cup OfferedOrder(n) : PathAgrees(r) /\ ParamAgrees(r)

OfferedSuffix(n) == {Reg("get", PathSuffixInGroup)}

OfferedEdits(n) ==
    CASE n = 0 -> {Reg("middleware ALL", PathParam)}
      [] n = 1 -> {Reg("middleware ALL", PathAnything), Reg("middleware ALL", PathParam)}
      [] OTHER -> {Reg("get", PathParam)}

=============================================================================
