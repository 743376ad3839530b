----------------------------- MODULE RoutePaths -----------------------------
(***************************************************************************)
(* src/routing/route-paths.ts: what a Nest route path becomes on Hono.     *)
(* A path is a sequence of tokens: "/", literals ("a", "x", "."), the      *)
(* parameters of Params (":p"), the named wildcards of Wildcards            *)
(* ("*w"), "{" and "}", and the characters of a constraint in Markers.  A  *)
(* parameter is never followed directly by a literal, which would be part  *)
(* of its name.                                                            *)
(***************************************************************************)
EXTENDS Naturals, Sequences, SequencesExt

Params == {":p", ":q", ":w"}
Wildcards == {"*w"}
Markers == {"[", "]", "+", "*", "\\"} \cup Wildcards    \* HONO_CONSTRAINT_MARKER_REGEX

IsParam(token) == token \in Params
NameOf(token) == IF token = "*w" THEN ":w" ELSE token
Before(path, i) == SubSeq(path, 1, i - 1)
After(path, i) == SubSeq(path, i + 1, Len(path))
Has(path, tokens) == \E i \in DOMAIN path : path[i] \in tokens

NoIndex == 0

(* findClosingBrace(), from index i on.                                     *)
RECURSIVE ClosingBrace(_, _, _, _)
ClosingBrace(path, i, depth, insideCharacterClass) ==
    IF i > Len(path) THEN NoIndex
    ELSE CASE path[i] = "\\" -> ClosingBrace(path, i + 2, depth, insideCharacterClass)
           [] path[i] = "[" -> ClosingBrace(path, i + 1, depth, TRUE)
           [] path[i] = "]" -> ClosingBrace(path, i + 1, depth, FALSE)
           [] path[i] = "{" /\ ~insideCharacterClass ->
                ClosingBrace(path, i + 1, depth + 1, FALSE)
           [] path[i] = "}" /\ ~insideCharacterClass ->
                IF depth = 1 THEN i ELSE ClosingBrace(path, i + 1, depth - 1, FALSE)
           [] OTHER -> ClosingBrace(path, i + 1, depth, insideCharacterClass)

findClosingBrace(path, start) == ClosingBrace(path, start, 0, FALSE)

(* HONO_PARAMETER_SUFFIX_REGEX of what precedes index i, and OPTIONAL_      *)
(* GROUP_PARAMETER_REGEX.                                                   *)
FollowsParameter(path, i) == i > 1 /\ IsParam(path[i - 1])
HasParameter(content) ==
    \E i \in DOMAIN content :
        IsParam(content[i]) /\ (i = 1 \/ content[i - 1] \in {"/", ".", "-"})

Content(path, group) == SubSeq(path, group.start + 1, group.end - 1)
NoGroup == [start |-> NoIndex, end |-> NoIndex]

(* findOptionalRouteGroup(): the first group that is not the constraint of  *)
(* a parameter.                                                             *)
IsOptional(path, group) ==
    \/ ~FollowsParameter(path, group.start)
    \/ HasParameter(Content(path, group))
    \/ ~Has(Content(path, group), Markers)

RECURSIVE GroupFrom(_, _)
GroupFrom(path, start) ==
    IF start > Len(path) THEN NoGroup
    ELSE IF path[start] # "{" THEN GroupFrom(path, start + 1)
    ELSE LET group == [start |-> start, end |-> findClosingBrace(path, start)]
         IN  IF group.end = NoIndex THEN NoGroup
             ELSE IF IsOptional(path, group) THEN group
             ELSE GroupFrom(path, group.end + 1)

findOptionalRouteGroup(path) == GroupFrom(path, 1)

(* getOptionalParameterSuffix() returns a suffix for a literal that follows *)
(* a parameter.                                                             *)
IsLiteralSuffix(path, group) ==
    /\ FollowsParameter(path, group.start)
    /\ Content(path, group) # <<>>
    /\ ~Has(Content(path, group), {"/"} \cup Markers)
    /\ ~HasParameter(Content(path, group))

Without(path, group) == Before(path, group.start) \o After(path, group.end)
With(path, group) ==
    Before(path, group.start) \o Content(path, group) \o After(path, group.end)

(* getOptionalParameterSuffixes(), in the order they are found: a group is  *)
(* removed with what it holds.                                              *)
RECURSIVE getOptionalParameterSuffixes(_)
getOptionalParameterSuffixes(path) ==
    LET group == findOptionalRouteGroup(path)
    IN  IF group = NoGroup THEN <<>>
        ELSE (IF IsLiteralSuffix(path, group)
              THEN << [name |-> path[group.start - 1], suffix |-> Content(path, group)] >>
              ELSE <<>>)
             \o getOptionalParameterSuffixes(Without(path, group))

(* The named wildcards of a path without groups: /*w is /:w{.+} on Hono.    *)
HonoWildcards(path) ==
    FlattenSeq([i \in DOMAIN path |->
        IF path[i] \in Wildcards /\ i > 1 /\ path[i - 1] = "/"
        THEN <<NameOf(path[i]), "{", ".", "+", "}">> ELSE <<path[i]>>])

(* normalizeHonoPaths()                                                     *)
Expansions(path, group) ==
    IF IsLiteralSuffix(path, group) THEN <<Without(path, group)>>
    ELSE <<With(path, group), Without(path, group)>>

RECURSIVE normalizeHonoPaths(_)
normalizeHonoPaths(path) ==
    LET group == findOptionalRouteGroup(path)
    IN  IF group = NoGroup THEN <<HonoWildcards(path)>>
        ELSE FlattenSeq([i \in DOMAIN Expansions(path, group) |->
                 normalizeHonoPaths(Expansions(path, group)[i])])

(* normalizeHonoMiddlewarePath(): a prefix pattern.                         *)
RECURSIVE WithoutTrailingSlashes(_)
WithoutTrailingSlashes(path) ==
    IF path # <<>> /\ Last(path) = "/"
    THEN WithoutTrailingSlashes(Front(path)) ELSE path

EndsWithWildcard(path) ==
    \/ IsSuffix(<<"/", "*">>, path)
    \/ \E name \in Params, sign \in {"+", "*"} :
          IsSuffix(<<name, "{", ".", sign, "}">>, path)

normalizeHonoMiddlewarePath(path) ==
    IF path = <<"*">> \/ EndsWithWildcard(path) THEN path
    ELSE WithoutTrailingSlashes(path) \o <<"/", "*">>
=============================================================================
