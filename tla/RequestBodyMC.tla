--------------------------- MODULE RequestBodyMC ---------------------------
(* Instances of RequestBody for TLC: requests of every transport and        *)
(* framing, and applications with their middleware and parsers in the       *)
(* orders that Nest allows.                                                 *)
EXTENDS RequestBody, SequencesExt

UsePaths == {"small", "large", "hook"}
UseLimits == "small" :> 1 @@ "large" :> Unset @@ "hook" :> 2
UseSkipped == {"hook"}

Post(path, type, size, declared, chunked) ==
    [method |-> "POST", path |-> path, type |-> type, hasBody |-> TRUE,
     size |-> size, declared |-> declared, chunked |-> chunked]
Bodiless(method, path, type, size, declared) ==
    [method |-> method, path |-> path, type |-> type, hasBody |-> FALSE,
     size |-> size, declared |-> declared, chunked |-> FALSE]

(* The framings of a body that Node.js and Bun accept, and those that a     *)
(* Request of app.request() can claim.                                      *)
Framed(path, type, size) ==
    {Post(path, type, size, size, FALSE), Post(path, type, size, 1, TRUE)}
Claimed(path, type, size) ==
    {Post(path, type, size, Unset, FALSE), Post(path, type, size, 1, FALSE)}

Bodies == {<<"small", "json", 1>>, <<"small", "json", 2>>, <<"small", "multipart", 1>>,
           <<"small", "urlencoded", 2>>, <<"small", "octets", 2>>, <<"hook", "json", 2>>,
           <<"large", "octets", 1>>}

Gets == {Bodiless("GET", "small", "json", size, size) : size \in {1, 2}}
Heads == {Bodiless("HEAD", "small", "json", size, size) : size \in {0, 1}}

UseServers ==
    {[transport |-> t, request |-> r] :
        t \in {"node", "bun"},
        r \in Gets \cup Heads \cup UNION {Framed(b[1], b[2], b[3]) : b \in Bodies}}
    \cup {[transport |-> "direct", request |-> r] :
              r \in UNION {Claimed(b[1], b[2], b[3]) : b \in Bodies}}

UseReplacements ==
    {Post("small", "json", 2, 1, FALSE), Post("large", "octets", 2, Unset, TRUE),
     Post("hook", "json", 1, 1, FALSE), Bodiless("GET", "large", "json", 0, Unset)}

(* Applications, as the calls that add layers: hono.use(), app.use() of     *)
(* Nest, useBodyParser(), the creation by Nest, and its app.init().         *)
Registry == INSTANCE ParserRegistry

NoLimits == [type \in ToSet(Registry!DEFAULT_PARSER_TYPES) |-> Unset]
JsonLimit == [NoLimits EXCEPT !["json"] = 1]

Uses(kind) == [call |-> "use", kind |-> kind]
UseBodyParser(type, limit) == [call |-> "useBodyParser", type |-> type, limit |-> limit]
Create(bodyParser, limitOf) ==
    [call |-> "create", bodyParser |-> bodyParser, limitOf |-> limitOf]
AppInit == [call |-> "init"]

After(app, c) ==
    CASE c.call = "use" -> Registry!Use(app, c.kind, {}, Unset)
      [] c.call = "useBodyParser" -> Registry!register(app, c.type, c.limit)
      [] c.call = "create" -> Registry!initHttpServer(app, c.bodyParser, c.limitOf)
      [] c.call = "init" -> Registry!registerParserMiddleware(app, NoLimits)

Applications ==
    { \* parsers of Nest, and one for raw bodies
      <<Uses("hono"), Create(TRUE, NoLimits), Uses("nest"),
        UseBodyParser("raw", Unset), AppInit>>,
      \* a parser registered before the application was created
      <<UseBodyParser("json", 1), Uses("nest"), Create(TRUE, NoLimits),
        Uses("hono"), UseBodyParser("json", 2), AppInit>>,
      \* bodyParser: false
      <<Uses("nest"), Create(FALSE, NoLimits), Uses("hono"),
        UseBodyParser("raw", 1)>>,
      \* an adapter that overrides useBodyParser()
      <<Create(TRUE, JsonLimit), Uses("nest"), AppInit>>,
      \* a parser of a default type once more
      <<Create(TRUE, NoLimits), Uses("nest"), UseBodyParser("json", Unset), AppInit>> }

UseChains ==
    {Registry!Use(FoldLeft(After, Registry!NewApp, calls), "route", {}, Unset).layers :
        calls \in Applications}
=============================================================================
