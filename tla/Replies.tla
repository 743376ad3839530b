------------------------------ MODULE Replies ------------------------------
(***************************************************************************)
(* How a request gets its response: the reply methods of HonoAdapter       *)
(* (src/hono-adapter.ts), buildResponse() and finalizeResponse()           *)
(* (src/helpers/response.ts), the tracking that lets a reply bypass Hono's *)
(* header merging (src/response/context-tracking.ts), and the writer of    *)
(* the Node.js fast path (src/server/node-response-writer.ts).             *)
(*                                                                         *)
(* Hono's Context and the Response classes are external.  Of the headers   *)
(* there are the content type, one header x that the application sets, and *)
(* the content length.  A Response is an object that the context, the      *)
(* record of the last finalization and the application may share: objects  *)
(* holds them, and 0 is no object.                                         *)
(***************************************************************************)
EXTENDS Naturals, Sequences

CONSTANT
    MaxSteps        \* bound: the steps of application code, per request

VARIABLES
    jsonHeaders,    \* JSON_HEADERS, which outlives a request
    writer,         \* the writer that matches the installed node-server
    ctx,            \* the context of the request, see NewContext
    phase,          \* "handler", "error" (the error handler), "done"
    steps,          \* steps made so far
    wire,           \* what the client gets
    lastX,          \* the value the application gave x last
    replies         \* the replies it made: body and status

requestVars == <<ctx, phase, steps, wire, lastX, replies>>
vars == <<jsonHeaders, writer, requestVars>>

NoHeaders == [type |-> "none", x |-> 0, length |-> 0]
JSON == [NoHeaders EXCEPT !.type = "json"]
NoWire == [status |-> 0, headers |-> NoHeaders, body |-> "none"]

(* "error" is an object with an error's statusCode, "cyclic" one without    *)
(* JSON; "plain" is an object that is sent as a string.                     *)
Bodies == {"string", "object", "error", "cyclic", "buffer", "stream", "file",
           "fetch", "nothing"}
Objects == {"object", "error", "cyclic"}
Text == {"string", "object", "error", "plain"}
LengthOf == [string |-> 1, object |-> 2, error |-> 3, plain |-> 4, file |-> 5,
             buffer |-> 6, stream |-> 0, fetch |-> 0, null |-> 0]

FetchResponse ==
    [status |-> 203, body |-> "fetch", cache |-> "native", shared |-> FALSE,
     headers |-> [type |-> "html", x |-> 99, length |-> 0]]

(* Hono's #status, #preparedHeaders, #res and finalized; touched and        *)
(* statusCode of the tracking; contextsWithHeaders; FINALIZED_RESPONSE.     *)
NewContext(socket) ==
    [socket |-> socket, status |-> 200, prepared |-> NoHeaders, res |-> 0,
     finalized |-> FALSE, touched |-> FALSE, statusCode |-> 200, marked |-> FALSE,
     response |-> 0, source |-> 0, objects |-> <<>>]

Begins ==
    [contexts |-> {NewContext(TRUE), NewContext(FALSE)}, phase |-> "handler", steps |-> 0,
     wire |-> NoWire, lastX |-> 0, replies |-> <<>>]

(* The types.  No response shares the headers of JSON_HEADERS: that is what *)
(* the code relies on when it hands them to a reply.                        *)
Types == {"none", "text", "json", "html", "octet", "file"}
Headers == [type : Types, x : Nat, length : Nat]
Caches == {"native", "Headers", "undefined", "plain"}
Sent == Bodies \cup {"plain", "null"}
Responses == [status : Nat, body : Sent, cache : Caches, shared : {FALSE}, headers : Headers]
Contexts ==
    [socket : BOOLEAN, status : Nat, prepared : Headers, res : Nat,
     finalized : BOOLEAN, touched : BOOLEAN, statusCode : Nat, marked : BOOLEAN,
     response : Nat, source : Nat, objects : Seq(Responses)]

IsContext(c) ==
    /\ c \in Contexts
    /\ c.res \in 0..Len(c.objects)
    /\ c.response \in 0..Len(c.objects)
    /\ c.source \in 0..Len(c.objects)
    /\ c.finalized => c.res # 0
    /\ c.source # 0 => c.response # 0

TypeOK ==
    /\ jsonHeaders = JSON
    /\ IsContext(ctx)
    /\ phase \in {"handler", "error", "done"} /\ steps \in Nat /\ lastX \in Nat
    /\ writer \in {"writeWithNodeLength", "writeWithContentLength", "none"}

Init ==
    /\ jsonHeaders = JSON
    /\ writer \in {"writeWithNodeLength", "writeWithContentLength", "none"}
    /\ ctx \in Begins.contexts /\ phase = Begins.phase /\ steps = Begins.steps
    /\ wire = Begins.wire /\ lastX = Begins.lastX /\ replies = Begins.replies

-----------------------------------------------------------------------------
(* Hono's Context and Response, as the adapter uses them.                   *)

(* A class copies its headers, or keeps them (cache) until they are read.   *)
Response(status, body, headers, cache) ==
    [status |-> status, body |-> body, cache |-> cache, shared |-> FALSE,
     headers |-> IF cache \in {"native", "undefined"} /\ body \in Text /\ headers.type = "none"
                 THEN [headers EXCEPT !.type = "text"] ELSE headers]

New(c, response) == [c EXCEPT !.objects = Append(@, response)]
Newest(c) == Len(c.objects)
HeadersOf(c) == c.objects[c.res].headers
WithRes(c, object) == [c EXCEPT !.res = object]
Finalized(c) == [c EXCEPT !.finalized = TRUE]

(* Mutant: a call is not recorded.                                          *)
NotTouched(c) == c
Touched(c) == [c EXCEPT !.touched = TRUE]

(* The getter of ctx.res, with the adapter's accessor in front.             *)
ReadRes(c) ==
    LET created == New(c, Response(200, "null", c.prepared, "native"))
    IN  IF c.res # 0 THEN Touched(c) ELSE Touched(WithRes(created, Newest(created)))

(* The setter: a response that replaces another one gets its headers, but   *)
(* for the content type.                                                    *)
Over(above, headers) ==
    [headers EXCEPT !.x = IF above.x # 0 THEN above.x ELSE @,
                    !.length = IF above.length # 0 THEN above.length ELSE @]

SetRes(c, object) ==
    LET merged == New(c, [c.objects[object] EXCEPT !.cache = "native", !.shared = FALSE,
                                                   !.headers = Over(HeadersOf(c), @)])
    IN  IF c.res = 0 THEN Finalized(WithRes(c, object))
        ELSE Finalized(WithRes(merged, Newest(merged)))

(* Reading the headers of a kept response turns them into Headers.          *)
WithHeader(response, name, v) ==
    [response EXCEPT !.headers[name] = v, !.shared = FALSE,
                     !.cache = IF @ = "native" THEN @ ELSE "Headers"]

SetOn(c, object, name, v) ==
    [c EXCEPT !.objects[object] = WithHeader(@, name, v)]

(* ctx.header(), recorded by trackHeaderCalls().                            *)
Header(c, name, v) ==
    LET t == Touched(c)
        copied == New(t, [c.objects[c.res] EXCEPT !.cache = "native", !.shared = FALSE])
    IN  IF c.finalized
        THEN SetOn(WithRes(copied, Newest(copied)), Newest(copied), name, v)
        ELSE IF c.res # 0 THEN SetOn(t, c.res, name, v)
        ELSE [t EXCEPT !.prepared[name] = v]

(* ctx.status(), recorded by trackStatusCalls().                            *)
Status(c, code) == [c EXCEPT !.status = code, !.statusCode = code]

(* ctx.newResponse() and ctx.body(); withNodeResponse() makes Hono use the  *)
(* lightweight class.                                                       *)
newResponse(c, body, light) ==
    New(c, Response(c.status, body, IF c.res # 0 THEN HeadersOf(c) ELSE c.prepared,
                    IF light /\ c.socket /\ body # "null" THEN "Headers" ELSE "native"))

-----------------------------------------------------------------------------
(* buildResponse(): the context afterwards, whose newest object is the      *)
(* response unless it names another.                                        *)

Built(c, object, includesContextHeaders) ==
    [c |-> c, object |-> object, includesContextHeaders |-> includesContextHeaders]
fromContext(c) == Built(c, Newest(c), TRUE)

TypeUnlessSet(c, type, set) ==
    IF HeadersOf(c).type \in set THEN SetOn(c, c.res, "type", type) ELSE c

createBufferResponse(c) ==
    newResponse(TypeUnlessSet(ReadRes(c), "octet", {"none", "text"}), "buffer", TRUE)
createStreamResponse(c) ==
    newResponse(TypeUnlessSet(ReadRes(c), "octet", {"none"}), "stream", FALSE)
createStreamableFileResponse(c) ==
    LET typed == TypeUnlessSet(ReadRes(c), "file", {"none"})
        sized == IF HeadersOf(typed).length # 0 THEN typed
                 ELSE SetOn(typed, typed.res, "length", LengthOf["file"])
    IN  newResponse(sized, "file", FALSE)

UsesJson(type) == type \in {"none", "text", "json"}

createSerializedResponse(c, body) ==
    LET built == newResponse(c, body, TRUE)
    IN  IF built.objects[Newest(built)].headers.type \in {"none", "text"}
        THEN SetOn(built, Newest(built), "type", "json") ELSE built

createPlainResponse(c) == newResponse(c, "plain", TRUE)

createJsonResponse(c, body) ==
    LET read == ReadRes(c)
        serialized == createSerializedResponse(c, body)
    IN  IF c.marked
        THEN IF UsesJson(HeadersOf(read).type) THEN createSerializedResponse(read, body)
             ELSE createPlainResponse(read)
        ELSE IF UsesJson(serialized.objects[Newest(serialized)].headers.type)
             THEN serialized ELSE createPlainResponse(serialized)

(* A body that JSON.stringify() rejects is sent as a plain one, or throws.  *)
Throws(c, body) == body = "cyclic" /\ UsesJson(HeadersOf(ReadRes(c)).type)

(* What Hono's methods make of a string or an object.                       *)
Generic(c, body) ==
    IF body = "cyclic" THEN createPlainResponse(ReadRes(c))
    ELSE IF body \in Objects THEN createJsonResponse(c, body)
    ELSE newResponse(c, body, TRUE)

(* getUntouchedTracking() and buildDirectResponse().                        *)
Untouched(c) == ~c.touched /\ ~c.finalized /\ ~c.marked

(* Mutant: Node.js' replies share the headers, too.                         *)
SharedHeaders(c) ==
    [Response(c.statusCode, "object", jsonHeaders, IF c.socket THEN "plain" ELSE "native")
        EXCEPT !.shared = TRUE]
JsonReply(c) ==
    Response(c.statusCode, "object", IF c.socket THEN JSON ELSE jsonHeaders,
             IF c.socket THEN "plain" ELSE "native")

buildDirectResponse(c, body) ==
    New(c, IF body \in Objects THEN [JsonReply(c) EXCEPT !.body = body]
           ELSE Response(c.statusCode, body, NoHeaders,
                         IF c.socket THEN "undefined" ELSE "native"))

buildResponse(c, body) ==
    CASE body = "fetch" -> LET made == New(c, FetchResponse)
                           IN  Built(made, Newest(made), FALSE)
      [] body = "file" -> fromContext(createStreamableFileResponse(c))
      [] body = "stream" -> fromContext(createStreamResponse(c))
      [] body = "buffer" -> fromContext(createBufferResponse(c))
      [] body = "nothing" ->
            IF c.response # 0 THEN Built(c, c.response, FALSE)
            ELSE LET read == ReadRes(c)
                 IN  IF read.objects[read.res].body # "null" THEN Built(read, read.res, FALSE)
                     ELSE fromContext(newResponse(read, "null", TRUE))
      [] OTHER -> IF Untouched(c) THEN fromContext(buildDirectResponse(c, body))
                  ELSE fromContext(Generic(c, body))

-----------------------------------------------------------------------------
(* finalizeResponse() and getFinalizedResponse().                           *)

(* Mutant: the first response stays.                                        *)
FinalizedOnce(c, object) == c.finalized /\ c.response # 0
AlreadyFinalized(c, object) == c.finalized /\ object \in {c.response, c.source}

(* Mutant: the prepared headers are not read into a response first.         *)
NotMaterialized(c) == c
Materialized(c) == ReadRes(c)

(* A response that has the headers of the context replaces ctx.res without  *)
(* merging: the code empties ctx.res first.                                 *)
Assigned(c, object, includesContextHeaders) ==
    IF includesContextHeaders THEN Finalized(WithRes(c, object))
    ELSE SetRes(Materialized(c), object)

finalizeResponse(c, object, includesContextHeaders) ==
    LET set == Touched(Assigned(c, object, includesContextHeaders))
    IN  IF AlreadyFinalized(c, object) THEN c
        ELSE [set EXCEPT !.response = set.res, !.source = object]

getFinalizedResponse(c, body) ==
    LET built == buildResponse(c, body)
    IN  IF body = "nothing" /\ c.response # 0 /\ c.finalized THEN c
        ELSE finalizeResponse(built.c, built.object, built.includesContextHeaders)

(* setHeader() and appendHeader() of the adapter: markResponseHeadersSet(). *)
Marked(c) == [c EXCEPT !.marked = TRUE]
SetHeader(c, name, v) ==
    LET read == ReadRes(Marked(c)) IN SetOn(read, read.res, name, v)

(* reply(): an error's body gets a JSON type.                               *)
Reply(c, body) ==
    LET read == ReadRes(c)
        typed == IF HeadersOf(read).type = "json" THEN read ELSE SetHeader(c, "type", "json")
    IN  getFinalizedResponse(IF body = "error" THEN typed ELSE c, body)

(* redirect(): Hono's sets Location and makes a response without body.      *)
Redirect(c) ==
    LET made == New(Touched(c), [newResponse(c, "null", FALSE).objects[Newest(c) + 1]
                                    EXCEPT !.status = 302])
    IN  finalizeResponse(made, Newest(made), FALSE)

-----------------------------------------------------------------------------
(* Steps of the application: hooks, middleware, handlers, exception filters *)
(* and what they leave running.                                             *)

Steps ==
    /\ phase # "done" /\ steps < MaxSteps
    /\ steps' = steps + 1
    /\ UNCHANGED <<jsonHeaders, writer, wire>>

SetX ==
    /\ Steps
    /\ ctx' \in {Header(ctx, "x", steps'), SetHeader(ctx, "x", steps')}
    /\ lastX' = steps'
    /\ UNCHANGED <<phase, replies>>

(* Bound: an application does not change the type of what it replied.       *)
SetType ==
    /\ Steps /\ replies = <<>>
    /\ ctx' \in {Header(ctx, "type", "html"), SetHeader(ctx, "type", "html")}
    /\ UNCHANGED <<phase, lastX, replies>>

SetStatus ==
    /\ Steps
    /\ ctx' = Status(ctx, 201)
    /\ UNCHANGED <<phase, lastX, replies>>

GetHeader ==
    /\ Steps
    /\ ctx' = ReadRes(ctx)
    /\ UNCHANGED <<phase, lastX, replies>>

Replied(body, status) == replies' = Append(replies, [body |-> body, status |-> status])

(* Where buildResponse() throws, so does the handler.                       *)
Answer ==
    /\ Steps
    /\ \E body \in Bodies, code \in {0, 500} :
          LET c == IF code = 0 THEN ctx ELSE Status(ctx, code)
          IN  IF Throws(c, body)
              THEN /\ ctx' = IF Untouched(c) THEN c ELSE ReadRes(c)
                   /\ phase' = "error"
                   /\ UNCHANGED replies
              ELSE /\ ctx' = Reply(c, body)
                   /\ Replied(body, IF body = "fetch" THEN FetchResponse.status ELSE c.status)
                   /\ UNCHANGED phase
    /\ UNCHANGED lastX

AnswerRedirect ==
    /\ Steps
    /\ ctx' = Redirect(ctx)
    /\ Replied("null", 302)
    /\ UNCHANGED <<phase, lastX>>

Throw ==
    /\ phase = "handler"
    /\ phase' = "error"
    /\ UNCHANGED <<jsonHeaders, writer, ctx, steps, wire, lastX, replies>>

(* setNotFoundHandler()                                                     *)
NotFound ==
    /\ phase = "handler" /\ ~ctx.finalized
    /\ ctx' = getFinalizedResponse(Status(ctx, 404), "string")
    /\ Replied("string", 404)
    /\ UNCHANGED <<jsonHeaders, writer, phase, steps, wire, lastX>>

-----------------------------------------------------------------------------
(* The response is written.  node-server keeps the headers of a kept        *)
(* response with a string body, or asks for its length; respond() does so   *)
(* itself with a writer that matches the installed version, or leaves it to *)
(* node-server, which writes the same.  One of them puts the length into    *)
(* the response's own headers.                                              *)

Written(response, socket) ==
    LET kept == socket /\ response.cache # "native" /\ response.body \in Text
        typed == IF kept /\ response.headers.type = "none"
                 THEN [response.headers EXCEPT !.type = "text"] ELSE response.headers
    IN  [status |-> response.status, body |-> response.body,
         headers |-> IF kept /\ typed.length = 0
                     THEN [typed EXCEPT !.length = LengthOf[response.body]] ELSE typed]

WritesDirectly(response) ==
    writer # "none" /\ response.body \in Text /\ response.cache \in {"undefined", "plain"}

(* The final response of the Hono layers: runRoute() finalizes what a       *)
(* handler left, and the result of setErrorHandler()'s handler is assigned. *)
Final(c, isError) ==
    LET left == getFinalizedResponse(c, "nothing")
    IN  IF isError THEN SetRes(left, left.response) ELSE left

Deliver ==
    /\ phase # "done"
    /\ ctx' = Final(ctx, phase = "error")
    /\ LET response == ctx'.objects[ctx'.res]
       IN  /\ wire' = Written(response, ctx.socket)
           /\ jsonHeaders' =
                IF /\ response.shared /\ WritesDirectly(response)
                   /\ writer = "writeWithContentLength"
                THEN wire'.headers ELSE jsonHeaders
    /\ phase' = "done"
    /\ UNCHANGED <<writer, steps, lastX, replies>>

(* The next request: what the process keeps is left.                        *)
NextRequest ==
    /\ phase = "done"
    /\ ctx' \in Begins.contexts /\ phase' = Begins.phase /\ steps' = Begins.steps
    /\ wire' = Begins.wire /\ lastX' = Begins.lastX /\ replies' = Begins.replies
    /\ UNCHANGED <<jsonHeaders, writer>>

Next ==
    \/ SetX \/ SetType \/ SetStatus \/ GetHeader
    \/ Answer \/ AnswerRedirect \/ Throw \/ NotFound
    \/ Deliver \/ NextRequest

Spec == Init /\ [][Next]_vars

-----------------------------------------------------------------------------
(* A string or JSON reply that bypasses Hono is the one Hono would have     *)
(* made: "gives the same response as Hono's ctx.body()/ctx.newResponse()"   *)
(* (src/helpers/response.ts:171-175), whatever the application did before.  *)
SameReply(c, body) ==
    LET direct == buildDirectResponse(c, body)
        generic == Generic(c, body)
    IN  Written(direct.objects[Newest(direct)], c.socket) =
            Written(generic.objects[Newest(generic)], c.socket)

DirectIsGeneric ==
    Untouched(ctx) => \A body \in {"string", "object"} : SameReply(ctx, body)

(* What the tracking knows of a context that nobody touched.                *)
UntouchedInv ==
    Untouched(ctx) =>
        ctx.prepared = NoHeaders /\ ctx.res = 0 /\ ctx.status = ctx.statusCode

IInv == TypeOK /\ UntouchedInv

(* A header set through ctx.header() or the adapter, before or after the    *)
(* reply, is in the response, in its last value, however the reply was      *)
(* built and finalized, also by an error handler.                           *)
HeadersSurvive == phase = "done" /\ lastX # 0 => wire.headers.x = lastX

(* The client gets the body and the status of the last reply, and an error  *)
(* as JSON: a reply without body keeps the one before it.                   *)
IsLast(made, i) ==
    /\ made[i].body # "nothing"
    /\ \A j \in DOMAIN made : j > i => made[j].body = "nothing"

Fits(response, reply) ==
    /\ response.status = reply.status
    /\ \/ response.body = reply.body
       \/ reply.body \in {"object", "cyclic"} /\ response.body = "plain"
    /\ reply.body = "error" => response.headers.type = "json"

LastReplyWins ==
    phase = "done" =>
        \A i \in DOMAIN replies : IsLast(replies, i) => Fits(wire, replies[i])

(* A content length is that of the body: the one a writer added to another  *)
(* response is not sent again.  The length of a file stays when another     *)
(* reply replaces the file's.                                               *)
LengthIsOwn ==
    \/ phase # "done"
    \/ wire.headers.length \in {0, LengthOf[wire.body]}
    \/ \E i \in 1..(Len(replies) - 1) : replies[i].body = "file"
=============================================================================
