---------------------------- MODULE ReplyProofs ----------------------------
(* Proofs about Replies for every number of steps of application code.      *)
EXTENDS Replies, TLAPS

-----------------------------------------------------------------------------
(* Responses and the context's objects.                                     *)

LEMMA ResponseIs ==
    ASSUME NEW status \in Nat, NEW body \in Sent, NEW headers \in Headers,
           NEW cache \in Caches
    PROVE  Response(status, body, headers, cache) \in Responses
  <1>1. [headers EXCEPT !.type = "text"] \in Headers
    BY DEF Headers, Types
  <1> QED
    BY <1>1 DEF Response, Responses

LEMMA WithHeaderIs ==
    ASSUME NEW response \in Responses, NEW name \in {"type", "x", "length"}, NEW v,
           v \in (IF name = "type" THEN Types ELSE Nat)
    PROVE  WithHeader(response, name, v) \in Responses
  <1>1. response.headers \in Headers
    BY DEF Responses
  <1> DEFINE headers == [response.headers EXCEPT ![name] = v]
             cache == IF response.cache = "native" THEN response.cache ELSE "Headers"
  <1>2. headers \in Headers
    BY <1>1 DEF Headers
  <1>3. cache \in Caches
    BY DEF Responses, Caches
  <1>4. WithHeader(response, name, v) =
            [response EXCEPT !.headers = headers, !.shared = FALSE, !.cache = cache]
    BY DEF WithHeader, Responses
  <1> HIDE DEF headers, cache
  <1> QED
    BY <1>2, <1>3, <1>4 DEF Responses

(* The headers that a context carries over to a response of its own.        *)
LEMMA HeadersOfIs ==
    ASSUME NEW c, IsContext(c), c.res # 0
    PROVE  HeadersOf(c) \in Headers /\ c.objects[c.res] \in Responses
  <1>1. c.objects \in Seq(Responses) /\ c.res \in 1..Len(c.objects)
    BY DEF IsContext, Contexts
  <1>2. c.objects[c.res] \in Responses
    BY <1>1
  <1> QED
    BY <1>2 DEF HeadersOf, Responses

LEMMA NewIs ==
    ASSUME NEW c, IsContext(c), NEW r \in Responses
    PROVE  /\ IsContext(New(c, r))
           /\ Newest(New(c, r)) = Len(c.objects) + 1
           /\ Newest(New(c, r)) \in 1..Len(New(c, r).objects)
           /\ New(c, r).res = c.res /\ New(c, r).response = c.response
           /\ New(c, r).touched = c.touched /\ New(c, r).finalized = c.finalized
           /\ New(c, r).objects[Newest(New(c, r))] = r
  <1>1. c \in Contexts /\ c.objects \in Seq(Responses)
    BY DEF IsContext, Contexts
  <1>2. Append(c.objects, r) \in Seq(Responses)
        /\ Len(Append(c.objects, r)) = Len(c.objects) + 1
        /\ Append(c.objects, r)[Len(c.objects) + 1] = r /\ Len(c.objects) \in Nat
    BY <1>1
  <1>3. New(c, r) \in Contexts /\ New(c, r).objects = Append(c.objects, r)
    BY <1>1, <1>2 DEF New, Contexts
  <1>4. /\ New(c, r).res = c.res /\ New(c, r).response = c.response
        /\ New(c, r).source = c.source /\ New(c, r).touched = c.touched
        /\ New(c, r).finalized = c.finalized
    BY <1>1 DEF New, Contexts
  <1> QED
    BY <1>2, <1>3, <1>4 DEF IsContext, Newest

(* A context whose fields other than its objects change.                    *)
LEMMA SetOnIs ==
    ASSUME NEW c, IsContext(c), NEW object \in 1..Len(c.objects),
           NEW name \in {"type", "x", "length"}, NEW v,
           v \in (IF name = "type" THEN Types ELSE Nat)
    PROVE  /\ IsContext(SetOn(c, object, name, v))
           /\ SetOn(c, object, name, v).res = c.res
           /\ SetOn(c, object, name, v).touched = c.touched
           /\ SetOn(c, object, name, v).marked = c.marked
           /\ SetOn(c, object, name, v).finalized = c.finalized
           /\ Len(SetOn(c, object, name, v).objects) = Len(c.objects)
  <1>1. c \in Contexts /\ c.objects \in Seq(Responses) /\ c.objects[object] \in Responses
    BY DEF IsContext, Contexts
  <1> DEFINE r == WithHeader(c.objects[object], name, v)
             objects == [c.objects EXCEPT ![object] = r]
  <1>2. r \in Responses
    BY <1>1, WithHeaderIs
  <1> HIDE DEF r
  <1>3. objects \in Seq(Responses) /\ Len(objects) = Len(c.objects)
    BY <1>1, <1>2
  <1>4. SetOn(c, object, name, v) = [c EXCEPT !.objects = objects]
    BY <1>1 DEF SetOn, Contexts, r
  <1> HIDE DEF objects
  <1> QED
    BY <1>1, <1>3, <1>4 DEF IsContext, Contexts

(* Fields that the context keeps besides its objects.                       *)
LEMMA FieldsAre ==
    ASSUME NEW c, IsContext(c)
    PROVE  /\ c \in Contexts /\ c.objects \in Seq(Responses) /\ Len(c.objects) \in Nat
           /\ c.status \in Nat /\ c.statusCode \in Nat /\ c.prepared \in Headers
           /\ c.res \in 0..Len(c.objects) /\ c.response \in 0..Len(c.objects)
           /\ c.finalized => c.res # 0
           /\ c.source # 0 => c.response # 0
           /\ \A i \in 1..Len(c.objects) : c.objects[i] \in Responses
  <1>1. c \in Contexts
    BY DEF IsContext
  <1>2. /\ c.objects \in Seq(Responses) /\ c.status \in Nat /\ c.statusCode \in Nat
        /\ c.prepared \in Headers
    BY <1>1 DEF Contexts
  <1>3. \A i \in 1..Len(c.objects) : c.objects[i] \in Responses
    BY <1>2
  <1>4. c.res \in 0..Len(c.objects) /\ c.response \in 0..Len(c.objects)
        /\ (c.finalized => c.res # 0) /\ (c.source # 0 => c.response # 0)
    BY DEF IsContext
  <1> QED
    BY <1>1, <1>2, <1>3, <1>4

LEMMA ContextIs ==
    ASSUME NEW c, IsContext(c), NEW d \in Contexts, d.objects = c.objects,
           d.response = c.response, d.source = c.source, d.res \in 0..Len(c.objects),
           d.finalized => d.res # 0
    PROVE  IsContext(d)
  BY DEF IsContext

(* What is set in a context besides its objects.                            *)
LEMMA SetIs ==
    ASSUME NEW c, IsContext(c)
    PROVE  /\ IsContext(Touched(c)) /\ Touched(c).touched
           /\ Touched(c).objects = c.objects /\ Touched(c).res = c.res
           /\ Touched(c).response = c.response /\ Touched(c).finalized = c.finalized
           /\ c.res # 0 => IsContext(Finalized(c)) /\ Finalized(c).finalized
           /\ Finalized(c).objects = c.objects /\ Finalized(c).res = c.res
           /\ Finalized(c).response = c.response
           /\ IsContext(Marked(c)) /\ Marked(c).marked
           /\ Marked(c).objects = c.objects /\ Marked(c).res = c.res
  <1>1. c \in Contexts /\ c.res \in 0..Len(c.objects) /\ (c.finalized => c.res # 0)
    BY FieldsAre
  <1>2. /\ Touched(c) \in Contexts /\ Touched(c).touched
        /\ Touched(c).objects = c.objects /\ Touched(c).res = c.res
        /\ Touched(c).response = c.response /\ Touched(c).source = c.source
        /\ Touched(c).finalized = c.finalized
    BY <1>1 DEF Contexts, Touched
  <1>3. /\ Finalized(c) \in Contexts /\ Finalized(c).finalized
        /\ Finalized(c).objects = c.objects /\ Finalized(c).res = c.res
        /\ Finalized(c).response = c.response /\ Finalized(c).source = c.source
    BY <1>1 DEF Contexts, Finalized
  <1>4. /\ Marked(c) \in Contexts /\ Marked(c).marked
        /\ Marked(c).objects = c.objects /\ Marked(c).res = c.res
        /\ Marked(c).response = c.response /\ Marked(c).source = c.source
        /\ Marked(c).finalized = c.finalized
    BY <1>1 DEF Contexts, Marked
  <1> QED
    BY <1>1, <1>2, <1>3, <1>4, ContextIs

(* A response becomes the context's.                                        *)
LEMMA WithResIs ==
    ASSUME NEW c, IsContext(c), NEW i \in 1..Len(c.objects)
    PROVE  /\ IsContext(WithRes(c, i)) /\ WithRes(c, i).res = i
           /\ WithRes(c, i).objects = c.objects /\ WithRes(c, i).response = c.response
           /\ WithRes(c, i).finalized = c.finalized /\ WithRes(c, i).touched = c.touched
  <1>1. c \in Contexts /\ Len(c.objects) \in Nat /\ i \in Nat /\ i # 0
        /\ i \in 0..Len(c.objects)
    BY FieldsAre
  <1>2. /\ WithRes(c, i) \in Contexts /\ WithRes(c, i).res = i
        /\ WithRes(c, i).objects = c.objects /\ WithRes(c, i).response = c.response
        /\ WithRes(c, i).source = c.source /\ WithRes(c, i).finalized = c.finalized
        /\ WithRes(c, i).touched = c.touched
    BY <1>1 DEF Contexts, WithRes
  <1> QED
    BY <1>1, <1>2, ContextIs

(* Reading ctx.res creates a response when there is none, and is recorded.  *)
LEMMA ReadResIs ==
    ASSUME NEW c, IsContext(c)
    PROVE  /\ IsContext(ReadRes(c)) /\ ReadRes(c).touched
           /\ ReadRes(c).res \in 1..Len(ReadRes(c).objects)
           /\ ReadRes(c).response = c.response
           /\ Len(ReadRes(c).objects) >= Len(c.objects)
  <1>1. CASE c.res # 0
    BY <1>1, SetIs, FieldsAre DEF ReadRes
  <1>2. CASE c.res = 0
    <2> DEFINE r == Response(200, "null", c.prepared, "native")
               created == New(c, r)
    <2>0. 200 \in Nat /\ "null" \in Sent /\ "native" \in Caches /\ c.prepared \in Headers
      BY FieldsAre DEF Sent, Caches
    <2>1. r \in Responses
      BY <2>0, ResponseIs
    <2> HIDE DEF r
    <2>2. /\ IsContext(created) /\ Newest(created) \in 1..Len(created.objects)
          /\ created.response = c.response /\ Newest(created) = Len(c.objects) + 1
      BY <2>1, NewIs
    <2>3. ReadRes(c) = Touched(WithRes(created, Newest(created)))
      BY <1>2 DEF ReadRes, r
    <2> HIDE DEF created
    <2>4. Newest(created) \in 0..Len(created.objects)
      BY <2>2, FieldsAre
    <2>5. /\ IsContext(WithRes(created, Newest(created)))
          /\ WithRes(created, Newest(created)).res = Newest(created)
          /\ WithRes(created, Newest(created)).objects = created.objects
          /\ WithRes(created, Newest(created)).response = created.response
      BY <2>2, <2>4, WithResIs
    <2> QED
      BY <2>2, <2>3, <2>5, SetIs, FieldsAre
  <1> QED
    BY <1>1, <1>2

LEMMA OverIs ==
    ASSUME NEW above \in Headers, NEW headers \in Headers
    PROVE  Over(above, headers) \in Headers
  BY DEF Over, Headers

(* Assigning ctx.res finalizes the context.                                 *)
LEMMA SetResIs ==
    ASSUME NEW c, IsContext(c), NEW object \in 1..Len(c.objects)
    PROVE  /\ IsContext(SetRes(c, object))
           /\ SetRes(c, object).finalized = TRUE
           /\ SetRes(c, object).res \in 1..Len(SetRes(c, object).objects)
           /\ Len(SetRes(c, object).objects) >= Len(c.objects)
  <1>1. c \in Contexts /\ Len(c.objects) \in Nat
    BY FieldsAre
  <1>2. CASE c.res = 0
    <2>1. object \in 0..Len(c.objects)
      BY <1>1
    <2> QED
      BY <1>1, <1>2, <2>1, WithResIs, SetIs DEF SetRes
  <1>3. CASE c.res # 0
    <2> DEFINE headers == Over(HeadersOf(c), c.objects[object].headers)
               r == [c.objects[object] EXCEPT !.cache = "native", !.shared = FALSE,
                                              !.headers = headers]
               merged == New(c, r)
    <2>1. c.objects[object] \in Responses
      BY FieldsAre
    <2>2. c.objects[object].headers \in Headers
      BY <2>1 DEF Responses
    <2>3. headers \in Headers
      BY <1>3, <2>2, HeadersOfIs, OverIs
    <2> HIDE DEF headers
    <2>4. r \in Responses
      BY <2>1, <2>3 DEF Responses, Caches
    <2>5. SetRes(c, object) = Finalized(WithRes(merged, Newest(merged)))
      BY <1>3, <2>1 DEF SetRes, headers, Responses
    <2> HIDE DEF r
    <2>6. IsContext(merged) /\ Newest(merged) \in 1..Len(merged.objects)
          /\ Newest(merged) = Len(c.objects) + 1
      BY <2>4, NewIs
    <2> HIDE DEF merged
    <2>7. Newest(merged) \in 0..Len(merged.objects)
      BY <2>6, FieldsAre
    <2>8. /\ IsContext(WithRes(merged, Newest(merged)))
          /\ WithRes(merged, Newest(merged)).res = Newest(merged)
          /\ WithRes(merged, Newest(merged)).objects = merged.objects
      BY <2>6, <2>7, WithResIs
    <2> QED
      BY <1>1, <2>5, <2>6, <2>8, SetIs, FieldsAre
  <1> QED
    BY <1>2, <1>3, FieldsAre

(* ctx.header(): recorded, whatever state the context is in.                *)
LEMMA HeaderIs ==
    ASSUME NEW c, IsContext(c), NEW name \in {"type", "x", "length"}, NEW v,
           v \in (IF name = "type" THEN Types ELSE Nat)
    PROVE  IsContext(Header(c, name, v)) /\ Header(c, name, v).touched
  <1> DEFINE t == Touched(c)
  <1>1. /\ IsContext(t) /\ t.touched /\ t.objects = c.objects /\ t.res = c.res
        /\ t.finalized = c.finalized
    BY SetIs
  <1> HIDE DEF t
  <1>2. CASE c.finalized
    <2> DEFINE r == [c.objects[c.res] EXCEPT !.cache = "native", !.shared = FALSE]
               copied == New(t, r)
               d == WithRes(copied, Newest(copied))
    <2>1. c.objects[c.res] \in Responses
      BY <1>2, HeadersOfIs, FieldsAre
    <2>2. r \in Responses
      BY <2>1 DEF Responses, Caches
    <2> HIDE DEF r
    <2>3. IsContext(copied) /\ Newest(copied) \in 1..Len(copied.objects)
          /\ copied.touched = t.touched
      BY <1>1, <2>2, NewIs
    <2> HIDE DEF copied
    <2>4. Newest(copied) \in 0..Len(copied.objects)
      BY <2>3, FieldsAre
    <2>5. /\ IsContext(d) /\ d.res = Newest(copied) /\ d.touched = copied.touched
          /\ d.objects = copied.objects
      BY <2>3, <2>4, WithResIs
    <2>6. Header(c, name, v) = SetOn(d, Newest(copied), name, v)
      BY <1>2 DEF Header, t, copied, r
    <2> HIDE DEF d
    <2>7. Newest(copied) \in 1..Len(d.objects) /\ Newest(copied) # 0
      BY <2>3, <2>5, FieldsAre
    <2>8. /\ IsContext(SetOn(d, Newest(copied), name, v))
          /\ SetOn(d, Newest(copied), name, v).res = d.res
          /\ SetOn(d, Newest(copied), name, v).touched = d.touched
      BY <2>5, <2>7, SetOnIs
    <2> QED
      BY <1>1, <2>3, <2>5, <2>6, <2>7, <2>8
  <1>3. CASE ~c.finalized /\ c.res # 0
    <2>1. c.res \in 1..Len(t.objects)
      BY <1>1, <1>3, FieldsAre
    <2>2. Header(c, name, v) = SetOn(t, c.res, name, v)
      BY <1>3 DEF Header, t
    <2> QED
      BY <1>1, <2>1, <2>2, SetOnIs
  <1>4. CASE ~c.finalized /\ c.res = 0
    <2> DEFINE headers == [t.prepared EXCEPT ![name] = v]
               d == [t EXCEPT !.prepared = headers]
    <2>1. t \in Contexts /\ t.prepared \in Headers /\ t.res \in 0..Len(t.objects)
      BY <1>1, FieldsAre
    <2>2. headers \in Headers
      BY <2>1 DEF Headers
    <2>3. Header(c, name, v) = d
      BY <1>4 DEF Header, t
    <2> HIDE DEF headers
    <2>4. /\ d \in Contexts /\ d.objects = t.objects /\ d.response = t.response
          /\ d.source = t.source /\ d.res = t.res /\ d.touched = t.touched
          /\ d.finalized = t.finalized
      BY <2>1, <2>2 DEF Contexts
    <2> HIDE DEF d
    <2> QED
      BY <1>1, <1>4, <2>1, <2>3, <2>4, ContextIs
  <1> QED
    BY <1>2, <1>3, <1>4

(* ctx.status() keeps what the tracking compares.                           *)
LEMMA StatusIs ==
    ASSUME NEW c, IsContext(c), NEW code \in Nat
    PROVE  /\ IsContext(Status(c, code))
           /\ Status(c, code).status = code /\ Status(c, code).statusCode = code
           /\ Status(c, code).prepared = c.prepared /\ Status(c, code).res = c.res
           /\ Untouched(Status(c, code)) <=> Untouched(c)
  <1> DEFINE d == Status(c, code)
  <1>1. c \in Contexts /\ c.res \in 0..Len(c.objects) /\ (c.finalized => c.res # 0)
    BY FieldsAre
  <1>2. /\ d \in Contexts /\ d.objects = c.objects /\ d.response = c.response
        /\ d.source = c.source /\ d.res = c.res
    BY <1>1 DEF Contexts, Status
  <1>3. /\ d.status = code /\ d.statusCode = code /\ d.prepared = c.prepared
        /\ d.touched = c.touched /\ d.finalized = c.finalized /\ d.marked = c.marked
    BY <1>1 DEF Contexts, Status
  <1> HIDE DEF d
  <1>4. IsContext(d)
    BY <1>1, <1>2, <1>3, ContextIs
  <1> QED
    BY <1>2, <1>3, <1>4 DEF d, Untouched

-----------------------------------------------------------------------------
(* What buildResponse() makes.                                              *)

(* The newest object of a context is a response.                            *)
Builds(c) == IsContext(c) /\ Newest(c) \in 1..Len(c.objects)

LEMMA newResponseIs ==
    ASSUME NEW c, IsContext(c), NEW body \in Sent, NEW light \in BOOLEAN
    PROVE  Builds(newResponse(c, body, light))
  <1> DEFINE headers == IF c.res # 0 THEN HeadersOf(c) ELSE c.prepared
             cache == IF light /\ c.socket /\ body # "null" THEN "Headers" ELSE "native"
  <1>1. headers \in Headers
    BY HeadersOfIs, FieldsAre
  <1>2. cache \in Caches
    BY DEF Caches
  <1>3. newResponse(c, body, light) = New(c, Response(c.status, body, headers, cache))
    BY DEF newResponse
  <1> HIDE DEF headers, cache
  <1>4. Response(c.status, body, headers, cache) \in Responses
    BY <1>1, <1>2, ResponseIs, FieldsAre
  <1> QED
    BY <1>3, <1>4, NewIs DEF Builds

LEMMA newResponseLength ==
    ASSUME NEW c, IsContext(c), NEW body \in Sent, NEW light \in BOOLEAN
    PROVE  Newest(newResponse(c, body, light)) = Newest(c) + 1
  <1> DEFINE headers == IF c.res # 0 THEN HeadersOf(c) ELSE c.prepared
             cache == IF light /\ c.socket /\ body # "null" THEN "Headers" ELSE "native"
             response == Response(c.status, body, headers, cache)
  <1>1. newResponse(c, body, light) = New(c, response)
    BY DEF newResponse
  <1>2. headers \in Headers /\ cache \in Caches
    BY HeadersOfIs, FieldsAre DEF Caches
  <1> HIDE DEF headers, cache
  <1>3. response \in Responses
    BY <1>2, ResponseIs, FieldsAre
  <1> HIDE DEF response
  <1> QED
    BY <1>1, <1>3, NewIs DEF Newest

LEMMA TypeUnlessSetIs ==
    ASSUME NEW c, IsContext(c), c.res # 0, NEW type \in Types, NEW set
    PROVE  /\ IsContext(TypeUnlessSet(c, type, set))
           /\ TypeUnlessSet(c, type, set).res = c.res
  <1>1. c.res \in 1..Len(c.objects)
    BY FieldsAre
  <1> QED
    BY <1>1, SetOnIs DEF TypeUnlessSet

LEMMA StreamsAre ==
    ASSUME NEW c, IsContext(c)
    PROVE  /\ Builds(createBufferResponse(c)) /\ Builds(createStreamResponse(c))
           /\ Builds(createStreamableFileResponse(c))
  <1> DEFINE read == ReadRes(c)
  <1>1. IsContext(read) /\ read.res # 0 /\ read.res \in 1..Len(read.objects)
    BY ReadResIs, FieldsAre
  <1> HIDE DEF read
  <1>2. {"octet", "file"} \subseteq Types /\ {"buffer", "stream", "file"} \subseteq Sent
    BY DEF Types, Sent, Bodies
  <1>3. Builds(createBufferResponse(c))
    BY <1>1, <1>2, TypeUnlessSetIs, newResponseIs DEF createBufferResponse, read
  <1>4. Builds(createStreamResponse(c))
    BY <1>1, <1>2, TypeUnlessSetIs, newResponseIs DEF createStreamResponse, read
  <1>5. Builds(createStreamableFileResponse(c))
    <2> DEFINE typed == TypeUnlessSet(read, "file", {"none"})
               sized == IF HeadersOf(typed).length # 0 THEN typed
                        ELSE SetOn(typed, typed.res, "length", LengthOf["file"])
    <2>1. IsContext(typed) /\ typed.res \in 1..Len(typed.objects)
      BY <1>1, <1>2, TypeUnlessSetIs, FieldsAre
    <2>2. LengthOf["file"] \in Nat
      BY DEF LengthOf
    <2> HIDE DEF typed
    <2>3. IsContext(sized)
      BY <2>1, <2>2, SetOnIs
    <2>4. createStreamableFileResponse(c) = newResponse(sized, "file", FALSE)
      BY DEF createStreamableFileResponse, read, typed
    <2> QED
      BY <1>2, <2>3, <2>4, newResponseIs
  <1> QED
    BY <1>3, <1>4, <1>5

LEMMA SerializedIs ==
    ASSUME NEW c, IsContext(c), NEW body \in Sent
    PROVE  Builds(createSerializedResponse(c, body)) /\ Builds(createPlainResponse(c))
  <1> DEFINE built == newResponse(c, body, TRUE)
  <1>1. Builds(built)
    BY newResponseIs
  <1>2. Builds(createPlainResponse(c))
    BY newResponseIs DEF createPlainResponse, Sent
  <1> HIDE DEF built
  <1>3. "json" \in Types
    BY DEF Types
  <1>4. /\ IsContext(SetOn(built, Newest(built), "type", "json"))
        /\ Len(SetOn(built, Newest(built), "type", "json").objects) = Len(built.objects)
    BY <1>1, <1>3, SetOnIs DEF Builds
  <1>5. createSerializedResponse(c, body) \in {built, SetOn(built, Newest(built), "type", "json")}
    BY DEF createSerializedResponse, built
  <1> QED
    BY <1>1, <1>2, <1>4, <1>5 DEF Builds, Newest

LEMMA GenericIs ==
    ASSUME NEW c, IsContext(c), NEW body \in {"string", "object", "error", "cyclic"}
    PROVE  Builds(Generic(c, body))
  <1> DEFINE read == ReadRes(c)
             serialized == createSerializedResponse(c, body)
  <1>1. IsContext(read) /\ body \in Sent
    BY ReadResIs DEF Sent, Bodies
  <1> HIDE DEF read
  <1>2. /\ Builds(createPlainResponse(read)) /\ Builds(createSerializedResponse(read, body))
        /\ Builds(serialized)
    BY <1>1, SerializedIs
  <1>3. Builds(createPlainResponse(serialized))
    BY <1>1, <1>2, SerializedIs DEF Builds
  <1>4. createJsonResponse(c, body) \in
            {createPlainResponse(read), createSerializedResponse(read, body), serialized,
             createPlainResponse(serialized)}
    BY DEF createJsonResponse, read
  <1>5. Builds(newResponse(c, body, TRUE))
    BY <1>1, newResponseIs
  <1> HIDE DEF serialized
  <1> QED
    BY <1>2, <1>3, <1>4, <1>5 DEF Generic, read

LEMMA DirectIs ==
    ASSUME jsonHeaders = JSON, NEW c, IsContext(c),
           NEW body \in {"string", "object", "error", "cyclic"}
    PROVE  Builds(buildDirectResponse(c, body))
  <1>1. NoHeaders \in Headers /\ JSON \in Headers
    BY DEF NoHeaders, JSON, Headers, Types
  <1>2. c.statusCode \in Nat /\ body \in Sent /\ "object" \in Sent
    BY FieldsAre DEF Sent, Bodies
  <1> DEFINE cache == IF c.socket THEN "undefined" ELSE "native"
             plain == IF c.socket THEN "plain" ELSE "native"
             text == Response(c.statusCode, body, NoHeaders, cache)
  <1>3. cache \in Caches /\ plain \in Caches
    BY DEF Caches
  <1> HIDE DEF cache, plain
  <1>4. text \in Responses
    BY <1>1, <1>2, <1>3, ResponseIs
  <1>5. JsonReply(c) = Response(c.statusCode, "object", JSON, plain)
    BY DEF JsonReply, plain
  <1>6. JsonReply(c) \in Responses
    BY <1>1, <1>2, <1>3, <1>5, ResponseIs
  <1>7. [JsonReply(c) EXCEPT !.body = body] \in Responses
    BY <1>2, <1>6 DEF Responses
  <1>8. buildDirectResponse(c, body) =
            New(c, IF body \in Objects THEN [JsonReply(c) EXCEPT !.body = body] ELSE text)
    BY DEF buildDirectResponse, cache
  <1> DEFINE direct == IF body \in Objects THEN [JsonReply(c) EXCEPT !.body = body] ELSE text
  <1>9. direct \in Responses
    BY <1>4, <1>7
  <1>10. buildDirectResponse(c, body) = New(c, direct)
    BY <1>8
  <1> HIDE DEF direct
  <1>11. Builds(New(c, direct))
    <2>1. /\ IsContext(New(c, direct))
          /\ Newest(New(c, direct)) \in 1..Len(New(c, direct).objects)
      BY <1>9, NewIs
    <2> QED
      BY <2>1 DEF Builds
  <1> QED
    BY <1>10, <1>11

(* What buildResponse() returns names an object of the context it leaves.   *)
BuildsObject(b) == IsContext(b.c) /\ b.object \in 1..Len(b.c.objects)

LEMMA fromContextIs ==
    ASSUME NEW c, Builds(c)
    PROVE  BuildsObject(fromContext(c))
  BY DEF Builds, BuildsObject, fromContext, Built

LEMMA BuildResponseIs ==
    ASSUME jsonHeaders = JSON, NEW c, IsContext(c), NEW body \in Bodies
    PROVE  BuildsObject(buildResponse(c, body))
  <1>1. CASE body = "fetch"
    <2> DEFINE made == New(c, FetchResponse)
    <2>1. FetchResponse \in Responses
      BY DEF FetchResponse, Responses, Headers, Types, Caches, Sent, Bodies
    <2>2. IsContext(made) /\ Newest(made) \in 1..Len(made.objects)
      BY <2>1, NewIs
    <2>3. buildResponse(c, body) = Built(made, Newest(made), FALSE)
      BY <1>1 DEF buildResponse
    <2> HIDE DEF made
    <2> QED
      BY <2>2, <2>3 DEF BuildsObject, Built
  <1>2. CASE body \in {"file", "stream", "buffer"}
    BY <1>2, StreamsAre, fromContextIs DEF buildResponse
  <1>3. CASE body = "nothing" /\ c.response # 0
    <2>1. buildResponse(c, body) = Built(c, c.response, FALSE)
      BY <1>3 DEF buildResponse
    <2> QED
      BY <1>3, <2>1, FieldsAre DEF BuildsObject, Built
  <1>4. CASE body = "nothing" /\ c.response = 0
    <2> DEFINE read == ReadRes(c)
    <2>1. IsContext(read) /\ read.res \in 1..Len(read.objects)
      BY ReadResIs
    <2>2. buildResponse(c, body) \in
              {Built(read, read.res, FALSE), fromContext(newResponse(read, "null", TRUE))}
      BY <1>4 DEF buildResponse
    <2> HIDE DEF read
    <2>3. BuildsObject(Built(read, read.res, FALSE))
      BY <2>1 DEF BuildsObject, Built
    <2>4. BuildsObject(fromContext(newResponse(read, "null", TRUE)))
      BY <2>1, newResponseIs, fromContextIs DEF Sent
    <2> QED
      BY <2>2, <2>3, <2>4
  <1>5. CASE body \in {"string", "object", "error", "cyclic"}
    <2>1. buildResponse(c, body) \in
              {fromContext(buildDirectResponse(c, body)), fromContext(Generic(c, body))}
      BY <1>5 DEF buildResponse
    <2> QED
      BY <1>5, <2>1, DirectIs, GenericIs, fromContextIs
  <1> QED
    BY <1>1, <1>2, <1>3, <1>4, <1>5 DEF Bodies

-----------------------------------------------------------------------------
(* What finalizeResponse() leaves.                                          *)

(* A context with a final response.                                         *)
IsFinal(c) == IsContext(c) /\ c.finalized /\ c.res # 0 /\ c.response # 0

LEMMA AssignedIs ==
    ASSUME NEW c, IsContext(c), NEW object \in 1..Len(c.objects), NEW includes \in BOOLEAN
    PROVE  /\ IsContext(Assigned(c, object, includes))
           /\ Assigned(c, object, includes).finalized
           /\ object \in 1..Len(Assigned(c, object, includes).objects)
  <1>1. CASE includes
    <2> DEFINE d == WithRes(c, object)
    <2>1. IsContext(d) /\ d.res = object /\ d.objects = c.objects /\ object # 0
      BY WithResIs, FieldsAre
    <2>2. Assigned(c, object, includes) = Finalized(d)
      BY <1>1 DEF Assigned
    <2> HIDE DEF d
    <2> QED
      BY <2>1, <2>2, SetIs
  <1>2. CASE ~includes
    <2> DEFINE read == ReadRes(c)
    <2>1. IsContext(read) /\ Len(read.objects) >= Len(c.objects)
      BY ReadResIs
    <2>2. Assigned(c, object, includes) = SetRes(read, object)
      BY <1>2 DEF Assigned, Materialized
    <2> HIDE DEF read
    <2>3. object \in 1..Len(read.objects) /\ Len(read.objects) \in Nat /\ Len(c.objects) \in Nat
      BY <2>1, FieldsAre
    <2>4. /\ IsContext(SetRes(read, object)) /\ SetRes(read, object).finalized = TRUE
          /\ Len(SetRes(read, object).objects) >= Len(read.objects)
      BY <2>1, <2>3, SetResIs
    <2> QED
      BY <2>2, <2>3, <2>4, FieldsAre
  <1> QED
    BY <1>1, <1>2

LEMMA finalizeResponseIs ==
    ASSUME NEW c, IsContext(c), NEW object \in 1..Len(c.objects), NEW includes \in BOOLEAN
    PROVE  IsFinal(finalizeResponse(c, object, includes))
  <1>1. CASE AlreadyFinalized(c, object)
    <2>1. c.finalized /\ object \in {c.response, c.source} /\ object # 0
      BY <1>1, FieldsAre DEF AlreadyFinalized
    <2>2. c.response # 0 /\ c.res # 0
      BY <2>1, FieldsAre
    <2>3. finalizeResponse(c, object, includes) = c
      BY <1>1 DEF finalizeResponse
    <2> QED
      BY <2>1, <2>2, <2>3 DEF IsFinal
  <1>2. CASE ~AlreadyFinalized(c, object)
    <2> DEFINE a == Assigned(c, object, includes)
               set == Touched(a)
               d == [set EXCEPT !.response = set.res, !.source = object]
    <2>1. finalizeResponse(c, object, includes) = d
      BY <1>2 DEF finalizeResponse
    <2>2. IsContext(a) /\ a.finalized /\ object \in 1..Len(a.objects)
      BY AssignedIs
    <2> HIDE DEF a
    <2>3. IsContext(set) /\ set.finalized /\ object \in 1..Len(set.objects)
      BY <2>2, SetIs
    <2> HIDE DEF set
    <2>4. set \in Contexts /\ set.res \in 0..Len(set.objects) /\ set.res # 0
          /\ Len(set.objects) \in Nat /\ set.res \in Nat /\ object \in Nat
      BY <2>3, FieldsAre
    <2>5. /\ d \in Contexts /\ d.objects = set.objects /\ d.res = set.res
          /\ d.response = set.res /\ d.source = object /\ d.finalized = set.finalized
      BY <2>4 DEF Contexts
    <2> HIDE DEF d
    <2>6. object \in 0..Len(set.objects)
      BY <2>3, <2>4
    <2>7. IsContext(d)
      BY <2>4, <2>5, <2>6 DEF IsContext
    <2> QED
      BY <2>1, <2>3, <2>4, <2>5, <2>7 DEF IsFinal
  <1> QED
    BY <1>1, <1>2

LEMMA getFinalizedResponseIs ==
    ASSUME jsonHeaders = JSON, NEW c, IsContext(c), NEW body \in Bodies
    PROVE  IsFinal(getFinalizedResponse(c, body))
  <1> DEFINE b == buildResponse(c, body)
  <1>1. CASE body = "nothing" /\ c.response # 0 /\ c.finalized
    <2>1. getFinalizedResponse(c, body) = c
      BY <1>1 DEF getFinalizedResponse
    <2> QED
      BY <1>1, <2>1, FieldsAre DEF IsFinal
  <1>2. CASE ~(body = "nothing" /\ c.response # 0 /\ c.finalized)
    <2>1. getFinalizedResponse(c, body) =
              finalizeResponse(b.c, b.object, b.includesContextHeaders)
      BY <1>2 DEF getFinalizedResponse
    <2>2. BuildsObject(b)
      BY BuildResponseIs
    <2>3. b.includesContextHeaders \in BOOLEAN
      BY DEF buildResponse, Built, fromContext, Bodies
    <2> HIDE DEF b
    <2> QED
      BY <2>1, <2>2, <2>3, finalizeResponseIs DEF BuildsObject
  <1> QED
    BY <1>1, <1>2

LEMMA SetHeaderIs ==
    ASSUME NEW c, IsContext(c), NEW name \in {"type", "x", "length"}, NEW v,
           v \in (IF name = "type" THEN Types ELSE Nat)
    PROVE  IsContext(SetHeader(c, name, v)) /\ SetHeader(c, name, v).touched
  <1> DEFINE read == ReadRes(Marked(c))
  <1>1. IsContext(read) /\ read.touched /\ read.res \in 1..Len(read.objects)
    BY SetIs, ReadResIs
  <1>2. SetHeader(c, name, v) = SetOn(read, read.res, name, v)
    BY DEF SetHeader
  <1> HIDE DEF read
  <1> QED
    BY <1>1, <1>2, SetOnIs

LEMMA ReplyIs ==
    ASSUME jsonHeaders = JSON, NEW c, IsContext(c), NEW body \in Bodies
    PROVE  IsFinal(Reply(c, body))
  <1> DEFINE typed == IF HeadersOf(ReadRes(c)).type = "json" THEN ReadRes(c)
                      ELSE SetHeader(c, "type", "json")
             d == IF body = "error" THEN typed ELSE c
  <1>1. "json" \in Types
    BY DEF Types
  <1>2. IsContext(typed)
    BY <1>1, SetHeaderIs, ReadResIs
  <1>3. Reply(c, body) = getFinalizedResponse(d, body)
    BY DEF Reply
  <1> HIDE DEF typed
  <1>4. IsContext(d)
    BY <1>2
  <1> HIDE DEF d
  <1> QED
    BY <1>3, <1>4, getFinalizedResponseIs

LEMMA RedirectIs ==
    ASSUME NEW c, IsContext(c)
    PROVE  IsFinal(Redirect(c))
  <1> DEFINE n == newResponse(c, "null", FALSE)
             empty == n.objects[Newest(c) + 1]
             r == [empty EXCEPT !.status = 302]
             made == New(Touched(c), r)
  <1>1. Builds(n) /\ Newest(n) = Newest(c) + 1
    BY newResponseIs, newResponseLength DEF Sent
  <1> HIDE DEF n
  <1>2. empty \in Responses
    BY <1>1, FieldsAre DEF Builds
  <1> HIDE DEF empty
  <1>3. r \in Responses
    <2> DEFINE status == 302
    <2>1. status \in Nat
      OBVIOUS
    <2> HIDE DEF status
    <2>2. [empty EXCEPT !.status = status] \in Responses
      BY <1>2, <2>1 DEF Responses
    <2> QED
      BY <2>2 DEF status
  <1> HIDE DEF r
  <1>4. IsContext(made) /\ Newest(made) \in 1..Len(made.objects)
    BY <1>3, SetIs, NewIs
  <1>5. Redirect(c) = finalizeResponse(made, Newest(made), FALSE)
    BY DEF Redirect, r, n, empty
  <1> HIDE DEF made
  <1> QED
    BY <1>4, <1>5, finalizeResponseIs

LEMMA FinalIs ==
    ASSUME jsonHeaders = JSON, NEW c, IsContext(c), NEW isError \in BOOLEAN
    PROVE  LET d == Final(c, isError) IN IsContext(d) /\ d.finalized /\ d.res # 0
  <1> DEFINE left == getFinalizedResponse(c, "nothing")
  <1>1. IsFinal(left)
    BY getFinalizedResponseIs DEF Bodies
  <1>2. Final(c, isError) = IF isError THEN SetRes(left, left.response) ELSE left
    BY DEF Final
  <1> HIDE DEF left
  <1>3. left.response \in 1..Len(left.objects)
    BY <1>1, FieldsAre DEF IsFinal
  <1>4. LET d == SetRes(left, left.response) IN IsContext(d) /\ d.finalized /\ d.res # 0
    BY <1>1, <1>3, SetResIs, FieldsAre DEF IsFinal
  <1> QED
    BY <1>1, <1>2, <1>4 DEF IsFinal

-----------------------------------------------------------------------------
(* Every step keeps the invariant.                                          *)

LEMMA InitIs ==
    ASSUME NEW c \in Begins.contexts
    PROVE  IsContext(c) /\ c.prepared = NoHeaders /\ c.res = 0 /\ c.status = c.statusCode
  <1>1. PICK socket \in BOOLEAN : c = NewContext(socket)
    BY DEF Begins
  <1>2. NoHeaders \in Headers
    BY DEF NoHeaders, Headers, Types
  <1>3. <<>> \in Seq(Responses) /\ Len(<<>>) = 0
    OBVIOUS
  <1>4. c \in Contexts
    BY <1>1, <1>2, <1>3 DEF NewContext, Contexts
  <1> QED
    BY <1>1, <1>3, <1>4 DEF NewContext, IsContext

(* A context that was touched or finalized says nothing to UntouchedInv.    *)
LEMMA Keeps ==
    ASSUME IInv, UNCHANGED <<jsonHeaders, writer>>, IsContext(ctx'),
           ctx'.touched \/ ctx'.finalized, phase' \in {"handler", "error", "done"},
           steps' \in Nat, lastX' \in Nat
    PROVE  IInv'
  BY DEF IInv, TypeOK, UntouchedInv, Untouched

(* The types, and what the tracking of src/response/context-tracking.ts    *)
(* knows of a context, hold through every step.                             *)
THEOREM Inductive == Spec => []IInv
  <1>1. Init => IInv
    <2> SUFFICES ASSUME Init PROVE IInv
      OBVIOUS
    <2>1. ctx \in Begins.contexts
      BY DEF Init
    <2>2. phase = "handler" /\ steps = 0 /\ lastX = 0
      BY DEF Init, Begins
    <2> QED
      BY <2>1, <2>2, InitIs DEF Init, IInv, TypeOK, UntouchedInv
  <1>2. IInv /\ [Next]_vars => IInv'
    <2> SUFFICES ASSUME IInv, [Next]_vars PROVE IInv'
      OBVIOUS
    <2> DEFINE Kept == UNCHANGED <<jsonHeaders, writer>> /\ phase' \in {"handler", "error", "done"}
                       /\ steps' \in Nat /\ lastX' \in Nat
    <2>1. /\ jsonHeaders = JSON /\ IsContext(ctx) /\ steps \in Nat /\ lastX \in Nat
          /\ phase \in {"handler", "error", "done"}
      BY DEF IInv, TypeOK
    <2>2. /\ "x" \in {"type", "x", "length"} /\ "type" \in {"type", "x", "length"}
          /\ "html" \in Types
      BY DEF Types
    <2>3. ASSUME SetX PROVE IInv'
      <3>1. Kept /\ steps' \in Nat
        BY <2>1, <2>3 DEF SetX, Steps
      <3>2. ctx' = Header(ctx, "x", steps') \/ ctx' = SetHeader(ctx, "x", steps')
        BY <2>3 DEF SetX
      <3>3. IsContext(ctx') /\ ctx'.touched
        BY <2>1, <2>2, <3>1, <3>2, HeaderIs, SetHeaderIs
      <3> QED
        BY <3>1, <3>3, Keeps
    <2>4. ASSUME SetType PROVE IInv'
      <3>1. Kept
        BY <2>1, <2>4 DEF SetType, Steps
      <3>2. ctx' = Header(ctx, "type", "html") \/ ctx' = SetHeader(ctx, "type", "html")
        BY <2>4 DEF SetType
      <3>3. IsContext(ctx') /\ ctx'.touched
        BY <2>1, <2>2, <3>2, HeaderIs, SetHeaderIs
      <3> QED
        BY <3>1, <3>3, Keeps
    <2>5. ASSUME SetStatus PROVE IInv'
      <3>1. Kept
        BY <2>1, <2>5 DEF SetStatus, Steps
      <3>2. ctx' = Status(ctx, 201)
        BY <2>5 DEF SetStatus
      <3>3. /\ IsContext(ctx') /\ ctx'.status = ctx'.statusCode
            /\ ctx'.prepared = ctx.prepared /\ ctx'.res = ctx.res
            /\ Untouched(ctx') => Untouched(ctx)
        BY <2>1, <3>2, StatusIs
      <3> QED
        BY <3>1, <3>3 DEF IInv, TypeOK, UntouchedInv
    <2>6. ASSUME GetHeader PROVE IInv'
      <3>1. Kept
        BY <2>1, <2>6 DEF GetHeader, Steps
      <3>2. ctx' = ReadRes(ctx)
        BY <2>6 DEF GetHeader
      <3> QED
        BY <2>1, <3>1, <3>2, ReadResIs, Keeps
    <2>7. ASSUME Answer PROVE IInv'
      <3>1. Kept
        BY <2>1, <2>7 DEF Answer, Steps
      <3>2. PICK body \in Bodies, code \in {0, 500} :
                LET c == IF code = 0 THEN ctx ELSE Status(ctx, code)
                IN  IF Throws(c, body) THEN ctx' = IF Untouched(c) THEN c ELSE ReadRes(c)
                    ELSE ctx' = Reply(c, body)
        BY <2>7 DEF Answer
      <3> DEFINE c == IF code = 0 THEN ctx ELSE Status(ctx, code)
      <3>3. /\ IsContext(c) /\ c.prepared = ctx.prepared /\ c.res = ctx.res
            /\ c.status = c.statusCode \/ (c.status = ctx.status /\ c.statusCode = ctx.statusCode)
            /\ Untouched(c) <=> Untouched(ctx)
        <4>1. code \in Nat
          OBVIOUS
        <4>2. CASE code = 0
          BY <2>1, <4>2
        <4>3. CASE code # 0
          BY <2>1, <4>1, <4>3, StatusIs
        <4> QED
          BY <4>2, <4>3
      <3>4. ctx' \in {c, ReadRes(c), Reply(c, body)}
        BY <3>2
      <3> HIDE DEF c
      <3>5. CASE ctx' = c
        BY <3>1, <3>3, <3>5 DEF IInv, TypeOK, UntouchedInv
      <3>6. CASE ctx' = ReadRes(c)
        BY <3>1, <3>3, <3>6, ReadResIs, Keeps
      <3>7. CASE ctx' = Reply(c, body)
        BY <2>1, <3>1, <3>3, <3>7, ReplyIs, Keeps DEF IsFinal
      <3> QED
        BY <3>4, <3>5, <3>6, <3>7
    <2>8. ASSUME AnswerRedirect PROVE IInv'
      <3>1. Kept
        BY <2>1, <2>8 DEF AnswerRedirect, Steps
      <3>2. ctx' = Redirect(ctx)
        BY <2>8 DEF AnswerRedirect
      <3> QED
        BY <2>1, <3>1, <3>2, RedirectIs, Keeps DEF IsFinal
    <2>9. ASSUME Throw PROVE IInv'
      BY <2>1, <2>9 DEF Throw, IInv, TypeOK, UntouchedInv
    <2>10. ASSUME NotFound PROVE IInv'
      <3>1. Kept
        BY <2>1, <2>10 DEF NotFound
      <3>2. ctx' = getFinalizedResponse(Status(ctx, 404), "string")
        BY <2>10 DEF NotFound
      <3>3. IsContext(Status(ctx, 404)) /\ "string" \in Bodies
        BY <2>1, StatusIs DEF Bodies
      <3> QED
        BY <2>1, <3>1, <3>2, <3>3, getFinalizedResponseIs, Keeps DEF IsFinal
    <2>11. ASSUME Deliver PROVE IInv'
      <3>1. ctx' = Final(ctx, phase = "error")
        BY <2>11 DEF Deliver
      <3>2. IsContext(ctx') /\ ctx'.finalized /\ ctx'.res # 0
        BY <2>1, <3>1, FinalIs
      <3>3. ctx'.objects[ctx'.res] \in Responses
        BY <3>2, FieldsAre
      <3>4. ~ctx'.objects[ctx'.res].shared
        BY <3>3 DEF Responses
      <3>5. jsonHeaders' = jsonHeaders
        BY <2>11, <3>4 DEF Deliver
      <3>6. Kept
        BY <2>1, <2>11, <3>5 DEF Deliver
      <3> QED
        BY <3>2, <3>6, Keeps
    <2>12. ASSUME NextRequest PROVE IInv'
      <3>1. ctx' \in Begins.contexts
        BY <2>12 DEF NextRequest
      <3>2. phase' = "handler" /\ steps' = 0 /\ lastX' = 0 /\ UNCHANGED <<jsonHeaders, writer>>
        BY <2>12 DEF NextRequest, Begins
      <3> QED
        BY <3>1, <3>2, InitIs DEF IInv, TypeOK, UntouchedInv
    <2>13. CASE UNCHANGED vars
      BY <2>13 DEF vars, requestVars, IInv, TypeOK, UntouchedInv
    <2> QED
      BY <2>3, <2>4, <2>5, <2>6, <2>7, <2>8, <2>9, <2>10, <2>11, <2>12, <2>13 DEF Next
  <1> QED
    BY <1>1, <1>2, PTL DEF Spec

(* Nothing that a request does reaches the headers of JSON_HEADERS, which   *)
(* the reply of the next one starts from (src/helpers/response.ts).         *)
THEOREM TypeCorrect == Spec => []TypeOK
  <1>1. IInv => TypeOK
    BY DEF IInv
  <1> QED
    BY <1>1, Inductive, PTL

-----------------------------------------------------------------------------
(* A reply that bypasses Hono, next to Hono's own.                          *)

(* A text that Hono would send for an untouched context.                    *)
LEMMA StringIsGeneric ==
    ASSUME IInv, Untouched(ctx)
    PROVE  SameReply(ctx, "string")
  <1> DEFINE status == ctx.statusCode
             direct == Response(status, "string", NoHeaders,
                                IF ctx.socket THEN "undefined" ELSE "native")
             generic == Response(status, "string", NoHeaders,
                                 IF ctx.socket THEN "Headers" ELSE "native")
  <1>1. ctx.prepared = NoHeaders /\ ctx.res = 0 /\ ctx.status = status /\ IsContext(ctx)
    BY DEF IInv, TypeOK, UntouchedInv
  <1>2. buildDirectResponse(ctx, "string") = New(ctx, direct)
    BY DEF buildDirectResponse, Objects
  <1>3. Generic(ctx, "string") = New(ctx, generic)
    BY <1>1 DEF Generic, Objects, newResponse
  <1>4. status \in Nat /\ NoHeaders \in Headers /\ "string" \in Sent
    BY <1>1, FieldsAre DEF NoHeaders, Headers, Types, Sent, Bodies
  <1>5. direct \in Responses /\ generic \in Responses
    BY <1>4, ResponseIs DEF Caches
  <1>6. Written(direct, ctx.socket) = Written(generic, ctx.socket)
    <2>1. CASE ctx.socket
      BY <2>1 DEF Written, Response, NoHeaders, Text
    <2>2. CASE ~ctx.socket
      BY <2>2
    <2> QED
      BY <2>1, <2>2
  <1> HIDE DEF direct, generic
  <1>7. /\ New(ctx, direct).objects[Newest(New(ctx, direct))] = direct
        /\ New(ctx, generic).objects[Newest(New(ctx, generic))] = generic
    BY <1>1, <1>5, NewIs
  <1> QED
    BY <1>2, <1>3, <1>6, <1>7 DEF SameReply

(* An object, which Hono serializes and gives a JSON type.                  *)
LEMMA ObjectIsGeneric ==
    ASSUME IInv, Untouched(ctx)
    PROVE  SameReply(ctx, "object")
  <1> DEFINE status == ctx.statusCode
             reply == JsonReply(ctx)
             direct == [reply EXCEPT !.body = "object"]
             text == Response(status, "object", NoHeaders,
                              IF ctx.socket THEN "Headers" ELSE "native")
             generic == WithHeader(text, "type", "json")
             built == New(ctx, text)
             object == Newest(built)
             typed == SetOn(built, object, "type", "json")
  <1>1. /\ ctx.prepared = NoHeaders /\ ctx.res = 0 /\ ctx.status = status /\ IsContext(ctx)
        /\ jsonHeaders = JSON /\ ~ctx.marked
    BY DEF IInv, TypeOK, UntouchedInv, Untouched
  <1>2. status \in Nat /\ NoHeaders \in Headers /\ JSON \in Headers /\ "object" \in Sent
    BY <1>1, FieldsAre DEF NoHeaders, JSON, Headers, Types, Sent, Bodies
  <1>3. reply = Response(status, "object", JSON, IF ctx.socket THEN "plain" ELSE "native")
    BY <1>1 DEF JsonReply
  <1>4. reply \in Responses /\ text \in Responses
    BY <1>2, <1>3, ResponseIs DEF Caches
  <1>5. buildDirectResponse(ctx, "object") = New(ctx, direct)
    BY DEF buildDirectResponse, Objects
  <1>6. newResponse(ctx, "object", TRUE) = built
    BY <1>1 DEF newResponse
  <1>7. /\ text.status = status /\ text.body = "object" /\ text.shared = FALSE
        /\ text.cache = (IF ctx.socket THEN "Headers" ELSE "native")
        /\ text.headers \in {NoHeaders, [NoHeaders EXCEPT !.type = "text"]}
    BY DEF Response
  <1>8. text.headers.type \in {"none", "text"} /\ [text.headers EXCEPT !["type"] = "json"] = JSON
    BY <1>7 DEF NoHeaders, JSON
  <1>9. /\ generic.status = status /\ generic.body = "object" /\ generic.headers = JSON
         /\ generic.cache = (IF ctx.socket THEN "Headers" ELSE "native")
    <2> DEFINE cache == IF text.cache = "native" THEN text.cache ELSE "Headers"
               headers == [text.headers EXCEPT !["type"] = "json"]
    <2>1. text \in Responses
      BY <1>4
    <2>2. generic = [text EXCEPT !.headers = headers, !.shared = FALSE, !.cache = cache]
      BY <2>1 DEF WithHeader, Responses
    <2>3. cache = IF ctx.socket THEN "Headers" ELSE "native"
      BY <1>7
    <2> HIDE DEF text, headers, cache
    <2>4. /\ generic.status = text.status /\ generic.body = text.body
          /\ generic.headers = headers /\ generic.cache = cache
      BY <2>1, <2>2 DEF Responses
    <2> QED
      BY <1>7, <1>8, <2>3, <2>4 DEF headers
  <1>10. /\ reply.status = status /\ reply.body = "object" /\ reply.headers = JSON
         /\ reply.cache = (IF ctx.socket THEN "plain" ELSE "native")
    <2>1. JSON.type # "none"
      BY DEF JSON, NoHeaders
    <2> QED
      BY <1>3, <2>1 DEF Response
  <1> HIDE DEF text, reply
  <1>11. direct = reply
    BY <1>4, <1>10 DEF Responses
  <1>12. Written(reply, ctx.socket) = Written(generic, ctx.socket)
    <2> HIDE DEF generic
    <2>1. ctx.socket /\ reply.cache # "native" <=> ctx.socket /\ generic.cache # "native"
      BY <1>9, <1>10
    <2> QED
      BY <1>9, <1>10, <2>1 DEF Written
  <1>13. /\ IsContext(built) /\ built.objects[object] = text
         /\ object \in 1..Len(built.objects)
    BY <1>1, <1>4, NewIs
  <1>14. createSerializedResponse(ctx, "object") = typed
    BY <1>6, <1>8, <1>13 DEF createSerializedResponse
  <1> HIDE DEF built, object
  <1>15. built \in Contexts /\ built.objects \in Seq(Responses)
    BY <1>13, FieldsAre
  <1> HIDE DEF generic
  <1>16. typed.objects = [built.objects EXCEPT ![object] = generic]
    BY <1>13, <1>15 DEF SetOn, Contexts, generic
  <1>17. /\ Len(typed.objects) = Len(built.objects) /\ typed.objects[object] = generic
    BY <1>13, <1>15, <1>16
  <1>18. Newest(typed) = object
    BY <1>17 DEF Newest, object
  <1>19. createJsonResponse(ctx, "object") = typed
    BY <1>1, <1>9, <1>14, <1>17, <1>18 DEF createJsonResponse, UsesJson, JSON, NoHeaders
  <1>20. Generic(ctx, "object") = typed
    BY <1>19 DEF Generic, Objects
  <1> HIDE DEF typed, direct
  <1>21. New(ctx, direct).objects[Newest(New(ctx, direct))] = direct
    BY <1>1, <1>4, <1>11, NewIs
  <1> QED
    BY <1>11, <1>5, <1>12, <1>17, <1>18, <1>20, <1>21 DEF SameReply

(* A string or JSON reply to a context that the tracking calls untouched    *)
(* is the one Hono would have made (src/helpers/response.ts:171-175).       *)
THEOREM DirectRepliesAreGeneric == Spec => []DirectIsGeneric
  <1>1. IInv => DirectIsGeneric
    BY StringIsGeneric, ObjectIsGeneric DEF DirectIsGeneric
  <1> QED
    BY <1>1, Inductive, PTL

-----------------------------------------------------------------------------
(* A header of the application survives every reply: what a context holds  *)
(* of x reaches the client.                                                *)

(* The value of x in the response that the context would send.             *)
XOf(c) == IF c.res # 0 THEN c.objects[c.res].headers.x ELSE c.prepared.x

-----------------------------------------------------------------------------
(* Responses and the context's objects.                                     *)

LEMMA ResponseX ==
    ASSUME NEW status, NEW body, NEW headers \in Headers, NEW cache
    PROVE  Response(status, body, headers, cache).headers.x = headers.x
  BY DEF Response, Headers

LEMMA WithHeaderX ==
    ASSUME NEW response \in Responses, NEW name \in {"type", "x", "length"}, NEW v
    PROVE  WithHeader(response, name, v).headers.x =
               IF name = "x" THEN v ELSE response.headers.x
  <1>1. response.headers \in Headers
    BY DEF Responses
  <1> DEFINE headers == [response.headers EXCEPT ![name] = v]
             cache == IF response.cache = "native" THEN response.cache ELSE "Headers"
  <1>2. headers.x = IF name = "x" THEN v ELSE response.headers.x
    BY <1>1 DEF Headers
  <1>3. WithHeader(response, name, v) =
            [response EXCEPT !.headers = headers, !.shared = FALSE, !.cache = cache]
    BY DEF WithHeader, Responses
  <1> HIDE DEF headers, cache
  <1>4. WithHeader(response, name, v).headers = headers
    BY <1>3 DEF Responses
  <1> QED
    BY <1>2, <1>4

(* A context with other objects, or another response.                       *)
LEMMA SameX ==
    ASSUME NEW c, NEW d, d.res = c.res, d.objects = c.objects, d.prepared = c.prepared
    PROVE  XOf(d) = XOf(c)
  BY DEF XOf

LEMMA MarksX ==
    ASSUME NEW c, IsContext(c)
    PROVE  /\ XOf(Touched(c)) = XOf(c) /\ XOf(Finalized(c)) = XOf(c)
           /\ XOf(Marked(c)) = XOf(c)
           /\ \A code \in Nat : XOf(Status(c, code)) = XOf(c)
  <1>1. c \in Contexts
    BY FieldsAre
  <1>2. /\ Touched(c).res = c.res /\ Touched(c).objects = c.objects
        /\ Touched(c).prepared = c.prepared
    BY <1>1 DEF Touched, Contexts
  <1>3. /\ Finalized(c).res = c.res /\ Finalized(c).objects = c.objects
        /\ Finalized(c).prepared = c.prepared
    BY <1>1 DEF Finalized, Contexts
  <1>4. /\ Marked(c).res = c.res /\ Marked(c).objects = c.objects
        /\ Marked(c).prepared = c.prepared
    BY <1>1 DEF Marked, Contexts
  <1>5. ASSUME NEW code \in Nat
        PROVE  /\ Status(c, code).res = c.res /\ Status(c, code).objects = c.objects
               /\ Status(c, code).prepared = c.prepared
    BY <1>1 DEF Status, Contexts
  <1>6. ASSUME NEW code \in Nat PROVE XOf(Status(c, code)) = XOf(c)
    BY <1>5, SameX
  <1>7. XOf(Touched(c)) = XOf(c) /\ XOf(Finalized(c)) = XOf(c) /\ XOf(Marked(c)) = XOf(c)
    BY <1>2, <1>3, <1>4, SameX
  <1> QED
    BY <1>6, <1>7

LEMMA NewX ==
    ASSUME NEW c, IsContext(c), NEW r \in Responses
    PROVE  /\ XOf(New(c, r)) = XOf(c)
           /\ \A i \in 1..Len(c.objects) : New(c, r).objects[i] = c.objects[i]
  <1>1. /\ c \in Contexts /\ c.objects \in Seq(Responses) /\ Len(c.objects) \in Nat
        /\ c.res \in 0..Len(c.objects)
    BY FieldsAre
  <1>2. /\ New(c, r).objects = Append(c.objects, r) /\ New(c, r).res = c.res
        /\ New(c, r).prepared = c.prepared
    BY <1>1 DEF New, Contexts
  <1>3. \A i \in 1..Len(c.objects) : Append(c.objects, r)[i] = c.objects[i]
    BY <1>1
  <1>4. \A i \in 1..Len(c.objects) : New(c, r).objects[i] = c.objects[i]
    BY <1>2, <1>3
  <1>5. c.res # 0 => c.res \in 1..Len(c.objects)
    BY <1>1
  <1> QED
    BY <1>2, <1>4, <1>5 DEF XOf

LEMMA WithResX ==
    ASSUME NEW c, IsContext(c), NEW i \in 1..Len(c.objects)
    PROVE  XOf(WithRes(c, i)) = c.objects[i].headers.x
  <1>1. WithRes(c, i).res = i /\ WithRes(c, i).objects = c.objects /\ i # 0
    BY WithResIs, FieldsAre
  <1> QED
    BY <1>1 DEF XOf

LEMMA SetOnX ==
    ASSUME NEW c, IsContext(c), NEW object \in 1..Len(c.objects),
           NEW name \in {"type", "x", "length"}, NEW v
    PROVE  /\ name # "x" =>
                /\ XOf(SetOn(c, object, name, v)) = XOf(c)
                /\ \A i \in 1..Len(c.objects) :
                      SetOn(c, object, name, v).objects[i].headers.x = c.objects[i].headers.x
           /\ name = "x" /\ object = c.res => XOf(SetOn(c, object, name, v)) = v
  <1> DEFINE r == WithHeader(c.objects[object], name, v)
             d == SetOn(c, object, name, v)
  <1>1. /\ c \in Contexts /\ c.objects \in Seq(Responses) /\ Len(c.objects) \in Nat
        /\ c.res \in 0..Len(c.objects) /\ c.objects[object] \in Responses
    BY FieldsAre
  <1>2. r.headers.x = IF name = "x" THEN v ELSE c.objects[object].headers.x
    BY <1>1, WithHeaderX
  <1> HIDE DEF r
  <1>3. /\ d.objects = [c.objects EXCEPT ![object] = r] /\ d.res = c.res
        /\ d.prepared = c.prepared
    BY <1>1 DEF SetOn, Contexts, r
  <1> HIDE DEF d
  <1>4. /\ d.objects[object] = r
        /\ \A i \in 1..Len(c.objects) : i # object => d.objects[i] = c.objects[i]
    BY <1>1, <1>3
  <1>5. ASSUME name # "x", NEW i \in 1..Len(c.objects)
        PROVE  d.objects[i].headers.x = c.objects[i].headers.x
    BY <1>2, <1>4, <1>5
  <1>6. c.res # 0 => c.res \in 1..Len(c.objects)
    BY <1>1
  <1>7. name # "x" => XOf(d) = XOf(c)
    BY <1>3, <1>5, <1>6 DEF XOf
  <1>8. name = "x" /\ object = c.res => XOf(d) = v
    BY <1>2, <1>3, <1>4 DEF XOf
  <1> QED
    BY <1>5, <1>7, <1>8 DEF d

LEMMA ReadResX ==
    ASSUME NEW c, IsContext(c)
    PROVE  /\ XOf(ReadRes(c)) = XOf(c)
           /\ \A i \in 1..Len(c.objects) : ReadRes(c).objects[i] = c.objects[i]
  <1>1. CASE c.res # 0
    BY <1>1, MarksX, SetIs DEF ReadRes
  <1>2. CASE c.res = 0
    <2> DEFINE r == Response(200, "null", c.prepared, "native")
               created == New(c, r)
               d == WithRes(created, Newest(created))
    <2>1. /\ 200 \in Nat /\ "null" \in Sent /\ "native" \in Caches /\ c.prepared \in Headers
      BY FieldsAre DEF Sent, Caches
    <2>2. r \in Responses /\ r.headers.x = c.prepared.x
      BY <2>1, ResponseIs, ResponseX
    <2>3. ReadRes(c) = Touched(d)
      BY <1>2 DEF ReadRes
    <2> HIDE DEF r
    <2>4. /\ IsContext(created) /\ Newest(created) \in 1..Len(created.objects)
          /\ created.objects[Newest(created)] = r
          /\ \A i \in 1..Len(c.objects) : created.objects[i] = c.objects[i]
      BY <2>2, NewIs, NewX
    <2> HIDE DEF created
    <2>5. IsContext(d) /\ d.objects = created.objects /\ XOf(d) = r.headers.x
      BY <2>4, WithResIs, WithResX
    <2> HIDE DEF d
    <2>6. XOf(Touched(d)) = XOf(d) /\ Touched(d).objects = d.objects
      BY <2>5, MarksX, SetIs
    <2> QED
      BY <1>2, <2>2, <2>3, <2>4, <2>5, <2>6 DEF XOf
  <1> QED
    BY <1>1, <1>2

(* A response that replaces another one keeps the x of that.                *)
LEMMA SetResX ==
    ASSUME NEW c, IsContext(c), c.res # 0, XOf(c) # 0, NEW object \in 1..Len(c.objects)
    PROVE  XOf(SetRes(c, object)) = XOf(c)
  <1> DEFINE headers == Over(HeadersOf(c), c.objects[object].headers)
             r == [c.objects[object] EXCEPT !.cache = "native", !.shared = FALSE,
                                            !.headers = headers]
             merged == New(c, r)
             d == WithRes(merged, Newest(merged))
  <1>1. c.objects[object] \in Responses /\ HeadersOf(c) \in Headers
    BY FieldsAre, HeadersOfIs
  <1>2. c.objects[object].headers \in Headers
    BY <1>1 DEF Responses
  <1>3. XOf(c) = HeadersOf(c).x
    BY DEF XOf, HeadersOf
  <1>4. headers \in Headers /\ headers.x = XOf(c)
    BY <1>1, <1>2, <1>3, OverIs DEF Over, Headers
  <1> HIDE DEF headers
  <1>5. r \in Responses /\ r.headers = headers
    BY <1>1, <1>4 DEF Responses, Caches
  <1>6. SetRes(c, object) = Finalized(d)
    BY <1>1 DEF SetRes, headers, Responses
  <1> HIDE DEF r
  <1>7. /\ IsContext(merged) /\ Newest(merged) \in 1..Len(merged.objects)
        /\ merged.objects[Newest(merged)] = r
    BY <1>5, NewIs
  <1> HIDE DEF merged
  <1>8. IsContext(d) /\ XOf(d) = r.headers.x
    BY <1>7, WithResIs, WithResX
  <1> HIDE DEF d
  <1> QED
    BY <1>4, <1>5, <1>6, <1>8, MarksX

(* ctx.header(): x becomes v, or stays.                                     *)
LEMMA HeaderX ==
    ASSUME NEW c, IsContext(c), NEW name \in {"type", "x"}, NEW v,
           v \in (IF name = "type" THEN Types ELSE Nat)
    PROVE  XOf(Header(c, name, v)) = IF name = "x" THEN v ELSE XOf(c)
  <1> DEFINE t == Touched(c)
  <1>1. /\ IsContext(t) /\ t.objects = c.objects /\ t.res = c.res /\ XOf(t) = XOf(c)
        /\ name \in {"type", "x", "length"}
    BY SetIs, MarksX
  <1> HIDE DEF t
  <1>2. CASE c.finalized
    <2> DEFINE r == [c.objects[c.res] EXCEPT !.cache = "native", !.shared = FALSE]
               copied == New(t, r)
               d == WithRes(copied, Newest(copied))
    <2>1. c.objects[c.res] \in Responses /\ c.res # 0
      BY <1>2, HeadersOfIs, FieldsAre
    <2>2. r \in Responses /\ r.headers.x = XOf(c)
      BY <2>1 DEF Responses, Caches, XOf
    <2> HIDE DEF r
    <2>3. /\ IsContext(copied) /\ Newest(copied) \in 1..Len(copied.objects)
          /\ copied.objects[Newest(copied)] = r
      BY <1>1, <2>2, NewIs
    <2> HIDE DEF copied
    <2>4. /\ IsContext(d) /\ d.res = Newest(copied) /\ d.objects = copied.objects
          /\ XOf(d) = r.headers.x
      BY <2>3, WithResIs, WithResX
    <2>5. Header(c, name, v) = SetOn(d, Newest(copied), name, v)
      BY <1>2 DEF Header, t, copied, r
    <2> HIDE DEF d
    <2>6. Newest(copied) \in 1..Len(d.objects) /\ Newest(copied) = d.res
      BY <2>3, <2>4
    <2> QED
      BY <1>1, <2>2, <2>4, <2>5, <2>6, SetOnX
  <1>3. CASE ~c.finalized /\ c.res # 0
    <2>1. c.res \in 1..Len(t.objects)
      BY <1>1, <1>3, FieldsAre
    <2>2. Header(c, name, v) = SetOn(t, c.res, name, v)
      BY <1>3 DEF Header, t
    <2> QED
      BY <1>1, <2>1, <2>2, SetOnX
  <1>4. CASE ~c.finalized /\ c.res = 0
    <2> DEFINE headers == [t.prepared EXCEPT ![name] = v]
               d == [t EXCEPT !.prepared = headers]
    <2>1. t \in Contexts /\ t.prepared \in Headers
      BY <1>1, FieldsAre
    <2>2. headers.x = IF name = "x" THEN v ELSE t.prepared.x
      BY <2>1 DEF Headers
    <2>3. Header(c, name, v) = d
      BY <1>4 DEF Header, t
    <2> HIDE DEF headers
    <2>4. d.res = t.res /\ d.prepared = headers
      BY <2>1 DEF Contexts
    <2> HIDE DEF d
    <2> QED
      BY <1>1, <1>4, <2>2, <2>3, <2>4 DEF XOf
  <1> QED
    BY <1>2, <1>3, <1>4

-----------------------------------------------------------------------------
(* What buildResponse() makes of a context has the context's x.             *)

BuildsX(c, n) == Builds(c) /\ XOf(c) = n /\ c.objects[Newest(c)].headers.x = n

LEMMA newResponseX ==
    ASSUME NEW c, IsContext(c), NEW body \in Sent, NEW light \in BOOLEAN
    PROVE  BuildsX(newResponse(c, body, light), XOf(c))
  <1> DEFINE headers == IF c.res # 0 THEN HeadersOf(c) ELSE c.prepared
             cache == IF light /\ c.socket /\ body # "null" THEN "Headers" ELSE "native"
             r == Response(c.status, body, headers, cache)
  <1>1. headers \in Headers /\ cache \in Caches /\ headers.x = XOf(c)
    BY HeadersOfIs, FieldsAre DEF Caches, XOf, HeadersOf
  <1>2. newResponse(c, body, light) = New(c, r)
    BY DEF newResponse
  <1> HIDE DEF headers, cache
  <1>3. r \in Responses /\ r.headers.x = XOf(c)
    BY <1>1, ResponseIs, ResponseX, FieldsAre
  <1> HIDE DEF r
  <1> QED
    BY <1>2, <1>3, NewIs, NewX DEF Builds, BuildsX

LEMMA TypeUnlessSetX ==
    ASSUME NEW c, IsContext(c), c.res # 0, NEW type \in Types, NEW set
    PROVE  XOf(TypeUnlessSet(c, type, set)) = XOf(c)
  <1>1. c.res \in 1..Len(c.objects)
    BY FieldsAre
  <1> QED
    BY <1>1, SetOnX DEF TypeUnlessSet

LEMMA StreamsX ==
    ASSUME NEW c, IsContext(c)
    PROVE  /\ BuildsX(createBufferResponse(c), XOf(c))
           /\ BuildsX(createStreamResponse(c), XOf(c))
           /\ BuildsX(createStreamableFileResponse(c), XOf(c))
  <1> DEFINE read == ReadRes(c)
  <1>1. /\ IsContext(read) /\ read.res # 0 /\ read.res \in 1..Len(read.objects)
        /\ XOf(read) = XOf(c)
    BY ReadResIs, ReadResX, FieldsAre
  <1> HIDE DEF read
  <1>2. {"octet", "file"} \subseteq Types /\ {"buffer", "stream", "file"} \subseteq Sent
    BY DEF Types, Sent, Bodies
  <1>3. ASSUME NEW type \in {"octet", "file"}, NEW set
        PROVE  LET d == TypeUnlessSet(read, type, set)
               IN  IsContext(d) /\ d.res = read.res /\ XOf(d) = XOf(c)
    BY <1>1, <1>2, TypeUnlessSetIs, TypeUnlessSetX
  <1>4. BuildsX(createBufferResponse(c), XOf(c))
    <2> DEFINE typed == TypeUnlessSet(read, "octet", {"none", "text"})
    <2>1. IsContext(typed) /\ XOf(typed) = XOf(c)
      BY <1>3
    <2>2. createBufferResponse(c) = newResponse(typed, "buffer", TRUE)
      BY DEF createBufferResponse, read
    <2> HIDE DEF typed
    <2>3. BuildsX(newResponse(typed, "buffer", TRUE), XOf(typed))
      BY <1>2, <2>1, newResponseX
    <2> QED
      BY <2>1, <2>2, <2>3
  <1>5. BuildsX(createStreamResponse(c), XOf(c))
    <2> DEFINE typed == TypeUnlessSet(read, "octet", {"none"})
    <2>1. IsContext(typed) /\ XOf(typed) = XOf(c)
      BY <1>3
    <2>2. createStreamResponse(c) = newResponse(typed, "stream", FALSE)
      BY DEF createStreamResponse, read
    <2> HIDE DEF typed
    <2>3. BuildsX(newResponse(typed, "stream", FALSE), XOf(typed))
      BY <1>2, <2>1, newResponseX
    <2> QED
      BY <2>1, <2>2, <2>3
  <1>6. BuildsX(createStreamableFileResponse(c), XOf(c))
    <2> DEFINE typed == TypeUnlessSet(read, "file", {"none"})
               sized == IF HeadersOf(typed).length # 0 THEN typed
                        ELSE SetOn(typed, typed.res, "length", LengthOf["file"])
    <2>1. IsContext(typed) /\ typed.res \in 1..Len(typed.objects) /\ XOf(typed) = XOf(c)
      BY <1>1, <1>3, FieldsAre
    <2>2. LengthOf["file"] \in Nat
      BY DEF LengthOf
    <2> HIDE DEF typed
    <2>3. IsContext(sized) /\ XOf(sized) = XOf(c)
      BY <2>1, <2>2, SetOnIs, SetOnX
    <2>4. createStreamableFileResponse(c) = newResponse(sized, "file", FALSE)
      BY DEF createStreamableFileResponse, read, typed
    <2> HIDE DEF sized
    <2> QED
      BY <1>2, <2>3, <2>4, newResponseX
  <1> QED
    BY <1>4, <1>5, <1>6

LEMMA SerializedX ==
    ASSUME NEW c, IsContext(c), NEW body \in Sent
    PROVE  /\ BuildsX(createSerializedResponse(c, body), XOf(c))
           /\ BuildsX(createPlainResponse(c), XOf(c))
  <1> DEFINE built == newResponse(c, body, TRUE)
             typed == SetOn(built, Newest(built), "type", "json")
  <1>1. BuildsX(built, XOf(c))
    BY newResponseX
  <1>2. BuildsX(createPlainResponse(c), XOf(c))
    BY newResponseX DEF createPlainResponse, Sent
  <1>3. createSerializedResponse(c, body) \in {built, typed}
    BY DEF createSerializedResponse
  <1> HIDE DEF built
  <1>4. "json" \in Types
    BY DEF Types
  <1>5. IsContext(typed) /\ Len(typed.objects) = Len(built.objects)
    BY <1>1, <1>4, SetOnIs DEF BuildsX, Builds
  <1>6. /\ XOf(typed) = XOf(c)
        /\ typed.objects[Newest(built)].headers.x = built.objects[Newest(built)].headers.x
    BY <1>1, SetOnX DEF BuildsX, Builds
  <1> HIDE DEF typed
  <1>7. BuildsX(typed, XOf(c))
    BY <1>1, <1>5, <1>6 DEF BuildsX, Builds, Newest
  <1> QED
    BY <1>1, <1>2, <1>3, <1>7

LEMMA GenericX ==
    ASSUME NEW c, IsContext(c), NEW body \in {"string", "object", "error", "cyclic"}
    PROVE  BuildsX(Generic(c, body), XOf(c))
  <1> DEFINE read == ReadRes(c)
             serialized == createSerializedResponse(c, body)
  <1>1. IsContext(read) /\ XOf(read) = XOf(c) /\ body \in Sent
    BY ReadResIs, ReadResX DEF Sent, Bodies
  <1> HIDE DEF read
  <1>2. /\ BuildsX(createPlainResponse(read), XOf(c))
        /\ BuildsX(createSerializedResponse(read, body), XOf(c))
        /\ BuildsX(serialized, XOf(c))
    BY <1>1, SerializedX
  <1> HIDE DEF serialized
  <1>3. BuildsX(createPlainResponse(serialized), XOf(c))
    BY <1>1, <1>2, SerializedX DEF Builds, BuildsX
  <1>4. createJsonResponse(c, body) \in
            {createPlainResponse(read), createSerializedResponse(read, body), serialized,
             createPlainResponse(serialized)}
    BY DEF createJsonResponse, read, serialized
  <1>5. BuildsX(newResponse(c, body, TRUE), XOf(c))
    BY <1>1, newResponseX
  <1> QED
    BY <1>2, <1>3, <1>4, <1>5 DEF Generic, read

(* A direct reply is only built without headers.  A response that does not  *)
(* have the context's headers is merged when it is finalized.               *)
LEMMA BuildResponseX ==
    ASSUME jsonHeaders = JSON, NEW c, IsContext(c), XOf(c) # 0, ~Untouched(c),
           NEW body \in Bodies
    PROVE  LET b == buildResponse(c, body)
           IN  /\ XOf(b.c) = XOf(c)
               /\ b.includesContextHeaders => b.c.objects[b.object].headers.x = XOf(c)
  <1> DEFINE b == buildResponse(c, body)
  <1>1. CASE body = "fetch"
    <2>1. FetchResponse \in Responses
      BY DEF FetchResponse, Responses, Headers, Types, Caches, Sent, Bodies
    <2>2. b.c = New(c, FetchResponse) /\ ~b.includesContextHeaders
      BY <1>1 DEF buildResponse, Built
    <2> QED
      BY <2>1, <2>2, NewX
  <1>2. ASSUME NEW d, BuildsX(d, XOf(c)), b = fromContext(d)
        PROVE  XOf(b.c) = XOf(c) /\ b.c.objects[b.object].headers.x = XOf(c)
    BY <1>2 DEF BuildsX, fromContext, Built
  <1>3. CASE body \in {"file", "stream", "buffer"}
    BY <1>2, <1>3, StreamsX DEF buildResponse
  <1>4. CASE body = "nothing" /\ c.response # 0
    BY <1>4 DEF buildResponse, Built
  <1>5. CASE body = "nothing" /\ c.response = 0
    <2> DEFINE read == ReadRes(c)
    <2>1. IsContext(read) /\ XOf(read) = XOf(c) /\ "null" \in Sent
      BY ReadResIs, ReadResX DEF Sent
    <2>2. b \in {Built(read, read.res, FALSE), fromContext(newResponse(read, "null", TRUE))}
      BY <1>5 DEF buildResponse
    <2> HIDE DEF read
    <2>3. BuildsX(newResponse(read, "null", TRUE), XOf(c))
      BY <2>1, newResponseX
    <2>4. CASE b = Built(read, read.res, FALSE)
      BY <2>1, <2>4 DEF Built
    <2> QED
      BY <1>2, <2>2, <2>3, <2>4
  <1>6. CASE body \in {"string", "object", "error", "cyclic"}
    <2>1. b = fromContext(Generic(c, body))
      BY <1>6 DEF buildResponse
    <2> QED
      BY <1>2, <1>6, <2>1, GenericX
  <1> QED
    BY <1>1, <1>3, <1>4, <1>5, <1>6 DEF Bodies

-----------------------------------------------------------------------------
(* Finalizing a response, and the methods of the adapter, keep x.           *)

LEMMA AssignedX ==
    ASSUME NEW c, IsContext(c), XOf(c) # 0, NEW object \in 1..Len(c.objects),
           NEW includes \in BOOLEAN, includes => c.objects[object].headers.x = XOf(c)
    PROVE  XOf(Assigned(c, object, includes)) = XOf(c)
  <1>1. CASE includes
    <2> DEFINE d == WithRes(c, object)
    <2>1. IsContext(d) /\ XOf(d) = XOf(c)
      BY <1>1, WithResIs, WithResX
    <2>2. Assigned(c, object, includes) = Finalized(d)
      BY <1>1 DEF Assigned
    <2> HIDE DEF d
    <2> QED
      BY <2>1, <2>2, MarksX
  <1>2. CASE ~includes
    <2> DEFINE read == ReadRes(c)
    <2>1. /\ IsContext(read) /\ Len(read.objects) >= Len(c.objects)
          /\ read.res \in 1..Len(read.objects) /\ XOf(read) = XOf(c)
      BY ReadResIs, ReadResX
    <2>2. Assigned(c, object, includes) = SetRes(read, object)
      BY <1>2 DEF Assigned, Materialized
    <2> HIDE DEF read
    <2>3. object \in 1..Len(read.objects) /\ read.res # 0
      BY <2>1, FieldsAre
    <2> QED
      BY <2>1, <2>2, <2>3, SetResX
  <1> QED
    BY <1>1, <1>2

LEMMA finalizeResponseX ==
    ASSUME NEW c, IsContext(c), XOf(c) # 0, NEW object \in 1..Len(c.objects),
           NEW includes \in BOOLEAN, includes => c.objects[object].headers.x = XOf(c)
    PROVE  XOf(finalizeResponse(c, object, includes)) = XOf(c)
  <1> DEFINE a == Assigned(c, object, includes)
             set == Touched(a)
             d == [set EXCEPT !.response = set.res, !.source = object]
  <1>1. finalizeResponse(c, object, includes) \in {c, d}
    BY DEF finalizeResponse
  <1>2. IsContext(a) /\ XOf(a) = XOf(c)
    BY AssignedIs, AssignedX
  <1> HIDE DEF a
  <1>3. set \in Contexts /\ XOf(set) = XOf(c)
    BY <1>2, SetIs, MarksX, FieldsAre
  <1> HIDE DEF set
  <1>4. d.res = set.res /\ d.objects = set.objects /\ d.prepared = set.prepared
    BY <1>3 DEF Contexts
  <1> HIDE DEF d
  <1> QED
    BY <1>1, <1>3, <1>4, SameX

LEMMA getFinalizedResponseX ==
    ASSUME jsonHeaders = JSON, NEW c, IsContext(c), XOf(c) # 0, ~Untouched(c),
           NEW body \in Bodies
    PROVE  XOf(getFinalizedResponse(c, body)) = XOf(c)
  <1> DEFINE b == buildResponse(c, body)
  <1>1. getFinalizedResponse(c, body) \in
            {c, finalizeResponse(b.c, b.object, b.includesContextHeaders)}
    BY DEF getFinalizedResponse
  <1>2. /\ BuildsObject(b) /\ XOf(b.c) = XOf(c)
        /\ b.includesContextHeaders => b.c.objects[b.object].headers.x = XOf(c)
    BY BuildResponseIs, BuildResponseX
  <1>3. b.includesContextHeaders \in BOOLEAN
    BY DEF buildResponse, Built, fromContext, Bodies
  <1> HIDE DEF b
  <1>4. XOf(finalizeResponse(b.c, b.object, b.includesContextHeaders)) = XOf(b.c)
    BY <1>2, <1>3, finalizeResponseX DEF BuildsObject
  <1> QED
    BY <1>1, <1>2, <1>4

LEMMA SetHeaderX ==
    ASSUME NEW c, IsContext(c), NEW name \in {"type", "x"}, NEW v,
           v \in (IF name = "type" THEN Types ELSE Nat)
    PROVE  XOf(SetHeader(c, name, v)) = IF name = "x" THEN v ELSE XOf(c)
  <1> DEFINE read == ReadRes(Marked(c))
  <1>1. IsContext(read) /\ read.res \in 1..Len(read.objects) /\ XOf(read) = XOf(c)
    BY SetIs, MarksX, ReadResIs, ReadResX
  <1>2. SetHeader(c, name, v) = SetOn(read, read.res, name, v)
    BY DEF SetHeader
  <1> HIDE DEF read
  <1> QED
    BY <1>1, <1>2, SetOnX

LEMMA ReplyX ==
    ASSUME jsonHeaders = JSON, NEW c, IsContext(c), XOf(c) # 0, ~Untouched(c),
           NEW body \in Bodies
    PROVE  XOf(Reply(c, body)) = XOf(c)
  <1> DEFINE typed == IF HeadersOf(ReadRes(c)).type = "json" THEN ReadRes(c)
                      ELSE SetHeader(c, "type", "json")
             d == IF body = "error" THEN typed ELSE c
  <1>1. "json" \in Types
    BY DEF Types
  <1>2. IsContext(typed) /\ XOf(typed) = XOf(c) /\ ~Untouched(typed)
    BY <1>1, SetHeaderIs, SetHeaderX, ReadResIs, ReadResX DEF Untouched
  <1>3. Reply(c, body) = getFinalizedResponse(d, body)
    BY DEF Reply
  <1> HIDE DEF typed
  <1>4. IsContext(d) /\ XOf(d) = XOf(c) /\ ~Untouched(d)
    BY <1>2
  <1> HIDE DEF d
  <1> QED
    BY <1>3, <1>4, getFinalizedResponseX

LEMMA RedirectX ==
    ASSUME NEW c, IsContext(c), XOf(c) # 0
    PROVE  XOf(Redirect(c)) = XOf(c)
  <1> DEFINE n == newResponse(c, "null", FALSE)
             empty == n.objects[Newest(c) + 1]
             status == 302
             r == [empty EXCEPT !.status = status]
             made == New(Touched(c), r)
  <1>1. Builds(n)
    BY newResponseIs DEF Sent
  <1>2. Newest(n) = Newest(c) + 1
    BY newResponseLength DEF Sent
  <1> HIDE DEF n
  <1>3. empty \in Responses
    BY <1>1, <1>2, FieldsAre DEF Builds
  <1>4. status \in Nat
    OBVIOUS
  <1> HIDE DEF empty, status
  <1>5. r \in Responses
    BY <1>3, <1>4 DEF Responses
  <1> HIDE DEF r
  <1>6. IsContext(made) /\ Newest(made) \in 1..Len(made.objects) /\ XOf(made) = XOf(c)
    BY <1>5, SetIs, MarksX, NewIs, NewX
  <1>7. Redirect(c) = finalizeResponse(made, Newest(made), FALSE)
    BY DEF Redirect, r, n, empty, status
  <1> HIDE DEF made
  <1> QED
    BY <1>6, <1>7, finalizeResponseX

LEMMA FinalX ==
    ASSUME jsonHeaders = JSON, NEW c, IsContext(c), XOf(c) # 0, ~Untouched(c),
           NEW isError \in BOOLEAN
    PROVE  XOf(Final(c, isError)) = XOf(c)
  <1> DEFINE left == getFinalizedResponse(c, "nothing")
  <1>1. IsFinal(left) /\ XOf(left) = XOf(c)
    BY getFinalizedResponseIs, getFinalizedResponseX DEF Bodies
  <1>2. Final(c, isError) = IF isError THEN SetRes(left, left.response) ELSE left
    BY DEF Final
  <1> HIDE DEF left
  <1>3. left.response \in 1..Len(left.objects)
    BY <1>1, FieldsAre DEF IsFinal
  <1> QED
    BY <1>1, <1>2, <1>3, SetResX DEF IsFinal

LEMMA WrittenX ==
    ASSUME NEW response \in Responses, NEW socket
    PROVE  Written(response, socket).headers.x = response.headers.x
  <1> DEFINE kept == socket /\ response.cache # "native" /\ response.body \in Text
             typed == IF kept /\ response.headers.type = "none"
                      THEN [response.headers EXCEPT !.type = "text"] ELSE response.headers
             sized == IF kept /\ typed.length = 0
                      THEN [typed EXCEPT !.length = LengthOf[response.body]] ELSE typed
  <1>1. response.headers \in Headers
    BY DEF Responses
  <1>2. typed \in Headers /\ typed.x = response.headers.x
    BY <1>1 DEF Headers, Types
  <1>3. Written(response, socket).headers = sized
    BY DEF Written
  <1> HIDE DEF typed
  <1>4. sized.x = typed.x
    BY <1>2 DEF Headers
  <1> QED
    BY <1>2, <1>3, <1>4

-----------------------------------------------------------------------------
(* While a request is answered, the context holds the last value of x; then *)
(* the client has what the context held.                                    *)
XInv == lastX # 0 => XOf(ctx) = lastX
WireInv == phase = "done" => wire.headers.x = XOf(ctx)

(* A context that has x was touched.                                        *)
LEMMA XTouches ==
    ASSUME IInv, XOf(ctx) # 0
    PROVE  ~Untouched(ctx)
  BY DEF IInv, UntouchedInv, XOf, NoHeaders

(* Steps that leave lastX alone.                                            *)
LEMMA KeepsX ==
    ASSUME IInv, XInv, UNCHANGED lastX, phase' # "done",
           lastX # 0 => XOf(ctx') = XOf(ctx)
    PROVE  XInv' /\ WireInv'
  BY DEF XInv, WireInv

LEMMA StepX ==
    ASSUME IInv, XInv, WireInv, Next
    PROVE  XInv' /\ WireInv'
  <1>1. /\ jsonHeaders = JSON /\ IsContext(ctx) /\ steps \in Nat /\ lastX \in Nat
        /\ phase \in {"handler", "error", "done"}
    BY DEF IInv, TypeOK
  <1>2. lastX # 0 => XOf(ctx) # 0 /\ ~Untouched(ctx)
    BY XTouches DEF XInv
  <1>3. ASSUME SetX PROVE XInv' /\ WireInv'
    <2>1. lastX' = steps' /\ steps' \in Nat /\ phase' # "done"
      BY <1>1, <1>3 DEF SetX, Steps
    <2>2. ctx' = Header(ctx, "x", steps') \/ ctx' = SetHeader(ctx, "x", steps')
      BY <1>3 DEF SetX
    <2>3. XOf(ctx') = steps'
      BY <1>1, <2>1, <2>2, HeaderX, SetHeaderX
    <2> QED
      BY <2>1, <2>3 DEF XInv, WireInv
  <1>4. ASSUME SetType PROVE XInv' /\ WireInv'
    <2>1. UNCHANGED lastX /\ phase' # "done"
      BY <1>4 DEF SetType, Steps
    <2>2. ctx' = Header(ctx, "type", "html") \/ ctx' = SetHeader(ctx, "type", "html")
      BY <1>4 DEF SetType
    <2>3. "html" \in Types
      BY DEF Types
    <2>4. XOf(ctx') = XOf(ctx)
      BY <1>1, <2>2, <2>3, HeaderX, SetHeaderX
    <2> QED
      BY <2>1, <2>4, KeepsX
  <1>5. ASSUME SetStatus PROVE XInv' /\ WireInv'
    <2>1. UNCHANGED lastX /\ phase' # "done" /\ ctx' = Status(ctx, 201)
      BY <1>5 DEF SetStatus, Steps
    <2> QED
      BY <1>1, <2>1, MarksX, KeepsX
  <1>6. ASSUME GetHeader PROVE XInv' /\ WireInv'
    <2>1. UNCHANGED lastX /\ phase' # "done" /\ ctx' = ReadRes(ctx)
      BY <1>6 DEF GetHeader, Steps
    <2> QED
      BY <1>1, <2>1, ReadResX, KeepsX
  <1>7. ASSUME Answer PROVE XInv' /\ WireInv'
    <2>1. UNCHANGED lastX /\ phase' # "done"
      BY <1>7 DEF Answer, Steps
    <2>2. PICK body \in Bodies, code \in {0, 500} :
              LET c == IF code = 0 THEN ctx ELSE Status(ctx, code)
              IN  IF Throws(c, body) THEN ctx' = IF Untouched(c) THEN c ELSE ReadRes(c)
                  ELSE ctx' = Reply(c, body)
      BY <1>7 DEF Answer
    <2> DEFINE c == IF code = 0 THEN ctx ELSE Status(ctx, code)
    <2>3. IsContext(c) /\ XOf(c) = XOf(ctx) /\ (Untouched(c) <=> Untouched(ctx))
      <3>1. CASE code = 0
        BY <1>1, <3>1
      <3>2. CASE code # 0
        BY <1>1, <3>2, StatusIs, MarksX
      <3> QED
        BY <3>1, <3>2
    <2>4. ctx' \in {c, ReadRes(c), Reply(c, body)}
      BY <2>2
    <2> HIDE DEF c
    <2>5. lastX # 0 => XOf(Reply(c, body)) = XOf(ctx)
      BY <1>1, <1>2, <2>3, ReplyX
    <2>6. lastX # 0 => XOf(ctx') = XOf(ctx)
      BY <2>3, <2>4, <2>5, ReadResX
    <2> QED
      BY <2>1, <2>6, KeepsX
  <1>8. ASSUME AnswerRedirect PROVE XInv' /\ WireInv'
    <2>1. UNCHANGED lastX /\ phase' # "done" /\ ctx' = Redirect(ctx)
      BY <1>8 DEF AnswerRedirect, Steps
    <2> QED
      BY <1>1, <1>2, <2>1, RedirectX, KeepsX
  <1>9. ASSUME Throw PROVE XInv' /\ WireInv'
    BY <1>9, KeepsX DEF Throw
  <1>10. ASSUME NotFound PROVE XInv' /\ WireInv'
    <2> DEFINE c == Status(ctx, 404)
    <2>1. /\ UNCHANGED lastX /\ phase' # "done"
          /\ ctx' = getFinalizedResponse(c, "string")
      BY <1>10 DEF NotFound
    <2>2. /\ IsContext(c) /\ XOf(c) = XOf(ctx) /\ (Untouched(c) <=> Untouched(ctx))
          /\ "string" \in Bodies
      BY <1>1, StatusIs, MarksX DEF Bodies
    <2> HIDE DEF c
    <2> QED
      BY <1>1, <1>2, <2>1, <2>2, getFinalizedResponseX, KeepsX
  <1>11. ASSUME Deliver PROVE XInv' /\ WireInv'
    <2> DEFINE response == ctx'.objects[ctx'.res]
    <2>1. /\ UNCHANGED lastX /\ ctx' = Final(ctx, phase = "error")
          /\ wire' = Written(response, ctx.socket)
      BY <1>11 DEF Deliver
    <2>2. IsContext(ctx') /\ ctx'.res # 0
      BY <1>1, <2>1, FinalIs
    <2>3. response \in Responses
      BY <2>2, FieldsAre
    <2>4. wire'.headers.x = response.headers.x
      BY <2>1, <2>3, WrittenX
    <2>5. response.headers.x = XOf(ctx')
      BY <2>2 DEF XOf
    <2>6. lastX # 0 => XOf(ctx') = XOf(ctx)
      BY <1>1, <1>2, <2>1, FinalX
    <2> QED
      BY <2>1, <2>4, <2>5, <2>6 DEF XInv, WireInv
  <1>12. ASSUME NextRequest PROVE XInv' /\ WireInv'
    BY <1>12 DEF NextRequest, Begins, XInv, WireInv
  <1> QED
    BY <1>3, <1>4, <1>5, <1>6, <1>7, <1>8, <1>9, <1>10, <1>11, <1>12 DEF Next

(* A header set through ctx.header() or the adapter reaches the client in   *)
(* its last value, whichever replies, redirects, errors and native          *)
(* responses come before or after it (finalizeResponse()).                  *)
THEOREM HeadersAlwaysSurvive == Spec => []HeadersSurvive
  <1>1. Init => XInv /\ WireInv
    BY DEF Init, Begins, XInv, WireInv
  <1>2. IInv /\ XInv /\ WireInv /\ [Next]_vars => XInv' /\ WireInv'
    <2> SUFFICES ASSUME IInv, XInv, WireInv, [Next]_vars PROVE XInv' /\ WireInv'
      OBVIOUS
    <2>1. CASE UNCHANGED vars
      BY <2>1 DEF vars, requestVars, XInv, WireInv
    <2> QED
      BY <2>1, StepX
  <1>3. XInv /\ WireInv => HeadersSurvive
    BY DEF XInv, WireInv, HeadersSurvive
  <1> QED
    BY <1>1, <1>2, <1>3, Inductive, PTL DEF Spec

-----------------------------------------------------------------------------
(* The last reply wins, and a length is that of its body.                   *)

(* Building a response leaves what the context says of its finalization.    *)
Follows(c, d) ==
    /\ IsContext(d) /\ Len(d.objects) >= Len(c.objects)
    /\ d.response = c.response /\ d.source = c.source /\ d.status = c.status

(* No header says a length.                                                 *)
Plain(c) ==
    /\ c.prepared.length = 0
    /\ \A i \in 1..Len(c.objects) : c.objects[i].headers.length = 0

(* One call after another.                                                  *)
LEMMA FollowsOn ==
    ASSUME NEW c, NEW d, NEW e, IsContext(c), Follows(c, d), Follows(d, e)
    PROVE  Follows(c, e)
  <1>1. Len(c.objects) \in Nat /\ Len(d.objects) \in Nat /\ Len(e.objects) \in Nat
    BY FieldsAre DEF Follows
  <1> QED
    BY <1>1 DEF Follows

(* What the classes and operators leave of status, body, type and length.   *)
LEMMA ResponseHas ==
    ASSUME NEW status, NEW body, NEW headers \in Headers, NEW cache
    PROVE  /\ Response(status, body, headers, cache).status = status
           /\ Response(status, body, headers, cache).body = body
           /\ Response(status, body, headers, cache).headers.length = headers.length
           /\ headers.type # "none" =>
                  Response(status, body, headers, cache).headers.type = headers.type
  BY DEF Response, Headers

LEMMA WithHeaderHas ==
    ASSUME NEW response \in Responses, NEW name \in {"type", "x", "length"}, NEW v
    PROVE  LET r == WithHeader(response, name, v)
           IN  /\ r.status = response.status /\ r.body = response.body
               /\ name # "type" => r.headers.type = response.headers.type
               /\ r.headers.length = IF name = "length" THEN v ELSE response.headers.length
  <1>1. response.headers \in Headers
    BY DEF Responses
  <1> DEFINE headers == [response.headers EXCEPT ![name] = v]
             cache == IF response.cache = "native" THEN response.cache ELSE "Headers"
  <1>2. /\ headers.length = IF name = "length" THEN v ELSE response.headers.length
        /\ name # "type" => headers.type = response.headers.type
    BY <1>1 DEF Headers
  <1>3. WithHeader(response, name, v) =
            [response EXCEPT !.headers = headers, !.shared = FALSE, !.cache = cache]
    BY DEF WithHeader, Responses
  <1> HIDE DEF headers, cache
  <1>4. /\ WithHeader(response, name, v).headers = headers
        /\ WithHeader(response, name, v).status = response.status
        /\ WithHeader(response, name, v).body = response.body
    BY <1>3 DEF Responses
  <1> QED
    BY <1>2, <1>4

LEMMA NewFollows ==
    ASSUME NEW c, IsContext(c), NEW r \in Responses
    PROVE  /\ Follows(c, New(c, r)) /\ Newest(New(c, r)) = Len(c.objects) + 1
           /\ New(c, r).prepared = c.prepared
           /\ \A i \in 1..Len(c.objects) : New(c, r).objects[i] = c.objects[i]
           /\ r.headers.length = 0 /\ Plain(c) => Plain(New(c, r))
  <1> DEFINE d == New(c, r)
  <1>1. c \in Contexts /\ c.objects \in Seq(Responses) /\ Len(c.objects) \in Nat
    BY FieldsAre
  <1>2. /\ d.objects = Append(c.objects, r) /\ d.source = c.source
        /\ d.status = c.status /\ d.prepared = c.prepared
    BY <1>1 DEF New, Contexts
  <1>3. IsContext(d) /\ d.response = c.response /\ Newest(d) = Len(c.objects) + 1
    BY NewIs
  <1> HIDE DEF d
  <1>4. Len(d.objects) = Len(c.objects) + 1
    BY <1>1, <1>2
  <1>5. /\ \A i \in 1..Len(c.objects) : d.objects[i] = c.objects[i]
        /\ d.objects[Len(c.objects) + 1] = r
    BY <1>1, <1>2
  <1>6. ASSUME NEW i \in 1..Len(d.objects) PROVE i \in 1..Len(c.objects) \/ i = Len(c.objects) + 1
    BY <1>1, <1>4
  <1>7. r.headers.length = 0 /\ Plain(c) => Plain(d)
    BY <1>2, <1>5, <1>6 DEF Plain
  <1> QED
    BY <1>1, <1>2, <1>3, <1>4, <1>5, <1>7 DEF Follows, d

(* What changes neither objects nor prepared headers keeps lengths.         *)
LEMMA SameLengths ==
    ASSUME NEW c, NEW d, d.objects = c.objects, d.prepared = c.prepared
    PROVE  Plain(c) => Plain(d)
  BY DEF Plain

LEMMA MarksFollow ==
    ASSUME NEW c, IsContext(c)
    PROVE  /\ Follows(c, Touched(c)) /\ (Plain(c) => Plain(Touched(c)))
           /\ Follows(c, Marked(c)) /\ (Plain(c) => Plain(Marked(c)))
           /\ Marked(c).finalized = c.finalized
  <1>1. c \in Contexts /\ Len(c.objects) \in Nat
    BY FieldsAre
  <1>2. /\ Touched(c).objects = c.objects /\ Touched(c).prepared = c.prepared
        /\ Touched(c).response = c.response /\ Touched(c).source = c.source
        /\ Touched(c).status = c.status
    BY <1>1 DEF Touched, Contexts
  <1>3. /\ Marked(c).objects = c.objects /\ Marked(c).prepared = c.prepared
        /\ Marked(c).response = c.response /\ Marked(c).source = c.source
        /\ Marked(c).status = c.status /\ Marked(c).finalized = c.finalized
    BY <1>1 DEF Marked, Contexts
  <1>4. Follows(c, Touched(c)) /\ Follows(c, Marked(c))
    BY <1>1, <1>2, <1>3, SetIs DEF Follows
  <1> QED
    BY <1>2, <1>3, <1>4, SameLengths

LEMMA WithResFollows ==
    ASSUME NEW c, IsContext(c), NEW i \in 1..Len(c.objects)
    PROVE  Follows(c, WithRes(c, i)) /\ (Plain(c) => Plain(WithRes(c, i)))
  <1>1. c \in Contexts /\ Len(c.objects) \in Nat
    BY FieldsAre
  <1>2. /\ WithRes(c, i).objects = c.objects /\ WithRes(c, i).prepared = c.prepared
        /\ WithRes(c, i).response = c.response /\ WithRes(c, i).source = c.source
        /\ WithRes(c, i).status = c.status
    BY <1>1 DEF WithRes, Contexts
  <1> QED
    BY <1>1, <1>2, WithResIs, SameLengths DEF Follows

LEMMA SetOnFollows ==
    ASSUME NEW c, IsContext(c), NEW object \in 1..Len(c.objects),
           NEW name \in {"type", "x", "length"}, NEW v,
           v \in (IF name = "type" THEN Types ELSE Nat)
    PROVE  LET d == SetOn(c, object, name, v)
           IN  /\ Follows(c, d) /\ d.res = c.res /\ Len(d.objects) = Len(c.objects)
               /\ \A i \in 1..Len(c.objects) :
                     d.objects[i] = IF i = object THEN WithHeader(c.objects[i], name, v)
                                    ELSE c.objects[i]
               /\ name # "length" /\ Plain(c) => Plain(d)
  <1> DEFINE r == WithHeader(c.objects[object], name, v)
             d == SetOn(c, object, name, v)
  <1>1. /\ c \in Contexts /\ c.objects \in Seq(Responses) /\ Len(c.objects) \in Nat
        /\ c.objects[object] \in Responses
    BY FieldsAre
  <1>2. /\ d.objects = [c.objects EXCEPT ![object] = r] /\ d.res = c.res
        /\ d.response = c.response /\ d.source = c.source /\ d.status = c.status
        /\ d.prepared = c.prepared
    BY <1>1 DEF SetOn, Contexts
  <1>3. IsContext(d) /\ Len(d.objects) = Len(c.objects)
    BY SetOnIs
  <1>4. name # "length" => r.headers.length = c.objects[object].headers.length
    BY <1>1, WithHeaderHas
  <1> HIDE DEF d, r
  <1>5. \A i \in 1..Len(c.objects) : d.objects[i] = IF i = object THEN r ELSE c.objects[i]
    BY <1>1, <1>2
  <1>6. name # "length" /\ Plain(c) => Plain(d)
    BY <1>2, <1>3, <1>4, <1>5 DEF Plain
  <1>7. Follows(c, d)
    BY <1>1, <1>2, <1>3 DEF Follows
  <1> QED
    BY <1>2, <1>3, <1>5, <1>6, <1>7 DEF d, r

LEMMA ReadResFollows ==
    ASSUME NEW c, IsContext(c)
    PROVE  /\ Follows(c, ReadRes(c)) /\ (Plain(c) => Plain(ReadRes(c)))
           /\ c.res # 0 => ReadRes(c) = Touched(c)
  <1>1. CASE c.res # 0
    BY <1>1, MarksFollow DEF ReadRes
  <1>2. CASE c.res = 0
    <2> DEFINE r == Response(200, "null", c.prepared, "native")
               created == New(c, r)
               d == WithRes(created, Newest(created))
    <2>1. /\ 200 \in Nat /\ "null" \in Sent /\ "native" \in Caches /\ c.prepared \in Headers
      BY FieldsAre DEF Sent, Caches
    <2>2. r \in Responses /\ r.headers.length = c.prepared.length
      BY <2>1, ResponseIs, ResponseHas
    <2>3. ReadRes(c) = Touched(d)
      BY <1>2 DEF ReadRes
    <2> HIDE DEF r
    <2>4. /\ IsContext(created) /\ Newest(created) \in 1..Len(created.objects)
          /\ Follows(c, created) /\ (Plain(c) => Plain(created))
      <3>1. Plain(c) => r.headers.length = 0
        BY <2>2 DEF Plain
      <3> QED
        BY <2>2, <3>1, NewIs, NewFollows
    <2> HIDE DEF created
    <2>5. IsContext(d) /\ Follows(created, d) /\ (Plain(created) => Plain(d))
      BY <2>4, WithResFollows DEF Follows
    <2> HIDE DEF d
    <2>6. Follows(d, Touched(d)) /\ (Plain(d) => Plain(Touched(d)))
      BY <2>5, MarksFollow
    <2>7. Follows(c, d)
      BY <2>4, <2>5, FollowsOn
    <2> QED
      BY <1>2, <2>3, <2>4, <2>5, <2>6, <2>7, FollowsOn
  <1> QED
    BY <1>1, <1>2

-----------------------------------------------------------------------------
(* What buildResponse() makes of a context has its status, and the body; an *)
(* error stays JSON, and a length is a file's.                              *)

(* A newest response, made of c.                                            *)
Makes(c, d, bodies) ==
    /\ Follows(c, d) /\ Len(d.objects) > Len(c.objects)
    /\ d.objects[Newest(d)].status = c.status
    /\ d.objects[Newest(d)].body \in bodies

LEMMA MakesOn ==
    ASSUME NEW c, NEW d, NEW e, NEW bodies, IsContext(c), Follows(c, d), Makes(d, e, bodies)
    PROVE  Makes(c, e, bodies)
  <1>1. Len(c.objects) \in Nat /\ Len(d.objects) \in Nat /\ Len(e.objects) \in Nat
    BY FieldsAre DEF Follows, Makes
  <1>2. Follows(c, e)
    BY FollowsOn DEF Makes
  <1> QED
    BY <1>1, <1>2 DEF Follows, Makes

(* The builders.                                                            *)
LEMMA newResponseMakes ==
    ASSUME NEW c, IsContext(c), NEW body \in Sent, NEW light \in BOOLEAN
    PROVE  LET d == newResponse(c, body, light)
           IN  /\ Makes(c, d, {body}) /\ (Plain(c) => Plain(d))
               /\ c.res # 0 =>
                     d.objects[Newest(d)].headers.length = HeadersOf(c).length
               /\ c.res # 0 /\ HeadersOf(c).type # "none" =>
                     d.objects[Newest(d)].headers.type = HeadersOf(c).type
  <1> DEFINE headers == IF c.res # 0 THEN HeadersOf(c) ELSE c.prepared
             cache == IF light /\ c.socket /\ body # "null" THEN "Headers" ELSE "native"
             r == Response(c.status, body, headers, cache)
             d == New(c, r)
  <1>1. headers \in Headers /\ cache \in Caches
    BY HeadersOfIs, FieldsAre DEF Caches
  <1>2. newResponse(c, body, light) = d
    BY DEF newResponse
  <1>3. Plain(c) => headers.length = 0
    BY FieldsAre DEF Plain, HeadersOf
  <1>4. c.res # 0 => headers = HeadersOf(c)
    OBVIOUS
  <1> HIDE DEF headers, cache
  <1>5. /\ r \in Responses /\ r.status = c.status /\ r.body = body
        /\ r.headers.length = headers.length
        /\ headers.type # "none" => r.headers.type = headers.type
    BY <1>1, ResponseIs, ResponseHas, FieldsAre
  <1> HIDE DEF r
  <1>6. /\ Follows(c, d) /\ Newest(d) = Len(c.objects) + 1 /\ d.objects[Newest(d)] = r
        /\ r.headers.length = 0 /\ Plain(c) => Plain(d)
    BY <1>5, NewIs, NewFollows
  <1>7. Len(d.objects) > Len(c.objects)
    BY <1>6, FieldsAre DEF Newest
  <1> HIDE DEF d
  <1>8. Plain(c) => Plain(d)
    BY <1>3, <1>5, <1>6
  <1>9. Makes(c, d, {body})
    BY <1>5, <1>6, <1>7 DEF Makes
  <1> QED
    BY <1>2, <1>4, <1>5, <1>6, <1>8, <1>9

LEMMA TypeUnlessSetFollows ==
    ASSUME NEW c, IsContext(c), c.res # 0, NEW type \in Types, NEW set
    PROVE  LET d == TypeUnlessSet(c, type, set)
           IN  Follows(c, d) /\ d.res = c.res /\ (Plain(c) => Plain(d))
  <1>1. c.res \in 1..Len(c.objects) /\ Len(c.objects) \in Nat
    BY FieldsAre
  <1>2. Follows(c, c)
    BY <1>1 DEF Follows
  <1>3. LET d == SetOn(c, c.res, "type", type)
        IN  Follows(c, d) /\ d.res = c.res /\ (Plain(c) => Plain(d))
    BY <1>1, SetOnFollows
  <1> QED
    BY <1>2, <1>3 DEF TypeUnlessSet

LEMMA StreamsMake ==
    ASSUME NEW c, IsContext(c)
    PROVE  /\ LET d == createBufferResponse(c)
              IN  Makes(c, d, {"buffer"}) /\ (Plain(c) => Plain(d))
           /\ LET d == createStreamResponse(c)
              IN  Makes(c, d, {"stream"}) /\ (Plain(c) => Plain(d))
  <1> DEFINE read == ReadRes(c)
  <1>1. /\ IsContext(read) /\ read.res # 0
        /\ Follows(c, read) /\ (Plain(c) => Plain(read))
    BY ReadResIs, ReadResFollows, FieldsAre
  <1> HIDE DEF read
  <1>2. "octet" \in Types /\ {"buffer", "stream"} \subseteq Sent
    BY DEF Types, Sent, Bodies
  <1>3. ASSUME NEW set, NEW body \in {"buffer", "stream"}, NEW light \in BOOLEAN
        PROVE  LET d == newResponse(TypeUnlessSet(read, "octet", set), body, light)
               IN  Makes(c, d, {body}) /\ (Plain(c) => Plain(d))
    <2> DEFINE typed == TypeUnlessSet(read, "octet", set)
    <2>1. Follows(read, typed) /\ (Plain(read) => Plain(typed))
      BY <1>1, <1>2, TypeUnlessSetFollows
    <2> HIDE DEF typed
    <2>2. Follows(c, typed) /\ IsContext(typed)
      BY <1>1, <2>1, FollowsOn DEF Follows
    <2>3. LET d == newResponse(typed, body, light)
          IN  Makes(typed, d, {body}) /\ (Plain(typed) => Plain(d))
      BY <1>2, <2>2, newResponseMakes
    <2> QED
      BY <1>1, <2>1, <2>2, <2>3, MakesOn DEF typed
  <1> QED
    BY <1>3 DEF createBufferResponse, createStreamResponse, read

LEMMA FileMakes ==
    ASSUME NEW c, IsContext(c)
    PROVE  LET d == createStreamableFileResponse(c)
           IN  /\ Makes(c, d, {"file"})
               /\ Plain(c) => d.objects[Newest(d)].headers.length = LengthOf["file"]
  <1> DEFINE read == ReadRes(c)
             typed == TypeUnlessSet(read, "file", {"none"})
             sized == IF HeadersOf(typed).length # 0 THEN typed
                      ELSE SetOn(typed, typed.res, "length", LengthOf["file"])
  <1>1. /\ IsContext(read) /\ read.res # 0
        /\ Follows(c, read) /\ (Plain(c) => Plain(read))
    BY ReadResIs, ReadResFollows, FieldsAre
  <1>2. createStreamableFileResponse(c) = newResponse(sized, "file", FALSE)
    BY DEF createStreamableFileResponse
  <1> HIDE DEF read
  <1>3. "file" \in Types /\ "file" \in Sent /\ LengthOf["file"] \in Nat
    BY DEF Types, Sent, Bodies, LengthOf
  <1>4. Follows(read, typed) /\ typed.res = read.res /\ (Plain(read) => Plain(typed))
    BY <1>1, <1>3, TypeUnlessSetFollows
  <1> HIDE DEF typed
  <1>5. IsContext(typed) /\ typed.res \in 1..Len(typed.objects) /\ Follows(c, typed)
    BY <1>1, <1>4, FollowsOn, FieldsAre DEF Follows
  <1>6. Len(typed.objects) \in Nat /\ typed.objects[typed.res] \in Responses
    BY <1>5, FieldsAre
  <1>7. Plain(c) => HeadersOf(typed).length = 0
    BY <1>1, <1>4, <1>5 DEF Plain, HeadersOf
  <1> DEFINE length == LengthOf["file"]
             set == SetOn(typed, typed.res, "length", length)
             r == WithHeader(typed.objects[typed.res], "length", length)
  <1>8. r.headers.length = length
    BY <1>6, WithHeaderHas
  <1> HIDE DEF r
  <1>9. /\ Follows(typed, set) /\ set.res = typed.res /\ set.objects[typed.res] = r
    BY <1>3, <1>5, SetOnFollows DEF r
  <1>10. sized \in {typed, set} /\ (Plain(c) => sized = set)
    BY <1>7
  <1> HIDE DEF set, sized
  <1>11. IsContext(sized) /\ Follows(typed, sized) /\ sized.res = typed.res /\ sized.res # 0
    BY <1>1, <1>4, <1>5, <1>6, <1>9, <1>10 DEF Follows
  <1>12. Plain(c) => HeadersOf(sized).length = length
    BY <1>8, <1>9, <1>10 DEF HeadersOf
  <1>13. Follows(c, sized)
    BY <1>5, <1>11, FollowsOn
  <1>14. LET d == newResponse(sized, "file", FALSE)
         IN  /\ Makes(sized, d, {"file"})
             /\ d.objects[Newest(d)].headers.length = HeadersOf(sized).length
    BY <1>3, <1>11, newResponseMakes
  <1> QED
    BY <1>2, <1>12, <1>13, <1>14, MakesOn DEF length

(* A JSON type stays.                                                       *)
LEMMA SerializedMakes ==
    ASSUME NEW c, IsContext(c), NEW body \in Sent
    PROVE  /\ LET d == createSerializedResponse(c, body)
              IN  /\ Makes(c, d, {body}) /\ (Plain(c) => Plain(d))
                  /\ c.res # 0 /\ HeadersOf(c).type = "json" =>
                         d.objects[Newest(d)].headers.type = "json"
           /\ LET d == createPlainResponse(c)
              IN  Makes(c, d, {"plain"}) /\ (Plain(c) => Plain(d))
  <1> DEFINE built == newResponse(c, body, TRUE)
             typed == SetOn(built, Newest(built), "type", "json")
             r == WithHeader(built.objects[Newest(built)], "type", "json")
  <1>1. /\ Makes(c, built, {body}) /\ (Plain(c) => Plain(built))
        /\ c.res # 0 /\ HeadersOf(c).type # "none" =>
               built.objects[Newest(built)].headers.type = HeadersOf(c).type
    BY newResponseMakes
  <1>2. LET d == createPlainResponse(c) IN Makes(c, d, {"plain"}) /\ (Plain(c) => Plain(d))
    BY newResponseMakes DEF createPlainResponse, Sent
  <1>3. createSerializedResponse(c, body) =
            IF built.objects[Newest(built)].headers.type \in {"none", "text"}
            THEN typed ELSE built
    BY DEF createSerializedResponse
  <1> HIDE DEF built
  <1>4. /\ IsContext(built) /\ Len(built.objects) \in Nat /\ Len(c.objects) \in Nat
        /\ Newest(built) \in 1..Len(built.objects) /\ "json" \in Types
    BY <1>1, FieldsAre DEF Makes, Follows, Newest, Types
  <1>5. built.objects[Newest(built)] \in Responses
    BY <1>4, FieldsAre
  <1>6. /\ r.status = built.objects[Newest(built)].status
        /\ r.body = built.objects[Newest(built)].body
    BY <1>5, WithHeaderHas
  <1> HIDE DEF r
  <1>7. /\ Follows(built, typed) /\ Len(typed.objects) = Len(built.objects)
        /\ typed.objects[Newest(built)] = r
        /\ (Plain(built) => Plain(typed))
    BY <1>4, SetOnFollows DEF r
  <1> HIDE DEF typed
  <1>8. Newest(typed) = Newest(built)
    BY <1>7 DEF Newest
  <1>9. Follows(c, typed)
    BY <1>1, <1>7, FollowsOn DEF Makes
  <1>10. Makes(c, typed, {body})
    BY <1>1, <1>6, <1>7, <1>8, <1>9 DEF Makes
  <1> QED
    BY <1>1, <1>2, <1>3, <1>7, <1>10

(* An object is sent as JSON or as a string, an error, whose type is set    *)
(* before, as JSON.                                                         *)
SentAs(body) == IF body \in {"object", "cyclic"} THEN {body, "plain"} ELSE {body}

LEMMA JsonMakes ==
    ASSUME NEW c, IsContext(c), NEW body \in Sent,
           body = "error" => c.res # 0 /\ HeadersOf(c).type = "json"
    PROVE  LET d == createJsonResponse(c, body)
           IN  /\ Makes(c, d, {body, "plain"}) /\ (Plain(c) => Plain(d))
               /\ body = "error" => /\ Makes(c, d, {body})
                                    /\ d.objects[Newest(d)].headers.type = "json"
  <1> DEFINE read == ReadRes(c)
             serialized == createSerializedResponse(c, body)
             e == createSerializedResponse(read, body)
             p == createPlainResponse(read)
             q == createPlainResponse(serialized)
  <1>1. /\ IsContext(read) /\ Follows(c, read) /\ (Plain(c) => Plain(read))
    BY ReadResIs, ReadResFollows
  <1>2. body = "error" => read.res # 0 /\ HeadersOf(read).type = "json"
    BY ReadResFollows, SetIs DEF HeadersOf
  <1>3. createJsonResponse(c, body) =
            IF c.marked THEN IF UsesJson(HeadersOf(read).type) THEN e ELSE p
            ELSE IF UsesJson(serialized.objects[Newest(serialized)].headers.type)
                 THEN serialized ELSE q
    BY DEF createJsonResponse
  <1>4. /\ Makes(c, serialized, {body}) /\ (Plain(c) => Plain(serialized))
        /\ body = "error" => serialized.objects[Newest(serialized)].headers.type = "json"
    BY SerializedMakes
  <1> HIDE DEF read, serialized
  <1>5. /\ Makes(read, e, {body}) /\ (Plain(read) => Plain(e))
        /\ body = "error" => e.objects[Newest(e)].headers.type = "json"
    BY <1>1, <1>2, SerializedMakes
  <1>6. Makes(read, p, {"plain"}) /\ (Plain(read) => Plain(p))
    BY <1>1, SerializedMakes
  <1>7. IsContext(serialized) /\ Follows(c, serialized)
    BY <1>4 DEF Makes, Follows
  <1>8. Makes(serialized, q, {"plain"}) /\ (Plain(serialized) => Plain(q))
    BY <1>7, SerializedMakes
  <1> HIDE DEF e, p, q
  <1>9. Makes(c, e, {body}) /\ Makes(c, p, {"plain"}) /\ Makes(c, q, {"plain"})
    BY <1>1, <1>5, <1>6, <1>7, <1>8, MakesOn
  <1>10. UsesJson("json")
    BY DEF UsesJson
  <1>11. ASSUME NEW d, Makes(c, d, {body}) \/ Makes(c, d, {"plain"})
         PROVE  Makes(c, d, {body, "plain"})
    BY <1>11 DEF Makes
  <1>12. /\ Makes(c, createJsonResponse(c, body), {body, "plain"})
         /\ Plain(c) => Plain(createJsonResponse(c, body))
    BY <1>1, <1>3, <1>4, <1>5, <1>6, <1>8, <1>9, <1>11
  <1>13. ASSUME body = "error"
         PROVE  LET d == createJsonResponse(c, body)
                IN  Makes(c, d, {body}) /\ d.objects[Newest(d)].headers.type = "json"
    BY <1>2, <1>3, <1>4, <1>5, <1>9, <1>10, <1>13
  <1> QED
    BY <1>12, <1>13

LEMMA GenericMakes ==
    ASSUME NEW c, IsContext(c), NEW body \in {"string", "object", "error", "cyclic"},
           body = "error" => c.res # 0 /\ HeadersOf(c).type = "json"
    PROVE  LET d == Generic(c, body)
           IN  /\ Makes(c, d, SentAs(body)) /\ (Plain(c) => Plain(d))
               /\ body = "error" => d.objects[Newest(d)].headers.type = "json"
  <1>1. body \in Sent
    BY DEF Sent, Bodies
  <1>2. CASE body = "cyclic"
    <2> DEFINE read == ReadRes(c)
               d == createPlainResponse(read)
    <2>1. /\ IsContext(read) /\ Follows(c, read) /\ (Plain(c) => Plain(read))
      BY ReadResIs, ReadResFollows
    <2>2. Generic(c, body) = d
      BY <1>2 DEF Generic
    <2> HIDE DEF read
    <2>3. Makes(read, d, {"plain"}) /\ (Plain(read) => Plain(d))
      BY <1>1, <2>1, SerializedMakes
    <2> HIDE DEF d
    <2>4. Makes(c, d, {"plain"})
      BY <2>1, <2>3, MakesOn
    <2> QED
      BY <1>2, <2>1, <2>2, <2>3, <2>4 DEF Makes, SentAs
  <1>3. CASE body \in {"object", "error"}
    <2>1. Generic(c, body) = createJsonResponse(c, body)
      BY <1>3 DEF Generic, Objects
    <2> QED
      BY <1>1, <1>3, <2>1, JsonMakes DEF SentAs
  <1>4. CASE body = "string"
    <2>1. Generic(c, body) = newResponse(c, body, TRUE)
      BY <1>4 DEF Generic, Objects
    <2> QED
      BY <1>1, <1>4, <2>1, newResponseMakes DEF SentAs
  <1> QED
    BY <1>2, <1>3, <1>4

(* A direct reply has the status that the tracking knows.                   *)
LEMMA DirectMakes ==
    ASSUME jsonHeaders = JSON, NEW c, IsContext(c), c.status = c.statusCode,
           NEW body \in {"string", "object", "error", "cyclic"}
    PROVE  LET d == buildDirectResponse(c, body)
           IN  Makes(c, d, {body}) /\ (Plain(c) => Plain(d))
  <1>1. NoHeaders \in Headers /\ JSON \in Headers
    BY DEF NoHeaders, JSON, Headers, Types
  <1>2. NoHeaders.length = 0 /\ JSON.length = 0
    BY DEF NoHeaders, JSON
  <1>3. c.statusCode \in Nat /\ body \in Sent /\ "object" \in Sent /\ Len(c.objects) \in Nat
    BY FieldsAre DEF Sent, Bodies
  <1>4. \E r \in Responses : /\ buildDirectResponse(c, body) = New(c, r)
                             /\ r.status = c.status /\ r.body = body /\ r.headers.length = 0
    <2>1. CASE body \in Objects
      <3> DEFINE cache == IF c.socket THEN "plain" ELSE "native"
                 reply == Response(c.statusCode, "object", JSON, cache)
                 r == [reply EXCEPT !.body = body]
      <3>1. cache \in Caches
        BY DEF Caches
      <3>2. JsonReply(c) = reply
        BY DEF JsonReply
      <3> HIDE DEF cache
      <3>3. reply \in Responses /\ reply.status = c.status /\ reply.headers.length = 0
        BY <1>1, <1>2, <1>3, <3>1, ResponseIs, ResponseHas
      <3>4. buildDirectResponse(c, body) = New(c, r)
        BY <2>1, <3>2 DEF buildDirectResponse
      <3> HIDE DEF reply
      <3>5. r \in Responses /\ r.status = c.status /\ r.body = body /\ r.headers.length = 0
        BY <1>3, <3>3 DEF Responses
      <3> QED
        BY <3>4, <3>5
    <2>2. CASE body \notin Objects
      <3> DEFINE cache == IF c.socket THEN "undefined" ELSE "native"
                 r == Response(c.statusCode, body, NoHeaders, cache)
      <3>1. cache \in Caches
        BY DEF Caches
      <3>2. buildDirectResponse(c, body) = New(c, r)
        BY <2>2 DEF buildDirectResponse
      <3> HIDE DEF cache
      <3>3. r \in Responses /\ r.status = c.status /\ r.body = body /\ r.headers.length = 0
        BY <1>1, <1>2, <1>3, <3>1, ResponseIs, ResponseHas
      <3> HIDE DEF r
      <3> QED
        BY <3>2, <3>3
    <2> QED
      BY <2>1, <2>2
  <1>5. PICK r \in Responses : /\ buildDirectResponse(c, body) = New(c, r)
                               /\ r.status = c.status /\ r.body = body
                               /\ r.headers.length = 0
    BY <1>4
  <1> DEFINE d == New(c, r)
  <1>6. /\ Follows(c, d) /\ Newest(d) = Len(c.objects) + 1 /\ d.objects[Newest(d)] = r
        /\ (Plain(c) => Plain(d))
    BY <1>5, NewIs, NewFollows
  <1> HIDE DEF d
  <1>7. Len(d.objects) > Len(c.objects)
    BY <1>3, <1>6 DEF Newest
  <1> QED
    BY <1>5, <1>6, <1>7 DEF Makes, d

(* The response of a reply with a body is new; that of an error needs the   *)
(* type that reply() sets, which also touches the context.                  *)
LEMMA BuildResponseMakes ==
    ASSUME jsonHeaders = JSON, NEW c, IsContext(c), Untouched(c) => c.status = c.statusCode,
           NEW body \in Bodies, body # "nothing",
           body = "error" => c.touched /\ c.res # 0 /\ HeadersOf(c).type = "json"
    PROVE  LET b == buildResponse(c, body)
               r == b.c.objects[b.object]
           IN  /\ Follows(c, b.c) /\ b.object > Len(c.objects) /\ b.object \in 1..Len(b.c.objects)
               /\ r.status = IF body = "fetch" THEN FetchResponse.status ELSE c.status
               /\ r.body \in SentAs(body)
               /\ body = "error" => r.headers.type = "json"
               /\ body # "file" /\ Plain(c) => Plain(b.c)
               /\ body = "file" => b.includesContextHeaders
               /\ body = "file" /\ Plain(c) => r.headers.length = LengthOf["file"]
  <1> DEFINE b == buildResponse(c, body)
             r == b.c.objects[b.object]
  <1>1. Len(c.objects) \in Nat
    BY FieldsAre
  <1>2. CASE body = "fetch"
    <2> DEFINE made == New(c, FetchResponse)
    <2>1. FetchResponse \in Responses
      BY DEF FetchResponse, Responses, Headers, Types, Caches, Sent, Bodies
    <2>2. FetchResponse.body = "fetch" /\ FetchResponse.headers.length = 0
      BY DEF FetchResponse
    <2>3. b.c = made /\ b.object = Newest(made)
      BY <1>2 DEF buildResponse, Built
    <2>4. /\ Follows(c, made) /\ Newest(made) = Len(c.objects) + 1
          /\ Newest(made) \in 1..Len(made.objects)
          /\ made.objects[Newest(made)] = FetchResponse /\ (Plain(c) => Plain(made))
      BY <2>1, <2>2, NewIs, NewFollows
    <2> HIDE DEF made, b
    <2> QED
      BY <1>1, <1>2, <2>2, <2>3, <2>4 DEF b, SentAs
  <1>3. ASSUME NEW d, Makes(c, d, SentAs(body)), b = fromContext(d), body # "fetch",
               body = "error" => d.objects[Newest(d)].headers.type = "json",
               body # "file" /\ Plain(c) => Plain(d),
               body = "file" /\ Plain(c) =>
                   d.objects[Newest(d)].headers.length = LengthOf["file"]
        PROVE  /\ Follows(c, b.c) /\ b.object > Len(c.objects) /\ b.object \in 1..Len(b.c.objects)
               /\ r.status = c.status /\ r.body \in SentAs(body)
               /\ body = "error" => r.headers.type = "json"
               /\ body # "file" /\ Plain(c) => Plain(b.c)
               /\ b.includesContextHeaders
               /\ body = "file" /\ Plain(c) => r.headers.length = LengthOf["file"]
    <2>1. b.c = d /\ b.object = Newest(d) /\ b.includesContextHeaders
      BY <1>3 DEF fromContext, Built
    <2>2. Follows(c, d) /\ Newest(d) > Len(c.objects) /\ Len(d.objects) \in Nat
      BY <1>3, FieldsAre DEF Makes, Follows, Newest
    <2>3. Newest(d) \in 1..Len(d.objects)
      BY <1>1, <2>2 DEF Newest
    <2> HIDE DEF b
    <2> QED
      BY <1>3, <2>1, <2>2, <2>3 DEF Makes
  <1>4. CASE body \in {"file", "stream", "buffer"}
    <2>1. SentAs(body) = {body}
      BY <1>4 DEF SentAs
    <2> QED
      BY <1>3, <1>4, <2>1, StreamsMake, FileMakes DEF buildResponse
  <1>5. CASE body \in {"string", "object", "error", "cyclic"}
    <2>1. CASE Untouched(c)
      <3> DEFINE d == buildDirectResponse(c, body)
      <3>1. b = fromContext(d) /\ body # "error"
        BY <1>5, <2>1 DEF buildResponse, Untouched
      <3>2. Makes(c, d, {body}) /\ (Plain(c) => Plain(d))
        BY <1>5, <2>1, DirectMakes
      <3> HIDE DEF d
      <3>3. Makes(c, d, SentAs(body))
        BY <3>2 DEF Makes, SentAs
      <3> QED
        BY <1>3, <1>5, <3>1, <3>2, <3>3
    <2>2. CASE ~Untouched(c)
      <3>1. b = fromContext(Generic(c, body))
        BY <1>5, <2>2 DEF buildResponse
      <3> QED
        BY <1>3, <1>5, <3>1, GenericMakes
    <2> QED
      BY <2>1, <2>2
  <1> QED
    BY <1>2, <1>3, <1>4, <1>5 DEF Bodies

-----------------------------------------------------------------------------
(* Finalizing makes the new response the context's.                         *)

(* Equal but for x and how the headers are kept.                            *)
Resembles(r, s) ==
    /\ r.status = s.status /\ r.body = s.body
    /\ r.headers.type = s.headers.type /\ r.headers.length = s.headers.length

LEMMA SetResMakes ==
    ASSUME NEW c, IsContext(c), c.res # 0, NEW object \in 1..Len(c.objects)
    PROVE  LET d == SetRes(c, object)
               r == d.objects[d.res]
               s == c.objects[object]
           IN  /\ Follows(c, d) /\ (Plain(c) => Plain(d))
               /\ \A i \in 1..Len(c.objects) : d.objects[i] = c.objects[i]
               /\ r.status = s.status /\ r.body = s.body /\ r.headers.type = s.headers.type
               /\ r.headers.length = IF HeadersOf(c).length # 0 THEN HeadersOf(c).length
                                     ELSE s.headers.length
  <1> DEFINE s == c.objects[object]
             headers == Over(HeadersOf(c), s.headers)
             r == [s EXCEPT !.cache = "native", !.shared = FALSE, !.headers = headers]
             merged == New(c, r)
             e == WithRes(merged, Newest(merged))
             d == Finalized(e)
  <1>1. s \in Responses /\ HeadersOf(c) \in Headers /\ Len(c.objects) \in Nat
    BY FieldsAre, HeadersOfIs
  <1>2. s.headers \in Headers
    BY <1>1 DEF Responses
  <1>3. /\ headers \in Headers /\ headers.type = s.headers.type
        /\ headers.length = IF HeadersOf(c).length # 0 THEN HeadersOf(c).length
                            ELSE s.headers.length
    BY <1>1, <1>2, OverIs DEF Over, Headers
  <1>4. Plain(c) => HeadersOf(c).length = 0 /\ s.headers.length = 0
    <2>1. c.res \in 1..Len(c.objects)
      BY FieldsAre
    <2> QED
      BY <2>1 DEF Plain, HeadersOf
  <1>5. SetRes(c, object) = d
    BY <1>1 DEF SetRes, Responses
  <1> HIDE DEF headers
  <1>6. r \in Responses /\ r.status = s.status /\ r.body = s.body /\ r.headers = headers
    BY <1>1, <1>3 DEF Responses, Caches
  <1> HIDE DEF r, s
  <1>7. /\ Follows(c, merged) /\ Newest(merged) \in 1..Len(merged.objects)
        /\ merged.objects[Newest(merged)] = r
        /\ \A i \in 1..Len(c.objects) : merged.objects[i] = c.objects[i]
        /\ r.headers.length = 0 /\ Plain(c) => Plain(merged)
    BY <1>6, NewIs, NewFollows
  <1>8. Plain(c) => Plain(merged)
    BY <1>3, <1>4, <1>6, <1>7
  <1> HIDE DEF merged
  <1>9. /\ Follows(merged, e) /\ (Plain(merged) => Plain(e)) /\ e.res = Newest(merged)
        /\ e.objects = merged.objects /\ IsContext(e)
    BY <1>7, WithResIs, WithResFollows DEF Follows
  <1> HIDE DEF e
  <1>10. e.res # 0 /\ Len(e.objects) \in Nat
    BY <1>7, <1>9, FieldsAre
  <1>11. /\ IsContext(d) /\ d.objects = e.objects /\ d.res = e.res /\ d.response = e.response
    BY <1>9, <1>10, SetIs
  <1>12. d.source = e.source /\ d.status = e.status /\ d.prepared = e.prepared
    BY <1>9, FieldsAre DEF Finalized, Contexts
  <1> HIDE DEF d
  <1>13. Follows(e, d) /\ (Plain(e) => Plain(d))
    BY <1>10, <1>11, <1>12, SameLengths DEF Follows
  <1>14. Follows(c, d)
    BY <1>7, <1>9, <1>13, FollowsOn
  <1>15. d.objects[d.res] = r
    BY <1>7, <1>9, <1>11
  <1> QED
    BY <1>3, <1>5, <1>6, <1>7, <1>8, <1>9, <1>11, <1>13, <1>14, <1>15 DEF s

(* Either way of assigning ctx.res, and what finalizeResponse() records.    *)
LEMMA AssignedMakes ==
    ASSUME NEW c, IsContext(c), NEW object \in 1..Len(c.objects), NEW includes \in BOOLEAN
    PROVE  LET d == Assigned(c, object, includes)
               r == d.objects[d.res]
               s == c.objects[object]
           IN  /\ IsContext(d) /\ d.finalized /\ d.res # 0 /\ (Plain(c) => Plain(d))
               /\ r.status = s.status /\ r.body = s.body /\ r.headers.type = s.headers.type
               /\ includes => r = s
  <1>1. CASE includes
    <2> DEFINE e == WithRes(c, object)
    <2>1. /\ IsContext(e) /\ e.objects = c.objects /\ e.res = object /\ object # 0
          /\ (Plain(c) => Plain(e))
      BY WithResIs, WithResFollows, FieldsAre
    <2>2. Assigned(c, object, includes) = Finalized(e)
      BY <1>1 DEF Assigned
    <2> HIDE DEF e
    <2>3. /\ IsContext(Finalized(e)) /\ Finalized(e).finalized
          /\ Finalized(e).objects = e.objects /\ Finalized(e).res = e.res
      BY <2>1, SetIs
    <2>4. Finalized(e).prepared = e.prepared
      BY <2>1, FieldsAre DEF Finalized, Contexts
    <2>5. Plain(e) => Plain(Finalized(e))
      BY <2>3, <2>4, SameLengths
    <2> QED
      BY <2>1, <2>2, <2>3, <2>5
  <1>2. CASE ~includes
    <2> DEFINE read == ReadRes(c)
    <2>1. /\ IsContext(read) /\ Len(read.objects) >= Len(c.objects) /\ Len(c.objects) \in Nat
          /\ read.res \in 1..Len(read.objects) /\ (Plain(c) => Plain(read))
          /\ Len(read.objects) \in Nat
      BY ReadResIs, ReadResFollows, FieldsAre
    <2>2. read.objects[object] = c.objects[object]
      BY ReadResX
    <2>3. Assigned(c, object, includes) = SetRes(read, object)
      BY <1>2 DEF Assigned, Materialized
    <2> HIDE DEF read
    <2>4. object \in 1..Len(read.objects) /\ read.res # 0
      BY <2>1
    <2> DEFINE d == SetRes(read, object)
    <2>5. IsContext(d) /\ d.finalized /\ d.res # 0
      BY <2>1, <2>4, SetResIs, FieldsAre
    <2>6. /\ Plain(read) => Plain(d)
          /\ d.objects[d.res].status = read.objects[object].status
          /\ d.objects[d.res].body = read.objects[object].body
          /\ d.objects[d.res].headers.type = read.objects[object].headers.type
      BY <2>1, <2>4, SetResMakes
    <2> HIDE DEF d
    <2>7. Assigned(c, object, includes) = d
      BY <2>3 DEF d
    <2> QED
      BY <1>2, <2>1, <2>2, <2>5, <2>6, <2>7
  <1> QED
    BY <1>1, <1>2

LEMMA finalizeResponseMakes ==
    ASSUME NEW c, IsContext(c), NEW object \in 1..Len(c.objects), NEW includes \in BOOLEAN,
           object \notin {c.response, c.source}
    PROVE  LET d == finalizeResponse(c, object, includes)
               r == d.objects[d.res]
               s == c.objects[object]
           IN  /\ IsFinal(d) /\ d.response = d.res /\ (Plain(c) => Plain(d))
               /\ r.status = s.status /\ r.body = s.body /\ r.headers.type = s.headers.type
               /\ includes => r = s
  <1> DEFINE a == Assigned(c, object, includes)
             set == Touched(a)
             d == [set EXCEPT !.response = set.res, !.source = object]
  <1>1. finalizeResponse(c, object, includes) = d
    BY DEF finalizeResponse, AlreadyFinalized
  <1>2. IsFinal(finalizeResponse(c, object, includes))
    BY finalizeResponseIs
  <1>3. /\ IsContext(a) /\ a.finalized /\ a.res # 0 /\ (Plain(c) => Plain(a))
        /\ a.objects[a.res].status = c.objects[object].status
        /\ a.objects[a.res].body = c.objects[object].body
        /\ a.objects[a.res].headers.type = c.objects[object].headers.type
        /\ includes => a.objects[a.res] = c.objects[object]
    BY AssignedMakes
  <1> HIDE DEF a
  <1>4. /\ set \in Contexts /\ set.objects = a.objects /\ set.res = a.res
        /\ (Plain(a) => Plain(set))
    BY <1>3, SetIs, MarksFollow, FieldsAre
  <1> HIDE DEF set
  <1>5. /\ d.objects = set.objects /\ d.res = set.res /\ d.prepared = set.prepared
        /\ d.response = set.res
    BY <1>4 DEF Contexts
  <1> HIDE DEF d
  <1>6. Plain(set) => Plain(d)
    BY <1>5, SameLengths
  <1> QED
    BY <1>1, <1>2, <1>3, <1>4, <1>5, <1>6

-----------------------------------------------------------------------------
(* Replies.                                                                 *)

(* A reply that the context would send: it is ctx.res and the response that *)
(* was finalized last, or what a header made of that.                       *)
Sends(c, r) ==
    /\ IsFinal(c)
    /\ Resembles(c.objects[c.res], r) /\ Resembles(c.objects[c.response], r)

FitsReply(r, body, status) == Fits(r, [body |-> body, status |-> status])
StatusOf(c, body) == IF body = "fetch" THEN FetchResponse.status ELSE c.status

(* What a reply with a body leaves.                                         *)
LEMMA getFinalizedResponseMakes ==
    ASSUME jsonHeaders = JSON, NEW c, IsContext(c), Untouched(c) => c.status = c.statusCode,
           NEW body \in Bodies, body # "nothing",
           body = "error" => c.touched /\ c.res # 0 /\ HeadersOf(c).type = "json"
    PROVE  LET d == getFinalizedResponse(c, body)
               r == d.objects[d.res]
           IN  /\ Sends(d, r) /\ FitsReply(r, body, StatusOf(c, body))
               /\ body # "file" /\ Plain(c) => Plain(d)
               /\ body = "file" /\ Plain(c) => r.headers.length = LengthOf["file"]
  <1> DEFINE b == buildResponse(c, body)
             e == b.c
             o == b.object
             i == b.includesContextHeaders
             s == e.objects[o]
             d == finalizeResponse(e, o, i)
             r == d.objects[d.res]
  <1>1. getFinalizedResponse(c, body) = d
    BY DEF getFinalizedResponse
  <1>2. /\ Follows(c, e) /\ o > Len(c.objects) /\ o \in 1..Len(e.objects)
        /\ s.status = StatusOf(c, body) /\ s.body \in SentAs(body)
        /\ body = "error" => s.headers.type = "json"
        /\ body # "file" /\ Plain(c) => Plain(e)
        /\ body = "file" => i
        /\ body = "file" /\ Plain(c) => s.headers.length = LengthOf["file"]
    BY BuildResponseMakes DEF StatusOf
  <1>3. i \in BOOLEAN
    BY DEF buildResponse, Built, fromContext, Bodies
  <1> HIDE DEF b, e, o, i
  <1>4. o \notin {e.response, e.source} /\ IsContext(e)
    <2>1. c.response \in 0..Len(c.objects) /\ c.source \in 0..Len(c.objects)
          /\ Len(c.objects) \in Nat
      BY FieldsAre DEF IsContext
    <2> QED
      BY <1>2, <2>1 DEF Follows
  <1> HIDE DEF s
  <1>5. /\ IsFinal(d) /\ d.response = d.res /\ (Plain(e) => Plain(d))
        /\ r.status = s.status /\ r.body = s.body /\ r.headers.type = s.headers.type
        /\ i => r = s
    BY <1>2, <1>3, <1>4, finalizeResponseMakes DEF s
  <1> HIDE DEF d
  <1>6. Sends(d, r)
    BY <1>5 DEF Sends, Resembles
  <1>7. FitsReply(r, body, StatusOf(c, body))
    BY <1>2, <1>5 DEF FitsReply, Fits, SentAs
  <1> QED
    BY <1>1, <1>2, <1>5, <1>6, <1>7

(* reply(), and redirect().                                                 *)
LEMMA ReplyMakes ==
    ASSUME jsonHeaders = JSON, NEW c, IsContext(c), Untouched(c) => c.status = c.statusCode,
           NEW body \in Bodies, body # "nothing"
    PROVE  LET d == Reply(c, body)
               r == d.objects[d.res]
           IN  /\ Sends(d, r) /\ FitsReply(r, body, StatusOf(c, body))
               /\ body # "file" /\ Plain(c) => Plain(d)
               /\ body = "file" /\ Plain(c) => r.headers.length = LengthOf["file"]
  <1>1. CASE body # "error"
    <2>1. Reply(c, body) = getFinalizedResponse(c, body)
      BY <1>1 DEF Reply
    <2> QED
      BY <1>1, <2>1, getFinalizedResponseMakes
  <1>2. CASE body = "error"
    <2> DEFINE read == ReadRes(c)
               set == SetHeader(c, "type", "json")
               e == IF HeadersOf(read).type = "json" THEN read ELSE set
    <2>1. Reply(c, body) = getFinalizedResponse(e, body)
      BY <1>2 DEF Reply
    <2>2. /\ IsContext(read) /\ read.touched /\ read.res # 0
          /\ read.status = c.status /\ (Plain(c) => Plain(read))
      BY ReadResIs, ReadResFollows, FieldsAre DEF Follows
    <2>3. /\ IsContext(set) /\ set.touched /\ set.res # 0 /\ set.status = c.status
          /\ HeadersOf(set).type = "json" /\ (Plain(c) => Plain(set))
      <3> DEFINE m == ReadRes(Marked(c))
                 w == WithHeader(m.objects[m.res], "type", "json")
      <3>1. set = SetOn(m, m.res, "type", "json") /\ "json" \in Types
        BY DEF SetHeader, Types
      <3>2. IsContext(Marked(c)) /\ Marked(c).status = c.status /\ (Plain(c) => Plain(Marked(c)))
        BY MarksFollow, SetIs DEF Follows
      <3>3. /\ IsContext(m) /\ m.res \in 1..Len(m.objects) /\ m.status = c.status
            /\ m.touched /\ (Plain(c) => Plain(m)) /\ m.res # 0
        BY <3>2, ReadResIs, ReadResFollows, FieldsAre DEF Follows
      <3> HIDE DEF m
      <3>4. m.objects[m.res] \in Responses
        BY <3>3, FieldsAre
      <3>5. w.headers.type = "json"
        <4>1. m.objects[m.res].headers \in Headers
          BY <3>4 DEF Responses
        <4> QED
          BY <3>4, <4>1 DEF WithHeader, Responses, Headers
      <3> DEFINE s == SetOn(m, m.res, "type", "json")
      <3>6. /\ Follows(m, s) /\ s.res = m.res /\ (Plain(m) => Plain(s))
            /\ s.objects[m.res] = w
        BY <3>1, <3>3, SetOnFollows
      <3>7. s.touched = m.touched
        BY <3>1, <3>3, SetOnIs
      <3> HIDE DEF set, w, s
      <3>8. set = s
        BY <3>1 DEF s
      <3> QED
        BY <3>3, <3>5, <3>6, <3>7, <3>8 DEF Follows, HeadersOf
    <2> HIDE DEF read, set
    <2>4. /\ IsContext(e) /\ e.touched /\ e.res # 0 /\ e.status = c.status
          /\ HeadersOf(e).type = "json" /\ (Plain(c) => Plain(e))
      BY <2>2, <2>3
    <2> HIDE DEF e
    <2>5. ~Untouched(e) /\ StatusOf(e, body) = StatusOf(c, body)
      BY <2>4 DEF Untouched, StatusOf
    <2> QED
      BY <1>2, <2>1, <2>4, <2>5, getFinalizedResponseMakes
  <1> QED
    BY <1>1, <1>2

LEMMA RedirectMakes ==
    ASSUME NEW c, IsContext(c)
    PROVE  LET d == Redirect(c)
               r == d.objects[d.res]
           IN  Sends(d, r) /\ FitsReply(r, "null", 302) /\ (Plain(c) => Plain(d))
  <1> DEFINE n == newResponse(c, "null", FALSE)
             empty == n.objects[Newest(c) + 1]
             status == 302
             r == [empty EXCEPT !.status = status]
             t == Touched(c)
             made == New(t, r)
             object == Newest(made)
             d == finalizeResponse(made, object, FALSE)
  <1>1. /\ Builds(n) /\ Newest(n) = Newest(c) + 1
        /\ Makes(c, n, {"null"}) /\ (Plain(c) => Plain(n))
    BY newResponseIs, newResponseLength, newResponseMakes DEF Sent
  <1> HIDE DEF n
  <1>2. /\ empty \in Responses /\ empty.body = "null"
        /\ Plain(c) => empty.headers.length = 0
    BY <1>1, FieldsAre DEF Builds, Makes, Plain
  <1>3. status \in Nat
    OBVIOUS
  <1>4. Redirect(c) = d
    BY DEF Redirect, n
  <1> HIDE DEF empty, status
  <1>5. /\ r \in Responses /\ r.status = status /\ r.body = "null"
        /\ r.headers = empty.headers
    BY <1>2, <1>3 DEF Responses
  <1> HIDE DEF r
  <1>6. /\ IsContext(t) /\ Follows(c, t) /\ (Plain(c) => Plain(t))
    BY SetIs, MarksFollow
  <1> HIDE DEF t
  <1>7. /\ Follows(t, made) /\ Newest(made) = Len(t.objects) + 1
        /\ Newest(made) \in 1..Len(made.objects) /\ made.objects[Newest(made)] = r
        /\ IsContext(made)
    BY <1>5, <1>6, NewIs, NewFollows
  <1>8. Plain(c) => Plain(made)
    BY <1>2, <1>5, <1>6, NewFollows
  <1> HIDE DEF made
  <1>9. Newest(made) \notin {made.response, made.source}
    <2>1. t.response \in 0..Len(t.objects) /\ t.source \in 0..Len(t.objects)
          /\ Len(t.objects) \in Nat
      BY <1>6, FieldsAre DEF IsContext
    <2> QED
      BY <1>7, <2>1 DEF Follows
  <1>10. /\ IsFinal(d) /\ d.response = d.res /\ (Plain(made) => Plain(d))
         /\ d.objects[d.res].status = status /\ d.objects[d.res].body = "null"
    <2>1. /\ object \in 1..Len(made.objects) /\ object \notin {made.response, made.source}
          /\ made.objects[object] = r
      BY <1>7, <1>9
    <2> HIDE DEF object
    <2>2. /\ IsFinal(d) /\ d.response = d.res /\ (Plain(made) => Plain(d))
          /\ d.objects[d.res].status = made.objects[object].status
          /\ d.objects[d.res].body = made.objects[object].body
      BY <1>7, <2>1, finalizeResponseMakes
    <2> QED
      BY <1>5, <2>1, <2>2
  <1> HIDE DEF d
  <1>11. Sends(d, d.objects[d.res])
    BY <1>10 DEF Sends, Resembles
  <1>12. FitsReply(d.objects[d.res], "null", 302)
    BY <1>10 DEF FitsReply, Fits, status
  <1> QED
    BY <1>4, <1>8, <1>10, <1>11, <1>12

-----------------------------------------------------------------------------
(* What keeps the reply that is there.                                      *)

Current(c) == c.objects[c.res]
Settled(c) == Sends(c, Current(c))
KeepsReply(c, d) == Settled(c) => Settled(d) /\ Resembles(Current(d), Current(c))

(* Another context with the same objects.                                   *)
LEMMA SameReplies ==
    ASSUME NEW c, NEW d, IsContext(d), d.objects = c.objects, d.res = c.res,
           d.response = c.response, d.finalized = c.finalized
    PROVE  KeepsReply(c, d)
  BY DEF KeepsReply, Settled, Sends, Current, Resembles, IsFinal

(* The calls that only change headers, or the context's own fields.         *)
LEMMA StatusKeeps ==
    ASSUME NEW c, IsContext(c), NEW code \in Nat
    PROVE  KeepsReply(c, Status(c, code)) /\ (Plain(c) => Plain(Status(c, code)))
  <1>1. c \in Contexts /\ IsContext(Status(c, code))
    BY FieldsAre, StatusIs
  <1>2. /\ Status(c, code).objects = c.objects /\ Status(c, code).res = c.res
        /\ Status(c, code).response = c.response /\ Status(c, code).finalized = c.finalized
        /\ Status(c, code).prepared = c.prepared
    BY <1>1 DEF Status, Contexts
  <1> QED
    BY <1>1, <1>2, SameReplies, SameLengths

LEMMA ReadResKeeps ==
    ASSUME NEW c, IsContext(c)
    PROVE  KeepsReply(c, ReadRes(c)) /\ (Plain(c) => Plain(ReadRes(c)))
  <1>1. KeepsReply(c, Touched(c))
    BY SetIs, SameReplies
  <1>2. c.res # 0 => ReadRes(c) = Touched(c)
    BY ReadResFollows
  <1>3. c.res = 0 => ~Settled(c)
    BY DEF Settled, Sends, IsFinal
  <1> QED
    BY <1>1, <1>2, <1>3, ReadResFollows DEF KeepsReply

(* x is not part of what a response must have.                              *)
LEMMA XResembles ==
    ASSUME NEW response \in Responses, NEW v
    PROVE  Resembles(WithHeader(response, "x", v), response)
  BY WithHeaderHas DEF Resembles

LEMMA SetXKeeps ==
    ASSUME NEW c, IsContext(c), NEW object \in 1..Len(c.objects), NEW v \in Nat
    PROVE  KeepsReply(c, SetOn(c, object, "x", v))
  <1> DEFINE d == SetOn(c, object, "x", v)
  <1>1. /\ IsContext(d) /\ d.res = c.res /\ d.response = c.response
        /\ \A i \in 1..Len(c.objects) :
              d.objects[i] = IF i = object THEN WithHeader(c.objects[i], "x", v)
                             ELSE c.objects[i]
    BY SetOnFollows DEF Follows
  <1>2. d.finalized = c.finalized
    BY SetOnIs
  <1> HIDE DEF d
  <1>3. ASSUME NEW i \in 1..Len(c.objects) PROVE Resembles(d.objects[i], c.objects[i])
    <2>1. c.objects[i] \in Responses
      BY FieldsAre
    <2>2. CASE i = object
      BY <1>1, <2>1, <2>2, XResembles
    <2>3. CASE i # object
      BY <1>1, <2>3 DEF Resembles
    <2> QED
      BY <2>2, <2>3
  <1>4. ASSUME Settled(c) PROVE Settled(d) /\ Resembles(Current(d), Current(c))
    <2>1. /\ IsFinal(c) /\ c.res \in 1..Len(c.objects) /\ c.response \in 1..Len(c.objects)
          /\ Resembles(c.objects[c.response], c.objects[c.res])
      BY <1>4, FieldsAre DEF Settled, Sends, IsFinal, Current
    <2>2. /\ Resembles(d.objects[d.res], c.objects[c.res])
          /\ Resembles(d.objects[d.response], c.objects[c.response])
      BY <1>1, <1>3, <2>1
    <2>3. IsFinal(d)
      BY <1>1, <1>2, <2>1 DEF IsFinal
    <2> QED
      BY <2>1, <2>2, <2>3 DEF Settled, Sends, Current, Resembles
  <1> QED
    BY <1>4 DEF KeepsReply, d

(* One call after another.                                                  *)
LEMMA KeepsOn ==
    ASSUME NEW c, NEW d, NEW e, KeepsReply(c, d), KeepsReply(d, e)
    PROVE  KeepsReply(c, e)
  BY DEF KeepsReply, Resembles

(* A finalized response is copied before its headers change.                *)
LEMMA CopyKeeps ==
    ASSUME NEW c, IsContext(c), c.res # 0
    PROVE  LET copied == New(c, [c.objects[c.res] EXCEPT !.cache = "native", !.shared = FALSE])
               d == WithRes(copied, Newest(copied))
           IN  /\ IsContext(d) /\ d.res \in 1..Len(d.objects) /\ d.res = Newest(copied)
               /\ KeepsReply(c, d) /\ (Plain(c) => Plain(d))
  <1> DEFINE r == [c.objects[c.res] EXCEPT !.cache = "native", !.shared = FALSE]
             copied == New(c, r)
             d == WithRes(copied, Newest(copied))
  <1>1. c.objects[c.res] \in Responses /\ c.res \in 1..Len(c.objects)
    BY FieldsAre
  <1>2. /\ r \in Responses /\ Resembles(r, c.objects[c.res])
        /\ r.headers = c.objects[c.res].headers
    BY <1>1 DEF Responses, Caches, Resembles
  <1>3. Plain(c) => r.headers.length = 0
    BY <1>1, <1>2 DEF Plain
  <1> HIDE DEF r
  <1>4. /\ Follows(c, copied) /\ Newest(copied) \in 1..Len(copied.objects)
        /\ copied.objects[Newest(copied)] = r /\ copied.finalized = c.finalized
        /\ \A i \in 1..Len(c.objects) : copied.objects[i] = c.objects[i]
    BY <1>2, NewIs, NewFollows
  <1>5. Plain(c) => Plain(copied)
    BY <1>2, <1>3, NewFollows
  <1> HIDE DEF copied
  <1>6. /\ IsContext(d) /\ d.res = Newest(copied) /\ d.objects = copied.objects
        /\ d.response = copied.response /\ d.finalized = copied.finalized
        /\ (Plain(copied) => Plain(d))
    BY <1>4, WithResIs, WithResFollows DEF Follows
  <1> HIDE DEF d
  <1>7. ASSUME Settled(c) PROVE Settled(d) /\ Resembles(Current(d), Current(c))
    <2>1. /\ IsFinal(c) /\ c.response \in 1..Len(c.objects)
          /\ Resembles(c.objects[c.response], c.objects[c.res])
      BY <1>7, FieldsAre DEF Settled, Sends, IsFinal, Current
    <2>2. d.objects[d.response] = c.objects[c.response] /\ d.objects[d.res] = r
      BY <1>4, <1>6, <2>1 DEF Follows
    <2>3. d.res # 0 /\ d.response # 0 /\ d.finalized
      BY <1>4, <1>6, <2>1, FieldsAre DEF IsFinal, Follows
    <2> QED
      BY <1>2, <1>6, <2>1, <2>2, <2>3 DEF Settled, Sends, Current, Resembles, IsFinal
  <1>8. KeepsReply(c, d)
    BY <1>7 DEF KeepsReply
  <1>9. d.res \in 1..Len(d.objects)
    BY <1>4, <1>6
  <1> QED
    BY <1>5, <1>6, <1>8, <1>9 DEF d, copied, r

LEMMA HeaderKeeps ==
    ASSUME NEW c, IsContext(c), NEW name \in {"type", "x"}, NEW v,
           v \in (IF name = "type" THEN Types ELSE Nat)
    PROVE  /\ Plain(c) => Plain(Header(c, name, v))
           /\ name = "x" => KeepsReply(c, Header(c, name, v))
  <1> DEFINE t == Touched(c)
  <1>1. /\ IsContext(t) /\ t.objects = c.objects /\ t.res = c.res /\ t.finalized = c.finalized
        /\ KeepsReply(c, t) /\ (Plain(c) => Plain(t)) /\ name \in {"type", "x", "length"}
    BY SetIs, MarksFollow, SameReplies
  <1>2. CASE c.finalized
    <2> DEFINE copied == New(t, [c.objects[c.res] EXCEPT !.cache = "native", !.shared = FALSE])
               d == WithRes(copied, Newest(copied))
               e == SetOn(d, d.res, name, v)
    <2>1. c.res # 0
      BY <1>2, FieldsAre
    <2>2. Header(c, name, v) = SetOn(d, Newest(copied), name, v)
      BY <1>2 DEF Header
    <2> HIDE DEF t
    <2>3. /\ IsContext(d) /\ d.res \in 1..Len(d.objects) /\ d.res = Newest(copied)
          /\ KeepsReply(t, d) /\ (Plain(t) => Plain(d))
      BY <1>1, <2>1, CopyKeeps
    <2> HIDE DEF d, copied
    <2>4. (Plain(d) => Plain(e)) /\ (name = "x" => KeepsReply(d, e))
      BY <1>1, <2>3, SetOnFollows, SetXKeeps
    <2>5. Header(c, name, v) = e
      BY <2>2, <2>3
    <2> HIDE DEF e
    <2> QED
      BY <1>1, <2>3, <2>4, <2>5, KeepsOn
  <1>3. CASE ~c.finalized
    <2>1. ~Settled(c)
      BY <1>3 DEF Settled, Sends, IsFinal
    <2>2. CASE c.res # 0
      <3>1. c.res \in 1..Len(t.objects)
        BY <1>1, <2>2, FieldsAre
      <3>2. Header(c, name, v) = SetOn(t, c.res, name, v)
        BY <1>3, <2>2 DEF Header
      <3> HIDE DEF t
      <3>3. Plain(t) => Plain(SetOn(t, c.res, name, v))
        BY <1>1, <3>1, SetOnFollows
      <3> QED
        BY <1>1, <2>1, <3>2, <3>3 DEF KeepsReply
    <2>3. CASE c.res = 0
      <3> DEFINE headers == [t.prepared EXCEPT ![name] = v]
                 d == [t EXCEPT !.prepared = headers]
      <3>1. Header(c, name, v) = d
        BY <1>3, <2>3 DEF Header
      <3> HIDE DEF t
      <3>2. t \in Contexts /\ t.prepared \in Headers
        BY <1>1, FieldsAre
      <3>3. headers.length = t.prepared.length
        BY <3>2 DEF Headers
      <3> HIDE DEF headers
      <3>4. d.objects = t.objects /\ d.prepared = headers
        BY <3>2 DEF Contexts
      <3> HIDE DEF d
      <3>5. Plain(t) => Plain(d)
        BY <3>3, <3>4 DEF Plain
      <3> QED
        BY <1>1, <2>1, <3>1, <3>5 DEF KeepsReply
    <2> QED
      BY <2>2, <2>3
  <1> QED
    BY <1>2, <1>3

LEMMA SetHeaderKeeps ==
    ASSUME NEW c, IsContext(c), NEW name \in {"type", "x"}, NEW v,
           v \in (IF name = "type" THEN Types ELSE Nat)
    PROVE  /\ Plain(c) => Plain(SetHeader(c, name, v))
           /\ name = "x" => KeepsReply(c, SetHeader(c, name, v))
  <1> DEFINE m == Marked(c)
             read == ReadRes(m)
             d == SetOn(read, read.res, name, v)
  <1>1. /\ IsContext(m) /\ KeepsReply(c, m) /\ (Plain(c) => Plain(m))
    <2>1. m.response = c.response
      BY MarksFollow DEF Follows
    <2> QED
      BY <2>1, SetIs, MarksFollow, SameReplies
  <1>2. SetHeader(c, name, v) = d
    BY DEF SetHeader
  <1> HIDE DEF m
  <1>3. /\ IsContext(read) /\ read.res \in 1..Len(read.objects)
        /\ KeepsReply(m, read) /\ (Plain(m) => Plain(read))
    BY <1>1, ReadResIs, ReadResKeeps
  <1> HIDE DEF read
  <1>4. name \in {"type", "x", "length"}
    OBVIOUS
  <1>5. (Plain(read) => Plain(d)) /\ (name = "x" => KeepsReply(read, d))
    BY <1>3, <1>4, SetOnFollows, SetXKeeps
  <1> HIDE DEF d
  <1> QED
    BY <1>1, <1>2, <1>3, <1>5, KeepsOn

(* A reply without a body, and the end of the layers.                       *)
LEMMA NothingKeeps ==
    ASSUME NEW c, IsContext(c)
    PROVE  LET d == getFinalizedResponse(c, "nothing")
           IN  (Plain(c) => Plain(d)) /\ KeepsReply(c, d)
  <1> DEFINE b == buildResponse(c, "nothing")
             d == finalizeResponse(b.c, b.object, b.includesContextHeaders)
  <1>1. CASE c.response # 0 /\ c.finalized
    <2>1. getFinalizedResponse(c, "nothing") = c
      BY <1>1 DEF getFinalizedResponse
    <2> QED
      BY <2>1 DEF KeepsReply, Resembles
  <1>2. CASE ~(c.response # 0 /\ c.finalized)
    <2>1. ~Settled(c)
      BY <1>2 DEF Settled, Sends, IsFinal
    <2>2. getFinalizedResponse(c, "nothing") = d
      BY <1>2 DEF getFinalizedResponse
    <2>3. /\ IsContext(b.c) /\ b.object \in 1..Len(b.c.objects) /\ (Plain(c) => Plain(b.c))
          /\ b.includesContextHeaders \in BOOLEAN
      <3>1. CASE c.response # 0
        <4>1. b = Built(c, c.response, FALSE)
          BY <3>1 DEF buildResponse
        <4>2. b.c = c /\ b.object = c.response /\ b.includesContextHeaders = FALSE
          BY <4>1 DEF Built
        <4>3. c.response \in 1..Len(c.objects)
          BY <3>1, FieldsAre
        <4> HIDE DEF b
        <4> QED
          BY <4>2, <4>3
      <3>2. CASE c.response = 0
        <4> DEFINE read == ReadRes(c)
                   n == newResponse(read, "null", TRUE)
        <4>1. b \in {Built(read, read.res, FALSE), fromContext(n)}
          BY <3>2 DEF buildResponse
        <4>2. /\ IsContext(read) /\ read.res \in 1..Len(read.objects)
              /\ (Plain(c) => Plain(read))
          BY ReadResIs, ReadResFollows
        <4> HIDE DEF read
        <4>3. Builds(n) /\ (Plain(read) => Plain(n))
          BY <4>2, newResponseIs, newResponseMakes DEF Sent
        <4> HIDE DEF n, b
        <4>4. CASE b = Built(read, read.res, FALSE)
          <5>1. b.c = read /\ b.object = read.res /\ b.includesContextHeaders = FALSE
            BY <4>4 DEF Built
          <5> QED
            BY <4>2, <5>1
        <4>5. CASE b = fromContext(n)
          <5>1. b.c = n /\ b.object = Newest(n) /\ b.includesContextHeaders = TRUE
            BY <4>5 DEF Built, fromContext
          <5> QED
            BY <4>2, <4>3, <5>1 DEF Builds
        <4> QED
          BY <4>1, <4>4, <4>5
      <3> QED
        BY <3>1, <3>2
    <2> HIDE DEF b
    <2>4. Plain(b.c) => Plain(d)
      <3> DEFINE a == Assigned(b.c, b.object, b.includesContextHeaders)
                 set == Touched(a)
                 e == [set EXCEPT !.response = set.res, !.source = b.object]
      <3>1. d \in {b.c, e}
        BY DEF finalizeResponse
      <3>2. IsContext(a) /\ (Plain(b.c) => Plain(a))
        BY <2>3, AssignedMakes
      <3> HIDE DEF a
      <3>3. set \in Contexts /\ (Plain(a) => Plain(set))
        BY <3>2, SetIs, MarksFollow, FieldsAre
      <3> HIDE DEF set
      <3>4. e.objects = set.objects /\ e.prepared = set.prepared
        BY <3>3 DEF Contexts
      <3> HIDE DEF e
      <3>5. Plain(set) => Plain(e)
        BY <3>4, SameLengths
      <3> HIDE DEF d
      <3> QED
        BY <3>1, <3>2, <3>3, <3>5
    <2> QED
      BY <2>1, <2>2, <2>3, <2>4 DEF KeepsReply
  <1> QED
    BY <1>1, <1>2

LEMMA FinalKeeps ==
    ASSUME jsonHeaders = JSON, NEW c, IsContext(c), NEW isError \in BOOLEAN
    PROVE  LET d == Final(c, isError) IN (Plain(c) => Plain(d)) /\ KeepsReply(c, d)
  <1> DEFINE left == getFinalizedResponse(c, "nothing")
             d == SetRes(left, left.response)
  <1>1. IsFinal(left) /\ (Plain(c) => Plain(left)) /\ KeepsReply(c, left)
    BY getFinalizedResponseIs, NothingKeeps DEF Bodies
  <1>2. Final(c, isError) = IF isError THEN d ELSE left
    BY DEF Final
  <1> HIDE DEF left
  <1>3. /\ IsContext(left) /\ left.response \in 1..Len(left.objects)
        /\ left.res \in 1..Len(left.objects) /\ left.res # 0 /\ left.response # 0
    BY <1>1, FieldsAre DEF IsFinal
  <1> DEFINE r == d.objects[d.res]
             s == left.objects[left.response]
  <1>4. /\ Follows(left, d) /\ (Plain(left) => Plain(d))
        /\ \A i \in 1..Len(left.objects) : d.objects[i] = left.objects[i]
        /\ r.status = s.status /\ r.body = s.body /\ r.headers.type = s.headers.type
        /\ r.headers.length = IF HeadersOf(left).length # 0 THEN HeadersOf(left).length
                              ELSE s.headers.length
    BY <1>3, SetResMakes
  <1>5. IsContext(d) /\ d.finalized /\ d.res # 0
    BY <1>3, SetResIs, FieldsAre
  <1> HIDE DEF d
  <1>6. ASSUME Settled(left) PROVE Settled(d) /\ Resembles(Current(d), Current(left))
    <2>1. Resembles(s, left.objects[left.res])
      BY <1>6 DEF Settled, Sends, Current
    <2>2. r.headers.length = s.headers.length /\ Resembles(r, s)
      BY <1>4, <2>1 DEF HeadersOf, Resembles
    <2>3. d.objects[d.response] = s /\ d.response # 0
      BY <1>3, <1>4 DEF Follows
    <2> QED
      BY <1>5, <2>1, <2>2, <2>3 DEF Settled, Sends, Current, Resembles, IsFinal
  <1>7. KeepsReply(left, d)
    BY <1>6 DEF KeepsReply
  <1>8. KeepsReply(c, d)
    BY <1>1, <1>7, KeepsOn
  <1> QED
    BY <1>1, <1>2, <1>4, <1>8

-----------------------------------------------------------------------------
(* While a request is answered, the context has what its replies say.       *)

Made == [body : Bodies \cup {"null"}, status : Nat]

LastInv ==
    /\ replies \in Seq(Made)
    /\ \A i \in DOMAIN replies :
          IsLast(replies, i) => Settled(ctx) /\ Fits(Current(ctx), replies[i])

(* Lengths come from files only.                                            *)
EarlierFile(made) == \E i \in 1..(Len(made) - 1) : made[i].body = "file"
LengthInv ==
    \/ EarlierFile(replies)
    \/ Plain(ctx)
    \/ /\ Len(replies) > 0 /\ replies[Len(replies)].body = "file"
       /\ Settled(ctx) /\ Current(ctx).headers.length = LengthOf["file"]

(* What is on the wire.                                                     *)
IsWritten(w, r) ==
    /\ w.status = r.status /\ w.body = r.body
    /\ r.headers.type = "json" => w.headers.type = "json"
    /\ w.headers.length \in {r.headers.length, LengthOf[r.body]}
SentInv == phase = "done" => ctx.res # 0 /\ IsWritten(wire, Current(ctx))

AnswerInv == LastInv /\ LengthInv /\ SentInv

(* The writers keep status and body, and may add a type or a length.        *)
LEMMA WrittenIs ==
    ASSUME NEW response \in Responses, NEW socket
    PROVE  IsWritten(Written(response, socket), response)
  <1> DEFINE kept == socket /\ response.cache # "native" /\ response.body \in Text
             typed == IF kept /\ response.headers.type = "none"
                      THEN [response.headers EXCEPT !.type = "text"] ELSE response.headers
             length == LengthOf[response.body]
             sized == IF kept /\ typed.length = 0
                      THEN [typed EXCEPT !.length = length] ELSE typed
  <1>1. response.headers \in Headers
    BY DEF Responses
  <1>2. /\ typed \in Headers /\ typed.length = response.headers.length
        /\ response.headers.type = "json" => typed.type = "json"
    BY <1>1 DEF Headers, Types
  <1>3. /\ Written(response, socket).headers = sized
        /\ Written(response, socket).status = response.status
        /\ Written(response, socket).body = response.body
    BY DEF Written
  <1> HIDE DEF typed, length
  <1>4. sized.type = typed.type /\ sized.length \in {typed.length, length}
    BY <1>2 DEF Headers
  <1> QED
    BY <1>2, <1>3, <1>4 DEF IsWritten, length

(* The last reply with a body after another reply.                          *)
LEMMA Appended ==
    ASSUME NEW made \in Seq(Made), NEW reply \in Made
    PROVE  LET new == Append(made, reply)
           IN  /\ new \in Seq(Made) /\ Len(new) = Len(made) + 1 /\ new[Len(new)] = reply
               /\ \A i \in DOMAIN made : new[i] = made[i]
               /\ \A i \in DOMAIN new :
                     IF reply.body = "nothing"
                     THEN IsLast(new, i) => i \in DOMAIN made /\ IsLast(made, i)
                     ELSE IsLast(new, i) => i = Len(new)
  <1> DEFINE new == Append(made, reply)
  <1>1. /\ new \in Seq(Made) /\ Len(new) = Len(made) + 1 /\ new[Len(made) + 1] = reply
        /\ Len(made) \in Nat /\ DOMAIN made = 1..Len(made)
        /\ DOMAIN new = 1..(Len(made) + 1)
        /\ \A i \in DOMAIN made : new[i] = made[i]
    OBVIOUS
  <1> HIDE DEF new
  <1>2. ASSUME NEW i \in DOMAIN new, reply.body = "nothing", IsLast(new, i)
        PROVE  i \in DOMAIN made /\ IsLast(made, i)
    <2>1. i # Len(made) + 1
      BY <1>1, <1>2 DEF IsLast
    <2>2. i \in DOMAIN made
      BY <1>1, <2>1
    <2>3. \A j \in DOMAIN made : j \in DOMAIN new
      BY <1>1
    <2> QED
      BY <1>1, <1>2, <2>2, <2>3 DEF IsLast
  <1>3. ASSUME NEW i \in DOMAIN new, reply.body # "nothing", IsLast(new, i)
        PROVE  i = Len(new)
    <2>1. Len(made) + 1 \in DOMAIN new
      BY <1>1
    <2>2. ~(Len(made) + 1 > i)
      BY <1>1, <1>3, <2>1 DEF IsLast
    <2> QED
      BY <1>1, <2>2
  <1> QED
    BY <1>1, <1>2, <1>3 DEF new

(* Steps that make no reply.                                                *)
LEMMA KeepsLast ==
    ASSUME LastInv, LengthInv, UNCHANGED replies, KeepsReply(ctx, ctx'),
           Plain(ctx) => Plain(ctx')
    PROVE  LastInv' /\ LengthInv'
  <1>1. LastInv'
    <2> SUFFICES ASSUME NEW i \in DOMAIN replies, IsLast(replies, i)
                 PROVE  Settled(ctx') /\ Fits(Current(ctx'), replies[i])
      BY DEF LastInv
    <2>1. Settled(ctx) /\ Fits(Current(ctx), replies[i])
      BY DEF LastInv
    <2>2. Settled(ctx') /\ Resembles(Current(ctx'), Current(ctx))
      BY <2>1 DEF KeepsReply
    <2> QED
      BY <2>1, <2>2 DEF Fits, Resembles
  <1>2. LengthInv'
    <2>1. Settled(ctx) => /\ Settled(ctx')
                          /\ Current(ctx').headers.length = Current(ctx).headers.length
      BY DEF KeepsReply, Resembles
    <2> QED
      BY <2>1 DEF LengthInv
  <1> QED
    BY <1>1, <1>2

(* A reply without a body leaves the one before it.                         *)
LEMMA NothingLasts ==
    ASSUME LastInv, LengthInv, NEW status \in Nat,
           replies' = Append(replies, [body |-> "nothing", status |-> status]),
           KeepsReply(ctx, ctx'), Plain(ctx) => Plain(ctx')
    PROVE  LastInv' /\ LengthInv'
  <1> DEFINE reply == [body |-> "nothing", status |-> status]
  <1>1. replies \in Seq(Made) /\ reply \in Made /\ reply.body = "nothing"
    BY DEF LastInv, Made, Bodies
  <1> HIDE DEF reply
  <1>2. /\ replies' \in Seq(Made) /\ Len(replies') = Len(replies) + 1
        /\ \A i \in DOMAIN replies : replies'[i] = replies[i]
        /\ \A i \in DOMAIN replies' :
              IsLast(replies', i) => i \in DOMAIN replies /\ IsLast(replies, i)
    BY <1>1, Appended DEF reply
  <1>3. LastInv'
    <2> SUFFICES ASSUME NEW i \in DOMAIN replies', IsLast(replies', i)
                 PROVE  Settled(ctx') /\ Fits(Current(ctx'), replies'[i])
      BY <1>2 DEF LastInv
    <2>1. i \in DOMAIN replies /\ IsLast(replies, i) /\ replies'[i] = replies[i]
      BY <1>2
    <2>2. Settled(ctx) /\ Fits(Current(ctx), replies[i])
      BY <2>1 DEF LastInv
    <2>3. Settled(ctx') /\ Resembles(Current(ctx'), Current(ctx))
      BY <2>2 DEF KeepsReply
    <2> QED
      BY <2>1, <2>2, <2>3 DEF Fits, Resembles
  <1>4. LengthInv'
    <2>1. Len(replies) \in Nat /\ DOMAIN replies = 1..Len(replies)
      BY <1>1
    <2>2. ASSUME NEW i \in 1..Len(replies), replies[i].body = "file" PROVE EarlierFile(replies')
      <3>1. i \in 1..(Len(replies') - 1) /\ replies'[i].body = "file"
        BY <1>2, <2>1, <2>2
      <3> QED
        BY <3>1 DEF EarlierFile
    <2>3. EarlierFile(replies) => EarlierFile(replies')
      <3> SUFFICES ASSUME NEW i \in 1..(Len(replies) - 1), replies[i].body = "file"
                   PROVE  EarlierFile(replies')
        BY DEF EarlierFile
      <3>1. i \in 1..Len(replies)
        BY <2>1
      <3> QED
        BY <2>2, <3>1
    <2>4. Len(replies) > 0 => Len(replies) \in 1..Len(replies)
      BY <2>1
    <2> QED
      BY <2>2, <2>3, <2>4 DEF LengthInv
  <1> QED
    BY <1>3, <1>4

(* A reply with a body is the last one.                                     *)
LEMMA ReplyLasts ==
    ASSUME LastInv, LengthInv, NEW body \in Bodies \cup {"null"}, body # "nothing",
           NEW status \in Nat,
           replies' = Append(replies, [body |-> body, status |-> status]),
           Settled(ctx'), FitsReply(Current(ctx'), body, status),
           body # "file" /\ Plain(ctx) => Plain(ctx'),
           body = "file" /\ Plain(ctx) => Current(ctx').headers.length = LengthOf["file"]
    PROVE  LastInv' /\ LengthInv'
  <1> DEFINE reply == [body |-> body, status |-> status]
  <1>1. /\ replies \in Seq(Made) /\ reply \in Made /\ reply.body = body
        /\ Fits(Current(ctx'), reply)
    BY DEF LastInv, Made, FitsReply
  <1> HIDE DEF reply
  <1>2. /\ replies' \in Seq(Made) /\ Len(replies') = Len(replies) + 1
        /\ replies'[Len(replies')] = reply
        /\ \A i \in DOMAIN replies : replies'[i] = replies[i]
        /\ \A i \in DOMAIN replies' : IsLast(replies', i) => i = Len(replies')
    BY <1>1, Appended DEF reply
  <1>3. LastInv'
    <2> SUFFICES ASSUME NEW i \in DOMAIN replies', IsLast(replies', i)
                 PROVE  Settled(ctx') /\ Fits(Current(ctx'), replies'[i])
      BY <1>2 DEF LastInv
    <2> QED
      BY <1>1, <1>2
  <1>4. LengthInv'
    <2>1. Len(replies) \in Nat /\ DOMAIN replies = 1..Len(replies)
      BY <1>1
    <2>2. ASSUME NEW i \in 1..Len(replies), replies[i].body = "file" PROVE EarlierFile(replies')
      <3>1. i \in 1..(Len(replies') - 1) /\ replies'[i].body = "file"
        BY <1>2, <2>1, <2>2
      <3> QED
        BY <3>1 DEF EarlierFile
    <2>3. EarlierFile(replies) => EarlierFile(replies')
      <3> SUFFICES ASSUME NEW i \in 1..(Len(replies) - 1), replies[i].body = "file"
                   PROVE  EarlierFile(replies')
        BY DEF EarlierFile
      <3>1. i \in 1..Len(replies)
        BY <2>1
      <3> QED
        BY <2>2, <3>1
    <2>4. Len(replies) > 0 => Len(replies) \in 1..Len(replies)
      BY <2>1
    <2>5. Len(replies') > 0
      BY <1>2, <2>1
    <2>6. ~Plain(ctx) => EarlierFile(replies')
      BY <2>2, <2>3, <2>4 DEF LengthInv
    <2>7. EarlierFile(replies)' <=> EarlierFile(replies')
      BY DEF EarlierFile
    <2> QED
      BY <1>1, <1>2, <2>5, <2>6, <2>7 DEF LengthInv
  <1> QED
    BY <1>3, <1>4

(* Every step of a request.                                                 *)
LEMMA AnswerStep ==
    ASSUME IInv, AnswerInv, Next
    PROVE  AnswerInv'
  <1>1. /\ jsonHeaders = JSON /\ IsContext(ctx) /\ steps \in Nat
        /\ phase \in {"handler", "error", "done"}
    BY DEF IInv, TypeOK
  <1>2. LastInv /\ LengthInv /\ SentInv
    BY DEF AnswerInv
  <1>3. ASSUME phase' # "done", LastInv', LengthInv' PROVE AnswerInv'
    BY <1>3 DEF AnswerInv, SentInv
  <1>4. ASSUME phase' # "done", UNCHANGED replies, KeepsReply(ctx, ctx'),
               Plain(ctx) => Plain(ctx')
        PROVE  AnswerInv'
    BY <1>2, <1>3, <1>4, KeepsLast
  <1>5. ASSUME SetX PROVE AnswerInv'
    <2>1. steps' \in Nat /\ phase' # "done" /\ UNCHANGED replies
      BY <1>1, <1>5 DEF SetX, Steps
    <2>2. ctx' = Header(ctx, "x", steps') \/ ctx' = SetHeader(ctx, "x", steps')
      BY <1>5 DEF SetX
    <2> DEFINE v == steps'
    <2>3. v \in Nat
      BY <2>1
    <2> HIDE DEF v
    <2>4. /\ KeepsReply(ctx, Header(ctx, "x", v)) /\ (Plain(ctx) => Plain(Header(ctx, "x", v)))
          /\ KeepsReply(ctx, SetHeader(ctx, "x", v))
          /\ Plain(ctx) => Plain(SetHeader(ctx, "x", v))
      BY <1>1, <2>3, HeaderKeeps, SetHeaderKeeps
    <2> QED
      BY <1>4, <2>1, <2>2, <2>4 DEF v
  <1>6. ASSUME SetType PROVE AnswerInv'
    <2>1. phase' # "done" /\ UNCHANGED replies /\ replies = <<>>
      BY <1>6 DEF SetType, Steps
    <2>2. ctx' = Header(ctx, "type", "html") \/ ctx' = SetHeader(ctx, "type", "html")
      BY <1>6 DEF SetType
    <2>3. "html" \in Types
      BY DEF Types
    <2>4. /\ Plain(ctx) => Plain(Header(ctx, "type", "html"))
          /\ Plain(ctx) => Plain(SetHeader(ctx, "type", "html"))
      BY <1>1, <2>3, HeaderKeeps, SetHeaderKeeps
    <2>5. Len(replies) = 0 /\ DOMAIN replies = {}
      BY <2>1
    <2>6. Plain(ctx)
      BY <1>2, <2>5 DEF LengthInv, EarlierFile
    <2>7. Plain(ctx')
      BY <2>2, <2>4, <2>6
    <2>8. LastInv' /\ LengthInv'
      BY <1>2, <2>1, <2>5, <2>7 DEF LastInv, LengthInv
    <2> QED
      BY <1>3, <2>1, <2>8
  <1>7. ASSUME SetStatus PROVE AnswerInv'
    <2>1. phase' # "done" /\ UNCHANGED replies /\ ctx' = Status(ctx, 201)
      BY <1>7 DEF SetStatus, Steps
    <2> QED
      BY <1>1, <1>4, <2>1, StatusKeeps
  <1>8. ASSUME GetHeader PROVE AnswerInv'
    <2>1. phase' # "done" /\ UNCHANGED replies /\ ctx' = ReadRes(ctx)
      BY <1>8 DEF GetHeader, Steps
    <2> QED
      BY <1>1, <1>4, <2>1, ReadResKeeps
  <1>9. ASSUME Answer PROVE AnswerInv'
    <2>1. phase' # "done"
      BY <1>9 DEF Answer, Steps
    <2>2. PICK body \in Bodies, code \in {0, 500} :
              LET c == IF code = 0 THEN ctx ELSE Status(ctx, code)
              IN  IF Throws(c, body)
                  THEN /\ ctx' = IF Untouched(c) THEN c ELSE ReadRes(c)
                       /\ UNCHANGED replies
                  ELSE /\ ctx' = Reply(c, body)
                       /\ Replied(body, IF body = "fetch" THEN FetchResponse.status ELSE c.status)
      BY <1>9 DEF Answer
    <2> DEFINE c == IF code = 0 THEN ctx ELSE Status(ctx, code)
    <2>3. /\ IsContext(c) /\ KeepsReply(ctx, c) /\ (Plain(ctx) => Plain(c))
          /\ Untouched(c) => c.status = c.statusCode
      <3>1. CASE code = 0
        BY <1>1, <3>1 DEF KeepsReply, Resembles, IInv, UntouchedInv
      <3>2. CASE code # 0
        BY <1>1, <3>2, StatusIs, StatusKeeps
      <3> QED
        BY <3>1, <3>2
    <2>4. \/ ctx' \in {c, ReadRes(c)} /\ UNCHANGED replies
          \/ ctx' = Reply(c, body) /\ Replied(body, StatusOf(c, body))
      BY <2>2 DEF StatusOf
    <2> HIDE DEF c
    <2>5. CASE ctx' \in {c, ReadRes(c)} /\ UNCHANGED replies
      <3>1. KeepsReply(c, ReadRes(c)) /\ (Plain(c) => Plain(ReadRes(c)))
        BY <2>3, ReadResKeeps
      <3>2. KeepsReply(ctx, ReadRes(c))
        BY <2>3, <3>1, KeepsOn
      <3> QED
        BY <1>4, <2>1, <2>3, <2>5, <3>1, <3>2
    <2>6. CASE ctx' = Reply(c, body) /\ Replied(body, StatusOf(c, body))
      <3> DEFINE status == StatusOf(c, body)
      <3>1. status \in Nat
        BY <2>3, FieldsAre DEF StatusOf, FetchResponse
      <3>2. replies' = Append(replies, [body |-> body, status |-> status])
        BY <2>6 DEF Replied
      <3>3. CASE body = "nothing"
        <4>1. ctx' = getFinalizedResponse(c, "nothing")
          BY <2>6, <3>3 DEF Reply
        <4>2. KeepsReply(c, ctx') /\ (Plain(c) => Plain(ctx'))
          BY <2>3, <4>1, NothingKeeps
        <4>3. KeepsReply(ctx, ctx')
          BY <2>3, <4>2, KeepsOn
        <4> HIDE DEF status
        <4>4. LastInv' /\ LengthInv'
          BY <1>2, <2>3, <3>1, <3>2, <3>3, <4>2, <4>3, NothingLasts
        <4> QED
          BY <1>3, <2>1, <4>4
      <3>4. CASE body # "nothing"
        <4> DEFINE d == Reply(c, body)
        <4>1. /\ Settled(d) /\ FitsReply(Current(d), body, status)
              /\ body # "file" /\ Plain(c) => Plain(d)
              /\ body = "file" /\ Plain(c) => Current(d).headers.length = LengthOf["file"]
          BY <1>1, <2>3, <3>4, ReplyMakes DEF Settled, Current
        <4>2. ctx' = d
          BY <2>6
        <4> HIDE DEF d, status
        <4>3. LastInv' /\ LengthInv'
          BY <1>2, <2>3, <3>1, <3>2, <3>4, <4>1, <4>2, ReplyLasts
        <4> QED
          BY <1>3, <2>1, <4>3
      <3> QED
        BY <3>3, <3>4
    <2> QED
      BY <2>4, <2>5, <2>6
  <1>10. ASSUME AnswerRedirect PROVE AnswerInv'
    <2> DEFINE d == Redirect(ctx)
    <2>1. /\ phase' # "done" /\ ctx' = d
          /\ replies' = Append(replies, [body |-> "null", status |-> 302])
      BY <1>10 DEF AnswerRedirect, Steps, Replied
    <2>2. /\ Settled(d) /\ FitsReply(Current(d), "null", 302) /\ (Plain(ctx) => Plain(d))
      BY <1>1, RedirectMakes DEF Settled, Current
    <2> HIDE DEF d
    <2>3. LastInv' /\ LengthInv'
      BY <1>2, <2>1, <2>2, ReplyLasts
    <2> QED
      BY <1>3, <2>1, <2>3
  <1>11. ASSUME Throw PROVE AnswerInv'
    <2>1. phase' # "done" /\ UNCHANGED replies /\ UNCHANGED ctx
      BY <1>11 DEF Throw
    <2>2. KeepsReply(ctx, ctx') /\ (Plain(ctx) => Plain(ctx'))
      BY <2>1 DEF KeepsReply, Resembles
    <2> QED
      BY <1>4, <2>1, <2>2
  <1>12. ASSUME NotFound PROVE AnswerInv'
    <2> DEFINE c == Status(ctx, 404)
               d == getFinalizedResponse(c, "string")
    <2>1. /\ phase' # "done" /\ ctx' = d
          /\ replies' = Append(replies, [body |-> "string", status |-> 404])
      BY <1>12 DEF NotFound, Replied
    <2>2. /\ IsContext(c) /\ (Plain(ctx) => Plain(c)) /\ c.status = 404 /\ c.statusCode = 404
      BY <1>1, StatusIs, StatusKeeps
    <2> HIDE DEF c
    <2>3. StatusOf(c, "string") = 404 /\ "string" \in Bodies
      BY <2>2 DEF StatusOf, Bodies
    <2>4. /\ Settled(d) /\ FitsReply(Current(d), "string", 404) /\ (Plain(c) => Plain(d))
      <3>1. /\ Settled(d) /\ FitsReply(Current(d), "string", StatusOf(c, "string"))
            /\ (Plain(c) => Plain(d))
        BY <1>1, <2>2, <2>3, getFinalizedResponseMakes DEF Settled, Current
      <3> QED
        BY <2>3, <3>1
    <2> HIDE DEF d
    <2>5. LastInv' /\ LengthInv'
      BY <1>2, <2>1, <2>2, <2>3, <2>4, ReplyLasts
    <2> QED
      BY <1>3, <2>1, <2>5
  <1>13. ASSUME Deliver PROVE AnswerInv'
    <2> DEFINE isError == phase = "error"
    <2>1. /\ UNCHANGED replies /\ ctx' = Final(ctx, isError)
          /\ wire' = Written(Current(ctx'), ctx.socket)
      BY <1>13 DEF Deliver, Current
    <2>2. isError \in BOOLEAN
      OBVIOUS
    <2> HIDE DEF isError
    <2>3. IsContext(ctx') /\ ctx'.res # 0
      BY <1>1, <2>1, <2>2, FinalIs
    <2>4. Current(ctx') \in Responses
      BY <2>3, FieldsAre DEF Current
    <2>5. IsWritten(wire', Current(ctx'))
      BY <2>1, <2>4, WrittenIs
    <2>6. KeepsReply(ctx, ctx') /\ (Plain(ctx) => Plain(ctx'))
      BY <1>1, <2>1, <2>2, FinalKeeps
    <2>7. LastInv' /\ LengthInv'
      BY <1>2, <2>1, <2>6, KeepsLast
    <2> QED
      BY <2>3, <2>5, <2>7 DEF AnswerInv, SentInv
  <1>14. ASSUME NextRequest PROVE AnswerInv'
    <2>1. /\ ctx' \in Begins.contexts /\ phase' = "handler" /\ replies' = <<>>
      BY <1>14 DEF NextRequest, Begins
    <2>2. ctx'.objects = <<>> /\ ctx'.prepared = NoHeaders
      BY <2>1 DEF Begins, NewContext
    <2>3. Plain(ctx')
      BY <2>2 DEF Plain, NoHeaders
    <2>4. LastInv' /\ LengthInv'
      BY <2>1, <2>3 DEF LastInv, LengthInv
    <2> QED
      BY <1>3, <2>1, <2>4
  <1> QED
    BY <1>5, <1>6, <1>7, <1>8, <1>9, <1>10, <1>11, <1>12, <1>13, <1>14 DEF Next

LEMMA AnswerInit ==
    ASSUME Init PROVE AnswerInv
  <1>1. ctx \in Begins.contexts /\ phase = "handler" /\ replies = <<>>
    BY DEF Init, Begins
  <1>2. ctx.objects = <<>> /\ ctx.prepared = NoHeaders
    BY <1>1 DEF Begins, NewContext
  <1>3. Plain(ctx)
    BY <1>2 DEF Plain, NoHeaders
  <1> QED
    BY <1>1, <1>3 DEF AnswerInv, LastInv, LengthInv, SentInv

(* The context has the last reply, and the wire has what the context had.   *)
THEOREM AnswersInductive == Spec => []AnswerInv
  <1>1. Init => AnswerInv
    BY AnswerInit
  <1>2. IInv /\ AnswerInv /\ [Next]_vars => AnswerInv'
    <2> SUFFICES ASSUME IInv, AnswerInv, [Next]_vars PROVE AnswerInv'
      OBVIOUS
    <2>1. CASE UNCHANGED vars
      BY <2>1 DEF vars, requestVars, AnswerInv, LastInv, LengthInv, SentInv
    <2> QED
      BY <2>1, AnswerStep
  <1> QED
    BY <1>1, <1>2, Inductive, PTL DEF Spec

(* The client gets the body and the status of the last reply that has one   *)
(* (finalizeResponse()), and an error's as JSON (reply()).                  *)
THEOREM LastReplyAlwaysWins == Spec => []LastReplyWins
  <1>1. AnswerInv => LastReplyWins
    <2> SUFFICES ASSUME AnswerInv, phase = "done", NEW i \in DOMAIN replies, IsLast(replies, i)
                 PROVE  Fits(wire, replies[i])
      BY DEF LastReplyWins
    <2>1. Fits(Current(ctx), replies[i]) /\ IsWritten(wire, Current(ctx))
      BY DEF AnswerInv, LastInv, SentInv
    <2> QED
      BY <2>1 DEF Fits, IsWritten
  <1> QED
    BY <1>1, AnswersInductive, PTL

(* No response has the length of another body (buildResponse(), writers),   *)
(* unless a file was replaced.                                              *)
THEOREM LengthsAreOwn == Spec => []LengthIsOwn
  <1>1. IInv /\ AnswerInv => LengthIsOwn
    <2> SUFFICES ASSUME IInv, AnswerInv, phase = "done", ~EarlierFile(replies)
                 PROVE  wire.headers.length \in {0, LengthOf[wire.body]}
      BY DEF LengthIsOwn, EarlierFile
    <2>1. IsWritten(wire, Current(ctx)) /\ LastInv /\ LengthInv
      BY DEF AnswerInv, SentInv
    <2>2. ctx.res \in 1..Len(ctx.objects)
      BY FieldsAre DEF IInv, TypeOK, AnswerInv, SentInv
    <2>3. CASE Plain(ctx)
      <3>1. Current(ctx).headers.length = 0
        BY <2>2, <2>3 DEF Current, Plain
      <3> QED
        BY <2>1, <3>1 DEF IsWritten
    <2>4. CASE ~Plain(ctx)
      <3> DEFINE n == Len(replies)
      <3>1. /\ n > 0 /\ replies[n].body = "file" /\ replies \in Seq(Made)
            /\ Current(ctx).headers.length = LengthOf["file"]
        BY <2>1, <2>4 DEF LengthInv, LastInv
      <3>2. n \in DOMAIN replies /\ \A j \in DOMAIN replies : ~(j > n)
        BY <3>1
      <3>3. IsLast(replies, n)
        BY <3>1, <3>2 DEF IsLast
      <3>4. Fits(Current(ctx), replies[n])
        BY <2>1, <3>2, <3>3 DEF LastInv
      <3>5. Current(ctx).body = "file"
        BY <3>1, <3>4 DEF Fits
      <3> QED
        BY <2>1, <3>1, <3>5 DEF IsWritten
    <2> QED
      BY <2>3, <2>4
  <1> QED
    BY <1>1, AnswersInductive, Inductive, PTL
=============================================================================
