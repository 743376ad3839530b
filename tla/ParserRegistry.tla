--------------------------- MODULE ParserRegistry ---------------------------
(***************************************************************************)
(* ParserRegistry (src/request/parser-registry.ts) and the methods of      *)
(* HonoAdapter that call it (src/hono-adapter.ts): which layers of limits  *)
(* and parsers an application has, and in which order.  An application is  *)
(* a record of hono.routes and of the registry's two fields; RequestBody   *)
(* is instantiated with the layers.                                        *)
(***************************************************************************)
EXTENDS Sequences
LOCAL INSTANCE SequencesExt

CONSTANT Unset      \* no limit of its own

DEFAULT_PARSER_TYPES == <<"urlencoded", "json", "text", "multipart/form-data">>

(* matchesParserType(): the bodies of a parser type, as RequestBody has them. *)
BodyType(type) ==
    CASE type = "raw" -> "octets"
      [] type = "multipart/form-data" -> "multipart"
      [] OTHER -> type

LayerOf(kind, types, limit) ==
    [kind |-> kind, types |-> {BodyType(type) : type \in types}, limit |-> limit]
Use(app, kind, types, limit) ==
    [app EXCEPT !.layers = Append(@, LayerOf(kind, types, limit))]

NewApp == [layers |-> <<>>, registeredTypes |-> {}, batchedTypes |-> {}, batching |-> FALSE]

(* A type waits for the shared layer only while that is being made, and     *)
(* only without a limit of its own.                                         *)
register(app, type, limit) ==
    LET known == [app EXCEPT !.registeredTypes = @ \cup {type}]
    IN  IF limit = Unset /\ app.batching
        THEN [known EXCEPT !.batchedTypes = @ \cup {type}]
        ELSE Use(known, "parser", {type}, limit)

(* The types of the shared parser are the batched ones afterwards.  An      *)
(* override of useBodyParser() may give a type a limit: limitOf.            *)
createDefaultParser(app, limitOf) ==
    LET missingTypes == SelectSeq(DEFAULT_PARSER_TYPES,
                                  LAMBDA type : type \notin app.registeredTypes)
        started == [app EXCEPT !.batchedTypes = {}, !.batching = TRUE]
    IN  [FoldLeft(LAMBDA a, type : register(a, type, limitOf[type]), started, missingTypes)
            EXCEPT !.batching = FALSE]

(* The layers of types with a limit come before the body layer.             *)
initHttpServer(app, bodyParser, limitOf) ==
    LET parsed == createDefaultParser(app, limitOf)
    IN  IF bodyParser THEN Use(parsed, "limit", parsed.batchedTypes, Unset)
        ELSE Use(app, "limit", {}, Unset)

registerParserMiddleware(app, limitOf) ==
    LET parsed == createDefaultParser(app, limitOf)
    IN  IF parsed.batchedTypes = {} THEN parsed
        ELSE Use(parsed, "parser", parsed.batchedTypes, Unset)
=============================================================================
