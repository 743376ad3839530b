------------------------------ MODULE ReplyBody ------------------------------
(***************************************************************************)
(* What a streamed reply promises the server that sends it and the source  *)
(* that feeds it (createNodeStreamResponse() and the body stream it makes, *)
(* src/response/stream-response.ts): a pipe of chunks in the order of the  *)
(* source, without the streams, reads, events and wake-ups in between.     *)
(***************************************************************************)
EXTENDS Naturals

CONSTANT Chunks     \* number of chunks the source can produce

VARIABLES
    produced, eof,  \* chunks of the source so far, and whether it ended
    open,           \* is the source open
    queued,         \* chunks in the body that the server did not read yet
    delivered,
    body,           \* "readable", "closed", "errored" or "cancelled"
    client          \* "there", "leaving" or "gone"

source == <<produced, eof>>
sent == <<queued, delivered>>
pipe == <<source, open, sent, body, client>>

Init ==
    /\ produced = 0 /\ eof = FALSE /\ open = TRUE
    /\ queued = 0 /\ delivered = 0
    /\ body = "readable" /\ client \in {"there", "leaving"}

Produce ==
    /\ open /\ ~eof /\ produced < Chunks
    /\ produced' = produced + 1
    /\ UNCHANGED <<eof, open, sent, body, client>>

End ==
    /\ open /\ ~eof
    /\ eof' = TRUE
    /\ UNCHANGED <<produced, open, sent, body, client>>

(* The source fails, is destroyed, or closes itself after its end.          *)
Release ==
    /\ open
    /\ open' = FALSE
    /\ UNCHANGED <<source, sent, body, client>>

(* The next chunk, one at a time, while somebody may read it.               *)
Enqueue ==
    /\ body = "readable" /\ client # "gone"
    /\ queued = 0 /\ delivered < produced
    /\ queued' = 1
    /\ UNCHANGED <<source, open, delivered, body, client>>

Deliver ==
    /\ body \in {"readable", "closed"} /\ queued > 0
    /\ queued' = queued - 1
    /\ delivered' = delivered + 1
    /\ UNCHANGED <<source, open, body, client>>

(* The body ends cleanly for a client that is there only when it has every  *)
(* chunk of a source that ended.  No body ends before its source is closed. *)
Complete ==
    /\ body = "readable" /\ ~open /\ queued = 0
    /\ client = "there" => eof /\ delivered = produced
    /\ body' = "closed"
    /\ UNCHANGED <<source, open, sent, client>>

Fail ==
    /\ body = "readable" /\ queued = 0
    /\ body' = "errored" /\ open' = FALSE
    /\ UNCHANGED <<source, sent, client>>

Cancel ==
    /\ body = "readable"
    /\ body' = "cancelled" /\ queued' = 0 /\ open' = FALSE
    /\ UNCHANGED <<source, delivered, client>>

Leave ==
    /\ client = "there"
    /\ client' = "leaving"
    /\ UNCHANGED <<source, open, sent, body>>

(* A client that is gone closes the source.                                 *)
Gone ==
    /\ client = "leaving"
    /\ client' = "gone" /\ open' = FALSE
    /\ UNCHANGED <<source, sent, body>>

Next ==
    \/ Produce \/ End \/ Release \/ Enqueue \/ Deliver
    \/ Complete \/ Fail \/ Cancel \/ Leave \/ Gone

Spec == Init /\ [][Next]_pipe
=============================================================================
