------------------------- MODULE MultipartWholeScan -------------------------
(***************************************************************************)
(* What the limit scanner promises (the class comment of                   *)
(* MultipartLimitScanner, src/helpers/multipart-limits.ts): a scan of the  *)
(* whole body that knows nothing of chunks, of buffers or of what is kept  *)
(* between two of them.  A part opens where CRLF, the delimiter and CRLF   *)
(* stand in the body and nowhere else, every byte of a file is counted     *)
(* once, and the body is rejected for a reason of its own.                 *)
(***************************************************************************)
EXTENDS MultipartBodies

VARIABLES
    at,         \* offset of the next byte to look at, Undefined afterwards
    state, verdict,
    fields, files, isFile, partSize, parts

counters == <<fields, files, isFile, partSize, parts>>
scan == <<request, at, state, verdict, counters>>

body == request.body

Init ==
    /\ IsRequest(request)
    /\ at = 0 /\ state = "preamble" /\ verdict = "none"
    /\ fields = 0 /\ files = 0 /\ parts = 0 /\ partSize = 0 /\ isFile = FALSE

In(s) == verdict = "none" /\ state = s

Continue(newState, next) ==
    /\ state' = newState /\ at' = next
    /\ UNCHANGED <<request, verdict>>

Reject(reason) ==
    /\ verdict' = reason /\ at' = Undefined
    /\ UNCHANGED <<request, state>>

-----------------------------------------------------------------------------
(* Where the body is cut into parts.                                        *)

StartsFirst(i) ==
    HasAt(body, i, dashBoundary) /\ HasAt(body, i + Len(dashBoundary), CRLF)

Opens(i) == HasAt(body, i, delimiter) /\ HasAt(body, i + Len(delimiter), CRLF)

Closes(i) ==
    /\ HasAt(body, i, delimiter)
    /\ HasAt(body, i + Len(delimiter), <<"dash", "dash">>)
    /\ HasAt(body, i + Len(delimiter) + 2, CRLF)

EndsHeaders(i) == HasAt(body, i, HEADER_END)

-----------------------------------------------------------------------------
Preamble ==
    /\ In("preamble")
    /\ \E to \in at..Len(body) :
         /\ \/ Continue("preamble", to)
            \/ Continue("headers", to + Len(dashBoundary)) /\ StartsFirst(to)
         /\ \A i \in at..(to - 1) : ~StartsFirst(i)
    /\ UNCHANGED counters

(* The headers end at the first empty line.                                 *)
Part ==
    /\ In("headers")
    /\ \E end \in at..(at + MAX_PART_HEADER_BYTES) :
         LET block == SubSeq(body, at + 3, end) IN
         /\ EndsHeaders(end)
         /\ \A i \in at..(end - 1) : ~EndsHeaders(i)
         /\ IF ~IsPlain(block)
            THEN Reject("malformed") /\ UNCHANGED counters
            ELSE /\ isFile' = PossiblyFile(block)
                 /\ partSize' = 0
                 /\ parts' = parts + 1
                 /\ files' = files + One(PossiblyFile(block))
                 /\ fields' = fields + One(PossiblyField(block))
                 /\ IF TooMany(parts', files', fields')
                    THEN Reject("tooMany")
                    ELSE Continue("body", end + Len(HEADER_END))

(* Only a block whose empty line is not within three bytes of the limit, or *)
(* beyond, may be rejected for its length: its last CRLF CRLF may be cut.   *)
HeadersTooLong ==
    /\ In("headers")
    /\ Len(body) - at > MAX_PART_HEADER_BYTES
    /\ \A i \in at..(at + MAX_PART_HEADER_BYTES - 3) : ~EndsHeaders(i)
    /\ Reject("malformed")
    /\ UNCHANGED counters

(* Every byte of a file up to the delimiter counts, and none of them twice. *)
Data ==
    /\ In("body")
    /\ \E to \in at..Len(body) :
         /\ partSize' = partSize + (IF isFile THEN to - at ELSE 0)
         /\ IF isFile /\ partSize' > limits.fileSize
            THEN Reject("fileTooLarge")
            ELSE \/ Continue("body", to)
                 \/ Continue("headers", to + Len(delimiter)) /\ Opens(to)
                 \/ Continue("done", Undefined) /\ Closes(to)
         /\ \A i \in at..(to - 1) : ~Opens(i) /\ ~Closes(i)
    /\ UNCHANGED <<fields, files, isFile, parts>>

BodyTooLarge ==
    /\ verdict = "none"
    /\ Len(body) > limits.maxBytes
    /\ Reject("bodyTooLarge")
    /\ UNCHANGED counters

Next == Preamble \/ Part \/ HeadersTooLong \/ Data \/ BodyTooLarge

Spec == Init /\ [][Next]_scan
=============================================================================
