-------------------------- MODULE MultipartScanner --------------------------
(***************************************************************************)
(* A multipart body while it streams in: readBodyWithinLimit()             *)
(* (src/helpers/body-parser.ts) reads it chunk by chunk and hands every    *)
(* chunk to MultipartLimitScanner.write() (src/helpers/multipart-limits.ts)*)
(* which counts parts, fields, files and file bytes.                       *)
(***************************************************************************)
EXTENDS MultipartBodies

CONSTANTS
    Requests,       \* [boundary, body, limits] of the requests to read
    ChunkSizes      \* sizes a chunk of the body can have

ASSUME RequestsAssumption == \A r \in Requests : IsRequest(r)
ASSUME ChunkSizesAssumption == ChunkSizes \subseteq Nat \ {0}

VARIABLES
    size,           \* bytes read of its body
    verdict,        \* the exception thrown, "none" before
    carry, fields, files, isFile, partSize, parts, state, tailStart,
    buffer,         \* write()'s variables while it runs
    offset,
    writing

counters == <<fields, files, isFile, partSize, parts>>
vars == <<request, size, verdict, counters, carry, state, tailStart, buffer,
          offset, writing>>

ScannerStates == {"body", "done", "headers", "preamble"}
Verdicts == {"none", "bodyTooLarge", "fileTooLarge", "tooMany", "malformed"}

TypeOK ==
    /\ size \in 0..Len(request.body)
    /\ verdict \in Verdicts
    /\ carry \in Seq(Bytes)
    /\ fields \in Nat /\ files \in Nat /\ parts \in Nat /\ partSize \in Nat
    /\ isFile \in BOOLEAN
    /\ state \in ScannerStates
    /\ buffer \in Seq(Bytes)
    /\ offset \in 0..Len(buffer)
    /\ tailStart \in {Undefined} \cup 0..Len(buffer)
    /\ writing \in BOOLEAN

Init ==
    /\ request \in Requests
    /\ size = 0 /\ verdict = "none"
    /\ carry = <<>> /\ state = "preamble" /\ tailStart = Undefined
    /\ fields = 0 /\ files = 0 /\ parts = 0 /\ partSize = 0 /\ isFile = FALSE
    /\ buffer = <<>> /\ offset = 0 /\ writing = FALSE

-----------------------------------------------------------------------------
(* Bytes of the buffer.                                                     *)

(* buffer.indexOf(pattern, offset)                                          *)
IndexOf(index, pattern) ==
    /\ HasAt(buffer, index, pattern)
    /\ \A i \in offset..(index - 1) : ~HasAt(buffer, i, pattern)

NotFound(pattern) == \A i \in offset..Len(buffer) : ~HasAt(buffer, i, pattern)

Larger(a, b) == IF a > b THEN a ELSE b

(* keep() ends the loop of write(): the rest waits for the next chunk.      *)
Keep(from) ==
    /\ tailStart' = from /\ offset' = from
    /\ UNCHANGED <<request, size, carry, buffer, writing>>

Goto(newState, newOffset) ==
    /\ state' = newState /\ offset' = newOffset
    /\ UNCHANGED <<request, size, carry, tailStart, buffer, writing>>

(* An exception leaves write(), and readBodyWithinLimit() cancels the body. *)
Throw(exception) ==
    /\ verdict' = exception
    /\ writing' = FALSE
    /\ UNCHANGED <<request, size, carry, state, tailStart, buffer, offset>>

-----------------------------------------------------------------------------
(* One turn of readBodyWithinLimit()'s loop up to write(), whose first line *)
(* ignores everything after the close delimiter.                            *)
ExceedsLimit(read) == read > limits.maxBytes

ReadChunk(length) ==
    /\ ~writing /\ verdict = "none"
    /\ size + length <= Len(request.body)
    /\ size' = size + length
    /\ IF ExceedsLimit(size + length)
       THEN /\ verdict' = "bodyTooLarge"
            /\ UNCHANGED <<request, counters, carry, state, tailStart, buffer, offset, writing>>
       ELSE IF state = "done"
       THEN UNCHANGED <<request, verdict, counters, carry, state, tailStart, buffer, offset, writing>>
       ELSE /\ buffer' = carry \o SubSeq(request.body, size + 1, size + length)
            /\ offset' = 0 /\ tailStart' = Undefined
            /\ writing' = TRUE
            /\ UNCHANGED <<request, verdict, counters, carry, state>>

Scanning(s) == writing /\ tailStart = Undefined /\ state = s

(* Mutant: the tail is one byte too short for a pattern that begins there.  *)
ShortTail(pattern) == Larger(offset, Len(buffer) - Len(pattern) + 2)
PossibleStart(pattern) == Larger(offset, Len(buffer) - Len(pattern) + 1)

(* Mutant: the search for a delimiter resumes where it found one.           *)
SameIndex(index) == index
NextIndex(index) == index + 1

ScanPreamble ==
    /\ Scanning("preamble")
    /\ \/ /\ NotFound(dashBoundary)
          /\ Keep(PossibleStart(dashBoundary))
          /\ UNCHANGED state
       \/ \E index \in offset..Len(buffer) :
            LET afterBoundary == index + Len(dashBoundary) IN
            /\ IndexOf(index, dashBoundary)
            /\ \/ Len(buffer) < afterBoundary + 2 /\ Keep(index) /\ UNCHANGED state
               \/ HasAt(buffer, afterBoundary, CRLF) /\ Goto("headers", afterBoundary)
               \/ /\ Len(buffer) >= afterBoundary + 2
                  /\ ~HasAt(buffer, afterBoundary, CRLF)
                  /\ Goto("preamble", NextIndex(index))
    /\ UNCHANGED <<verdict, counters>>

-----------------------------------------------------------------------------
(* Part headers.                                                            *)

TooLong(length) == length > MAX_PART_HEADER_BYTES

(* startPart()                                                              *)
StartPart(block, next) ==
    IF ~IsPlain(block)
    THEN Throw("malformed") /\ UNCHANGED counters
    ELSE /\ isFile' = PossiblyFile(block)
         /\ partSize' = 0
         /\ parts' = parts + 1
         /\ files' = files + One(PossiblyFile(block))
         /\ fields' = fields + One(PossiblyField(block))
         /\ IF TooMany(parts', files', fields')
            THEN Throw("tooMany")
            ELSE Goto("body", next) /\ UNCHANGED verdict

ScanHeaders ==
    /\ Scanning("headers")
    /\ \/ /\ NotFound(HEADER_END)
          /\ UNCHANGED counters
          /\ IF TooLong(Len(buffer) - offset)
             THEN Throw("malformed")
             ELSE Keep(offset) /\ UNCHANGED <<state, verdict>>
       \/ \E headerEnd \in offset..Len(buffer) :
            /\ IndexOf(headerEnd, HEADER_END)
            /\ IF TooLong(headerEnd - offset)
               THEN Throw("malformed") /\ UNCHANGED counters
               ELSE StartPart(SubSeq(buffer, offset + 3, headerEnd),
                              headerEnd + Len(HEADER_END))

-----------------------------------------------------------------------------
(* Part data.                                                               *)

(* addPartBytes()                                                           *)
Added(count) == IF isFile /\ count > 0 THEN partSize + count ELSE partSize
TooLarge(newSize) == isFile /\ newSize > partSize /\ newSize > limits.fileSize

AddPartBytes(count) ==
    /\ partSize' = Added(count)
    /\ UNCHANGED <<fields, files, isFile, parts>>

(* A delimiter that only closes or opens something when CRLF follows.       *)
IsClose(afterDelimiter) == HasAt(buffer, afterDelimiter, <<"dash", "dash">>)

(* Mutant: an incomplete delimiter is part data.                            *)
NeverIncomplete(suffixStart) == FALSE
IsIncomplete(suffixStart) == Len(buffer) < suffixStart + 2

ScanBody ==
    /\ Scanning("body")
    /\ \/ LET scannedEnd == PossibleStart(delimiter) IN
          /\ NotFound(delimiter)
          /\ AddPartBytes(scannedEnd - offset)
          /\ IF TooLarge(partSize')
             THEN Throw("fileTooLarge")
             ELSE Keep(scannedEnd) /\ UNCHANGED <<state, verdict>>
       \/ \E index \in offset..Len(buffer) :
            LET afterDelimiter == index + Len(delimiter)
                suffixStart ==
                    IF IsClose(afterDelimiter) THEN afterDelimiter + 2 ELSE afterDelimiter
                next == IF IsClose(afterDelimiter) THEN "done" ELSE "headers"
            IN
            /\ IndexOf(index, delimiter)
            /\ IF TooLarge(Added(index - offset))
               THEN AddPartBytes(index - offset) /\ Throw("fileTooLarge")
               ELSE IF IsIncomplete(suffixStart)
               THEN /\ AddPartBytes(index - offset)
                    /\ Keep(index) /\ UNCHANGED <<state, verdict>>
               ELSE IF HasAt(buffer, suffixStart, CRLF)
               THEN /\ AddPartBytes(index - offset)
                    /\ Goto(next, afterDelimiter) /\ UNCHANGED verdict
               ELSE /\ AddPartBytes(index - offset + 1)
                    /\ IF TooLarge(partSize')
                       THEN Throw("fileTooLarge")
                       ELSE Goto("body", NextIndex(index)) /\ UNCHANGED verdict

(* The last line of write().                                                *)
EndWrite ==
    /\ writing /\ (state = "done" \/ tailStart # Undefined)
    /\ carry' = IF tailStart = Undefined THEN <<>>
                ELSE SubSeq(buffer, tailStart + 1, Len(buffer))
    /\ buffer' = <<>> /\ offset' = 0 /\ tailStart' = Undefined
    /\ writing' = FALSE
    /\ UNCHANGED <<request, size, verdict, counters, state>>

-----------------------------------------------------------------------------
Scan == ScanPreamble \/ ScanHeaders \/ ScanBody

Next == (\E length \in ChunkSizes : ReadChunk(length)) \/ Scan \/ EndWrite

Spec == Init /\ [][Next]_vars

-----------------------------------------------------------------------------
(* What the scanner keeps of a body between two chunks is bounded by a part *)
(* header or an incomplete delimiter, however the body is cut.              *)
CarryIsBounded == Len(carry) <= Larger(MAX_PART_HEADER_BYTES, Len(delimiter) + 3)

(* A body that was not rejected is within its limits, in every state of the *)
(* scan: no count runs ahead of its check.                                  *)
AcceptedIsWithinLimits ==
    verdict = "none" =>
        /\ size <= limits.maxBytes
        /\ parts <= limits.parts /\ files <= limits.files /\ fields <= limits.fields
        /\ isFile => partSize <= limits.fileSize

(* A turn of write()'s loop that does not end it moves on in the buffer: no *)
(* body keeps the loop, and with it the whole process, busy for ever.       *)
ScanAdvances == [][Scan => tailStart' # Undefined \/ ~writing' \/ offset' > offset]_vars

-----------------------------------------------------------------------------
(* The body and what was looked at of it.                                   *)

IsOver == verdict # "none" \/ state = "done"

position == IF IsOver THEN Undefined
            ELSE IF writing THEN size - Len(buffer) + offset
            ELSE size - Len(carry)

Whole == INSTANCE MultipartWholeScan WITH at <- position

(* However a body is cut into chunks, write() does what a scan of the whole *)
(* body does: a delimiter that one chunk begins and another ends opens its  *)
(* part, data that only resembles one is counted, no byte is counted twice  *)
(* when it is kept for the next chunk, and a rejected body deserves it.     *)
ImplementsWholeScan == Whole!Spec
=============================================================================
