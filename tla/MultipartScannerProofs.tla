----------------------- MODULE MultipartScannerProofs -----------------------
(* Proofs about MultipartScanner for every set of requests: every body,     *)
(* boundary and limits, and every way of cutting a body into chunks.        *)
EXTENDS MultipartScanner, SequenceTheorems, TLAPS

Bound == Larger(MAX_PART_HEADER_BYTES, Len(delimiter) + 3)

(* The part of write()'s buffer that keep() holds back is short.            *)
TailInv ==
    /\ tailStart # Undefined => Len(buffer) - tailStart <= Bound
    /\ verdict = "none" \/ ~writing

IInv ==
    /\ request \in Requests
    /\ TypeOK /\ TailInv /\ CarryIsBounded /\ AcceptedIsWithinLimits

(* The lengths of what the scanner looks for.                               *)
LEMMA PatternLengths ==
    ASSUME request \in Requests
    PROVE  /\ Len(request.boundary) \in Nat
           /\ Len(dashBoundary) = Len(request.boundary) + 2
           /\ Len(delimiter) = Len(request.boundary) + 4
           /\ Len(CRLF) = 2 /\ Len(HEADER_END) = 4
           /\ limits \in Limits
  <1>1. request.boundary \in Seq(Bytes) /\ limits \in Limits
    BY RequestsAssumption DEF limits, IsRequest
  <1>2. <<"dash", "dash">> \in Seq(Bytes) /\ Len(<<"dash", "dash">>) = 2
        /\ CRLF \in Seq(Bytes) /\ Len(CRLF) = 2
    BY DEF CRLF, Bytes
  <1>3. dashBoundary \in Seq(Bytes) /\ Len(dashBoundary) = Len(request.boundary) + 2
    <2>1. \A s, t \in Seq(Bytes) : s \o t \in Seq(Bytes) /\ Len(s \o t) = Len(s) + Len(t)
      BY ConcatProperties
    <2>2. Len(request.boundary) \in Nat
      BY <1>1, LenProperties
    <2>3. dashBoundary \in Seq(Bytes) /\ Len(dashBoundary) = 2 + Len(request.boundary)
      BY <1>1, <1>2, <2>1, Zenon DEF dashBoundary
    <2> QED
      BY <2>2, <2>3
  <1>4. Len(delimiter) = Len(request.boundary) + 4
    <2>1. \A s, t \in Seq(Bytes) : Len(s \o t) = Len(s) + Len(t)
      BY ConcatProperties
    <2>2. Len(delimiter) = 2 + Len(dashBoundary)
      BY <1>2, <1>3, <2>1, Zenon DEF delimiter
    <2>3. Len(request.boundary) \in Nat
      BY <1>1, LenProperties
    <2> QED
      BY <1>3, <2>2, <2>3
  <1>5. Len(HEADER_END) = 4
    <2>1. \A s, t \in Seq(Bytes) : Len(s \o t) = Len(s) + Len(t)
      BY ConcatProperties
    <2>2. Len(HEADER_END) = 2 + 2
      BY <1>2, <2>1, Zenon DEF HEADER_END
    <2> QED
      BY <2>2
  <1> QED
    BY <1>1, <1>2, <1>3, <1>4, <1>5, LenProperties

(* keep() of a short tail preserves the invariant.                          *)
LEMMA KeepStep ==
    ASSUME IInv, writing, verdict = "none", NEW from \in offset..Len(buffer),
           Len(buffer) - from <= Bound,
           Keep(from), UNCHANGED <<state, verdict>>,
           fields' = fields, files' = files, isFile' = isFile, parts' = parts,
           partSize' \in Nat, isFile => partSize' <= limits.fileSize
    PROVE  IInv'
  <1> USE DEF IInv, Keep
  <1>0. Len(buffer) \in Nat /\ offset \in Nat
    BY LenProperties DEF TypeOK
  <1>1. Bound' = Bound /\ limits' = limits
    BY DEF Bound, delimiter, dashBoundary, limits
  <1>2. TypeOK'
    BY <1>0 DEF TypeOK
  <1>3. TailInv' /\ CarryIsBounded'
    BY <1>1 DEF TailInv, CarryIsBounded, Bound, delimiter, dashBoundary
  <1>4. AcceptedIsWithinLimits'
    BY <1>1 DEF AcceptedIsWithinLimits
  <1> QED
    BY <1>2, <1>3, <1>4

(* Going on in the buffer preserves it when the counters are in bounds.     *)
LEMMA GotoStep ==
    ASSUME IInv, writing, verdict = "none", tailStart = Undefined,
           NEW newState \in ScannerStates, NEW newOffset \in 0..Len(buffer),
           Goto(newState, newOffset), UNCHANGED verdict,
           fields' \in Nat, files' \in Nat, parts' \in Nat, partSize' \in Nat,
           isFile' \in BOOLEAN,
           parts' <= limits.parts, files' <= limits.files, fields' <= limits.fields,
           isFile' => partSize' <= limits.fileSize
    PROVE  IInv'
  <1> USE DEF IInv, Goto
  <1>1. Bound' = Bound /\ limits' = limits
    BY DEF Bound, delimiter, dashBoundary, limits
  <1>2. TypeOK'
    BY DEF TypeOK
  <1>3. TailInv' /\ CarryIsBounded'
    BY <1>1 DEF TailInv, CarryIsBounded, Bound, delimiter, dashBoundary
  <1>4. AcceptedIsWithinLimits'
    BY <1>1 DEF AcceptedIsWithinLimits
  <1> QED
    BY <1>2, <1>3, <1>4

(* So does an exception.                                                    *)
LEMMA ThrowStep ==
    ASSUME IInv, NEW exception \in Verdicts \ {"none"}, Throw(exception),
           fields' \in Nat, files' \in Nat, parts' \in Nat, partSize' \in Nat,
           isFile' \in BOOLEAN
    PROVE  IInv'
  <1> USE DEF IInv, Throw
  <1>1. Bound' = Bound
    BY DEF Bound, delimiter, dashBoundary
  <1>2. TypeOK'
    BY DEF TypeOK
  <1>3. TailInv' /\ CarryIsBounded'
    BY <1>1 DEF TailInv, CarryIsBounded, Bound, delimiter, dashBoundary
  <1>4. AcceptedIsWithinLimits'
    BY DEF AcceptedIsWithinLimits
  <1> QED
    BY <1>2, <1>3, <1>4

(* What is held back because a pattern may begin there is shorter than the  *)
(* pattern.                                                                 *)
LEMMA PossibleStartIs ==
    ASSUME TypeOK, NEW pattern, Len(pattern) \in Nat \ {0}
    PROVE  /\ PossibleStart(pattern) \in offset..Len(buffer)
           /\ Len(buffer) - PossibleStart(pattern) < Len(pattern)
  BY LenProperties DEF PossibleStart, Larger, TypeOK

(* The preamble.                                                            *)
LEMMA PreambleStep == ASSUME IInv, ScanPreamble PROVE IInv'
  <1> USE DEF IInv
  <1>0. /\ writing /\ verdict = "none" /\ tailStart = Undefined
        /\ Len(buffer) \in Nat /\ offset \in 0..Len(buffer)
        /\ UNCHANGED <<verdict, counters>>
    BY LenProperties DEF ScanPreamble, Scanning, TailInv, TypeOK
  <1>1. Len(dashBoundary) \in Nat \ {0} /\ Len(delimiter) = Len(dashBoundary) + 2
        /\ Bound \in Int /\ Bound >= Len(delimiter) + 3 /\ Len(CRLF) = 2
    BY PatternLengths, HeaderAssumption DEF Bound, Larger
  <1>2. /\ partSize' = partSize /\ fields' = fields /\ files' = files /\ parts' = parts
        /\ isFile' = isFile /\ partSize \in Nat /\ fields \in Nat /\ files \in Nat
        /\ parts \in Nat /\ isFile \in BOOLEAN
        /\ (isFile => partSize <= limits.fileSize) /\ parts <= limits.parts
        /\ files <= limits.files /\ fields <= limits.fields
    BY <1>0 DEF counters, AcceptedIsWithinLimits, TypeOK
  <1>3. CASE Keep(PossibleStart(dashBoundary)) /\ UNCHANGED state
    BY <1>0, <1>1, <1>2, <1>3, PossibleStartIs, KeepStep
  <1>4. CASE \E index \in offset..Len(buffer) :
               \/ Len(buffer) < index + Len(dashBoundary) + 2 /\ Keep(index) /\ UNCHANGED state
               \/ HasAt(buffer, index + Len(dashBoundary), CRLF)
                    /\ Goto("headers", index + Len(dashBoundary))
               \/ /\ Len(buffer) >= index + Len(dashBoundary) + 2
                  /\ Goto("preamble", index + 1)
    <2>1. PICK index \in offset..Len(buffer) :
               \/ Len(buffer) < index + Len(dashBoundary) + 2 /\ Keep(index) /\ UNCHANGED state
               \/ HasAt(buffer, index + Len(dashBoundary), CRLF)
                    /\ Goto("headers", index + Len(dashBoundary))
               \/ /\ Len(buffer) >= index + Len(dashBoundary) + 2
                  /\ Goto("preamble", index + 1)
      BY <1>4
    <2>2. CASE Len(buffer) < index + Len(dashBoundary) + 2 /\ Keep(index) /\ UNCHANGED state
      <3>1. Len(buffer) - index <= Bound
        BY <1>0, <1>1, <2>2
      <3> QED
        BY <1>0, <1>2, <2>2, <3>1, KeepStep
    <2>3. CASE HasAt(buffer, index + Len(dashBoundary), CRLF)
                 /\ Goto("headers", index + Len(dashBoundary))
      <3>1. index + Len(dashBoundary) \in 0..Len(buffer) /\ "headers" \in ScannerStates
        BY <1>0, <1>1, <2>3 DEF HasAt, ScannerStates
      <3> QED
        BY <1>0, <1>2, <2>3, <3>1, GotoStep
    <2>4. CASE Len(buffer) >= index + Len(dashBoundary) + 2 /\ Goto("preamble", index + 1)
      <3>1. index + 1 \in 0..Len(buffer) /\ "preamble" \in ScannerStates
        BY <1>0, <1>1, <2>4 DEF ScannerStates
      <3> QED
        BY <1>0, <1>2, <2>4, <3>1, GotoStep
    <2> QED
      BY <2>1, <2>2, <2>3, <2>4
  <1> QED
    BY <1>3, <1>4 DEF ScanPreamble, NextIndex

(* Part headers.                                                            *)
LEMMA HeadersStep == ASSUME IInv, ScanHeaders PROVE IInv'
  <1> USE DEF IInv
  <1>0. /\ writing /\ verdict = "none" /\ tailStart = Undefined
        /\ Len(buffer) \in Nat /\ offset \in 0..Len(buffer)
    BY LenProperties DEF ScanHeaders, Scanning, TailInv, TypeOK
  <1>1. Bound \in Int /\ Bound >= MAX_PART_HEADER_BYTES /\ Len(HEADER_END) = 4
    BY PatternLengths, HeaderAssumption DEF Bound, Larger
  <1>2. /\ partSize \in Nat /\ fields \in Nat /\ files \in Nat
        /\ parts \in Nat /\ isFile \in BOOLEAN
        /\ isFile => partSize <= limits.fileSize
    BY <1>0 DEF AcceptedIsWithinLimits, TypeOK
  <1>3. CASE Throw("malformed") /\ UNCHANGED counters
    BY <1>2, <1>3, ThrowStep DEF counters, Verdicts
  <1>4. CASE /\ Len(buffer) - offset <= MAX_PART_HEADER_BYTES
             /\ Keep(offset) /\ UNCHANGED <<state, verdict>> /\ UNCHANGED counters
    <2>1. Len(buffer) - offset <= Bound /\ offset \in offset..Len(buffer)
      BY <1>0, <1>1, <1>4, HeaderAssumption
    <2> QED
      BY <1>0, <1>2, <1>4, <2>1, KeepStep DEF counters
  <1>5. ASSUME NEW headerEnd \in offset..Len(buffer), IndexOf(headerEnd, HEADER_END),
               NEW block, StartPart(block, headerEnd + 4)
        PROVE  IInv'
    <2>1. CASE ~IsPlain(block)
      BY <1>3, <1>5, <2>1 DEF StartPart
    <2>2. CASE IsPlain(block)
      <3>1. /\ isFile' = PossiblyFile(block) /\ partSize' = 0 /\ parts' = parts + 1
            /\ files' = files + One(PossiblyFile(block))
            /\ fields' = fields + One(PossiblyField(block))
        BY <1>5, <2>2 DEF StartPart
      <3>2. isFile' \in BOOLEAN
        BY <3>1 DEF PossiblyFile
      <3>3. One(PossiblyFile(block)) \in Nat /\ One(PossiblyField(block)) \in Nat
        BY DEF One
      <3>4. partSize' \in Nat /\ parts' \in Nat /\ files' \in Nat /\ fields' \in Nat
        BY <1>2, <3>1, <3>3
      <3>5. CASE TooMany(parts', files', fields')
        <4>1. Throw("tooMany")
          BY <1>5, <2>2, <3>5 DEF StartPart
        <4> QED
          BY <3>2, <3>4, <4>1, ThrowStep DEF Verdicts
      <3>6. CASE ~TooMany(parts', files', fields')
        <4>1. Goto("body", headerEnd + 4) /\ UNCHANGED verdict
          BY <1>5, <2>2, <3>6 DEF StartPart
        <4>2. parts' <= limits.parts /\ files' <= limits.files /\ fields' <= limits.fields
          <5>1. limits.parts \in Nat /\ limits.files \in Nat /\ limits.fields \in Nat
            BY PatternLengths DEF Limits
          <5>2. /\ ~(parts' > limits.parts) /\ ~(files' > limits.files)
                /\ ~(fields' > limits.fields)
            BY <3>6 DEF TooMany
          <5> QED
            BY <3>4, <5>1, <5>2
        <4>3. partSize' <= limits.fileSize
          BY <3>1, PatternLengths DEF Limits
        <4>4. headerEnd + 4 \in 0..Len(buffer) /\ "body" \in ScannerStates
          BY <1>0, <1>1, <1>5 DEF IndexOf, HasAt, ScannerStates
        <4> QED
          BY <1>0, <3>2, <3>4, <4>1, <4>2, <4>3, <4>4, GotoStep
      <3> QED
        BY <3>5, <3>6
    <2> QED
      BY <2>1, <2>2
  <1> QED
    BY <1>0, <1>1, <1>3, <1>4, <1>5, HeaderAssumption DEF ScanHeaders, TooLong

(* addPartBytes() keeps the counters in bounds, or the scan throws.         *)
LEMMA AddPartBytesIs ==
    ASSUME IInv, NEW count \in Int, AddPartBytes(count)
    PROVE  /\ partSize' \in Nat /\ partSize' = Added(count)
           /\ fields' = fields /\ files' = files /\ isFile' = isFile /\ parts' = parts
           /\ fields \in Nat /\ files \in Nat /\ isFile \in BOOLEAN /\ parts \in Nat
           /\ verdict = "none" /\ ~TooLarge(partSize') /\ isFile => partSize' <= limits.fileSize
  <1>1. partSize \in Nat /\ (isFile /\ verdict = "none" => partSize <= limits.fileSize)
        /\ limits.fileSize \in Nat
    BY PatternLengths DEF IInv, TypeOK, AcceptedIsWithinLimits, Limits
  <1> QED
    BY <1>1 DEF AddPartBytes, Added, TooLarge, IInv, TypeOK

(* An exception of addPartBytes().                                          *)
LEMMA FileTooLargeStep ==
    ASSUME IInv, NEW count \in Int, AddPartBytes(count), Throw("fileTooLarge")
    PROVE  IInv'
  BY AddPartBytesIs, ThrowStep DEF Verdicts

(* Part data.                                                               *)
LEMMA BodyStep == ASSUME IInv, ScanBody PROVE IInv'
  <1>0. /\ writing /\ verdict = "none" /\ tailStart = Undefined
        /\ Len(buffer) \in Nat /\ offset \in 0..Len(buffer)
    BY LenProperties DEF ScanBody, Scanning, TailInv, TypeOK, IInv
  <1>1. Len(delimiter) \in Nat \ {0} /\ Bound \in Int /\ Bound >= Len(delimiter) + 3
        /\ Len(CRLF) = 2
    BY PatternLengths, HeaderAssumption DEF Bound, Larger, IInv
  <1>2. parts <= limits.parts /\ files <= limits.files /\ fields <= limits.fields
    BY <1>0 DEF AcceptedIsWithinLimits, IInv
  <1>3. ASSUME NEW count \in Int, AddPartBytes(count), ~TooLarge(partSize'),
               NEW from \in offset..Len(buffer), Len(buffer) - from <= Bound,
               Keep(from), UNCHANGED <<state, verdict>>
        PROVE  IInv'
    BY <1>0, <1>3, AddPartBytesIs, KeepStep
  <1>4. ASSUME NEW count \in Int, AddPartBytes(count), ~TooLarge(partSize'),
               NEW newState \in ScannerStates, NEW newOffset \in 0..Len(buffer),
               Goto(newState, newOffset), UNCHANGED verdict
        PROVE  IInv'
    BY <1>0, <1>2, <1>4, AddPartBytesIs, GotoStep
  <1>5. CASE /\ AddPartBytes(PossibleStart(delimiter) - offset)
             /\ IF TooLarge(partSize')
                THEN Throw("fileTooLarge")
                ELSE Keep(PossibleStart(delimiter)) /\ UNCHANGED <<state, verdict>>
    <2>1. PossibleStart(delimiter) \in offset..Len(buffer)
          /\ Len(buffer) - PossibleStart(delimiter) <= Bound
          /\ PossibleStart(delimiter) - offset \in Int
      BY <1>0, <1>1, PossibleStartIs DEF IInv
    <2> QED
      BY <1>3, <1>5, <2>1, FileTooLargeStep
  <1>6. ASSUME NEW index \in offset..Len(buffer),
               NEW suffixStart \in {index + Len(delimiter), index + Len(delimiter) + 2},
               NEW next \in {"done", "headers"},
               IndexOf(index, delimiter),
               IF TooLarge(Added(index - offset))
               THEN AddPartBytes(index - offset) /\ Throw("fileTooLarge")
               ELSE IF IsIncomplete(suffixStart)
               THEN /\ AddPartBytes(index - offset)
                    /\ Keep(index) /\ UNCHANGED <<state, verdict>>
               ELSE IF HasAt(buffer, suffixStart, CRLF)
               THEN /\ AddPartBytes(index - offset)
                    /\ Goto(next, index + Len(delimiter)) /\ UNCHANGED verdict
               ELSE /\ AddPartBytes(index - offset + 1)
                    /\ IF TooLarge(partSize')
                       THEN Throw("fileTooLarge")
                       ELSE Goto("body", NextIndex(index)) /\ UNCHANGED verdict
        PROVE  IInv'
    <2>0. index \in Nat /\ index - offset \in Int /\ index - offset + 1 \in Int
          /\ suffixStart \in Nat /\ index + Len(delimiter) \in 0..Len(buffer)
          /\ index + 1 \in 0..Len(buffer)
      BY <1>0, <1>1, <1>6 DEF IndexOf, HasAt
    <2>1. CASE TooLarge(Added(index - offset))
      BY <1>6, <2>0, <2>1, FileTooLargeStep
    <2>2. CASE ~TooLarge(Added(index - offset)) /\ IsIncomplete(suffixStart)
      <3>1. Len(buffer) - index <= Bound
        BY <1>0, <1>1, <2>0, <2>2 DEF IsIncomplete
      <3>2. AddPartBytes(index - offset) /\ Keep(index) /\ UNCHANGED <<state, verdict>>
        BY <1>6, <2>2
      <3>3. ~TooLarge(partSize')
        BY <2>2, <3>2 DEF AddPartBytes
      <3> QED
        BY <1>3, <2>0, <3>1, <3>2, <3>3
    <2>3. CASE /\ ~TooLarge(Added(index - offset)) /\ ~IsIncomplete(suffixStart)
               /\ HasAt(buffer, suffixStart, CRLF)
      <3>1. AddPartBytes(index - offset) /\ Goto(next, index + Len(delimiter)) /\ UNCHANGED verdict
        BY <1>6, <2>3
      <3>2. ~TooLarge(partSize') /\ next \in ScannerStates
        BY <2>3, <3>1 DEF AddPartBytes, ScannerStates
      <3> QED
        BY <1>4, <2>0, <3>1, <3>2
    <2>4. CASE /\ ~TooLarge(Added(index - offset)) /\ ~IsIncomplete(suffixStart)
               /\ ~HasAt(buffer, suffixStart, CRLF)
      <3>1. AddPartBytes(index - offset + 1)
        BY <1>6, <2>4
      <3>2. CASE TooLarge(partSize')
        BY <1>6, <2>0, <2>4, <3>1, <3>2, FileTooLargeStep
      <3>3. CASE ~TooLarge(partSize')
        <4>1. Goto("body", index + 1) /\ UNCHANGED verdict /\ "body" \in ScannerStates
          BY <1>6, <2>4, <3>3 DEF NextIndex, ScannerStates
        <4> QED
          BY <1>4, <2>0, <3>1, <3>3, <4>1
      <3> QED
        BY <3>2, <3>3
    <2> QED
      BY <2>1, <2>2, <2>3, <2>4
  <1>7. CASE \E index \in offset..Len(buffer) :
            LET afterDelimiter == index + Len(delimiter)
                suffixStart ==
                    IF IsClose(afterDelimiter) THEN afterDelimiter + 2 ELSE afterDelimiter
                next == IF IsClose(afterDelimiter) THEN "done" ELSE "headers"
            IN
            /\ IndexOf(index, delimiter)
            /\ IF TooLarge(Added(index - offset))
               THEN AddPartBytes(index - offset) /\ Throw("fileTooLarge")
               ELSE IF IsIncomplete(suffixStart)
               THEN /\ AddPartBytes(index - offset)
                    /\ Keep(index) /\ UNCHANGED <<state, verdict>>
               ELSE IF HasAt(buffer, suffixStart, CRLF)
               THEN /\ AddPartBytes(index - offset)
                    /\ Goto(next, afterDelimiter) /\ UNCHANGED verdict
               ELSE /\ AddPartBytes(index - offset + 1)
                    /\ IF TooLarge(partSize')
                       THEN Throw("fileTooLarge")
                       ELSE Goto("body", NextIndex(index)) /\ UNCHANGED verdict
    BY <1>6, <1>7
  <1> QED
    BY <1>5, <1>7 DEF ScanBody

(* The start and the end of write().                                        *)
LEMMA ReadChunkStep ==
    ASSUME IInv, NEW length \in ChunkSizes, ReadChunk(length) PROVE IInv'
  <1> USE DEF IInv
  <1>0. /\ length \in Nat /\ length > 0 /\ size \in Nat /\ Len(request.body) \in Nat
        /\ request.body \in Seq(Bytes) /\ size + length \in 0..Len(request.body)
        /\ request' = request /\ size' = size + length /\ carry' = carry
        /\ counters' = counters /\ verdict = "none" /\ limits' = limits
        /\ ~writing /\ state' = state
    BY ChunkSizesAssumption, RequestsAssumption, LenProperties DEF IsRequest, ReadChunk, TypeOK, limits
  <1>1. Bound' = Bound
    BY <1>0 DEF Bound, delimiter, dashBoundary
  <1>2. CASE /\ size + length > limits.maxBytes /\ verdict' = "bodyTooLarge"
             /\ UNCHANGED <<buffer, offset, tailStart, writing>>
    BY <1>0, <1>1, <1>2 DEF TypeOK, Verdicts, counters, TailInv, CarryIsBounded, Bound,
        AcceptedIsWithinLimits
  <1>3. CASE /\ size + length <= limits.maxBytes
             /\ UNCHANGED <<verdict, buffer, offset, tailStart, writing>>
    BY <1>0, <1>1, <1>3 DEF TypeOK, counters, TailInv, CarryIsBounded, Bound,
        AcceptedIsWithinLimits
  <1>4. CASE /\ size + length <= limits.maxBytes
             /\ buffer' = carry \o SubSeq(request.body, size + 1, size + length)
             /\ offset' = 0 /\ tailStart' = Undefined /\ writing' = TRUE
             /\ UNCHANGED verdict
    <2>1. SubSeq(request.body, size + 1, size + length) \in Seq(Bytes)
      BY <1>0, SubSeqProperties
    <2>2. buffer' \in Seq(Bytes)
      BY <1>4, <2>1, ConcatProperties DEF TypeOK
    <2>3. TypeOK'
      BY <1>0, <1>4, <2>2, LenProperties DEF TypeOK, counters
    <2> QED
      BY <1>0, <1>1, <1>4, <2>3 DEF TailInv, counters, CarryIsBounded, Bound,
          AcceptedIsWithinLimits, Undefined
  <1>5. limits.maxBytes \in Nat
    BY PatternLengths DEF Limits
  <1>6. CASE size + length > limits.maxBytes
    BY <1>2, <1>6 DEF ReadChunk, ExceedsLimit
  <1>7. CASE ~(size + length > limits.maxBytes) /\ state = "done"
    BY <1>0, <1>3, <1>5, <1>7 DEF ReadChunk, ExceedsLimit
  <1>8. CASE ~(size + length > limits.maxBytes) /\ state # "done"
    <2>1. size + length <= limits.maxBytes
      BY <1>0, <1>5, <1>8
    <2>2. /\ buffer' = carry \o SubSeq(request.body, size + 1, size + length)
          /\ offset' = 0 /\ tailStart' = Undefined /\ writing' = TRUE /\ UNCHANGED verdict
      BY <1>8 DEF ReadChunk, ExceedsLimit
    <2> QED
      BY <1>4, <2>1, <2>2
  <1> QED
    BY <1>6, <1>7, <1>8

(* What write() keeps for the next chunk.                                   *)
LEMMA EndWriteStep == ASSUME IInv, EndWrite PROVE IInv'
  <1> USE DEF IInv
  <1>0. /\ buffer \in Seq(Bytes) /\ Len(buffer) \in Nat
        /\ tailStart \in {Undefined} \cup 0..Len(buffer)
        /\ UNCHANGED <<request, size, verdict, counters, state>>
        /\ buffer' = <<>> /\ offset' = 0 /\ tailStart' = Undefined /\ writing' = FALSE
    BY LenProperties DEF EndWrite, TypeOK
  <1>1. Bound' = Bound /\ limits' = limits /\ Bound \in Nat
    BY <1>0, PatternLengths, HeaderAssumption DEF Bound, delimiter, dashBoundary, limits, Larger
  <1>2. carry' \in Seq(Bytes) /\ Len(carry') <= Bound
    <2>1. CASE tailStart = Undefined
      <3>1. carry' = <<>>
        BY <2>1 DEF EndWrite
      <3> QED
        BY <1>1, <3>1, EmptySeq
    <2>2. CASE tailStart # Undefined
      <3>1. carry' = SubSeq(buffer, tailStart + 1, Len(buffer))
        BY <2>2 DEF EndWrite
      <3>2. tailStart \in 0..Len(buffer) /\ Len(buffer) - tailStart <= Bound
        BY <1>0, <2>2 DEF TailInv
      <3> QED
        BY <1>0, <1>1, <3>1, <3>2, SubSeqProperties
    <2> QED
      BY <2>1, <2>2
  <1>3. TypeOK'
    <2>1. buffer' \in Seq(Bytes) /\ Len(buffer') = 0
      BY <1>0, EmptySeq
    <2>2. writing' \in BOOLEAN
      BY <1>0, Zenon
    <2>3. /\ offset' \in 0..Len(buffer') /\ tailStart' \in {Undefined} \cup 0..Len(buffer')
          /\ carry' \in Seq(Bytes)
      BY <1>0, <1>2, <2>1
    <2> QED
      BY <1>0, <2>1, <2>2, <2>3 DEF TypeOK, counters
  <1> QED
    BY <1>0, <1>1, <1>2, <1>3 DEF TailInv, counters, CarryIsBounded, Bound, AcceptedIsWithinLimits,
        Undefined

(* The invariant holds at first.                                            *)
LEMMA InitInv == Init => IInv
  <1> SUFFICES ASSUME Init PROVE IInv
    OBVIOUS
  <1>1. request \in Requests /\ Bound \in Nat /\ limits \in Limits
    BY PatternLengths, HeaderAssumption DEF Init, Bound, Larger
  <1>2. Len(request.body) \in Nat
    BY <1>1, RequestsAssumption, LenProperties DEF IsRequest
  <1>3. TypeOK
    <2>1. /\ carry \in Seq(Bytes) /\ buffer \in Seq(Bytes) /\ Len(buffer) = 0
      BY EmptySeq DEF Init
    <2>2. isFile \in BOOLEAN /\ writing \in BOOLEAN
      BY Zenon DEF Init
    <2>3. /\ verdict \in Verdicts /\ state \in ScannerStates
          /\ size \in 0..Len(request.body) /\ offset \in 0..Len(buffer)
          /\ tailStart \in {Undefined} \cup 0..Len(buffer)
          /\ fields \in Nat /\ files \in Nat /\ parts \in Nat /\ partSize \in Nat
      BY <1>2, <2>1 DEF Init, Verdicts, ScannerStates
    <2> QED
      BY <2>1, <2>2, <2>3 DEF TypeOK
  <1>4. TailInv
    BY DEF Init, TailInv
  <1>5. CarryIsBounded
    BY <1>1 DEF Init, CarryIsBounded, Bound
  <1>6. AcceptedIsWithinLimits
    BY <1>1 DEF Init, AcceptedIsWithinLimits, Limits
  <1> QED
    BY <1>1, <1>3, <1>4, <1>5, <1>6 DEF IInv

(* Every step preserves the invariant.                                      *)
LEMMA StepInv == IInv /\ [Next]_vars => IInv'
  <1> SUFFICES ASSUME IInv, [Next]_vars PROVE IInv'
    OBVIOUS
  <1>1. CASE \E length \in ChunkSizes : ReadChunk(length)
    BY <1>1, ReadChunkStep
  <1>2. CASE Scan
    BY <1>2, PreambleStep, HeadersStep, BodyStep DEF Scan
  <1>3. CASE EndWrite
    BY <1>3, EndWriteStep
  <1>4. CASE UNCHANGED vars
    BY <1>4 DEF vars, counters, IInv, TypeOK, TailInv, CarryIsBounded, Bound, delimiter,
        dashBoundary, AcceptedIsWithinLimits, limits
  <1> QED
    BY <1>1, <1>2, <1>3, <1>4 DEF Next

(* A turn of the loop goes on at a later offset.                            *)
LEMMA ScanStep ==
    ASSUME IInv, Scan
    PROVE  tailStart' # Undefined \/ ~writing' \/ offset' > offset
  <1>0. /\ Len(buffer) \in Nat /\ offset \in Nat
        /\ Len(dashBoundary) \in Nat \ {0} /\ Len(delimiter) \in Nat \ {0}
        /\ Len(HEADER_END) = 4
    BY PatternLengths, LenProperties DEF IInv, TypeOK
  <1>1. ASSUME NEW from \in offset..Len(buffer), Keep(from) PROVE tailStart' # Undefined
    BY <1>0, <1>1 DEF Keep, Undefined
  <1>2. PossibleStart(dashBoundary) \in offset..Len(buffer)
        /\ PossibleStart(delimiter) \in offset..Len(buffer) /\ offset \in offset..Len(buffer)
    BY <1>0, PossibleStartIs DEF IInv, TypeOK
  <1>3. ASSUME NEW index \in offset..Len(buffer), NEW newState, NEW by \in Nat \ {0},
               Goto(newState, index + by)
        PROVE  offset' > offset
    BY <1>0, <1>3 DEF Goto
  <1>4. CASE ScanPreamble
    BY <1>0, <1>1, <1>2, <1>3, <1>4 DEF ScanPreamble, NextIndex
  <1>5. CASE ScanHeaders
    BY <1>0, <1>1, <1>2, <1>3, <1>5 DEF ScanHeaders, StartPart, Throw
  <1>6. CASE ScanBody
    BY <1>0, <1>1, <1>2, <1>3, <1>6 DEF ScanBody, Throw, NextIndex
  <1> QED
    BY <1>4, <1>5, <1>6 DEF Scan

-----------------------------------------------------------------------------
(* The theorems.                                                            *)

(* The strengthened invariant holds in every state of the scan.             *)
THEOREM Inductive == Spec => []IInv
  BY InitInv, StepInv, PTL DEF Spec

(* Offsets stay inside of the buffer and every counter is a number.         *)
THEOREM TypeCorrect == Spec => []TypeOK
  <1>1. IInv => TypeOK
    BY DEF IInv
  <1> QED
    BY <1>1, Inductive, PTL

(* The bytes kept between two chunks do not grow with the body.             *)
THEOREM CarryStaysBounded == Spec => []CarryIsBounded
  <1>1. IInv => CarryIsBounded
    BY DEF IInv
  <1> QED
    BY <1>1, Inductive, PTL

(* A body that goes on has not exceeded any of its limits.                  *)
THEOREM LimitsHold == Spec => []AcceptedIsWithinLimits
  <1>1. IInv => AcceptedIsWithinLimits
    BY DEF IInv
  <1> QED
    BY <1>1, Inductive, PTL

(* The loop of write() moves on in every turn, so it ends.                  *)
THEOREM ScanMovesOn == Spec => ScanAdvances
  <1>1. IInv /\ [Next]_vars =>
          [Scan => tailStart' # Undefined \/ ~writing' \/ offset' > offset]_vars
    BY ScanStep
  <1> QED
    BY <1>1, Inductive, PTL DEF Spec, ScanAdvances
-----------------------------------------------------------------------------
(* The scan of the whole body.  What write() holds of the body while it     *)
(* runs, and what it keeps for the next chunk, are the last bytes that      *)
(* arrived; position is where the next of them to look at stands.           *)

Tracks(bytes) ==
    /\ Len(bytes) <= size
    /\ \A k \in 1..Len(bytes) : bytes[k] = request.body[size - Len(bytes) + k]

Follows ==
    /\ tailStart # Undefined => tailStart = offset
    /\ writing => Tracks(buffer)
    /\ ~writing /\ ~IsOver => Tracks(carry)

Base == size - Len(buffer)

(* A call of one of the scan functions leaves the buffer alone.             *)
LEMMA ScanFrame ==
    ASSUME IInv, Follows, Scan
    PROVE  /\ UNCHANGED <<request, size, carry, buffer>>
           /\ tailStart' # Undefined => tailStart' = offset'
           /\ writing /\ (writing' \/ verdict' # "none")
  <1>1. ASSUME NEW from, Keep(from)
        PROVE  /\ UNCHANGED <<request, size, carry, buffer>> /\ tailStart' = offset'
               /\ writing => writing'
    BY <1>1 DEF Keep
  <1>2. ASSUME NEW s, NEW o, Goto(s, o)
        PROVE  /\ UNCHANGED <<request, size, carry, buffer, tailStart>>
               /\ writing => writing'
    BY <1>2 DEF Goto
  <1>3. ASSUME NEW e \in Verdicts \ {"none"}, Throw(e)
        PROVE  UNCHANGED <<request, size, carry, buffer, tailStart>> /\ verdict' # "none"
    BY <1>3 DEF Throw
  <1>4. CASE ScanPreamble
    BY <1>1, <1>2, <1>4 DEF ScanPreamble, Scanning
  <1>5. CASE ScanHeaders
    <2>1. ASSUME NEW block, NEW next, StartPart(block, next)
          PROVE  Goto("body", next) \/ Throw("malformed") \/ Throw("tooMany")
      BY <2>1 DEF StartPart
    <2>2. writing /\ tailStart = Undefined /\ (\/ Keep(offset) \/ Throw("malformed") \/ Throw("tooMany")
                      \/ \E next : Goto("body", next))
      BY <1>5, <2>1 DEF ScanHeaders, Scanning
    <2> QED
      BY <1>1, <1>2, <1>3, <2>2 DEF Verdicts
  <1>6. CASE ScanBody
    <2>1. writing /\ tailStart = Undefined /\ (\/ \E from : Keep(from) \/ Throw("fileTooLarge")
                      \/ \E s, o : Goto(s, o))
      BY <1>6 DEF ScanBody, Scanning
    <2> QED
      BY <1>1, <1>2, <1>3, <2>1 DEF Verdicts
  <1> QED
    BY <1>4, <1>5, <1>6 DEF Scan

LEMMA FollowsInit == Init => Follows
  <1> SUFFICES ASSUME Init PROVE Follows
    OBVIOUS
  <1>1. Len(carry) = 0 /\ size = 0 /\ ~writing /\ tailStart = Undefined
    BY DEF Init
  <1> QED
    BY <1>1 DEF Follows, Tracks

(* The next chunk continues what was kept of the ones before.               *)
LEMMA ReadChunkFollows ==
    ASSUME IInv, Follows, NEW length \in ChunkSizes, ReadChunk(length)
    PROVE  Follows'
  <1>0. /\ length \in Nat /\ length > 0 /\ size \in Nat /\ Len(request.body) \in Nat
        /\ request.body \in Seq(Bytes) /\ carry \in Seq(Bytes) /\ Len(carry) \in Nat
        /\ request' = request /\ size' = size + length /\ size' <= Len(request.body)
        /\ carry' = carry /\ verdict = "none" /\ ~writing /\ state' = state
        /\ (tailStart # Undefined => tailStart = offset)
    BY ChunkSizesAssumption, RequestsAssumption, LenProperties
       DEF ReadChunk, IInv, TypeOK, IsRequest, Follows
  <1>1. CASE ~writing'
    <2>1. IsOver' /\ UNCHANGED <<tailStart, offset>>
      BY <1>0, <1>1 DEF ReadChunk, IsOver
    <2> QED
      BY <1>0, <1>1, <2>1 DEF Follows
  <1>2. CASE writing'
    <2>1. /\ buffer' = carry \o SubSeq(request.body, size + 1, size + length)
          /\ tailStart' = Undefined /\ state # "done"
      BY <1>0, <1>2 DEF ReadChunk
    <2>2. \A i \in (size + 1)..(size + length) : request.body[i] \in Bytes
      BY <1>0, ElementOfSeq
    <2>3. /\ SubSeq(request.body, size + 1, size + length) \in Seq(Bytes)
          /\ Len(SubSeq(request.body, size + 1, size + length)) = length
          /\ \A i \in 1..length :
               SubSeq(request.body, size + 1, size + length)[i] = request.body[size + i]
      BY <1>0, <2>2, SubSeqProperties
    <2>4. \A s, t \in Seq(Bytes) :
             /\ Len(s \o t) = Len(s) + Len(t)
             /\ \A i \in 1..(Len(s) + Len(t)) :
                  (s \o t)[i] = IF i <= Len(s) THEN s[i] ELSE t[i - Len(s)]
      BY ConcatProperties
    <2> DEFINE chunk == SubSeq(request.body, size + 1, size + length)
    <2>5. /\ Len(buffer') = Len(carry) + length
          /\ \A i \in 1..(Len(carry) + length) :
               buffer'[i] = IF i <= Len(carry) THEN carry[i] ELSE chunk[i - Len(carry)]
      BY <1>0, <2>1, <2>3, <2>4
    <2>6. Len(carry) <= size
          /\ \A k \in 1..Len(carry) : carry[k] = request.body[size - Len(carry) + k]
      BY <1>0, <2>1 DEF Follows, Tracks, IsOver
    <2>7. \A i \in 1..length : chunk[i] = request.body[size + i]
      BY <2>3
    <2> HIDE DEF chunk
    <2>8. ASSUME NEW k \in 1..(Len(carry) + length)
          PROVE  buffer'[k] = request.body[size - Len(carry) + k]
      <3>1. CASE k <= Len(carry)
        <4>1. k \in 1..Len(carry)
          BY <1>0, <3>1
        <4> QED
          BY <2>5, <2>6, <3>1, <4>1
      <3>2. CASE ~(k <= Len(carry))
        <4>1. k - Len(carry) \in 1..length
          BY <1>0, <3>2
        <4>2. buffer'[k] = request.body[size + (k - Len(carry))]
          BY <2>5, <2>7, <3>2, <4>1
        <4>3. size + (k - Len(carry)) = size - Len(carry) + k
          BY <1>0
        <4> QED
          BY <4>2, <4>3
      <3> QED
        BY <3>1, <3>2
    <2>9. size' - Len(buffer') = size - Len(carry) /\ Len(buffer') <= size'
      BY <1>0, <2>5, <2>6
    <2>10. Tracks(buffer)'
      BY <1>0, <2>5, <2>8, <2>9 DEF Tracks
    <2> QED
      BY <1>2, <2>1, <2>10 DEF Follows
  <1> QED
    BY <1>1, <1>2

(* So does what write() keeps at its end.                                   *)
LEMMA EndWriteFollows == ASSUME IInv, Follows, EndWrite PROVE Follows'
  <1>0. /\ buffer \in Seq(Bytes) /\ Len(buffer) \in Nat /\ size \in Nat /\ writing
        /\ UNCHANGED <<request, size, verdict, counters, state>>
        /\ tailStart' = Undefined /\ writing' = FALSE /\ Tracks(buffer)
    BY LenProperties DEF EndWrite, IInv, TypeOK, Follows
  <1>1. CASE IsOver
    BY <1>0, <1>1 DEF Follows, IsOver
  <1>2. CASE ~IsOver
    <2>1. /\ tailStart \in 0..Len(buffer) /\ carry' = SubSeq(buffer, tailStart + 1, Len(buffer))
      BY <1>0, <1>2 DEF EndWrite, IsOver, IInv, TypeOK
    <2>2. \A i \in (tailStart + 1)..Len(buffer) : buffer[i] \in Bytes
      BY <1>0, <2>1, ElementOfSeq
    <2>3. /\ Len(carry') = Len(buffer) - tailStart
          /\ \A i \in 1..(Len(buffer) - tailStart) : carry'[i] = buffer[tailStart + i]
      BY <1>0, <2>1, <2>2, SubSeqProperties
    <2>4. /\ Len(buffer) \in Nat /\ size \in Nat /\ tailStart \in 0..Len(buffer)
          /\ Len(carry') = Len(buffer) - tailStart
      BY <1>0, <2>1, <2>3
    <2>5. ASSUME NEW k \in 1..Len(carry')
          PROVE  carry'[k] = request.body[size - Len(carry') + k]
      <3>1. tailStart + k \in 1..Len(buffer)
            /\ size - Len(buffer) + (tailStart + k) = size - Len(carry') + k
        BY <2>4
      <3>2. carry'[k] = buffer[tailStart + k]
        BY <2>3, <2>4
      <3>3. buffer[tailStart + k] = request.body[size - Len(buffer) + (tailStart + k)]
        BY <1>0, <3>1 DEF Tracks
      <3> QED
        BY <3>1, <3>2, <3>3
    <2>6. Len(carry') <= size
      <3>1. Len(buffer) <= size
        BY <1>0 DEF Tracks
      <3> QED
        BY <2>4, <3>1
    <2> QED
      BY <1>0, <2>5, <2>6 DEF Follows, Tracks
  <1> QED
    BY <1>1, <1>2

LEMMA FollowsStep == IInv /\ Follows /\ [Next]_vars => Follows'
  <1> SUFFICES ASSUME IInv, Follows, [Next]_vars PROVE Follows'
    OBVIOUS
  <1>1. CASE Scan
    <2>1. /\ UNCHANGED <<request, size, carry, buffer>> /\ Tracks(buffer)
          /\ tailStart' # Undefined => tailStart' = offset'
          /\ writing' \/ IsOver'
      BY <1>1, ScanFrame DEF Follows, IsOver
    <2> QED
      BY <2>1 DEF Follows, Tracks
  <1>2. CASE UNCHANGED vars
    BY <1>2 DEF vars, Follows, Tracks, IsOver
  <1> QED
    BY <1>1, <1>2, ReadChunkFollows, EndWriteFollows DEF Next

(* Where the scan stands while write() runs.                                *)
LEMMA Here ==
    ASSUME IInv, Follows, NEW s \in {"preamble", "headers", "body"}, Scanning(s)
    PROVE  /\ Base \in Nat /\ Len(buffer) \in Nat /\ offset \in 0..Len(buffer)
           /\ position = Base + offset /\ Base + Len(buffer) = size
           /\ size <= Len(request.body) /\ Len(request.body) \in Nat
           /\ verdict = "none" /\ state = s /\ Whole!In(s)
  <1>1. /\ writing /\ verdict = "none" /\ state = s /\ Len(buffer) \in Nat
        /\ size \in 0..Len(request.body) /\ offset \in 0..Len(buffer)
        /\ Len(buffer) <= size
    BY LenProperties DEF Scanning, IInv, TailInv, TypeOK, Follows, Tracks
  <1>2. Len(request.body) \in Nat
    BY RequestsAssumption, LenProperties DEF IInv, IsRequest
  <1>3. ~IsOver
    BY <1>1 DEF IsOver
  <1>4. position = Base + offset
    BY <1>1, <1>3 DEF position, Base
  <1> QED
    BY <1>1, <1>2, <1>4 DEF Base, Whole!In

(* What stands in the buffer stands in the body.                            *)
LEMMA InBody ==
    ASSUME IInv, Follows, writing, NEW pattern, Len(pattern) \in Nat,
           NEW index \in Nat, index + Len(pattern) <= Len(buffer)
    PROVE  HasAt(buffer, index, pattern)
             <=> Whole!HasAt(request.body, Base + index, pattern)
  <1>1. /\ size \in 0..Len(request.body) /\ Len(buffer) \in Nat /\ Len(buffer) <= size
        /\ \A k \in 1..Len(buffer) : buffer[k] = request.body[size - Len(buffer) + k]
    BY LenProperties DEF IInv, TypeOK, Follows, Tracks
  <1>2. Len(request.body) \in Nat
    BY RequestsAssumption, LenProperties DEF IInv, IsRequest
  <1>3. /\ Base + index >= 0 /\ Base + index + Len(pattern) <= Len(request.body)
        /\ index >= 0
    BY <1>1, <1>2 DEF Base
  <1>4. ASSUME NEW k \in 1..Len(pattern)
        PROVE  buffer[index + k] = request.body[Base + index + k]
    <2>1. index + k \in 1..Len(buffer) /\ Base + (index + k) = Base + index + k
      BY <1>1, <1>2 DEF Base
    <2> QED
      BY <1>1, <2>1 DEF Base
  <1> QED
    BY <1>3, <1>4 DEF HasAt, Whole!HasAt

(* No pattern stands in the body where none stands in the buffer.           *)
LEMMA Passed ==
    ASSUME IInv, Follows, NEW s \in {"preamble", "headers", "body"}, Scanning(s),
           NEW pattern, Len(pattern) \in Nat, NEW to \in offset..Len(buffer),
           \A i \in offset..(to - 1) :
             i + Len(pattern) <= Len(buffer) /\ ~HasAt(buffer, i, pattern)
    PROVE  \A j \in position..(Base + to - 1) : ~Whole!HasAt(request.body, j, pattern)
  <1> SUFFICES ASSUME NEW j \in position..(Base + to - 1)
               PROVE  ~Whole!HasAt(request.body, j, pattern)
    OBVIOUS
  <1>1. /\ Base \in Nat /\ Len(buffer) \in Nat /\ offset \in 0..Len(buffer)
        /\ position = Base + offset
    BY Here
  <1>2. j - Base \in offset..(to - 1) /\ j - Base \in Nat /\ Base + (j - Base) = j
    BY <1>1
  <1> QED
    BY <1>2, InBody DEF Scanning

(* The positions before the first occurrence of a pattern.                  *)
LEMMA PassedByIndex ==
    ASSUME IInv, Follows, NEW s \in {"preamble", "headers", "body"}, Scanning(s),
           NEW pattern, Len(pattern) \in Nat, NEW index \in offset..Len(buffer),
           IndexOf(index, pattern)
    PROVE  /\ \A j \in position..(Base + index - 1) : ~Whole!HasAt(request.body, j, pattern)
           /\ Whole!HasAt(request.body, Base + index, pattern)
           /\ index + Len(pattern) <= Len(buffer) /\ index \in Nat
  <1>1. Len(buffer) \in Nat /\ offset \in 0..Len(buffer)
    BY Here
  <1>2. /\ index + Len(pattern) <= Len(buffer) /\ index \in Nat
        /\ HasAt(buffer, index, pattern)
        /\ \A i \in offset..(index - 1) : ~HasAt(buffer, i, pattern)
    <2>1. /\ HasAt(buffer, index, pattern)
          /\ \A i \in offset..(index - 1) : ~HasAt(buffer, i, pattern)
      BY DEF IndexOf
    <2>2. index + Len(pattern) <= Len(buffer)
      BY <2>1 DEF HasAt
    <2> QED
      BY <1>1, <2>1, <2>2
  <1>3. \A i \in offset..(index - 1) : i + Len(pattern) <= Len(buffer)
    BY <1>1, <1>2
  <1>4. \A j \in position..(Base + index - 1) : ~Whole!HasAt(request.body, j, pattern)
    BY <1>2, <1>3, Passed
  <1>5. Whole!HasAt(request.body, Base + index, pattern)
    BY <1>2, InBody DEF Scanning
  <1> QED
    BY <1>2, <1>4, <1>5

(* The positions before the tail in which a pattern may still begin.        *)
LEMMA PassedByTail ==
    ASSUME IInv, Follows, NEW s \in {"preamble", "headers", "body"}, Scanning(s),
           NEW pattern, Len(pattern) \in Nat \ {0}, NotFound(pattern)
    PROVE  \A j \in position..(Base + PossibleStart(pattern) - 1) :
             ~Whole!HasAt(request.body, j, pattern)
  <1>1. Len(buffer) \in Nat /\ offset \in 0..Len(buffer)
    BY Here
  <1>2. PossibleStart(pattern) \in offset..Len(buffer)
    BY PossibleStartIs DEF IInv
  <1>3. \A i \in offset..(PossibleStart(pattern) - 1) : i + Len(pattern) <= Len(buffer)
    BY <1>1 DEF PossibleStart, Larger
  <1>4. \A i \in offset..(PossibleStart(pattern) - 1) : ~HasAt(buffer, i, pattern)
    BY <1>1, <1>2 DEF NotFound
  <1> QED
    BY <1>2, <1>3, <1>4, Passed

(* How the ends of a turn map.                                              *)
LEMMA KeepMaps ==
    ASSUME IInv, Follows, NEW s \in {"preamble", "headers", "body"}, Scanning(s),
           NEW from, Keep(from), UNCHANGED <<state, verdict>>
    PROVE  Whole!Continue(s, Base + from)
  <1>1. /\ writing /\ verdict = "none" /\ state = s
        /\ state' = state /\ verdict' = verdict /\ request' = request /\ size' = size
        /\ buffer' = buffer /\ offset' = from /\ writing' = writing
    BY Here DEF Keep, Scanning
  <1>2. ~IsOver' /\ writing'
    BY <1>1 DEF IsOver
  <1>3. position' = Base + from
    BY <1>1, <1>2 DEF position, Base
  <1> QED
    BY <1>1, <1>3 DEF Whole!Continue

LEMMA GotoMaps ==
    ASSUME IInv, Follows, NEW s \in {"preamble", "headers", "body"}, Scanning(s),
           NEW newState \in ScannerStates, NEW to, Goto(newState, to), UNCHANGED verdict
    PROVE  Whole!Continue(newState, IF newState = "done" THEN Undefined ELSE Base + to)
  <1>1. /\ writing /\ verdict = "none"
        /\ state' = newState /\ verdict' = verdict /\ request' = request /\ size' = size
        /\ buffer' = buffer /\ offset' = to /\ writing' = writing
    BY Here DEF Goto, Scanning
  <1>2. (IsOver' <=> newState = "done") /\ writing'
    BY <1>1 DEF IsOver
  <1>3. position' = IF newState = "done" THEN Undefined ELSE Base + to
    BY <1>1, <1>2 DEF position, Base
  <1> QED
    BY <1>1, <1>3 DEF Whole!Continue

LEMMA ThrowMaps ==
    ASSUME NEW exception \in Verdicts \ {"none"}, Throw(exception)
    PROVE  Whole!Reject(exception)
  <1>1. IsOver'
    BY DEF Throw, IsOver
  <1>2. position' = Undefined
    BY <1>1 DEF position
  <1> QED
    BY <1>2 DEF Throw, Whole!Reject, Whole!Undefined, Undefined

(* The preamble: every turn passes bytes that start nothing, or the first   *)
(* delimiter.                                                               *)
LEMMA PreambleMaps == ASSUME IInv, Follows, ScanPreamble PROVE Whole!Preamble
  <1> DEFINE length == Len(dashBoundary)
  <1>0. /\ Scanning("preamble") /\ UNCHANGED <<verdict, counters>>
        /\ "preamble" \in {"preamble", "headers", "body"}
        /\ "preamble" \in ScannerStates /\ "headers" \in ScannerStates
    BY DEF ScanPreamble, ScannerStates
  <1>1. /\ Base \in Nat /\ Len(buffer) \in Nat /\ offset \in 0..Len(buffer)
        /\ position = Base + offset /\ Base + Len(buffer) <= Len(request.body)
        /\ Len(request.body) \in Nat /\ Whole!In("preamble")
    BY <1>0, Here
  <1>2. length \in Nat \ {0} /\ Len(CRLF) = 2
    BY PatternLengths DEF IInv
  <1>3. \A j \in Int : Whole!StartsFirst(j)
          <=> /\ Whole!HasAt(request.body, j, dashBoundary)
              /\ Whole!HasAt(request.body, j + length, CRLF)
    BY DEF Whole!StartsFirst, Whole!dashBoundary, dashBoundary, Whole!CRLF, CRLF, Whole!body
  <1>4. Whole!dashBoundary = dashBoundary /\ UNCHANGED Whole!counters
    BY <1>0 DEF Whole!dashBoundary, dashBoundary, Whole!counters, counters
  <1>5. ASSUME NEW to \in offset..Len(buffer), Whole!Continue("preamble", Base + to),
               \A j \in position..(Base + to - 1) : ~Whole!StartsFirst(j)
        PROVE  Whole!Preamble
    <2>1. Base + to \in position..Len(request.body)
      BY <1>1
    <2> QED
      BY <1>1, <1>4, <1>5, <2>1 DEF Whole!Preamble, Whole!body
  <1>6. CASE NotFound(dashBoundary) /\ Keep(PossibleStart(dashBoundary)) /\ UNCHANGED state
    <2>1. PossibleStart(dashBoundary) \in offset..Len(buffer)
      BY <1>2, PossibleStartIs DEF IInv
    <2>2. Whole!Continue("preamble", Base + PossibleStart(dashBoundary))
      BY <1>0, <1>6, KeepMaps
    <2>3. \A j \in position..(Base + PossibleStart(dashBoundary) - 1) :
            ~Whole!HasAt(request.body, j, dashBoundary)
      BY <1>0, <1>2, <1>6, PassedByTail
    <2>4. \A j \in position..(Base + PossibleStart(dashBoundary) - 1) : j \in Int
      BY <1>1, <2>1
    <2> QED
      BY <1>3, <1>5, <2>1, <2>2, <2>3, <2>4
  <1>7. ASSUME NEW index \in offset..Len(buffer), IndexOf(index, dashBoundary),
               \/ Len(buffer) < index + length + 2 /\ Keep(index) /\ UNCHANGED state
               \/ HasAt(buffer, index + length, CRLF) /\ Goto("headers", index + length)
               \/ /\ Len(buffer) >= index + length + 2
                  /\ ~HasAt(buffer, index + length, CRLF)
                  /\ Goto("preamble", index + 1)
        PROVE  Whole!Preamble
    <2>1. /\ \A j \in position..(Base + index - 1) : ~Whole!HasAt(request.body, j, dashBoundary)
          /\ Whole!HasAt(request.body, Base + index, dashBoundary)
          /\ index + length <= Len(buffer) /\ index \in Nat
      BY <1>0, <1>2, <1>7, PassedByIndex
    <2>2. \A j \in position..(Base + index - 1) : j \in Int /\ ~Whole!StartsFirst(j)
      BY <1>1, <1>3, <2>1
    <2>3. Base + index \in Int /\ index + length \in Nat
          /\ Base + (index + length) = Base + index + length
      BY <1>1, <1>2, <2>1
    <2>4. index + length + Len(CRLF) <= Len(buffer) =>
            (HasAt(buffer, index + length, CRLF)
               <=> Whole!HasAt(request.body, Base + (index + length), CRLF))
      <3>1. writing /\ Len(CRLF) \in Nat
        BY <1>0, <1>2 DEF Scanning
      <3> QED
        BY <2>3, <3>1, InBody
    <2>5. CASE Keep(index) /\ UNCHANGED state
      BY <1>0, <1>5, <2>2, <2>5, KeepMaps
    <2>6. CASE HasAt(buffer, index + length, CRLF) /\ Goto("headers", index + length)
      <3>1. index + length + Len(CRLF) <= Len(buffer)
        BY <2>6 DEF HasAt
      <3>2. Whole!HasAt(request.body, Base + index + length, CRLF)
        BY <2>3, <2>6, <2>4, <3>1
      <3>3. Whole!StartsFirst(Base + index)
        BY <1>3, <2>1, <2>3, <3>2
      <3>4. Whole!Continue("headers", Base + index + length)
        BY <1>0, <2>3, <2>6, GotoMaps
      <3>5. Base + index \in position..Len(request.body)
        BY <1>1
      <3> QED
        BY <1>1, <1>4, <2>2, <3>3, <3>4, <3>5 DEF Whole!Preamble, Whole!body
    <2>7. CASE /\ Len(buffer) >= index + length + 2
               /\ ~HasAt(buffer, index + length, CRLF)
               /\ Goto("preamble", index + 1)
      <3>1. ~Whole!HasAt(request.body, Base + index + length, CRLF)
        BY <1>2, <2>3, <2>7, <2>4
      <3>2. ~Whole!StartsFirst(Base + index)
        BY <1>3, <2>3, <3>1
      <3>3. Whole!Continue("preamble", Base + (index + 1))
        BY <1>0, <2>7, GotoMaps
      <3>4. \A j \in position..(Base + (index + 1) - 1) : ~Whole!StartsFirst(j)
        <4>1. \A j \in position..(Base + (index + 1) - 1) :
                j \in position..(Base + index - 1) \/ j = Base + index
          BY <1>1, <2>1
        <4> QED
          BY <2>2, <3>2, <4>1
      <3>5. index + 1 \in offset..Len(buffer)
        BY <1>1, <1>2, <2>1
      <3> QED
        BY <1>5, <3>3, <3>4, <3>5
    <2> QED
      BY <1>7, <2>5, <2>6, <2>7
  <1> QED
    BY <1>6, <1>7 DEF ScanPreamble, NextIndex

(* A block of headers in the buffer is the same block of the body.          *)
LEMMA SameBlock ==
    ASSUME IInv, Follows, writing, NEW from \in Nat, NEW to \in Nat, to <= Len(buffer),
           from >= 1
    PROVE  SubSeq(buffer, from, to) = SubSeq(request.body, Base + from, Base + to)
  <1>1. /\ size \in 0..Len(request.body) /\ Len(buffer) \in Nat /\ Len(buffer) <= size
        /\ buffer \in Seq(Bytes)
        /\ \A k \in 1..Len(buffer) : buffer[k] = request.body[size - Len(buffer) + k]
    BY LenProperties DEF IInv, TypeOK, Follows, Tracks
  <1>2. \A i \in from..to : buffer[i] \in Bytes
    BY <1>1, ElementOfSeq
  <1>3. \A i \in from..to : buffer[i] = request.body[Base + i]
    BY <1>1 DEF Base
  <1>4. Base \in Nat
    BY <1>1 DEF Base
  <1>5. \A i \in (Base + from)..(Base + to) : request.body[i] \in Bytes
    <2>1. ASSUME NEW i \in (Base + from)..(Base + to) PROVE request.body[i] \in Bytes
      <3>1. i - Base \in from..to /\ Base + (i - Base) = i
        BY <1>4
      <3> QED
        BY <1>2, <1>3, <3>1
    <2> QED
      BY <2>1
  <1> DEFINE s == SubSeq(buffer, from, to)
             t == SubSeq(request.body, Base + from, Base + to)
  <1>6. /\ s \in Seq(Bytes) /\ Len(s) = (IF from <= to THEN to - from + 1 ELSE 0)
        /\ \A i \in 1..(to - from + 1) : s[i] = buffer[from + i - 1]
    BY <1>2, SubSeqProperties
  <1>7. /\ t \in Seq(Bytes)
        /\ Len(t) = (IF Base + from <= Base + to THEN (Base + to) - (Base + from) + 1 ELSE 0)
        /\ \A i \in 1..((Base + to) - (Base + from) + 1) :
             t[i] = request.body[(Base + from) + i - 1]
    <2>1. Base + from \in Int /\ Base + to \in Int
      BY <1>4
    <2>2. ASSUME NEW m \in Int, NEW n \in Int, \A i \in m..n : request.body[i] \in Bytes
          PROVE  /\ SubSeq(request.body, m, n) \in Seq(Bytes)
                 /\ Len(SubSeq(request.body, m, n)) = (IF m <= n THEN n - m + 1 ELSE 0)
                 /\ \A i \in 1..(n - m + 1) :
                      SubSeq(request.body, m, n)[i] = request.body[m + i - 1]
      BY <2>2, SubSeqProperties
    <2> QED
      BY <1>5, <2>1, <2>2
  <1>8. Len(s) = Len(t)
    BY <1>4, <1>6, <1>7
  <1>9. ASSUME NEW i \in 1..Len(s) PROVE s[i] = t[i]
    <2>1. /\ i \in 1..(to - from + 1) /\ i \in 1..((Base + to) - (Base + from) + 1)
          /\ from + i - 1 \in from..to
          /\ Base + (from + i - 1) = (Base + from) + i - 1
      <3>1. Len(s) = (IF from <= to THEN to - from + 1 ELSE 0)
        BY <1>6
      <3> HIDE DEF s
      <3> QED
        BY <1>4, <3>1
    <2> QED
      BY <1>3, <1>6, <1>7, <2>1
  <1> QED
    BY <1>6, <1>7, <1>8, <1>9, SeqEqual

(* Part headers: a turn reads the block that ends at the first empty line,  *)
(* rejects one that is too long, or waits for more.                         *)
LEMMA HeadersMap ==
    ASSUME IInv, Follows, ScanHeaders
    PROVE  Whole!Part \/ Whole!HeadersTooLong \/ UNCHANGED Whole!scan
  <1>0. /\ Scanning("headers") /\ "headers" \in {"preamble", "headers", "body"}
        /\ "body" \in ScannerStates
    BY DEF ScanHeaders, ScannerStates
  <1>1. /\ Base \in Nat /\ Len(buffer) \in Nat /\ offset \in 0..Len(buffer)
        /\ position = Base + offset /\ Base + Len(buffer) <= Len(request.body)
        /\ Len(request.body) \in Nat /\ state = "headers" /\ Whole!In("headers")
    BY <1>0, Here
  <1>2. Len(HEADER_END) = 4 /\ MAX_PART_HEADER_BYTES \in Nat
    BY PatternLengths, HeaderAssumption DEF IInv
  <1>3. \A j : Whole!EndsHeaders(j) <=> Whole!HasAt(request.body, j, HEADER_END)
    BY DEF Whole!EndsHeaders, Whole!HEADER_END, HEADER_END, Whole!CRLF, CRLF, Whole!body
  <1>4. ASSUME Throw("malformed"), UNCHANGED counters,
               Len(request.body) - position > MAX_PART_HEADER_BYTES,
               \A j \in position..(position + MAX_PART_HEADER_BYTES - 3) :
                 ~Whole!HasAt(request.body, j, HEADER_END)
        PROVE  Whole!HeadersTooLong
    <2>1. Whole!Reject("malformed")
      BY <1>4, ThrowMaps DEF Verdicts
    <2>2. UNCHANGED Whole!counters
      BY <1>4 DEF counters, Whole!counters
    <2> QED
      BY <1>1, <1>3, <1>4, <2>1, <2>2 DEF Whole!HeadersTooLong, Whole!body
  <1>5. CASE /\ NotFound(HEADER_END) /\ Len(buffer) - offset > MAX_PART_HEADER_BYTES
             /\ Throw("malformed") /\ UNCHANGED counters
    <2>1. Len(request.body) - position > MAX_PART_HEADER_BYTES
      BY <1>1, <1>2, <1>5
    <2>2. ASSUME NEW j \in position..(position + MAX_PART_HEADER_BYTES - 3)
          PROVE  ~Whole!HasAt(request.body, j, HEADER_END)
      <3>1. /\ j - Base \in offset..Len(buffer) /\ j - Base \in Nat
            /\ j - Base + 4 <= Len(buffer) /\ Base + (j - Base) = j
        BY <1>1, <1>2, <1>5
      <3>2. ~HasAt(buffer, j - Base, HEADER_END)
        BY <1>5, <3>1 DEF NotFound
      <3>3. writing /\ Len(HEADER_END) \in Nat /\ j - Base + Len(HEADER_END) <= Len(buffer)
        BY <1>0, <1>2, <3>1 DEF Scanning
      <3>4. ~Whole!HasAt(request.body, Base + (j - Base), HEADER_END)
        BY <3>1, <3>2, <3>3, InBody
      <3> QED
        BY <3>1, <3>4
    <2> QED
      BY <1>4, <1>5, <2>1, <2>2
  <1>6. CASE Keep(offset) /\ UNCHANGED <<state, verdict>> /\ UNCHANGED counters
    <2>1. Whole!Continue("headers", position)
      BY <1>0, <1>1, <1>6, KeepMaps
    <2>2. UNCHANGED <<request, position, state, verdict>>
      BY <1>1, <1>6, <2>1 DEF Whole!Continue
    <2> QED
      BY <1>6, <2>2 DEF Whole!scan, Whole!counters, counters
  <1>7. ASSUME NEW headerEnd \in offset..Len(buffer), IndexOf(headerEnd, HEADER_END),
               IF headerEnd - offset > MAX_PART_HEADER_BYTES
               THEN Throw("malformed") /\ UNCHANGED counters
               ELSE StartPart(SubSeq(buffer, offset + 3, headerEnd), headerEnd + 4)
        PROVE  Whole!Part \/ Whole!HeadersTooLong
    <2>1. /\ \A j \in position..(Base + headerEnd - 1) :
               ~Whole!HasAt(request.body, j, HEADER_END)
          /\ Whole!HasAt(request.body, Base + headerEnd, HEADER_END)
          /\ headerEnd + 4 <= Len(buffer) /\ headerEnd \in Nat
      <3>1. Len(HEADER_END) \in Nat
        BY <1>2
      <3>2. /\ \A j \in position..(Base + headerEnd - 1) :
                 ~Whole!HasAt(request.body, j, HEADER_END)
            /\ Whole!HasAt(request.body, Base + headerEnd, HEADER_END)
            /\ headerEnd + Len(HEADER_END) <= Len(buffer) /\ headerEnd \in Nat
        BY <1>0, <1>7, <3>1, PassedByIndex
      <3> QED
        BY <1>2, <3>2
    <2>2. CASE headerEnd - offset > MAX_PART_HEADER_BYTES
      <3>1. Len(request.body) - position > MAX_PART_HEADER_BYTES
        BY <1>1, <1>2, <2>1, <2>2
      <3>2. \A j \in position..(position + MAX_PART_HEADER_BYTES - 3) :
              j \in position..(Base + headerEnd - 1)
        BY <1>1, <1>2, <2>1, <2>2
      <3> QED
        BY <1>4, <1>7, <2>1, <2>2, <3>1, <3>2
    <2>3. CASE ~(headerEnd - offset > MAX_PART_HEADER_BYTES)
      <3> DEFINE block == SubSeq(request.body, position + 3, Base + headerEnd)
      <3>1. Base + headerEnd \in position..(position + MAX_PART_HEADER_BYTES)
        BY <1>1, <1>2, <2>1, <2>3
      <3>2. SubSeq(buffer, offset + 3, headerEnd) = block
        <4>1. offset + 3 \in Nat /\ offset + 3 >= 1 /\ headerEnd <= Len(buffer)
              /\ Base + (offset + 3) = position + 3
          BY <1>1
        <4>2. writing
          BY <1>0 DEF Scanning
        <4> QED
          BY <2>1, <4>1, <4>2, SameBlock
      <3>3. StartPart(block, headerEnd + 4)
        BY <1>7, <2>3, <3>2
      <3>4. /\ Whole!EndsHeaders(Base + headerEnd)
            /\ \A j \in position..(Base + headerEnd - 1) : ~Whole!EndsHeaders(j)
        BY <1>3, <2>1
      <3> HIDE DEF block
      <3>5. /\ Whole!IsPlain(block) <=> IsPlain(block)
            /\ Whole!PossiblyFile(block) = PossiblyFile(block)
            /\ Whole!PossiblyField(block) = PossiblyField(block)
            /\ \A c : Whole!One(c) = One(c)
            /\ \A p, i, e : Whole!TooMany(p, i, e) <=> TooMany(p, i, e)
        BY DEF Whole!IsPlain, IsPlain, Whole!PossiblyFile, PossiblyFile, Whole!PossiblyField,
            PossiblyField, Whole!Occurs, Occurs, Whole!One, One, Whole!TooMany, TooMany,
            Whole!limits, limits
      <3>6. IF ~Whole!IsPlain(block)
            THEN Whole!Reject("malformed") /\ UNCHANGED Whole!counters
            ELSE /\ isFile' = Whole!PossiblyFile(block)
                 /\ partSize' = 0
                 /\ parts' = parts + 1
                 /\ files' = files + Whole!One(Whole!PossiblyFile(block))
                 /\ fields' = fields + Whole!One(Whole!PossiblyField(block))
                 /\ IF Whole!TooMany(parts', files', fields')
                    THEN Whole!Reject("tooMany")
                    ELSE Whole!Continue("body", Base + headerEnd + 4)
        <4>1. CASE ~IsPlain(block)
          <5>1. Throw("malformed") /\ UNCHANGED counters
            BY <3>3, <4>1 DEF StartPart
          <5>2. Whole!Reject("malformed")
            BY <5>1, ThrowMaps DEF Verdicts
          <5> QED
            BY <3>5, <4>1, <5>1, <5>2 DEF counters, Whole!counters
        <4>2. CASE IsPlain(block)
          <5>1. /\ isFile' = PossiblyFile(block) /\ partSize' = 0 /\ parts' = parts + 1
                /\ files' = files + One(PossiblyFile(block))
                /\ fields' = fields + One(PossiblyField(block))
                /\ IF TooMany(parts', files', fields')
                   THEN Throw("tooMany")
                   ELSE Goto("body", headerEnd + 4) /\ UNCHANGED verdict
            BY <3>3, <4>2 DEF StartPart
          <5>2. Throw("tooMany") => Whole!Reject("tooMany")
            BY ThrowMaps DEF Verdicts
          <5>3. Goto("body", headerEnd + 4) /\ UNCHANGED verdict =>
                  Whole!Continue("body", Base + headerEnd + 4)
            <6>1. Base + (headerEnd + 4) = Base + headerEnd + 4
              BY <1>1, <2>1
            <6> QED
              BY <1>0, <6>1, GotoMaps
          <5> QED
            BY <3>5, <4>2, <5>1, <5>2, <5>3
        <4> QED
          BY <4>1, <4>2
      <3>7. Len(Whole!HEADER_END) = 4
        BY <1>2 DEF Whole!HEADER_END, HEADER_END, Whole!CRLF, CRLF
      <3> QED
        BY <1>1, <3>1, <3>4, <3>6, <3>7 DEF Whole!Part, Whole!body, block
    <2> QED
      BY <2>2, <2>3
  <1> QED
    BY <1>2, <1>5, <1>6, <1>7 DEF ScanHeaders, TooLong

(* What addPartBytes() counts of the bytes it is given.                     *)
LEMMA CountedBytes ==
    ASSUME IInv, verdict = "none", NEW count \in Nat, AddPartBytes(count)
    PROVE  /\ partSize' = partSize + (IF isFile THEN count ELSE 0)
           /\ partSize' = Added(count)
           /\ TooLarge(partSize') <=> isFile /\ partSize' > Whole!limits.fileSize
           /\ UNCHANGED <<fields, files, isFile, parts>>
  <1>1. partSize \in Nat /\ (isFile => partSize <= limits.fileSize) /\ limits.fileSize \in Nat
    BY PatternLengths DEF IInv, TypeOK, AcceptedIsWithinLimits, Limits
  <1>2. partSize' = Added(count) /\ UNCHANGED <<fields, files, isFile, parts>>
    BY DEF AddPartBytes
  <1>3. partSize' = partSize + (IF isFile THEN count ELSE 0)
    BY <1>1, <1>2 DEF Added
  <1>4. TooLarge(partSize') <=> isFile /\ partSize' > limits.fileSize
    BY <1>1, <1>3 DEF TooLarge
  <1>5. Whole!limits = limits
    BY DEF Whole!limits, limits
  <1> QED
    BY <1>2, <1>3, <1>4, <1>5

(* Part data: every turn counts bytes that cut nothing, once, and stops at  *)
(* a delimiter that the whole body has there.                               *)
LEMMA BodyMaps == ASSUME IInv, Follows, ScanBody PROVE Whole!Data
  <1> DEFINE length == Len(delimiter)
             dashes == <<"dash", "dash">>
             Cuts(j) == Whole!Opens(j) \/ Whole!Closes(j)
  <1>0. /\ Scanning("body") /\ writing /\ "body" \in {"preamble", "headers", "body"}
        /\ {"body", "done", "headers"} \subseteq ScannerStates
    BY DEF ScanBody, ScannerStates, Scanning
  <1>1. /\ Base \in Nat /\ Len(buffer) \in Nat /\ offset \in 0..Len(buffer)
        /\ position = Base + offset /\ Base + Len(buffer) <= Len(request.body)
        /\ Len(request.body) \in Nat /\ Whole!In("body") /\ verdict = "none"
    BY <1>0, Here
  <1>2. length \in Nat \ {0} /\ Len(CRLF) = 2 /\ Len(dashes) = 2
    BY PatternLengths DEF IInv
  <1>3. /\ Whole!delimiter = delimiter
        /\ \A j : Whole!Opens(j)
             <=> /\ Whole!HasAt(request.body, j, delimiter)
                 /\ Whole!HasAt(request.body, j + length, CRLF)
        /\ \A j : Whole!Closes(j)
             <=> /\ Whole!HasAt(request.body, j, delimiter)
                 /\ Whole!HasAt(request.body, j + length, dashes)
                 /\ Whole!HasAt(request.body, j + length + 2, CRLF)
    BY DEF Whole!Opens, Whole!Closes, Whole!delimiter, delimiter, Whole!dashBoundary,
        dashBoundary, Whole!CRLF, CRLF, Whole!body
  <1> HIDE DEF length, dashes, Cuts
  <1>4. ASSUME NEW to \in offset..Len(buffer), AddPartBytes(to - offset),
               \A j \in position..(Base + to - 1) : ~Cuts(j),
               IF TooLarge(partSize')
               THEN Throw("fileTooLarge")
               ELSE \/ Whole!Continue("body", Base + to)
                    \/ Whole!Opens(Base + to) /\ Whole!Continue("headers", Base + to + length)
                    \/ Whole!Closes(Base + to) /\ Whole!Continue("done", Undefined)
        PROVE  Whole!Data
    <2>1. to - offset \in Nat /\ (Base + to) - position = to - offset
          /\ Base + to \in position..Len(request.body)
      BY <1>1
    <2>2. /\ partSize' = partSize + (IF isFile THEN (Base + to) - position ELSE 0)
          /\ TooLarge(partSize') <=> isFile /\ partSize' > Whole!limits.fileSize
          /\ UNCHANGED <<fields, files, isFile, parts>>
      BY <1>1, <1>4, <2>1, CountedBytes
    <2>3. \A j \in position..(Base + to - 1) : ~Whole!Opens(j) /\ ~Whole!Closes(j)
      BY <1>4 DEF Cuts
    <2>4. IF isFile /\ partSize' > Whole!limits.fileSize
          THEN Whole!Reject("fileTooLarge")
          ELSE \/ Whole!Continue("body", Base + to)
               \/ Whole!Continue("headers", Base + to + Len(Whole!delimiter))
                    /\ Whole!Opens(Base + to)
               \/ Whole!Continue("done", Whole!Undefined) /\ Whole!Closes(Base + to)
      <3>1. Throw("fileTooLarge") => Whole!Reject("fileTooLarge")
        BY ThrowMaps DEF Verdicts
      <3>2. Len(Whole!delimiter) = length /\ Whole!Undefined = Undefined
        BY <1>3 DEF length, Whole!Undefined, Undefined
      <3> QED
        BY <1>4, <2>2, <3>1, <3>2
    <2> QED
      BY <1>1, <2>1, <2>2, <2>3, <2>4 DEF Whole!Data, Whole!body
  <1>5. ASSUME NEW from \in offset..Len(buffer), AddPartBytes(from - offset),
               \A j \in position..(Base + from - 1) : ~Cuts(j),
               IF TooLarge(partSize')
               THEN Throw("fileTooLarge")
               ELSE \/ Keep(from) /\ UNCHANGED <<state, verdict>>
                    \/ Goto("body", from) /\ UNCHANGED verdict
        PROVE  Whole!Data
    <2>1. Keep(from) /\ UNCHANGED <<state, verdict>> => Whole!Continue("body", Base + from)
      BY <1>0, KeepMaps
    <2>2. Goto("body", from) /\ UNCHANGED verdict => Whole!Continue("body", Base + from)
      BY <1>0, GotoMaps
    <2> QED
      BY <1>4, <1>5, <2>1, <2>2
  <1>6. CASE /\ NotFound(delimiter)
             /\ AddPartBytes(PossibleStart(delimiter) - offset)
             /\ IF TooLarge(partSize')
                THEN Throw("fileTooLarge")
                ELSE Keep(PossibleStart(delimiter)) /\ UNCHANGED <<state, verdict>>
    <2>1. Len(delimiter) \in Nat \ {0}
      BY <1>2 DEF length
    <2>2. PossibleStart(delimiter) \in offset..Len(buffer)
      BY <2>1, PossibleStartIs DEF IInv
    <2>3. \A j \in position..(Base + PossibleStart(delimiter) - 1) : ~Cuts(j)
      BY <1>0, <1>3, <1>6, <2>1, PassedByTail DEF Cuts
    <2> QED
      BY <1>5, <1>6, <2>2, <2>3
  <1>7. ASSUME NEW index \in offset..Len(buffer), IndexOf(index, delimiter),
               NEW suffixStart, NEW next,
               suffixStart = IF IsClose(index + length) THEN index + length + 2
                             ELSE index + length,
               next = IF IsClose(index + length) THEN "done" ELSE "headers",
               IF TooLarge(Added(index - offset))
               THEN AddPartBytes(index - offset) /\ Throw("fileTooLarge")
               ELSE IF IsIncomplete(suffixStart)
               THEN /\ AddPartBytes(index - offset)
                    /\ Keep(index) /\ UNCHANGED <<state, verdict>>
               ELSE IF HasAt(buffer, suffixStart, CRLF)
               THEN /\ AddPartBytes(index - offset)
                    /\ Goto(next, index + length) /\ UNCHANGED verdict
               ELSE /\ AddPartBytes(index - offset + 1)
                    /\ IF TooLarge(partSize')
                       THEN Throw("fileTooLarge")
                       ELSE Goto("body", index + 1) /\ UNCHANGED verdict
        PROVE  Whole!Data
    <2>1. /\ \A j \in position..(Base + index - 1) : ~Whole!HasAt(request.body, j, delimiter)
          /\ Whole!HasAt(request.body, Base + index, delimiter)
          /\ index + length <= Len(buffer) /\ index \in Nat
      <3>1. Len(delimiter) \in Nat
        BY <1>2 DEF length
      <3> QED
        BY <1>0, <1>7, <3>1, PassedByIndex DEF length
    <2>2. \A j \in position..(Base + index - 1) : ~Cuts(j)
      BY <1>3, <2>1 DEF Cuts
    <2>3. /\ index + length \in Nat /\ Base + (index + length) = Base + index + length
          /\ index + length + 2 \in Nat
          /\ Base + (index + length + 2) = Base + index + length + 2
      BY <1>1, <1>2, <2>1
    <2>4. ASSUME NEW i \in Nat, NEW pattern, Len(pattern) = 2, i + 2 <= Len(buffer)
          PROVE  HasAt(buffer, i, pattern) <=> Whole!HasAt(request.body, Base + i, pattern)
      <3>1. Len(pattern) \in Nat /\ i + Len(pattern) <= Len(buffer)
        BY <2>4
      <3> QED
        BY <1>0, <3>1, InBody
    <2>5. IsClose(index + length) <=> HasAt(buffer, index + length, dashes)
      BY DEF IsClose, dashes
    <2>6. ASSUME AddPartBytes(index - offset) PROVE partSize' = Added(index - offset)
      BY <2>6 DEF AddPartBytes
    <2>7. CASE TooLarge(Added(index - offset))
      BY <1>5, <1>7, <2>2, <2>6, <2>7
    <2>8. CASE ~TooLarge(Added(index - offset)) /\ IsIncomplete(suffixStart)
      BY <1>5, <1>7, <2>2, <2>6, <2>8
    <2>9. CASE /\ ~TooLarge(Added(index - offset)) /\ ~IsIncomplete(suffixStart)
               /\ HasAt(buffer, suffixStart, CRLF)
      <3>1. AddPartBytes(index - offset) /\ Goto(next, index + length) /\ UNCHANGED verdict
            /\ ~TooLarge(partSize')
        BY <1>7, <2>6, <2>9
      <3>2. CASE IsClose(index + length)
        <4>1. index + length + 2 + 2 <= Len(buffer) /\ HasAt(buffer, index + length + 2, CRLF)
          BY <1>2, <1>7, <2>9, <3>2 DEF HasAt
        <4>2. HasAt(buffer, index + length, dashes) /\ index + length + 2 <= Len(buffer)
          BY <1>1, <2>3, <2>5, <3>2, <4>1
        <4>3. Whole!HasAt(request.body, Base + index + length, dashes)
          BY <1>2, <2>3, <2>4, <4>2
        <4>4. Whole!HasAt(request.body, Base + index + length + 2, CRLF)
          BY <1>2, <2>3, <2>4, <4>1
        <4>5. Whole!Closes(Base + index)
          BY <1>3, <2>1, <4>3, <4>4
        <4>6. Whole!Continue("done", Undefined)
          BY <1>0, <1>7, <3>1, <3>2, GotoMaps
        <4> QED
          BY <1>4, <2>2, <3>1, <4>5, <4>6
      <3>3. CASE ~IsClose(index + length)
        <4>1. index + length + 2 <= Len(buffer) /\ HasAt(buffer, index + length, CRLF)
          BY <1>2, <1>7, <2>9, <3>3 DEF HasAt
        <4>2. Whole!Opens(Base + index)
          BY <1>2, <1>3, <2>1, <2>3, <2>4, <4>1
        <4>3. Whole!Continue("headers", Base + index + length)
          BY <1>0, <1>7, <2>3, <3>1, <3>3, GotoMaps
        <4> QED
          BY <1>4, <2>2, <3>1, <4>2, <4>3
      <3> QED
        BY <3>2, <3>3
    <2>10. CASE /\ ~TooLarge(Added(index - offset)) /\ ~IsIncomplete(suffixStart)
                /\ ~HasAt(buffer, suffixStart, CRLF)
      <3>1. /\ AddPartBytes(index - offset + 1)
            /\ IF TooLarge(partSize')
               THEN Throw("fileTooLarge")
               ELSE Goto("body", index + 1) /\ UNCHANGED verdict
        <4>1. ~TooLarge(Added(index - offset))
          BY <2>10
        <4>2. ~IsIncomplete(suffixStart) /\ ~HasAt(buffer, suffixStart, CRLF)
          BY <2>10
        <4> QED
          BY <1>7, <4>1, <4>2, Zenon
      <3>2. index + length + 2 <= Len(buffer)
        <4>1. ~(Len(buffer) < suffixStart + 2)
          BY <2>10 DEF IsIncomplete
        <4>2. suffixStart \in {index + length, index + length + 2}
          BY <1>7
        <4> QED
          BY <1>1, <2>3, <4>1, <4>2
      <3>3. ~Cuts(Base + index)
        <4>1. ~(HasAt(buffer, index + length, dashes) /\ HasAt(buffer, index + length, CRLF))
          <5>1. HasAt(buffer, index + length, dashes) => buffer[index + length + 1] = "dash"
            <6>1. 1 \in 1..Len(dashes) /\ dashes[1] = "dash"
              BY <1>2 DEF dashes
            <6> QED
              BY <6>1 DEF HasAt
          <5>2. HasAt(buffer, index + length, CRLF) => buffer[index + length + 1] = "cr"
            <6>1. 1 \in 1..Len(CRLF) /\ CRLF[1] = "cr"
              BY <1>2 DEF CRLF
            <6> QED
              BY <6>1 DEF HasAt
          <5> QED
            BY <5>1, <5>2
        <4>2. /\ HasAt(buffer, index + length, CRLF)
                   <=> Whole!HasAt(request.body, Base + index + length, CRLF)
              /\ HasAt(buffer, index + length, dashes)
                   <=> Whole!HasAt(request.body, Base + index + length, dashes)
          BY <1>2, <2>3, <2>4, <3>2
        <4>3. CASE IsClose(index + length)
          <5>1. index + length + 2 + 2 <= Len(buffer)
                /\ ~HasAt(buffer, index + length + 2, CRLF)
            BY <1>1, <1>7, <2>3, <2>10, <4>3 DEF IsIncomplete
          <5>2. ~Whole!HasAt(request.body, Base + index + length + 2, CRLF)
            BY <1>2, <2>3, <2>4, <5>1
          <5> QED
            BY <1>3, <2>5, <4>1, <4>2, <4>3, <5>2 DEF Cuts
        <4>4. CASE ~IsClose(index + length)
          BY <1>3, <1>7, <2>5, <2>10, <4>2, <4>4 DEF Cuts
        <4> QED
          BY <4>3, <4>4
      <3>4. PICK from \in offset..Len(buffer) : from = index + 1
        BY <1>1, <1>2, <2>1
      <3>5. \A j \in position..(Base + from - 1) : ~Cuts(j)
        <4>1. \A j \in position..(Base + from - 1) :
                j \in position..(Base + index - 1) \/ j = Base + index
          BY <1>1, <2>1, <3>4
        <4> QED
          BY <2>2, <3>3, <4>1
      <3>6. from - offset = index - offset + 1
        BY <1>1, <2>1, <3>4
      <3>7. /\ AddPartBytes(from - offset)
            /\ IF TooLarge(partSize')
               THEN Throw("fileTooLarge")
               ELSE Goto("body", from) /\ UNCHANGED verdict
        BY <3>1, <3>4, <3>6
      <3> QED
        BY <1>5, <3>5, <3>7
    <2> QED
      BY <2>7, <2>8, <2>9, <2>10
  <1> QED
    BY <1>6, <1>7 DEF ScanBody, NextIndex, length

(* The start and the end of write(): nothing of the whole scan changes,     *)
(* unless the body is too large.                                            *)
LEMMA ReadChunkMaps ==
    ASSUME IInv, Follows, NEW length \in ChunkSizes, ReadChunk(length)
    PROVE  Whole!BodyTooLarge \/ UNCHANGED Whole!scan
  <1>0. /\ length \in Nat /\ size \in Nat /\ Len(request.body) \in Nat
        /\ request.body \in Seq(Bytes) /\ carry \in Seq(Bytes) /\ Len(carry) \in Nat
        /\ size + length <= Len(request.body) /\ request' = request /\ carry' = carry
        /\ size' = size + length /\ verdict = "none" /\ ~writing
        /\ state' = state /\ counters' = counters
    BY ChunkSizesAssumption, RequestsAssumption, LenProperties
       DEF ReadChunk, IInv, TypeOK, IsRequest
  <1>1. limits.maxBytes \in Nat
    BY PatternLengths DEF Limits, IInv
  <1>2. CASE size + length > limits.maxBytes
    <2>1. verdict' = "bodyTooLarge"
      BY <1>2 DEF ReadChunk, ExceedsLimit
    <2>2. position' = Undefined
      BY <2>1 DEF position, IsOver
    <2>3. Whole!Reject("bodyTooLarge")
      BY <1>0, <2>1, <2>2 DEF Whole!Reject, Whole!Undefined, Undefined
    <2>4. Len(request.body) > request.limits.maxBytes
      BY <1>0, <1>1, <1>2 DEF limits
    <2> QED
      BY <1>0, <2>3, <2>4
         DEF Whole!BodyTooLarge, Whole!limits, Whole!body, Whole!counters, counters
  <1>3. CASE ~(size + length > limits.maxBytes) /\ state = "done"
    <2>1. IsOver /\ IsOver' /\ verdict' = verdict
      BY <1>0, <1>3 DEF ReadChunk, ExceedsLimit, IsOver
    <2>2. position' = position
      BY <2>1 DEF position
    <2> QED
      BY <1>0, <2>1, <2>2 DEF Whole!scan, Whole!counters, counters
  <1>4. CASE ~(size + length > limits.maxBytes) /\ state # "done"
    <2>1. /\ buffer' = carry \o SubSeq(request.body, size + 1, size + length)
          /\ offset' = 0 /\ writing' = TRUE /\ verdict' = verdict
      BY <1>4 DEF ReadChunk, ExceedsLimit
    <2>2. Len(buffer') = Len(carry) + length
      <3>1. \A i \in (size + 1)..(size + length) : request.body[i] \in Bytes
        BY <1>0, ElementOfSeq
      <3>2. /\ SubSeq(request.body, size + 1, size + length) \in Seq(Bytes)
            /\ Len(SubSeq(request.body, size + 1, size + length)) = length
        BY <1>0, <3>1, SubSeqProperties
      <3>3. \A s, t \in Seq(Bytes) : Len(s \o t) = Len(s) + Len(t)
        BY ConcatProperties
      <3> QED
        BY <1>0, <2>1, <3>2, <3>3
    <2>3. ~IsOver /\ ~IsOver'
      BY <1>0, <1>4, <2>1 DEF IsOver
    <2>4. position = size - Len(carry) /\ position' = (size + length) - Len(buffer') + 0
      BY <1>0, <2>1, <2>3 DEF position
    <2>5. position' = position
      BY <1>0, <2>2, <2>4
    <2> QED
      BY <1>0, <2>1, <2>5 DEF Whole!scan, Whole!counters, counters
  <1> QED
    BY <1>2, <1>3, <1>4

LEMMA EndWriteMaps == ASSUME IInv, Follows, EndWrite PROVE UNCHANGED Whole!scan
  <1>0. /\ UNCHANGED <<request, size, verdict, counters, state>>
        /\ Len(buffer) \in Nat /\ size \in Nat /\ buffer \in Seq(Bytes)
        /\ writing /\ ~writing'
    BY LenProperties DEF EndWrite, IInv, TypeOK
  <1>1. position' = position
    <2>1. CASE IsOver
      BY <1>0, <2>1 DEF position, IsOver
    <2>2. CASE ~IsOver
      <3>1. /\ tailStart \in 0..Len(buffer) /\ tailStart = offset
            /\ carry' = SubSeq(buffer, tailStart + 1, Len(buffer))
        BY <1>0, <2>2 DEF EndWrite, IsOver, IInv, TypeOK, Follows
      <3>2. \A i \in (tailStart + 1)..Len(buffer) : buffer[i] \in Bytes
        BY <1>0, <3>1, ElementOfSeq
      <3>3. Len(carry') = Len(buffer) - tailStart
        BY <1>0, <3>1, <3>2, SubSeqProperties
      <3>4. position = size - Len(buffer) + offset /\ position' = size - Len(carry')
        BY <1>0, <2>2 DEF position, IsOver
      <3> QED
        BY <1>0, <3>1, <3>3, <3>4
    <2> QED
      BY <2>1, <2>2
  <1> QED
    BY <1>0, <1>1 DEF Whole!scan, Whole!counters, counters

LEMMA InitMaps == Init => Whole!Init
  <1> SUFFICES ASSUME Init PROVE Whole!Init
    OBVIOUS
  <1>1. IsRequest(request)
    BY RequestsAssumption DEF Init
  <1>2. Whole!IsRequest(request)
    BY <1>1 DEF IsRequest, Whole!IsRequest, Limits, Whole!Limits, Bytes, Whole!Bytes
  <1>3. position = 0
    <2>1. Len(carry) = 0 /\ size = 0 /\ ~writing /\ ~IsOver
      BY DEF Init, IsOver
    <2> QED
      BY <2>1 DEF position
  <1> QED
    BY <1>2, <1>3 DEF Init, Whole!Init

LEMMA StepMaps == IInv /\ Follows /\ [Next]_vars => [Whole!Next]_(Whole!scan)
  <1> SUFFICES ASSUME IInv, Follows, [Next]_vars
               PROVE  Whole!Next \/ UNCHANGED Whole!scan
    OBVIOUS
  <1>1. CASE UNCHANGED vars
    <2>1. position' = position
      BY <1>1 DEF vars, position, IsOver
    <2> QED
      BY <1>1, <2>1 DEF vars, Whole!scan, Whole!counters, counters
  <1>2. CASE Scan
    BY <1>2, PreambleMaps, HeadersMap, BodyMaps DEF Scan, Whole!Next
  <1> QED
    BY <1>1, <1>2, ReadChunkMaps, EndWriteMaps DEF Next, Whole!Next

-----------------------------------------------------------------------------
(* However a body is cut into chunks, the scanner does what a scan of the   *)
(* whole body does, and so rejects it only for a reason of the body.        *)
THEOREM ScannerImplementsWholeScan == Spec => ImplementsWholeScan
  <1>1. Spec => [](IInv /\ Follows)
    <2>1. Init => IInv /\ Follows
      BY InitInv, FollowsInit
    <2>2. (IInv /\ Follows) /\ [Next]_vars => (IInv /\ Follows)'
      BY StepInv, FollowsStep
    <2> QED
      BY <2>1, <2>2, PTL DEF Spec
  <1> QED
    BY <1>1, InitMaps, StepMaps, PTL DEF Spec, ImplementsWholeScan, Whole!Spec
=============================================================================
