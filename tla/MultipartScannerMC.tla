------------------------- MODULE MultipartScannerMC -------------------------
(* Instances of MultipartScanner for TLC, and the reference it is checked   *)
(* against: a scan of all bytes that arrived so far, one position after the *)
(* other, that knows nothing of chunks, tails or retries.                   *)
EXTENDS MultipartScanner, SequencesExt

CONSTANT Length     \* tokens of a body

-----------------------------------------------------------------------------
(* Bodies that a client can send: delimiters, broken delimiters, headers    *)
(* and data in every order, whole and truncated.                            *)

Opening(boundary) == <<"dash", "dash">> \o boundary \o CRLF
FilePart(boundary) == Opening(boundary) \o <<"filename">> \o HEADER_END
FieldPart(boundary) == Opening(boundary) \o <<"x">> \o HEADER_END

Tokens(boundary) ==
    {<<"x">>, <<"cr">>, CRLF, <<"dash", "dash">>, HEADER_END, <<"filename*">>,
     CRLF \o <<"dash", "dash">> \o boundary, CRLF \o Opening(boundary)}

Texts(boundary) == {FlattenSeq(tokens) : tokens \in [1..Length -> Tokens(boundary)]}

Starts(boundary) == {FilePart(boundary), <<"x">> \o FieldPart(boundary), Opening(boundary), <<"dash">>}

Small == [maxBytes |-> 24, parts |-> 2, files |-> 1, fields |-> 1, fileSize |-> 2]

Bodies ==
    UNION {{[boundary |-> boundary, body |-> start \o text, limits |-> Small] :
              start \in Starts(boundary), text \in Texts(boundary)} :
           boundary \in {<<"b">>, <<"dash">>}}

Cuts == {1, 2, 5, 40}

-----------------------------------------------------------------------------
(* The reference.                                                           *)

arrived == SubSeq(request.body, 1, size)

RefStart == [mode |-> "preamble", at |-> 0, parts |-> 0, files |-> 0, fields |-> 0,
             isFile |-> FALSE, size |-> 0, verdict |-> "none", edge |-> FALSE]

HeaderEnds(p, at) == {e \in at..Len(p) : HasAt(p, e, HEADER_END)}
FirstOf(S) == CHOOSE e \in S : \A f \in S : e <= f

RefPart(p, r) ==
    LET end == FirstOf(HeaderEnds(p, r.at))
        block == SubSeq(p, r.at + 3, end)
        files2 == r.files + One(PossiblyFile(block))
        fields2 == r.fields + One(PossiblyField(block))
    IN  [r EXCEPT !.mode = "body", !.at = end + 4, !.size = 0,
            !.isFile = PossiblyFile(block),
            !.parts = @ + 1, !.files = files2, !.fields = fields2,
            !.edge = @ \/ end - r.at > MAX_PART_HEADER_BYTES - 3,
            !.verdict = CASE end - r.at > MAX_PART_HEADER_BYTES \/ ~IsPlain(block) -> "malformed"
                          [] TooMany(r.parts + 1, files2, fields2) -> "tooMany"
                          [] OTHER -> "none"]

RECURSIVE RefScan(_, _)
RefScan(p, r) ==
    IF r.verdict # "none" \/ r.mode = "done" \/ r.at >= Len(p) THEN r
    ELSE CASE r.mode = "preamble" ->
                RefScan(p, IF HasAt(p, r.at, dashBoundary \o CRLF)
                           THEN [r EXCEPT !.mode = "headers", !.at = @ + Len(dashBoundary)]
                           ELSE [r EXCEPT !.at = @ + 1])
           [] r.mode = "headers" ->
                IF HeaderEnds(p, r.at) # {} THEN RefScan(p, RefPart(p, r))
                ELSE IF Len(p) - r.at > MAX_PART_HEADER_BYTES
                THEN [r EXCEPT !.verdict = "malformed"]
                ELSE r
           [] OTHER ->
                IF HasAt(p, r.at, delimiter \o CRLF)
                THEN RefScan(p, [r EXCEPT !.mode = "headers", !.at = @ + Len(delimiter)])
                ELSE IF HasAt(p, r.at, delimiter \o <<"dash", "dash">> \o CRLF)
                THEN [r EXCEPT !.mode = "done"]
                ELSE IF r.isFile /\ r.size + 1 > limits.fileSize
                THEN [r EXCEPT !.verdict = "fileTooLarge"]
                ELSE RefScan(p, [r EXCEPT !.at = @ + 1, !.size = @ + One(r.isFile)])

(* Bytes that may still turn out to be a delimiter.                         *)
Undecided(r) == Len(arrived) - r.at < Len(delimiter) + 4

(* However a body is cut into chunks, the scanner rejects it for the reason *)
(* the whole body gives, and at the latest when the bytes that decide it    *)
(* arrived; until then it has counted what the whole body counts.  A header *)
(* block within three bytes of its limit is the exception: it is rejected   *)
(* when a chunk ends inside of its last CRLF CRLF.                          *)
AgreesWithWholeScan ==
    ~writing =>
        IF size > limits.maxBytes THEN verdict = "bodyTooLarge"
        ELSE LET r == RefScan(arrived, RefStart) IN
             \/ r.edge
             \/ verdict = r.verdict /\ verdict # "none"
             \/ verdict = "none" /\ r.verdict = "fileTooLarge" /\ Undecided(r)
             \/ /\ verdict = "none" /\ r.verdict = "none"
                /\ <<state, parts, files, fields>> = <<r.mode, r.parts, r.files, r.fields>>
                /\ partSize <= r.size /\ r.size <= partSize + Len(carry)
=============================================================================
