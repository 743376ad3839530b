--------------------------- MODULE MultipartBodies ---------------------------
(***************************************************************************)
(* What a multipart request is made of: its bytes, its delimiters and the  *)
(* headers of its parts (src/helpers/multipart-limits.ts and               *)
(* multipart-part.ts).  The scanner and the reference it implements share  *)
(* these definitions and nothing else.                                     *)
(*                                                                         *)
(* A byte is one of the few the scanner tells apart.  Header and file      *)
(* contents are opaque: "filename" stands for a whole filename parameter,  *)
(* "filename*" for that one, and "x" for anything else.                    *)
(***************************************************************************)
EXTENDS Integers, Sequences

CONSTANT MAX_PART_HEADER_BYTES

ASSUME HeaderAssumption == MAX_PART_HEADER_BYTES \in Nat

CRLF == <<"cr", "lf">>
HEADER_END == CRLF \o CRLF
Bytes == {"cr", "lf", "dash", "b", "x", "filename", "filename*"}
Limits == [maxBytes : Nat, parts : Nat, files : Nat, fields : Nat, fileSize : Nat]

IsRequest(r) ==
    r.boundary \in Seq(Bytes) /\ r.body \in Seq(Bytes) /\ r.limits \in Limits

Undefined == -1

VARIABLE request    \* the request that is read

dashBoundary == <<"dash", "dash">> \o request.boundary
delimiter == CRLF \o dashBoundary
limits == request.limits

(* The bytes from an offset on, which counts from 0 as in the code.         *)
HasAt(bytes, index, pattern) ==
    /\ index >= 0 /\ index + Len(pattern) <= Len(bytes)
    /\ \A k \in 1..Len(pattern) : bytes[index + k] = pattern[k]

-----------------------------------------------------------------------------
(* Part headers.                                                            *)

Occurs(byte, block) == \E i \in 1..Len(block) : block[i] = byte

(* classifyMultipartPart(): lines separated by CRLF and nothing else.       *)
IsPlain(block) ==
    \A i \in 1..Len(block) :
        /\ block[i] = "cr" => i < Len(block) /\ block[i + 1] = "lf"
        /\ block[i] = "lf" => i > 1 /\ block[i - 1] = "cr"

PossiblyFile(block) == Occurs("filename", block) \/ Occurs("filename*", block)
PossiblyField(block) == ~Occurs("filename", block) \/ Occurs("filename*", block)

One(condition) == IF condition THEN 1 ELSE 0

(* assertMultipartCounts()                                                  *)
TooMany(newParts, newFiles, newFields) ==
    \/ newParts > limits.parts
    \/ newFiles > limits.files
    \/ newFields > limits.fields
=============================================================================
