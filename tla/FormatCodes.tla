---------------------------- MODULE FormatCodes ----------------------------
(***************************************************************************)
(* Per-parameter wire format negotiation of src/conn.go: the format codes  *)
(* sendPreparedQuery writes for parameters, and the encoding it then uses  *)
(* for each argument; and the 16-bit parameter count of                    *)
(* ParameterDescription and Bind.  The state is one input -- a type OID,   *)
(* an argument, a statement's number of parameters -- so that TLC          *)
(* enumerates every input.                                                 *)
(***************************************************************************)
EXTENDS Integers

\* Numbers of parameters a statement may have; PostgreSQL accepts 0..65535.
CONSTANT ParamCounts

ASSUME ParamCounts \subseteq 0..65535

TextFormatCode == 0
BinaryFormatCode == 1

\* The intrinsic OIDs (BoolOid ... TimestampTzOid) and one other type.
BinaryOids == {"bool", "bytea", "int2", "int4", "int8", "float4", "float8"}
TextOids == {"text", "varchar", "date", "timestamptz"}
Oids == BinaryOids \cup TextOids \cup {"custom"}

\* An argument: nil, or a value with some of the capabilities
\* BinaryEncoder and TextEncoder.
Args == [isNil : BOOLEAN, caps : SUBSET {"binary", "text"}]

VARIABLES oid, arg, nparams

vars == <<oid, arg, nparams>>

Init ==
    /\ oid \in Oids
    /\ arg \in Args
    /\ nparams \in ParamCounts

\* Each behaviour checks one input.
Next == UNCHANGED vars

Spec == Init /\ [][Next]_vars

\* sendPreparedQuery, lines 731-745: the parameter format codes.
ParamFormatCode(o, a) ==
    CASE o \in BinaryOids -> BinaryFormatCode
      [] o \in TextOids -> TextFormatCode
      [] OTHER -> IF "binary" \in a.caps THEN BinaryFormatCode ELSE TextFormatCode

\* Mutant: a TextEncoder is preferred to a BinaryEncoder when encoding.
EncodedAsTextFirst(o, a) ==
    CASE a.isNil -> "null"
      [] o \in BinaryOids -> "binary"
      [] o \in TextOids -> "text"
      [] "text" \in a.caps -> "text"
      [] "binary" \in a.caps -> "binary"
      [] OTHER -> "error"

(* sendPreparedQuery, lines 748-791: how the argument is written -- "null"
   (length -1), "binary", "text", or "error" (SerializationError).  The
   intrinsic encoders (encodeBool ... encodeTimestampTz) are outside src/;
   spec.md 4.B gives their formats. *)
EncodedAs(o, a) ==
    CASE a.isNil -> "null"
      [] o \in BinaryOids -> "binary"
      [] o \in TextOids -> "text"
      [] "binary" \in a.caps -> "binary"
      [] "text" \in a.caps -> "text"
      [] OTHER -> "error"

\* A count as the two bytes the server writes (pq_sendint16 of an unsigned count).
Wire16(k) == k % 2^16

\* MsgReader.ReadInt16: two bytes as a signed 16-bit integer.
ReadInt16(b) == IF b >= 2^15 THEN b - 2^16 ELSE b

(* rxParameterDescription, lines 1014-1021, when the server describes k
   parameters: make([]Oid, 0, parameterCount) panics on a negative
   capacity; otherwise the loop appends parameterCount OIDs. *)
rxParameterDescription(k) ==
    LET parameterCount == ReadInt16(Wire16(k))
    IN [panics |-> parameterCount < 0,
        oids   |-> IF parameterCount < 0 THEN 0 ELSE parameterCount]

\* The encoding a format code announces.
Announced(code) == IF code = BinaryFormatCode THEN "binary" ELSE "text"

(* Every parameter is written in the format its Bind format code announces
   (the two switches of sendPreparedQuery agree), whenever it is written
   at all. *)
BindFormatsAgree ==
    EncodedAs(oid, arg) \notin {"null", "error"}
        => EncodedAs(oid, arg) = Announced(ParamFormatCode(oid, arg))

(* Prepare keeps one parameter OID for each parameter of the statement the
   server described, for every count the server accepts (spec.md 2: a
   prepared statement holds its parameter OIDs). *)
PrepareKeepsParams == rxParameterDescription(nparams) = [panics |-> FALSE, oids |-> nparams]
=============================================================================
