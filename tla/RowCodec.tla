------------------------------- MODULE RowCodec -------------------------------
(***************************************************************************)
(* Rows on their way to the server and back (client.cpp, RowMapper).  A    *)
(* list of rows is written as the fixed parts of all of its rows, followed *)
(* by the variable parts of all of them: an OutputCursor goes to and fro   *)
(* between the two.  The server keeps the rows; a query, or a fetch of a   *)
(* partly read result, answers some of them that follow each other, whose  *)
(* offsets still count from the variable part of the whole result.  An     *)
(* InputCursor reads them.                                                 *)
(*                                                                         *)
(* A stream maps positions to what is written there: a number of bytes and *)
(* a content.  What is read has to be what was written there, with as many *)
(* bytes.                                                                  *)
(***************************************************************************)
EXTENDS Integers, SequencesExt

CONSTANTS
  Schemas,                   \* the columns of a container: a sequence of types
  Lengths, StringLists,      \* the lengths of strings, and of lists of them
  Counts,                    \* the number of elements of other arrays
  MaxRows,
  VAR_SIZE_1BYTE_THRESHOLD, VAR_SIZE_4BYTE_THRESHOLD

ASSUME RowCodecAssumption ==
  /\ Lengths \subseteq Nat /\ StringLists \subseteq Seq(Nat) /\ Counts \subseteq Nat
  /\ MaxRows \in Nat
  /\ VAR_SIZE_1BYTE_THRESHOLD \in 1 .. 128
  /\ VAR_SIZE_4BYTE_THRESHOLD \in Nat

VARIABLES
  mode, schema, rowCount,    \* the format, the columns, the rows of the list
  rows,                      \* the rows written so far
  out,                       \* OutputCursor, with its stream
  first, rowIdIncluded, end, \* the answer: its first row, whether there are
                             \* identifiers in it, and where it ends
  in,                        \* InputCursor, with its stream
  decoded                    \* the rows read so far

format == <<mode, schema, rowCount>>
answer == <<first, rowIdIncluded, end>>
codecVars == <<format, rows, out, answer, in, decoded>>

V2 == mode = "ROWWISE_SEPARATED_V2"

-----------------------------------------------------------------------------
(* Streams.  A cursor is a record that has the position and the content of *)
(* its stream, and whether all that was read was there.                    *)

At(c, pos) == [c EXCEPT !.pos = pos]

Write(c, size, content) ==
  [c EXCEPT !.pos = @ + size,
            !.cells = IF size = 0 THEN @
                      ELSE [p \in DOMAIN @ \cup {c.pos} |->
                              IF p = c.pos THEN [size |-> size, content |-> content] ELSE @[p]]]

Nothing == <<>>

Content(c, size) ==
  IF size > 0 /\ c.pos \in DOMAIN c.cells THEN c.cells[c.pos].content ELSE Nothing

Read(c, size) ==
  [c EXCEPT !.pos = @ + size,
            !.ok = @ /\ (size > 0 => c.pos \in DOMAIN c.cells /\ c.cells[c.pos].size = size)]

(* Numbers have a content of one element. *)
Number(c) ==
  LET content == IF c.pos \in DOMAIN c.cells THEN c.cells[c.pos].content ELSE Nothing IN
  IF Len(content) = 1 THEN content[1] ELSE 0

(* getEncodedVarSize, writeVarSize and readVarSize each decide how many     *)
(* bytes a size takes, the last by the lowest bits of the first byte.       *)
EncodedVarSize(n) ==
  IF n < VAR_SIZE_1BYTE_THRESHOLD THEN 1
  ELSE IF n < VAR_SIZE_4BYTE_THRESHOLD THEN 4 ELSE 8

WriteVarSize(c, n) ==
  IF n < VAR_SIZE_1BYTE_THRESHOLD THEN Write(c, 1, <<2 * n + 1>>)
  ELSE IF n < VAR_SIZE_4BYTE_THRESHOLD THEN Write(c, 4, <<4 * n>>)
  ELSE Write(c, 8, <<4 * n + 2>>)

VarSizeWidth(c) ==
  LET byte == Number(c) % 256 IN
  IF byte % 2 = 1 THEN 1 ELSE IF byte % 4 = 0 THEN 4 ELSE 8

VarSize(c) == Number(c) \div (IF VarSizeWidth(c) = 1 THEN 2 ELSE 4)

ReadVarSize(c) == Read(c, VarSizeWidth(c))

-----------------------------------------------------------------------------
(* Sizes. *)

HasVarDataPart(type) == type \in {"string", "strings", "longs"}

VarColumns == {i \in DOMAIN schema : HasVarDataPart(schema[i])}

FixedFieldPartSize(type) ==
  CASE HasVarDataPart(type) -> IF V2 THEN 0 ELSE 8
    [] type = "long" -> 8
    [] type = "byte" -> 1

NullsByteSize == (Len(schema) + 7) \div 8
NullsOffset == IF VarColumns = {} THEN 0 ELSE 8

FixedRowPartSize(withRowId) ==
  (IF withRowId THEN 8 ELSE 0)
    + FoldLeft(LAMBDA sum, type : sum + FixedFieldPartSize(type), 0, schema)
    + (IF V2 THEN NullsByteSize + NullsOffset ELSE 0)

(* BaseCursor, on a stream that stands at the list. *)
Cursor(stream, count, withRowId) ==
  [pos |-> stream.pos, cells |-> stream.cells, ok |-> TRUE,
   topPos |-> stream.pos,
   varDataTop |-> stream.pos + FixedRowPartSize(withRowId) * count,
   varDataLast |-> stream.pos + FixedRowPartSize(withRowId) * count,
   rowIndex |-> -1, rowCount |-> count,
   pendingPos |-> 0, varDataOffset |-> 0, partialVarDataOffset |-> 0,
   varDataBaseOffset |-> 0, row |-> <<>>, nulls |-> Nothing]

EndRow(c) ==
  IF c.rowIndex + 1 >= c.rowCount THEN At(c, c.varDataLast) ELSE c

EndVarData(c) == At([c EXCEPT !.varDataLast = c.pos], c.pendingPos)

-----------------------------------------------------------------------------
(* Encoding. *)

WriteVarColumnCount(c) ==
  LET offset == c.varDataLast - c.varDataTop
      headed == Write(c, 8, <<offset>>)
      counted == WriteVarSize(At(headed, c.varDataLast), Cardinality(VarColumns))
  IN At([counted EXCEPT !.varDataLast = counted.pos], headed.pos)

BeginOutputRow(c, nulls) ==
  LET next == [c EXCEPT !.rowIndex = @ + 1]
      counted == IF V2 /\ VarColumns # {} THEN WriteVarColumnCount(next) ELSE next
  IN IF V2 THEN Write(counted, NullsByteSize, nulls) ELSE counted

BeginOutputVarData(c) ==
  LET headed == IF V2 THEN c ELSE Write(c, 8, <<c.varDataLast - c.varDataTop>>)
  IN At([headed EXCEPT !.pendingPos = headed.pos], c.varDataLast)

(* The size of a string comes before it. *)
WriteString(c, value) ==
  Write(IF V2 THEN WriteVarSize(c, value.length) ELSE Write(c, 4, <<value.length>>),
        value.length, value.text)

WriteStrings(c, values) == FoldLeft(WriteString, c, values)

(* putArraySizeInfo: the size of what follows, and the number of elements.  *)
(* In the old format the size is put in at the end.                         *)
PutArraySizeInfo(c, size, count) ==
  IF V2 THEN WriteVarSize(WriteVarSize(c, size + EncodedVarSize(count)), count)
        ELSE Write(Write(c, 4, <<0>>), 4, <<count>>)

ArrayEnd(c, topPos) ==
  IF V2 THEN c ELSE At(Write(At(c, topPos), 4, <<c.pos - (topPos + 4)>>), c.pos)

EncodedStringsSize(values) ==
  FoldLeft(LAMBDA sum, value : sum + EncodedVarSize(value.length) + value.length, 0, values)

EncodeVarData(c, type, value) ==
  CASE type = "string" -> WriteString(c, value)
    [] type = "strings" ->
         ArrayEnd(WriteStrings(
           PutArraySizeInfo(c, EncodedStringsSize(value), Len(value)), value), c.pos)
    [] type = "longs" ->
         ArrayEnd(Write(PutArraySizeInfo(c, 8 * value.count, value.count),
                        8 * value.count, value.text), c.pos)

EncodeField(c, i, value) ==
  IF HasVarDataPart(schema[i])
  THEN EndVarData(EncodeVarData(BeginOutputVarData(c), schema[i], value))
  ELSE Write(c, FixedFieldPartSize(schema[i]), value)

Encode(c, row) ==
  EndRow(FoldLeftDomain(LAMBDA d, i : EncodeField(d, i, row.fields[i]),
                        BeginOutputRow(c, row.nulls), row.fields))

-----------------------------------------------------------------------------
(* Decoding. *)

(* Mutant: the offsets of the first row are taken as they are. *)
OffsetsFromStart(c) == c

(* The variable part of an answer begins with that of its first row. *)
FirstOffset(c) ==
  IF c.rowIndex = 0 THEN [c EXCEPT !.partialVarDataOffset = c.varDataOffset] ELSE c

ReadVarColumnCount(c) ==
  LET headed == FirstOffset(Read([c EXCEPT !.varDataOffset = Number(c)], 8))
      counted == At(headed, c.varDataTop + headed.varDataOffset - headed.partialVarDataOffset)
  IN At([ReadVarSize(counted) EXCEPT
           !.varDataLast = counted.pos + EncodedVarSize(VarSize(counted))],
        headed.pos)

BeginInputRow(c) ==
  LET next == [c EXCEPT !.rowIndex = @ + 1, !.row = <<>>]
      identified == IF rowIdIncluded THEN Read(next, 8) ELSE next
      counted == IF V2 /\ VarColumns # {} THEN ReadVarColumnCount(identified) ELSE identified
  IN IF V2 THEN Read([counted EXCEPT !.nulls = Content(counted, NullsByteSize)], NullsByteSize)
           ELSE counted

BeginInputVarData(c) ==
  IF V2 THEN At([c EXCEPT !.pendingPos = c.pos], c.varDataLast)
  ELSE At([Read(c, 8) EXCEPT !.pendingPos = c.pos + 8],
          c.varDataTop + Number(c) - c.varDataBaseOffset)

ReadSize(c) == IF V2 THEN ReadVarSize(c) ELSE Read(c, 4)
SizeAt(c) == IF V2 THEN VarSize(c) ELSE Number(c)

Return(c, value) == [c EXCEPT !.row = Append(@, value)]

ReadString(c) ==
  LET size == SizeAt(c)  text == ReadSize(c) IN
  Return(Read(text, size), [length |-> size, text |-> Content(text, size)])

(* Only the number of elements is made use of. *)
DecodeStrings(c) ==
  LET counted == ReadSize(c)
      count == SizeAt(counted)
      done == FoldLeft(LAMBDA d, i : ReadString(d), [ReadSize(counted) EXCEPT !.row = <<>>],
                       [i \in 1 .. count |-> i])
  IN Return([done EXCEPT !.row = c.row], done.row)

DecodeLongs(c) ==
  LET counted == ReadSize(c)
      count == SizeAt(counted)
      text == ReadSize(counted)
  IN Return(Read(text, 8 * count), [count |-> count, text |-> Content(text, 8 * count)])

DecodeVarData(c, type) ==
  CASE type = "string" -> ReadString(c)
    [] type = "strings" -> DecodeStrings(c)
    [] type = "longs" -> DecodeLongs(c)

DecodeField(c, i) ==
  LET size == FixedFieldPartSize(schema[i]) IN
  IF HasVarDataPart(schema[i])
  THEN EndVarData(DecodeVarData(BeginInputVarData(c), schema[i]))
  ELSE Return(Read(c, size), Content(c, size))

Decode(c) == EndRow(FoldLeftDomain(DecodeField, BeginInputRow(c), schema))

-----------------------------------------------------------------------------
(* The server keeps rows by the sizes that come before their values. *)

VarDataStart(k) ==
  LET fixed == out.topPos + FixedRowPartSize(FALSE) * (k - 1)
      before == FoldLeft(LAMBDA sum, type : sum + FixedFieldPartSize(type), 0,
                         SubSeq(schema, 1, (CHOOSE i \in VarColumns :
                                              \A j \in VarColumns : i <= j) - 1))
  IN IF VarColumns = {} THEN 0
     ELSE Number(At(out, IF V2 THEN fixed ELSE fixed + before))

SkipValue(c) == At(c, ReadSize(c).pos + SizeAt(c))

VarDataEnd(k) ==
  LET start == At(out, out.varDataTop + VarDataStart(k))
      values == IF V2 /\ VarColumns # {} THEN ReadVarSize(start) ELSE start
  IN FoldLeft(LAMBDA c, i : SkipValue(c), values,
              [i \in 1 .. Cardinality(VarColumns) |-> i]).pos - out.varDataTop

(* The stream of an answer with rows from i on, count of them. *)
AnswerFrom(i, count, withRowId) ==
  LET size == FixedRowPartSize(FALSE)
      gap == IF withRowId THEN 8 ELSE 0
      from == out.topPos + size * (i - 1)
      fixed == {pos \in DOMAIN out.cells : from <= pos /\ pos < from + size * count}
      varFrom == out.varDataTop + VarDataStart(i)
      varTo == out.varDataTop + VarDataEnd(i + count - 1)
      variable == {pos \in DOMAIN out.cells : varFrom <= pos /\ pos < varTo}
      Row(pos) == (pos - from) \div size
      moved == [pos \in fixed |-> pos - from + gap * (Row(pos) + 1)]
      identifiers == IF withRowId THEN {(size + gap) * k : k \in 0 .. count - 1} ELSE {}
      shift == (size + gap) * count - varFrom
      Source(pos) == CHOOSE p \in fixed \cup variable :
                       pos = IF p \in fixed THEN moved[p] ELSE p + shift
      positions == {moved[pos] : pos \in fixed} \cup {pos + shift : pos \in variable}
  IN [pos |-> 0,
      cells |-> [pos \in positions \cup identifiers |->
                   IF pos \in identifiers THEN [size |-> 8, content |-> <<pos>>]
                   ELSE out.cells[Source(pos)]],
      end |-> varTo + shift]

-----------------------------------------------------------------------------
(* The number of rows comes before a list. *)
Request == Write([pos |-> 0, cells |-> <<>>, ok |-> TRUE], 8, <<rowCount>>)

NoAnswer == [pos |-> 0, cells |-> <<>>]

CodecInit ==
  /\ mode \in {"ROWWISE_SEPARATED", "ROWWISE_SEPARATED_V2"}
  /\ schema \in Schemas
  /\ rowCount \in 1 .. MaxRows
  /\ rows = <<>>
  /\ out = Cursor(Request, rowCount, FALSE)
  /\ first = 0 /\ rowIdIncluded = FALSE /\ end = 0
  /\ in = Cursor(NoAnswer, 0, FALSE)
  /\ decoded = <<>>

(* What the row and the column have: each content is another one. *)
Text(row, column, size) == IF size = 0 THEN Nothing ELSE <<row, column, size>>

Values(type, row, column) ==
  CASE type \in {"byte", "long"} -> {<<row, column>>}
    [] type = "string" -> {[length |-> n, text |-> Text(row, column, n)] : n \in Lengths}
    [] type = "longs" -> {[count |-> n, text |-> Text(row, column, 8 * n)] : n \in Counts}
    [] type = "strings" ->
         {[k \in DOMAIN list |-> [length |-> list[k], text |-> Text(row, 10 * column + k, list[k])]]
           : list \in StringLists}

Rows(k) ==
  {[fields |-> fields, nulls |-> <<k, 0>>] :
     fields \in FoldLeftDomain(
       LAMBDA some, i : {Append(f, v) : f \in some, v \in Values(schema[i], k, i)},
       {<<>>}, schema)}

EncodeRow ==
  /\ Len(rows) < rowCount
  /\ \E row \in Rows(Len(rows) + 1) :
       /\ rows' = Append(rows, row)
       /\ out' = Encode(out, row)
  /\ UNCHANGED <<format, answer, in, decoded>>

(* fetchRowSet: a cursor on the answer, and the offset it begins with. *)
FetchRowSet ==
  /\ Len(rows) = rowCount /\ first = 0
  /\ \E i \in 1 .. rowCount : \E count \in 1 .. rowCount - i + 1 : \E withRowId \in BOOLEAN :
       LET stream == AnswerFrom(i, count, withRowId) IN
       /\ first' = i /\ rowIdIncluded' = withRowId /\ end' = stream.end
       /\ in' = [Cursor(stream, count, withRowId) EXCEPT !.varDataBaseOffset = VarDataStart(i)]
  /\ UNCHANGED <<format, rows, out, decoded>>

DecodeRow ==
  /\ first > 0 /\ Len(decoded) < in.rowCount
  /\ in' = Decode(in)
  /\ decoded' = Append(decoded, in'.row)
  /\ UNCHANGED <<format, rows, out, answer>>

CodecNext == EncodeRow \/ FetchRowSet \/ DecodeRow

CodecSpec == CodecInit /\ [][CodecNext]_codecVars

-----------------------------------------------------------------------------
(* The rows that are read are the rows that were written, with their nulls *)
(* and in their order, whichever of them the server answers and whatever   *)
(* the lengths of their values; after the last row both cursors stand      *)
(* behind the list, where the next list of a request or an answer follows. *)
RowsExchanged ==
  /\ Len(rows) = rowCount =>
       /\ out.pos = out.varDataLast
       /\ \A pos \in DOMAIN out.cells : pos + out.cells[pos].size <= out.pos
  /\ in.ok
  /\ \A k \in DOMAIN decoded : decoded[k] = rows[first + k - 1].fields
  /\ V2 /\ decoded # <<>> => in.nulls = rows[first + Len(decoded) - 1].nulls
  /\ first > 0 /\ Len(decoded) = in.rowCount => in.pos = end
=============================================================================
