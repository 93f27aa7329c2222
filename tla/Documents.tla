------------------------------ MODULE Documents ------------------------------
(***************************************************************************)
(* file_io/file_writer.c and file_reader.c, built for POSIX: a FileWriter  *)
(* and a FileReader over a FILE of the C library, which is external. A     *)
(* writer keeps the bytes of its file and those the C library has not      *)
(* handed on, pending; a reader, of a file that nobody writes meanwhile,   *)
(* its bytes. A call returns <<its result, the handle>>. Files are smaller *)
(* than the C library's buffer, and no call of it fails but fseek.         *)
(*                                                                         *)
(* In this order, each with its laws: the file reader and writer, csv.c,   *)
(* config.c, cli.c, evalexpr.c.                                            *)
(***************************************************************************)
EXTENDS Integers, Sequences, FiniteSets

Ext == INSTANCE SequencesExt
Q == INSTANCE Values
J == INSTANCE Json

NONE == <<-1>>
NL == <<10>>
Least(a, b) == IF a < b THEN a ELSE b
First(bytes, n) == SubSeq(bytes, 1, Least(n, Len(bytes)))
After(bytes, n) == SubSeq(bytes, n + 1, Len(bytes))
UptoAny(text, stops) == IF \E i \in DOMAIN text : text[i] \in stops
                        THEN SubSeq(text, 1, Ext!SelectInSeq(text, LAMBDA c : c \in stops) - 1) ELSE text

\* ----------------------------------------------------------------- writers --
\* fopen "w" empties the file, "a" starts at its end
Handle(bytes, mode, append) ==
  [bytes |-> bytes, pos |-> Len(bytes), pending |-> <<>>, mode |-> mode, append |-> append, encoding |-> "UTF16",
   is_open |-> TRUE, locked |-> FALSE]
WriterOpen(bytes, mode) == IF mode = "APPEND" THEN Handle(bytes, mode, TRUE) ELSE Handle(<<>>, mode, FALSE)
WriterAppend(bytes, mode) == Handle(bytes, mode, TRUE)
\* bytes over those of a file, zeros up to them
Over(bytes, at, new) ==
  IF new = <<>> THEN bytes
  ELSE [i \in 1..(IF at + Len(new) > Len(bytes) THEN at + Len(new) ELSE Len(bytes)) |->
          IF i \in at + 1..at + Len(new) THEN new[i - at] ELSE IF i <= Len(bytes) THEN bytes[i] ELSE 0]
Flush(w) ==
  LET at == IF w.append /\ w.pending # <<>> THEN Len(w.bytes) ELSE w.pos
  IN  [w EXCEPT !.bytes = Over(@, at, w.pending), !.pos = at + Len(w.pending), !.pending = <<>>]
\* the file that a writer leaves
WriterClose(w) == Flush(w).bytes
WriterGetPosition(w) == (IF w.append /\ w.pending # <<>> THEN Len(w.bytes) ELSE w.pos) + Len(w.pending)
WriterIsOpen(w) == w.is_open
SetEncoding(h, encoding) == <<encoding \in {"UTF16", "UTF32"}, IF encoding \in {"UTF16", "UTF32"} THEN [h EXCEPT !.encoding = encoding] ELSE h>>
WriterGetEncoding(w) == w.encoding
Put(w, bytes) == [w EXCEPT !.pending = @ \o bytes]

\* little-endian numbers of some bytes, up to the first 0
InBytes(units, width) ==
  LET n == Len(UptoAny(units, {0})) IN [i \in 1..width * n |-> (units[((i - 1) \div width) + 1] \div 256 ^ ((i - 1) % width)) % 256]
Coded(units, width) == [bytes |-> IF units = J!T!NONE THEN NONE ELSE InBytes(units, width), width |-> width]
\* what a text becomes in the file, and the bytes of one of its elements
Encoded(w, text) ==
  IF w.mode = "BINARY" THEN [bytes |-> text, width |-> 1]
  ELSE IF w.encoding = "UTF32" THEN Coded(J!T!Utf8ToUtf32(text), 4)
  ELSE IF w.mode = "UNICODE" THEN Coded(J!T!Utf8ToUtf16(text), 2)
  ELSE [bytes |-> text, width |-> 1]
\* elements of one byte
PutOut(w, out) == IF out.bytes = NONE THEN <<0, w>> ELSE <<Len(out.bytes) \div out.width, Put(w, out.bytes)>>
Write(buffer, w) == PutOut(w, Encoded(w, buffer))
\* never converts
WriteLine(buffer, w) == <<TRUE, Put(w, buffer \o NL)>>
WriteFmt(w, text) == <<Len(First(text, 2047)), Flush(Put(w, First(text, 2047)))>>
\* one element, of all the bytes
AppendFmt(w, text) ==
  IF w.mode # "APPEND" \/ text = <<>> THEN <<FALSE, w>>
  ELSE LET r == Write(First(text, 2047), w) IN <<r[1] > 0, r[2]>>
\* the buffers one after the other; the sum is that of UTF-16 units of ASCII
WriteBatch(w, buffers) ==
  LET BytesOf(out) == IF out.bytes = NONE THEN <<>> ELSE out.bytes
      outs == [i \in DOMAIN buffers |-> IF buffers[i] = <<>> THEN <<>> ELSE BytesOf(Encoded(w, buffers[i]))]
      all == Len(Ext!FlattenSeq(buffers)) * (IF w.mode = "UNICODE" THEN 2 ELSE 1)
  IN  <<Len(Ext!FlattenSeq(outs)) = all, Put(w, Ext!FlattenSeq(outs))>>
Origin(h, anchor, size) == CASE anchor = "END" -> size [] anchor = "CURRENT" -> h [] OTHER -> 0
\* fseek hands on what is pending
WriterSeek(w, offset, anchor) ==
  LET f == Flush(w)
      to == Origin(f.pos, anchor, Len(f.bytes)) + offset
  IN  IF to < 0 THEN <<FALSE, f>> ELSE <<TRUE, [f EXCEPT !.pos = to]>>
WriterGetSize(w) == LET f == Flush(w) IN <<Len(f.bytes), f>>
\* the cursor stays where it is
Truncate(w, size) ==
  LET f == Flush(w) IN <<TRUE, [f EXCEPT !.bytes = IF size <= Len(@) THEN First(@, size) ELSE Over(@, size - 1, <<0>>)]>>
\* A lock is the process's, and closing any descriptor of the file drops it.
Lock(w) == <<TRUE, [w EXCEPT !.locked = TRUE]>>
Unlock(w) == <<TRUE, [w EXCEPT !.locked = FALSE]>>
\* by the names of the files, past what is pending: <<result, source, dest>>
WriterCopy(src, dest) == <<TRUE, [src EXCEPT !.locked = FALSE], [dest EXCEPT !.bytes = src.bytes, !.locked = FALSE]>>

\* ----------------------------------------------------------------- readers --
ReaderOpen(bytes, mode) == [bytes |-> bytes, pos |-> 0, eof |-> FALSE, mode |-> mode, encoding |-> "UTF16", is_open |-> TRUE]
ReaderGetPosition(r) == r.pos
ReaderIsOpen(r) == r.is_open
ReaderSeek(r, offset, anchor) ==
  LET to == Origin(r.pos, anchor, Len(r.bytes)) + offset
  IN  IF to < 0 THEN <<FALSE, r>> ELSE <<TRUE, [r EXCEPT !.pos = to, !.eof = FALSE]>>
Eof(r) == r.eof
ReaderGetSize(r) == <<Len(r.bytes), [r EXCEPT !.eof = FALSE]>>
\* fread: <<the bytes, the reader>>
Fread(r, n) ==
  LET got == First(After(r.bytes, r.pos), n) IN <<got, [r EXCEPT !.pos = @ + Len(got), !.eof = @ \/ Len(got) < n]>>
\* fgets, of at most n bytes: NONE at the end
Fgets(r, n) ==
  LET rest == First(After(r.bytes, r.pos), n)
      Got(line) == <<IF line = <<>> THEN NONE ELSE line,
                     [r EXCEPT !.pos = @ + Len(line), !.eof = @ \/ (Len(line) < n /\ (line = <<>> \/ Ext!Last(line) # 10))]>>
  IN  Got(IF \E i \in DOMAIN rest : rest[i] = 10 THEN UptoAny(rest, {10}) \o NL ELSE rest)
\* Units of UTF-16 are counted by wchar_t of four bytes, as many as are taken.
ReadUnicode(r, size, count) ==
  LET got == Fread(r, 4 * count)
      n == Len(got[1]) \div 4
      Held(text) == First(text, count * size - (IF Len(text) < count * size THEN 0 ELSE 1))
      Read(out) == <<Len(out), out, got[2]>>
      Converted(text) == IF text = J!T!NONE THEN <<0, NONE, got[2]>> ELSE Read(Held(UptoAny(text, {0})))
  IN  Converted(J!T!Utf16ToUtf8([i \in 1..n |-> got[1][2 * i - 1] + 256 * got[1][2 * i]]))
\* <<the elements read, the text they leave in the buffer, the reader>>
ReaderRead(size, count, r) ==
  LET got == Fread(r, size * count)
      n == Len(got[1]) \div size
  IN  CASE r.mode \in {"BINARY", "UNBUFFERED", "BUFFERED"} -> <<n, got[1], got[2]>>
        [] r.mode = "TEXT" -> <<n, First(got[1], n), got[2]>>
        [] r.mode = "UNICODE" -> ReadUnicode(r, size, count)
        [] OTHER -> <<0, NONE, r>>
\* from the cursor to the end, which is not noticed
ReadAll(r) == <<After(r.bytes, r.pos), [r EXCEPT !.pos = IF @ < Len(r.bytes) THEN Len(r.bytes) ELSE @, !.eof = FALSE]>>
\* <<the line or NONE, the reader>>
ReadLine(size, r) ==
  LET unicode == r.mode = "UNICODE" /\ r.encoding = "UTF16"
      got == Fgets(r, IF unicode THEN 1023 ELSE size - 1)
  IN  IF got[1] = NONE THEN got
      ELSE <<IF unicode THEN First(UptoAny(got[1], {0}), size - 1) ELSE UptoAny(got[1], {0, 10, 13}), got[2]>>
\* what is scanned
ReadFmt(r) == LET got == Fgets(r, 1023) IN IF got[1] = NONE THEN got ELSE <<UptoAny(got[1], {0}), got[2]>>
RECURSIVE LinesFrom(_, _, _), LinesPast(_, _, _)
LinesFrom(r, n, lines) == IF Len(lines) = n \/ Eof(r) THEN <<lines, r>> ELSE LinesPast(ReadLine(1024, r), n, lines)
LinesPast(got, n, lines) == LinesFrom(got[2], n, IF got[1] = NONE THEN lines ELSE Append(lines, got[1]))
Counted(got, n) == <<Len(got[1]) = n, got[1], got[2]>>
ReadLines(r, n) == Counted(LinesFrom(r, n, <<>>), n)
\* Text is read by wchar_t: fewer bytes than one make none, and more are taken
\* for wide characters, with no end: NONE for whatever comes of that.
ReaderCopy(r, w) ==
  LET rest == After(r.bytes, r.pos)
      read == [r EXCEPT !.pos = @ + Len(rest), !.eof = TRUE]
  IN  IF r.mode = "BINARY" \/ w.mode = "BINARY" THEN <<TRUE, read, Put(w, rest)>>
      ELSE IF Len(rest) < 4 THEN <<TRUE, read, w>> ELSE NONE

------------------------------------------------------------------------------
(***************************************************************************)
(* What a FileWriter and a FileReader promise, against a file that every   *)
(* call changes at once: ideal is [bytes, at], without a buffer.           *)
(***************************************************************************)

Old == <<97, 10>>
FilesFresh(w, at) == [w |-> w, bytes |-> w.bytes, at |-> at]
Writers == {FilesFresh(WriterOpen(Old, mode), 0) : mode \in {"TEXT", "BINARY", "UNICODE"}}
             \union {FilesFresh(WriterOpen(Old, "APPEND"), 2), FilesFresh(WriterAppend(Old, "UNICODE"), 2)}
Texts == {<<98>>, <<99, 13, 10>>}
FilesWide(s, text) == CASE s.w.mode = "BINARY" -> text
                   [] s.w.mode = "UNICODE" -> [i \in 1..2 * Len(text) |-> IF i % 2 = 1 THEN text[(i + 1) \div 2] ELSE 0]
                   [] OTHER -> text
\* bytes written to the ideal file, after those of an append writer
Ideal(s, w, bytes) ==
  LET at == IF s.w.append THEN Len(s.bytes) ELSE s.at IN [w |-> w, bytes |-> Over(s.bytes, at, bytes), at |-> at + Len(bytes)]
FilesCalls(s) ==
  {Ideal(s, Write(text, s.w)[2], FilesWide(s, text)) : text \in Texts}
    \union {Ideal(s, WriteLine(<<98>>, s.w)[2], <<98, 10>>), Ideal(s, WriteFmt(s.w, <<57>>)[2], <<57>>)}
    \union {Ideal(s, WriteBatch(s.w, <<<<98>>, <<>>, <<99>>>>)[2], FilesWide(s, <<98, 99>>))}
    \union {IF s.w.mode = "APPEND" THEN Ideal(s, AppendFmt(s.w, <<56>>)[2], <<56>>) ELSE [s EXCEPT !.w = AppendFmt(s.w, <<56>>)[2]]}
    \union {LET to == Origin(s.at, m[2], Len(s.bytes)) + m[1]
            IN  [s EXCEPT !.w = WriterSeek(s.w, m[1], m[2])[2], !.at = IF to < 0 THEN @ ELSE to] :
              m \in {<<0, "BEGIN">>, <<-1, "END">>, <<2, "CURRENT">>, <<-3, "CURRENT">>}}
    \union {[s EXCEPT !.w = Truncate(s.w, size)[2],
                      !.bytes = IF size <= Len(@) THEN First(@, size) ELSE Over(@, size - 1, <<0>>)] : size \in {0, 1, 5}}
    \union {[s EXCEPT !.w = Flush(s.w)], [s EXCEPT !.w = WriterGetSize(s.w)[2]], [s EXCEPT !.w = Lock(s.w)[2]], [s EXCEPT !.w = Unlock(s.w)[2]]}

\* What is pending makes no difference. A copy is taken by name, and so is of what is
\* not pending: file_writer.c:531 says that it is whole (CopiedWhole). That the batch of
\* what is converted is said to have been written is in BatchReported.
Kept(s) ==
  /\ WriterClose(s.w) = s.bytes /\ WriterGetPosition(s.w) = s.at
  /\ WriterGetSize(s.w)[1] = Len(s.bytes) /\ WriterIsOpen(s.w)
  /\ LET copy == WriterCopy(Flush(s.w), WriterOpen(<<>>, "BINARY"))
     IN  WriterClose(copy[3]) = s.bytes /\ WriterClose(copy[2]) = s.bytes
  /\ \A encoding \in {"UTF16", "UTF32", "UTF8"} :
       LET r == SetEncoding(s.w, encoding)
       IN  /\ r[1] = (encoding # "UTF8") /\ WriterGetEncoding(r[2]) = IF r[1] THEN encoding ELSE s.w.encoding
           /\ \A text \in Texts : Write(text, r[2])[1] = Len(text)
           /\ encoding # "UTF32" \/ s.w.mode = "BINARY" => WriteBatch(r[2], <<<<98>>, <<99>>>>)[1]
\* file_writer.c:531, :830-831 and :1009
CopiedWhole(text) == WriterClose(WriterCopy(Write(text, WriterOpen(<<>>, "TEXT"))[2], WriterOpen(<<>>, "TEXT"))[3]) = text
LockHeld == WriterCopy(Lock(WriterOpen(Old, "APPEND"))[2], WriterOpen(<<>>, "TEXT"))[2].locked
BatchReported(buffers) == WriteBatch(SetEncoding(WriterOpen(<<>>, "TEXT"), "UTF32")[2], buffers)[1]

RECURSIVE Pieces(_, _), PiecesPast(_, _)
Pieces(r, n) == IF Eof(r) THEN <<>> ELSE PiecesPast(ReaderRead(1, n, r), n)
PiecesPast(got, n) == got[2] \o Pieces(got[3], n)
RECURSIVE FilesLines(_, _), FilesPast(_, _)
FilesLines(r, size) == FilesPast(ReadLine(size, r), size)
FilesPast(got, size) == IF got[1] = NONE THEN <<>> ELSE <<got[1]>> \o FilesLines(got[2], size)

\* However a file is read, all of it is read, once and in order.
ReadBack(s) ==
  LET bytes == s.bytes
      r == ReaderOpen(bytes, "BINARY")
      ended == bytes # <<>> /\ Ext!Last(bytes) = 10
      lines == Len(SelectSeq(bytes, LAMBDA c : c = 10)) + (IF bytes = <<>> \/ ended THEN 0 ELSE 1)
  IN  \A whole \in {FilesLines(r, 1024)} :
      /\ \A n \in 1..3 : Pieces(r, n) = bytes
      /\ \A n \in 0..Len(bytes) + 1 :
           LET at == ReaderSeek(r, n, "BEGIN")
               all == ReadAll(at[2])
           IN  /\ at[1] /\ ReaderGetPosition(at[2]) = n /\ ReaderRead(1, n, r)[2] \o all[1] = bytes
               /\ ReadAll(all[2])[1] = <<>>
               /\ ReaderGetSize(at[2])[1] = Len(bytes) /\ ReaderGetSize(at[2])[2] = at[2]
               /\ WriterClose(ReaderCopy(at[2], WriterOpen(bytes, "TEXT"))[3]) = all[1]
      /\ ~ReaderSeek(r, -1, "BEGIN")[1] /\ ReaderIsOpen(r)
      /\ Len(whole) = lines
      /\ \A n \in 0..lines + 1 : \A got \in {ReadLines(r, n)} :
                                       got[1] = (n <= lines) /\ got[2] = First(whole, n) /\ (~got[1] => Eof(got[3]))
      /\ \A i \in DOMAIN whole : \A c \in {0, 10, 13} : ~Ext!Contains(whole[i], c)
      /\ whole # <<>> => ReadFmt(r)[2] = ReadLine(1024, r)[2] /\ Ext!IsPrefix(whole[1], ReadFmt(r)[1])
      /\ (\A i \in DOMAIN bytes : bytes[i] \notin {0, 13}) => Ext!FlattenSeq(FilesLines(r, 2)) = SelectSeq(bytes, LAMBDA c : c # 10)

\* Nothing but the text comes back from a file in UTF-16; that all of it does, and what
\* becomes of a short one in file_reader_copy, is in UnicodeRead and ShortTextCopied.
Unicode(s) ==
  LET text == SelectSeq(s.bytes, LAMBDA c : c > 0)
      file == WriterClose(Write(text, WriterOpen(<<>>, "UNICODE"))[2])
  IN  /\ Len(file) = 2 * Len(text)
      /\ Len(text) > 1 => \A got \in {ReaderRead(1, 64, ReaderOpen(file, "UNICODE"))} : got[1] = Len(got[2]) /\ Ext!IsPrefix(got[2], text)
      /\ \A mode \in {"TEXT", "BINARY", "BUFFERED", "UNBUFFERED"} :
           \A plain \in {ReaderRead(2, 2, ReaderOpen(s.bytes, mode))} :
             plain[1] = Least(Len(s.bytes), 4) \div 2 /\ ReaderGetPosition(plain[3]) = Least(Len(s.bytes), 4)
\* file_reader.c:334 and :560
UnicodeRead(text) == ReaderRead(1, 64, ReaderOpen(WriterClose(Write(text, WriterOpen(<<>>, "UNICODE"))[2]), "UNICODE"))[2] = text
ShortTextCopied(text) == WriterClose(ReaderCopy(ReaderOpen(text, "TEXT"), WriterOpen(<<>>, "TEXT"))[3]) = text

------------------------------------------------------------------------------
(***************************************************************************)
(* csv/csv.c: rows of cells read from a text and written back, in the      *)
(* plain format, where a quote is a character of its cell, and in that of  *)
(* RFC 4180. A file is [rows, delimiter], a row a sequence of cells, a     *)
(* cell a sequence of character codes; NONE is NULL, which                 *)
(* csv_file_insert_column puts in the rows its column is too short for. A  *)
(* line is read through a buffer of BUFFER characters.                     *)
(***************************************************************************)

CONSTANT BUFFER

QUOTE == 34
LF == 10
CR == 13
Nth(seq, index) == IF index < Len(seq) THEN seq[index + 1] ELSE NONE
OrEmpty(cell) == IF cell = NONE THEN <<>> ELSE cell

FileCreate(delimiter) == [rows |-> <<>>, delimiter |-> delimiter]
RowAppendCell(row, value) == IF value = NONE THEN row ELSE Append(row, value)
RowGetCell(row, index) == Nth(row, index)
RowSetCell(row, index, value) == IF index < Len(row) THEN [row EXCEPT ![index + 1] = value] ELSE row
FileAppendRow(file, row) == [file EXCEPT !.rows = Append(@, row)]
FileGetRow(file, index) == Nth(file.rows, index)
FileGetHeader(file) == FileGetRow(file, 0)
FileSetHeader(file, header) == [file EXCEPT !.rows = IF @ = <<>> THEN <<header>> ELSE [@ EXCEPT ![1] = header]]
FileRemoveRow(file, index) == IF index < Len(file.rows) THEN [file EXCEPT !.rows = Ext!RemoveAt(@, index + 1)] ELSE file

\* -------------------------------------------------------------- the texts --
\* the parts of a text between the positions in cuts
Between(text, cuts) ==
  LET ends == SelectSeq([i \in 1..Len(text) + 2 |-> i - 1], LAMBDA i : i \in cuts \union {0, Len(text) + 1})
  IN  [i \in 1..Len(ends) - 1 |-> SubSeq(text, ends[i] + 1, ends[i + 1] - 1)]
QuotesBefore(text, i) == Len(SelectSeq(SubSeq(text, 1, i), LAMBDA c : c = QUOTE))
ParseCsvLine(line, delimiter) ==
  Between(line, {i \in DOMAIN line : line[i] = delimiter /\ QuotesBefore(line, i) % 2 = 0})
CsvLines(text) == Between(text, {i \in DOMAIN text : text[i] = LF})

FileLoadFromString(file, data) ==
  LET lines == SelectSeq(CsvLines(data), LAMBDA line : line # <<>>)
      Bare(line) == IF Ext!Last(line) = CR THEN Ext!Front(line) ELSE line
  IN  [file EXCEPT !.rows = @ \o [i \in DOMAIN lines |-> ParseCsvLine(Bare(lines[i]), file.delimiter)]]

\* fgets: at most BUFFER - 1 characters, and none after a line feed
RECURSIVE Chunks(_)
Chunks(text) ==
  IF text = <<>> THEN <<>>
  ELSE LET feeds == {i \in DOMAIN text : text[i] = LF}
           upto == CHOOSE n \in {Len(text), BUFFER - 1} \union feeds : \A m \in {Len(text), BUFFER - 1} \union feeds : n <= m
       IN  <<SubSeq(text, 1, upto)>> \o Chunks(SubSeq(text, upto + 1, Len(text)))
UptoNewline(line) == SubSeq(line, 1, J!RunEnd(line, 1, (1..255) \ {LF, CR}) - 1)
RowReadNext(chunk, delimiter) == ParseCsvLine(UptoNewline(chunk), delimiter)
FileRead(file, text) ==
  [file EXCEPT !.rows = @ \o [i \in DOMAIN Chunks(text) |-> RowReadNext(Chunks(text)[i], file.delimiter)]]

RECURSIVE Joined(_, _)
Joined(parts, between) ==
  CASE parts = <<>> -> <<>>
    [] Len(parts) = 1 -> parts[1]
    [] OTHER -> parts[1] \o between \o Joined(Tail(parts), between)
CsvWritten(file, Field(_)) ==
  Ext!FlattenSeq([i \in DOMAIN file.rows |->
    Joined([j \in DOMAIN file.rows[i] |-> Field(OrEmpty(file.rows[i][j]))], <<file.delimiter>>) \o <<LF>>])
FileExportToString(file) == CsvWritten(file, LAMBDA cell : cell)
FileWrite(file) == FileExportToString(file)
FilePrint(file) == FileExportToString(file)

FieldNeedsQuote(cell, delimiter) == \E i \in DOMAIN cell : cell[i] \in {delimiter, QUOTE, LF, CR}
\* Mutant: a quote inside is written once.
QuotedUndoubled(cell, delimiter) ==
  IF FieldNeedsQuote(cell, delimiter) THEN <<QUOTE>> \o cell \o <<QUOTE>> ELSE cell
\* a cell as RFC 4180 writes it, its quotes doubled
AppendQuotedField(cell, delimiter) ==
  IF ~FieldNeedsQuote(cell, delimiter) THEN cell
  ELSE <<QUOTE>> \o Ext!FlattenSeq([i \in DOMAIN cell |-> IF cell[i] = QUOTE THEN <<QUOTE, QUOTE>> ELSE <<cell[i]>>]) \o <<QUOTE>>
FileExportToStringRfc4180(file) == CsvWritten(file, LAMBDA cell : AppendQuotedField(cell, file.delimiter))
FileWriteRfc4180(file) == FileExportToStringRfc4180(file)

\* the loop of csv_file_load_from_string_rfc4180: the rows so far, the row and
\* the field being read, whether inside quotes, and chars_in_record
RECURSIVE Records(_, _, _, _)
Records(data, delimiter, p, s) ==
  LET c == J!At(data, p)
      next == J!At(data, p + 1)
      Pushed == [s EXCEPT !.field = Append(@, c), !.chars = @ + 1]
      Ended == IF s.chars = 0 THEN s
               ELSE [s EXCEPT !.rows = Append(@, Append(s.row, s.field)), !.row = <<>>]
  IN  CASE p > Len(data) -> Ended.rows
        [] p \in DOMAIN data /\ s.quoted /\ c = QUOTE /\ next = QUOTE ->
             Records(data, delimiter, p + 2, [Pushed EXCEPT !.chars = @ + 1])
        [] p \in DOMAIN data /\ c = QUOTE /\ ~(s.quoted /\ next = QUOTE) ->
             Records(data, delimiter, p + 1, [s EXCEPT !.quoted = ~@, !.chars = @ + 1])
        [] p \in DOMAIN data /\ c # QUOTE /\ (s.quoted \/ c \notin {delimiter, LF, CR}) ->
             Records(data, delimiter, p + 1, Pushed)
        [] p \in DOMAIN data /\ ~s.quoted /\ c = delimiter ->
             Records(data, delimiter, p + 1, [s EXCEPT !.row = Append(@, s.field), !.field = <<>>, !.chars = @ + 1])
        [] p \in DOMAIN data /\ ~s.quoted /\ c \in {LF, CR} ->
             Records(data, delimiter, p + (IF c = CR /\ next = LF THEN 2 ELSE 1), [Ended EXCEPT !.field = <<>>, !.chars = 0])
FileLoadFromStringRfc4180(file, data) ==
  [file EXCEPT !.rows = @ \o Records(data, file.delimiter, 1, [rows |-> <<>>, row |-> <<>>, field |-> <<>>, quoted |-> FALSE, chars |-> 0])]
FileReadRfc4180(file, text) == FileLoadFromStringRfc4180(file, text)

\* [\n {\n "field0":"cell" ... }\n ]\n
ExportToJson(file) ==
  LET FIELD == <<32, 32, 32, 32, 34, 102, 105, 101, 108, 100>>
      Cell(row, j) == FIELD \o J!DigitsOf(j - 1) \o <<34, 58, 34>> \o row[j] \o <<34>> \o (IF j < Len(row) THEN <<44, LF>> ELSE <<LF>>)
      Row(i) == <<123, LF>> \o Ext!FlattenSeq([j \in DOMAIN file.rows[i] |-> Cell(file.rows[i], j)])
                \o (IF i < Len(file.rows) THEN <<125, 44, LF>> ELSE <<125, LF>>)
  IN  <<91, LF>> \o Ext!FlattenSeq([i \in DOMAIN file.rows |-> Row(i)]) \o <<93, LF>>

\* ------------------------------------------------------------ the columns --
Atoi(cell) ==
  LET start == J!RunEnd(cell, 1, J!Spaces)
      digits == IF J!At(cell, start) \in {43, 45} THEN start + 1 ELSE start
      n == J!Natural(SubSeq(cell, digits, J!RunEnd(cell, digits, J!Digits) - 1))
  IN  IF J!At(cell, start) = 45 THEN -n ELSE n
RowGetCellAsInt(row, index) == IF index < Len(row) THEN Atoi(row[index + 1]) ELSE 0
ColumnSum(file, columnIndex) ==
  Ext!FoldLeft(LAMBDA sum, row : sum + RowGetCellAsInt(row, columnIndex), 0, file.rows)

FileFindColumnIndex(file, columnName) ==
  IF file.rows = <<>> THEN -1 ELSE Ext!SelectInSeq(file.rows[1], LAMBDA cell : cell = columnName) - 1
RowGetCellByName(file, row, columnName) ==
  IF FileFindColumnIndex(file, columnName) < 0 THEN NONE ELSE RowGetCell(row, FileFindColumnIndex(file, columnName))
FileGetColumn(file, columnIndex, skipHeader) ==
  LET rows == IF skipHeader /\ file.rows # <<>> THEN Tail(file.rows) ELSE file.rows
  IN  [i \in DOMAIN rows |-> Nth(rows[i], columnIndex)]
\* every row has at least colIndex cells: the code looks at the length of the
\* new column instead
FileInsertColumn(file, colIndex, colData) ==
  IF colIndex > Len(colData) THEN file
  ELSE [file EXCEPT !.rows = [i \in DOMAIN @ |-> Ext!InsertAt(@[i], colIndex + 1, Nth(colData, i - 1))]]
FileRemoveColumn(file, columnIndex) ==
  [file EXCEPT !.rows = [i \in DOMAIN @ |-> IF columnIndex < Len(@[i]) THEN Ext!RemoveAt(@[i], columnIndex + 1) ELSE @[i]]]

\* --------------------------------------------------------------- the rows --
FileFindRows(file, searchTerm) ==
  SelectSeq(file.rows, LAMBDA row : \E j \in DOMAIN row : J!T!Contains(row[j], searchTerm))
RowCopy(row) == [j \in DOMAIN row |-> OrEmpty(row[j])]
FileConcatenate(file1, file2) ==
  LET Copy(row) == SelectSeq(row, LAMBDA cell : cell # NONE)
  IN  [file1 EXCEPT !.rows = @ \o [i \in DOMAIN file2.rows |-> Copy(file2.rows[i])]]
Key(row, columnIndex) == OrEmpty(Nth(row, columnIndex))
Headed(file, keepHeader, Rest(_)) ==
  IF keepHeader /\ file.rows # <<>> THEN <<RowCopy(file.rows[1])>> \o Rest(Tail(file.rows)) ELSE Rest(file.rows)
FileFilter(file, predicate(_), keepHeader) ==
  [file EXCEPT !.rows = Headed(file, keepHeader, LAMBDA rows :
     LET kept == SelectSeq(rows, predicate) IN [i \in DOMAIN kept |-> RowCopy(kept[i])])]
FileUniqueByColumn(file, columnIndex, keepHeader) ==
  [file EXCEPT !.rows = Headed(file, keepHeader, LAMBDA rows :
     Ext!FoldLeft(LAMBDA out, row : IF \E k \in DOMAIN out : Key(out[k], columnIndex) = Key(row, columnIndex)
                                  THEN out ELSE Append(out, RowCopy(row)), <<>>, rows))]

SortCmp(a, b, columnIndex, ascending) == (IF ascending THEN 1 ELSE -1) * J!T!StrCmp(Key(a, columnIndex), Key(b, columnIndex))
\* what qsort can leave: rows of equal keys come in any order
FileSort(file, columnIndex, ascending, skipHeader) ==
  LET start == IF skipHeader /\ file.rows # <<>> THEN 1 ELSE 0
      n == Len(file.rows)
      orders == {order \in [1..n -> 1..n] : /\ \A i, j \in 1..n : i # j => order[i] # order[j]
                                            /\ \A i \in 1..start : order[i] = i
                                            /\ \A i \in start + 1..n - 1 :
                                                 SortCmp(file.rows[order[i]], file.rows[order[i + 1]], columnIndex, ascending) <= 0}
  IN  IF n - start < 2 THEN {file} ELSE {[file EXCEPT !.rows = [i \in 1..n |-> file.rows[order[i]]]] : order \in orders}

\* A format is a sequence of its directives: [text], [percent], or a conversion
\* [conversion, width, precision] (precision -1 for none)
Padded(cell, d) ==
  LET shown == IF d.precision \in 0..Len(cell) THEN SubSeq(cell, 1, d.precision) ELSE cell
  IN  [i \in 1..(IF d.width > Len(shown) THEN d.width - Len(shown) ELSE 0) |-> 32] \o shown
ValidateCellFormat(row, index, format) ==
  LET conversions == SelectSeq(format, LAMBDA d : "conversion" \in DOMAIN d)
      Shown(d) == CASE "text" \in DOMAIN d -> d.text [] "percent" \in DOMAIN d -> <<37>> [] OTHER -> Padded(row[index + 1], d)
  IN  /\ index < Len(row) /\ Len(conversions) = 1 /\ conversions[1].conversion = "s"
      /\ row[index + 1] = Ext!FlattenSeq([i \in DOMAIN format |-> Shown(format[i])])

------------------------------------------------------------------------------
(***************************************************************************)
(* What csv.c promises: a file written in a format is read back from it,   *)
(* and the columns and rows a call does not name stay as they are.         *)
(***************************************************************************)

COMMA == 44
ONE == <<49>>
MINUS == <<45, 50, 120>>
MIXED == <<97, 44, 34, 10>>
Cells == {<<>>, ONE, MINUS, MIXED}
Rows == {<<ONE, MIXED>>, <<MINUS>>, <<<<>>>>, <<>>}
TableOther == [rows |-> <<<<MIXED, ONE>>, <<ONE>>>>, delimiter |-> COMMA]
TableWide(file, n) == \A i \in DOMAIN file.rows : Len(file.rows[i]) >= n
NotOne(row) == \A j \in DOMAIN row : row[j] # ONE

TableCalls(file) ==
  {FileAppendRow(file, row) : row \in Rows}
  \union {FileSetHeader(file, row) : row \in Rows}
  \union {FileRemoveRow(file, i) : i \in 0..1}
  \union {FileInsertColumn(file, k, <<ONE>>) : k \in {k \in 0..1 : TableWide(file, k)}}
  \union {FileRemoveColumn(file, 0), FileConcatenate(file, TableOther), FileUniqueByColumn(file, 0, TRUE), FileFilter(file, NotOne, FALSE)}
  \union (IF Len(file.rows) < 5 THEN FileSort(file, 0, TRUE, TRUE) ELSE {})
  \union {[file EXCEPT !.rows[1] = RowSetCell(@, 0, cell)] : cell \in IF file.rows = <<>> THEN {} ELSE Cells}

Cleaned(rows) == [i \in DOMAIN rows |-> RowCopy(rows[i])]
Present(rows) == SelectSeq(Cleaned(rows), LAMBDA row : row \notin {<<>>, <<<<>>>>})
TableFresh == FileCreate(COMMA)
Same(s, t) == \A x \in Ext!ToSet(s) \union Ext!ToSet(t) : Len(SelectSeq(s, LAMBDA y : y = x)) = Len(SelectSeq(t, LAMBDA y : y = x))
AllQuoted(rows) ==
  LET Field(cell) == <<34>> \o Ext!FlattenSeq([i \in DOMAIN cell |-> IF cell[i] = 34 THEN <<34, 34>> ELSE <<cell[i]>>]) \o <<34>>
      Line(row) == Ext!FlattenSeq([j \in DOMAIN row |-> IF j = 1 THEN Field(row[j]) ELSE <<COMMA>> \o Field(row[j])])
  IN  Ext!FlattenSeq([i \in DOMAIN rows |-> Line(rows[i]) \o <<13, 10>>])
Occurs(chars, file) == \E i \in DOMAIN file.rows : \E j \in DOMAIN file.rows[i] : \E k \in DOMAIN file.rows[i][j] : file.rows[i][j][k] \in chars

\* A file is read back from what it is written as, but for its blank rows: the two
\* ways to read the plain format differ in those (StringReadAsFile).
TableWritten(file) ==
  /\ Present(FileReadRfc4180(TableFresh, FileWriteRfc4180(file)).rows) = Present(file.rows)
  /\ FileLoadFromStringRfc4180(TableFresh, AllQuoted(Cleaned(file.rows))).rows = SelectSeq(Cleaned(file.rows), LAMBDA row : row # <<>>)
  /\ ~Occurs({COMMA, 34, 10}, file) =>
       /\ Present(FileLoadFromString(TableFresh, FileExportToString(file)).rows) = Present(file.rows)
       /\ (\A i \in DOMAIN file.rows : Len(Joined(file.rows[i], <<COMMA>>)) < 5) =>
            Present(FileRead(TableFresh, FileWrite(file)).rows) = Present(file.rows)
       /\ LET json == J!Parse(ExportToJson([file EXCEPT !.rows = Cleaned(@)]))
              Name(j) == <<102, 105, 101, 108, 100>> \o J!DigitsOf(j - 1)
          IN  json = [array |-> [i \in DOMAIN file.rows |-> [object |->
                        [name \in {Name(j) : j \in DOMAIN file.rows[i]} |->
                           J!String(RowCopy(file.rows[i])[CHOOSE j \in DOMAIN file.rows[i] : Name(j) = name])]]]]

\* csv.c:983, and csv.c:484 of one row and a column of one cell
StringReadAsFile(text) == FileLoadFromString(TableFresh, text) = FileRead(TableFresh, text)
ColumnInserted(row, index) == FileInsertColumn([TableFresh EXCEPT !.rows = <<row>>], index, <<ONE>>).rows = <<Ext!InsertAt(row, index + 1, ONE)>>

\* A column that was inserted is found and removed, and names find columns.
Columned(file) ==
  /\ \A k \in 0..2 : TableWide(file, k) =>
       LET wider == FileInsertColumn(file, k, <<ONE, MINUS>>)
       IN  /\ FileRemoveColumn(wider, k) = file
           /\ FileGetColumn(wider, k, FALSE) = [i \in DOMAIN file.rows |-> Nth(<<ONE, MINUS>>, i - 1)]
           /\ ColumnSum(wider, k) = <<0, 1, -1>>[IF Len(file.rows) > 2 THEN 3 ELSE Len(file.rows) + 1]
  /\ file.rows # <<>> =>
       LET header == FileGetHeader(file)
       IN  \A k \in DOMAIN header : header[k] # NONE /\ (\A j \in 1..k - 1 : header[j] # header[k]) =>
             \A i \in DOMAIN file.rows : RowGetCellByName(file, file.rows[i], header[k]) = RowGetCell(file.rows[i], k - 1)
  /\ \A k \in 0..1 : ColumnSum(FileConcatenate(file, TableOther), k) = ColumnSum(file, k) + ColumnSum(TableOther, k)

\* Filters, searches and sorts keep the rows they should and no others.
Rearranged(file) ==
  /\ \A keep \in BOOLEAN :
       LET once == FileUniqueByColumn(file, 0, keep)
           kept == FileFilter(file, NotOne, keep)
           dropped == FileFilter(file, LAMBDA row : ~NotOne(row), FALSE)
           keys == {Key(row, 0) : row \in Ext!ToSet(IF keep /\ file.rows # <<>> THEN Tail(file.rows) ELSE file.rows)}
           from == IF keep /\ file.rows # <<>> THEN 2 ELSE 1
       IN  /\ FileUniqueByColumn(once, 0, keep) = once
           /\ {Key(once.rows[i], 0) : i \in from..Len(once.rows)} = keys /\ Len(once.rows) = Cardinality(keys) + from - 1
           /\ \A i \in from..Len(once.rows) : once.rows[i] = Cleaned(file.rows)[CHOOSE j \in from..Len(file.rows) :
                 Key(file.rows[j], 0) = Key(once.rows[i], 0) /\ \A m \in from..j - 1 : Key(file.rows[m], 0) # Key(once.rows[i], 0)]
           /\ ~keep => Same(kept.rows \o dropped.rows, Cleaned(file.rows))
  /\ Same(FileFindRows(file, ONE), SelectSeq(file.rows, LAMBDA row : \E j \in DOMAIN row : 49 \in Ext!ToSet(row[j])))
  /\ Len(file.rows) < 5 => \A ascending, skip \in BOOLEAN :
       LET orders == FileSort(file, 0, ascending, skip)
           from == IF skip THEN 2 ELSE 1
           Sorted(rows) == \A i, j \in from..Len(rows) : i < j =>
             (IF ascending THEN 1 ELSE -1) * J!T!StrCmp(Key(rows[i], 0), Key(rows[j], 0)) <= 0
       IN  orders # {} /\ \A sorted \in orders : /\ Same(sorted.rows, file.rows) /\ Sorted(sorted.rows)
                                                 /\ skip /\ file.rows # <<>> => sorted.rows[1] = file.rows[1]

\* %s shows any cell, %5s the longer ones, %.2s the shorter
Validated(file) ==
  LET d(width, precision) == [conversion |-> "s", width |-> width, precision |-> precision]
  IN  \A i \in DOMAIN file.rows : \A k \in DOMAIN file.rows[i] : file.rows[i][k] # NONE =>
        LET row == file.rows[i]
        IN  /\ ValidateCellFormat(row, k - 1, <<d(0, -1)>>) /\ ~ValidateCellFormat(row, k - 1, <<d(0, -1), [percent |-> 0]>>)
            /\ ValidateCellFormat(row, k - 1, <<d(2, -1)>>) = (Len(row[k]) >= 2)
            /\ ValidateCellFormat(row, k - 1, <<d(0, 2)>>) = (Len(row[k]) <= 2)
            /\ ~ValidateCellFormat(row, k - 1, <<[conversion |-> "d", width |-> 0, precision |-> -1]>>)

\* A text is read as records whose text is read as the same records, in plain
\* format too where there are no quotes
TableRead(text) ==
  LET file == FileLoadFromStringRfc4180(TableFresh, text)
  IN  /\ Present(FileLoadFromStringRfc4180(TableFresh, FileExportToStringRfc4180(file)).rows) = Present(file.rows)
      /\ Ext!ToSet(text) \intersect {QUOTE, CR} = {} =>
           /\ file = FileLoadFromString(TableFresh, text)
           /\ Len(text) < BUFFER => Present(FileRead(TableFresh, text).rows) = Present(file.rows)
      /\ Same(SelectSeq(text, LAMBDA c : c = 97), SelectSeq(Ext!FlattenSeq(Ext!FlattenSeq(file.rows)), LAMBDA c : c = 97))

------------------------------------------------------------------------------
(***************************************************************************)
(* config/config.c: the sections of an INI file and their entries. A       *)
(* config is [sections, callback]; a section is [name, entries, comment];  *)
(* an entry is [key, value] or the [line] of a comment. Texts are          *)
(* sequences of character codes, lines shorter than the buffers they are   *)
(* written through. NONE is NULL, which is what the value of an entry read *)
(* from a file is when nothing follows its sign. A file is read through a  *)
(* buffer of BUFFER characters.                                            *)
(***************************************************************************)

EQUALS == 61
ConfigBare(text) == J!T!Trimmed(text, J!T!Spaces, TRUE, TRUE)
At(text) == J!At(text, 1)

CreateEmpty == [sections |-> <<>>, callback |-> FALSE]
RegisterModificationCallback(config) == [config EXCEPT !.callback = TRUE]
Clear(config) == [config EXCEPT !.sections = <<>>]
NewSection(name) == [name |-> name, entries |-> <<>>, comment |-> NONE]

\* ------------------------------------------------------- what is looked up --
Named(config, section) == Ext!SelectInSeq(config.sections, LAMBDA s : s.name = section)
Keyed(section, key) == Ext!SelectInSeq(section.entries, LAMBDA e : "key" \in DOMAIN e /\ e.key = key)
HasSection(config, section) == Named(config, section) # 0
HasKey(config, section, key) ==
  HasSection(config, section) /\ Keyed(config.sections[Named(config, section)], key) # 0
GetValue(config, section, key) ==
  IF ~HasKey(config, section, key) THEN NONE
  ELSE LET s == config.sections[Named(config, section)] IN s.entries[Keyed(s, key)].value

\* strtol and strtod must take the whole value
GetInt(config, section, key, default) ==
  LET value == GetValue(config, section, key)
      start == J!RunEnd(value, 1, J!Spaces)
      digits == IF J!At(value, start) \in {43, 45} THEN start + 1 ELSE start
      end == J!RunEnd(value, digits, J!Digits)
  IN  IF value = NONE \/ end = digits \/ end # Len(value) + 1 THEN default ELSE Atoi(value)
\* of the numbers without an exponent
GetDouble(config, section, key, default) ==
  LET value == GetValue(config, section, key)
      start == IF At(value) = 45 THEN 2 ELSE 1
      whole == J!RunEnd(value, start, J!Digits)
      end == IF J!At(value, whole) = 46 THEN J!RunEnd(value, whole + 1, J!Digits) ELSE whole
  IN  IF value = NONE \/ J!Strtod(value) = <<>> \/ end # Len(value) + 1 THEN default ELSE J!Strtod(value)
TRUES == {<<116, 114, 117, 101>>, <<121, 101, 115>>, <<49>>}
FALSES == {<<102, 97, 108, 115, 101>>, <<110, 111>>, <<48>>}
GetBool(config, section, key, default) ==
  LET value == GetValue(config, section, key)
      lower == IF value = NONE THEN NONE ELSE J!T!ToLower(value)
  IN  IF lower \in TRUES THEN TRUE ELSE IF lower \in FALSES THEN FALSE ELSE default
GetArray(config, section, key) ==
  LET value == GetValue(config, section, key)
      tokens == J!T!Tokenize(value, <<44>>)
  IN  IF value = NONE THEN NONE ELSE [i \in DOMAIN tokens |-> ConfigBare(tokens[i])]

SectionCount(config) == Len(config.sections)
ListKeys(config, section) ==
  IF ~HasSection(config, section) THEN <<>>
  ELSE LET entries == SelectSeq(config.sections[Named(config, section)].entries, LAMBDA e : "key" \in DOMAIN e)
       IN  [i \in DOMAIN entries |-> entries[i].key]
KeyCount(config, section) == Len(ListKeys(config, section))
ListSections(config) == [i \in DOMAIN config.sections |-> config.sections[i].name]
ValidateStructure(config, names) == \A name \in names : HasSection(config, name)

GetIterator == [section |-> 1, entry |-> 1]
RECURSIVE NextEntry(_, _)
NextEntry(config, at) ==
  IF at.section > SectionCount(config) THEN [found |-> <<>>, at |-> at]
  ELSE LET section == config.sections[at.section]
           after == [at EXCEPT !.entry = @ + 1]
       IN  IF at.entry > Len(section.entries) THEN NextEntry(config, [section |-> at.section + 1, entry |-> 1])
           ELSE IF "line" \in DOMAIN section.entries[at.entry] THEN NextEntry(config, after)
           ELSE [found |-> <<section.name, section.entries[at.entry].key, section.entries[at.entry].value>>, at |-> after]

\* ---------------------------------------------------------------- changes --
\* The config after, and what the callback was told
SetValue(config, section, key, value) ==
  LET whole == IF HasSection(config, section) THEN config ELSE [config EXCEPT !.sections = Append(@, NewSection(section))]
      i == Named(whole, section)
      j == Keyed(whole.sections[i], key)
  IN  [config |-> [whole EXCEPT !.sections[i].entries = IF j # 0 THEN [@ EXCEPT ![j].value = value]
                                                        ELSE Append(@, [key |-> key, value |-> value])],
       told |-> IF config.callback THEN <<section, key, value>> ELSE <<>>]
IntText(n) == IF n < 0 THEN <<45>> \o J!DigitsOf(-n) ELSE J!DigitsOf(n)
SetInt(config, section, key, n) == SetValue(config, section, key, IntText(n))
SetBool(config, section, key, b) == SetValue(config, section, key, IF b THEN <<116, 114, 117, 101>> ELSE <<102, 97, 108, 115, 101>>)
SetArray(config, section, key, array) ==
  IF array = <<>> THEN [config |-> config, told |-> <<>>] ELSE SetValue(config, section, key, Joined(array, <<44>>))
SetComment(config, section, comment) ==
  IF HasSection(config, section) THEN [config EXCEPT !.sections[Named(config, section)].comment = comment] ELSE config
RemoveSection(config, section) ==
  IF HasSection(config, section) THEN [config EXCEPT !.sections = Ext!RemoveAt(@, Named(config, section))] ELSE config
RemoveKey(config, section, key) ==
  IF ~HasKey(config, section, key) THEN config
  ELSE LET i == Named(config, section)
       IN  [config EXCEPT !.sections[i].entries = Ext!RemoveAt(@, Keyed(config.sections[i], key))]
Valued(e) == "key" \in DOMAIN e /\ e.value # NONE
\* every entry with a value, in the order of the file
Merge(dest, src) ==
  LET FromSection(config, section) ==
        Ext!FoldLeft(LAMBDA c, e : IF Valued(e) THEN SetValue(c, section.name, e.key, e.value).config ELSE c, config, section.entries)
  IN  Ext!FoldLeft(FromSection, dest, src.sections)

\* What is stored ends where a character of the value is that of the key.
RECURSIVE Xor(_, _)
Xor(a, b) == IF a = 0 /\ b = 0 THEN 0 ELSE 2 * Xor(a \div 2, b \div 2) + ((a + b) % 2)
XorEncryptDecrypt(text, key) == [i \in DOMAIN text |-> Xor(text[i], key)]
SetEncryptedValue(config, section, key, value, k) ==
  SetValue(config, section, key, J!Upto0(XorEncryptDecrypt(value, k)))
GetEncryptedValue(config, section, key, k) ==
  LET value == GetValue(config, section, key)
  IN  IF value = NONE THEN NONE ELSE J!Upto0(XorEncryptDecrypt(value, k))

\* -------------------------------------------------------------- the texts --
EntryText(e) ==
  CASE Valued(e) -> e.key \o <<EQUALS>> \o e.value \o <<10>>
    [] "line" \in DOMAIN e -> e.line \o <<10>>
    [] OTHER -> <<>>
ToString(config) ==
  LET SectionText(s) == <<91>> \o s.name \o <<93, 10>> \o Ext!FlattenSeq([j \in DOMAIN s.entries |-> EntryText(s.entries[j])]) \o <<10>>
  IN  Ext!FlattenSeq([i \in DOMAIN config.sections |-> SectionText(config.sections[i])])
Save(config) == ToString(config)

\* What a line adds, to a section named before on the text: an entry to the
\* last section, a section, or nothing
WithEntry(config, entry) == [config EXCEPT !.sections[Len(config.sections)].entries = Append(@, entry)]
ConfigLine(config, first, line, Entry(_, _)) ==
  LET current == Len(config.sections) > first
  IN  CASE At(line) \in {35, 59} -> IF current THEN WithEntry(config, [line |-> line]) ELSE config
        [] At(line) = 91 -> IF Len(line) >= 2 /\ Ext!Last(line) = 93
                            THEN [config EXCEPT !.sections = Append(@, NewSection(SubSeq(line, 2, Len(line) - 1)))] ELSE config
        [] At(line) \notin {35, 59, 91} -> IF current /\ EQUALS \in Ext!ToSet(line) THEN Entry(config, line) ELSE config

\* strchr cuts the line at its first sign: an entry without a key is left out
StringEntry(config, line) ==
  LET eq == CHOOSE i \in DOMAIN line : line[i] = EQUALS /\ \A j \in 1..i - 1 : line[j] # EQUALS
      key == ConfigBare(SubSeq(line, 1, eq - 1))
  IN  IF key = <<>> THEN config ELSE WithEntry(config, [key |-> key, value |-> ConfigBare(SubSeq(line, eq + 1, Len(line)))])
LoadString(config, data) ==
  LET lines == CsvLines(data)
      Take(c, line) == ConfigLine(c, Len(config.sections), ConfigBare(line), StringEntry)
  IN  Ext!FoldLeft(Take, config, lines)

\* strtok skips the signs in front, and returns NULL where nothing is left
FileEntry(config, line) ==
  LET rest == J!T!Trimmed(line, {EQUALS}, TRUE, FALSE)
      eq == J!T!Least({i \in DOMAIN rest : rest[i] = EQUALS})
      End(i) == IF i = -1 THEN Len(rest) ELSE i - 1
  IN  IF rest = <<>> THEN config
      ELSE WithEntry(config, [key |-> ConfigBare(SubSeq(rest, 1, End(eq))),
                              value |-> IF eq \in {-1, Len(rest)} THEN NONE ELSE ConfigBare(SubSeq(rest, eq + 1, Len(rest)))])
Create(text) ==
  LET Take(config, chunk) == ConfigLine(config, 0, ConfigBare(UptoNewline(chunk)), FileEntry)
  IN  Ext!FoldLeft(Take, CreateEmpty, Chunks(text))
Reload(config, text) == Create(text)

------------------------------------------------------------------------------
(***************************************************************************)
(* What config.c promises: what was set is found, by every way of looking, *)
(* and is found again after the file was written and read.                 *)
(***************************************************************************)

A == <<97>>
B == <<98>>
Names == {A, B}
Values == {<<>>, <<45, 55>>, <<97, 44, 32, 98>>}
SettingsOther == [sections |-> <<[name |-> B, comment |-> A, entries |-> <<[line |-> <<35, 97>>], [key |-> A, value |-> <<49>>], [key |-> B, value |-> A]>>]>>, callback |-> TRUE]
Twice == LoadString(RegisterModificationCallback(CreateEmpty), ToString(SettingsOther) \o ToString(SettingsOther))

SettingsCalls(c) ==
  {SetValue(c, s, k, v).config : s, k \in Names, v \in Values}
  \union {RemoveSection(c, A), RemoveSection(c, B), Merge(c, SettingsOther), LoadString(c, ToString(SettingsOther)), Reload(c, Save(c)), SetComment(c, B, B), RegisterModificationCallback(c)}
  \union {RemoveKey(c, B, k) : k \in Names}

Pairs(c) == {<<s, k>> \in Names \X Names : HasKey(c, s, k)}
RECURSIVE Walk(_, _)
Walk(c, at) == LET n == NextEntry(c, at) IN IF n.found = <<>> THEN <<>> ELSE <<n.found>> \o Walk(c, n.at)
Set(c, s, k, v) ==
  LET set == SetValue(c, s, k, v)
  IN  /\ GetValue(set.config, s, k) = v
      /\ \A t, l \in Names : <<t, l>> # <<s, k>> => GetValue(set.config, t, l) = GetValue(c, t, l)
      /\ set.told = IF c.callback THEN <<s, k, v>> ELSE <<>>

\* What is set is found, and nothing else changes; an encrypted value too, as long as no
\* character of it is that of the key (EncryptedWhole).
Found(c) ==
  /\ \A s, k \in Names : \A v \in Values : Set(c, s, k, v)
  /\ \A s, k \in Names :
       /\ GetValue(RemoveKey(c, s, k), s, k) = NONE \/ Len(SelectSeq(ListKeys(c, s), LAMBDA l : l = k)) > 1
       /\ \A n \in {-13, 0, 5} : GetInt(SetInt(c, s, k, n).config, s, k, 99) = n
       /\ \A b \in BOOLEAN : GetBool(SetBool(c, s, k, b).config, s, k, ~b) = b
       /\ \A d \in {<<-15, -1>>, <<25, -2>>} : GetDouble(SetValue(c, s, k, J!NumberText(d)).config, s, k, NONE) = d
       /\ GetArray(SetArray(c, s, k, <<A, B, A>>).config, s, k) = <<A, B, A>>
       /\ \A v \in Values : GetEncryptedValue(SetEncryptedValue(c, s, k, v, 120).config, s, k, 120) = v
       /\ GetInt(SetValue(c, s, k, <<49, 120>>).config, s, k, 99) = 99

\* config.c:1103-1104 and :1147-1148
EncryptedWhole(value, k) == GetEncryptedValue(SetEncryptedValue(CreateEmpty, A, B, value, k).config, A, B, k) = value

\* The ways to look agree, where no section is there twice.
Listed(c) ==
  LET walked == Walk(c, GetIterator)
      sections == ListSections(c)
  IN  /\ Len(sections) = SectionCount(c)
      /\ \A s \in Names : HasSection(c, s) = (s \in Ext!ToSet(sections))
      /\ Pairs(c) = {<<s, k>> \in Names \X Names : k \in Ext!ToSet(ListKeys(c, s))}
      /\ \A p \in Pairs(c) : \E i \in DOMAIN walked : walked[i] = <<p[1], p[2], GetValue(c, p[1], p[2])>>
      /\ (\A i, j \in DOMAIN sections : i # j => sections[i] # sections[j]) =>
            Ext!FoldLeft(LAMBDA n, s : n + KeyCount(c, s), 0, sections) = Len(walked)
      /\ LET merged == Merge(c, SettingsOther)
         IN  /\ \A s, k \in Names : GetValue(merged, s, k) = IF HasKey(SettingsOther, s, k) THEN GetValue(SettingsOther, s, k) ELSE GetValue(c, s, k)
             /\ Merge(merged, SettingsOther) = merged /\ ValidateStructure(merged, {B})
      /\ /\ \A i, j \in DOMAIN sections : i # j => sections[i] # sections[j]
         /\ \A i \in DOMAIN sections : /\ c.sections[i].comment = NONE /\ c.sections[i].entries # <<>>
                                      /\ \A e \in Ext!ToSet(c.sections[i].entries) : Valued(e)
         => Merge(CreateEmpty, c).sections = c.sections

\* What is saved is read again, an empty value as none (SavedWhole) and the comment of
\* a section not at all; what has no value is not saved.
EmptyAsNone(c) ==
  LET Empty(e) == "key" \in DOMAIN e /\ e.value = <<>>
      None(entries) == [j \in DOMAIN entries |-> IF Empty(entries[j]) THEN [entries[j] EXCEPT !.value = NONE] ELSE entries[j]]
  IN  [c EXCEPT !.sections = [i \in DOMAIN @ |-> [@[i] EXCEPT !.entries = None(@)]]]
Plain(c) ==
  [i \in DOMAIN c.sections |-> [c.sections[i] EXCEPT !.comment = NONE, !.entries = SelectSeq(@, LAMBDA e : Valued(e) \/ "line" \in DOMAIN e)]]
Saved(c) ==
  LET file == Reload(c, Save(c))
      again == Reload(c, Save(file))
  IN  /\ Plain(LoadString(CreateEmpty, ToString(c))) = Plain(c)
      /\ Plain(file) = Plain(EmptyAsNone(c)) /\ Plain(again) = Plain(file)
      /\ \A s, k \in Names : /\ GetValue(c, s, k) = NONE => GetValue(file, s, k) = NONE /\ ~HasKey(again, s, k)
                             /\ GetValue(c, s, k) = <<>> => HasKey(file, s, k) /\ GetValue(file, s, k) = NONE
\* config.c:219-220 and config/README.md:265
SavedWhole(c) == Reload(c, Save(c)).sections = c.sections

\* A text says the same once it was written again, and, but for what SavedWhole and
\* FileReadAsString say of empty values and of lines that begin with the sign, the
\* same as a file and as a string.
SettingsRead(text) ==
  LET c == LoadString(CreateEmpty, text)
      file == Create(text)
  IN  /\ LoadString(CreateEmpty, ToString(c)) = c
      /\ ListSections(file) = ListSections(c)
      /\ (\A line \in Ext!ToSet(CsvLines(text)) : At(ConfigBare(line)) # EQUALS) => file = EmptyAsNone(c)
\* config.c:1583, of the texts in which no value is empty
FileReadAsString(text) ==
  LET c == LoadString(CreateEmpty, text) IN EmptyAsNone(c) = c => Create(text) = c
Tokens == {<<91>>, <<93, 10>>, A, <<61>>, <<10>>, <<35>>, <<32>>}

------------------------------------------------------------------------------
(***************************************************************************)
(* cli/cli.c: the options and commands a program registers, and what of    *)
(* them the parsing of its arguments calls. An option is [long, short,     *)
(* type], a command [name, aliases]; texts are sequences of character      *)
(* codes, NONE is NULL and 0 the short name of an option without one. A    *)
(* call returns what it says (ok), the parser, and what it called (calls). *)
(* code is that of cli_last_error, its message is left out. An int goes up *)
(* to INT_MAX and a long up to LONG_MAX.                                   *)
(***************************************************************************)
CONSTANTS INT_MAX, LONG_MAX

NOBODY == [none |-> 0]
Option(long, short, type) == [long |-> long, short |-> short, type |-> type, message |-> NONE]
Command(name, aliases) == [name |-> name, aliases |-> aliases]

ParserCreate ==
  [options |-> <<>>, commands |-> <<>>, groups |-> <<>>, strict |-> FALSE, onError |-> FALSE, default |-> FALSE,
   pre |-> FALSE, post |-> FALSE, code |-> "success"]
Done(parser) == [ok |-> TRUE, parser |-> [parser EXCEPT !.code = "success"]]
Failed(parser, code) == [ok |-> FALSE, parser |-> [parser EXCEPT !.code = code]]

EnableStrictMode(parser, enable) ==
  [parser EXCEPT !.strict = enable, !.code = IF enable THEN "success" ELSE "disable strict mode"]
SetErrorHandler(parser, set) == [parser EXCEPT !.onError = set, !.code = "success"]
SetDefaultCommandHandler(parser, set) == [parser EXCEPT !.default = set, !.code = "success"]
SetPreExecutionHook(parser, set) == [parser EXCEPT !.pre = set, !.code = "success"]
SetPostExecutionHook(parser, set) == [parser EXCEPT !.post = set, !.code = "success"]
GetLastError(parser) == parser.code

\* ------------------------------------------------------------- the options --
Answers(option, long, short) ==
  \/ long # NONE /\ option.long = long
  \/ short # 0 /\ option.short = short
IndexOf(parser, long, short) == Ext!SelectInSeq(parser.options, LAMBDA o : Answers(o, long, short))
Nameless(long, short) == long = NONE /\ short = 0

RegisterOption(parser, option) ==
  IF \E i \in DOMAIN parser.options : Answers(parser.options[i], option.long, option.short) THEN Failed(parser, "option not found")
  ELSE Done([parser EXCEPT !.options = Append(@, option)])
FindOption(parser, long, short) ==
  CASE Nameless(long, short) -> [option |-> NOBODY, parser |-> [parser EXCEPT !.code = "invalid argument"]]
    [] ~Nameless(long, short) /\ IndexOf(parser, long, short) = 0 -> [option |-> NOBODY, parser |-> parser]
    [] OTHER -> [option |-> parser.options[IndexOf(parser, long, short)], parser |-> parser]
UnregisterOption(parser, long, short) ==
  CASE Nameless(long, short) -> Failed(parser, "invalid argument")
    [] ~Nameless(long, short) /\ IndexOf(parser, long, short) = 0 -> Failed(parser, "option not found")
    [] OTHER -> Done([parser EXCEPT !.options = Ext!RemoveAt(@, IndexOf(parser, long, short))])
SetOptionErrorMessage(parser, long, short, message) ==
  CASE Nameless(long, short) -> Failed(parser, "invalid argument")
    [] ~Nameless(long, short) /\ IndexOf(parser, long, short) = 0 -> Failed(parser, "option not found")
    [] OTHER -> Done([parser EXCEPT !.options[IndexOf(parser, long, short)].message = message])
\* The alias has the short name of its option too.
AddOptionAlias(parser, name, alias) ==
  IF IndexOf(parser, name, 0) = 0 \/ IndexOf(parser, alias, 0) # 0 THEN Failed(parser, "option not found")
  ELSE Done([parser EXCEPT !.options = Append(@, [@[IndexOf(parser, name, 0)] EXCEPT !.long = alias, !.message = NONE])])
\* Nothing is kept of a dependency.
SetOptionDependencies(parser, long, short, onLong, onShort) ==
  CASE Nameless(long, short) \/ Nameless(onLong, onShort) -> Failed(parser, "invalid argument")
    [] ~Nameless(long, short) /\ ~Nameless(onLong, onShort)
       /\ (IndexOf(parser, long, short) = 0 \/ IndexOf(parser, onLong, onShort) = 0) -> Failed(parser, "option not found")
    [] OTHER -> Done(parser)
\* Accepted is what the option's validators say of the value.
ValidateOptionArgument(parser, value, Accepted(_)) ==
  CASE value = NONE -> Failed(parser, "invalid argument")
    [] value # NONE /\ ~Accepted(value) -> Failed(parser, "validation failed")
    [] OTHER -> Done(parser)

\* ------------------------------------------------------------ the commands --
Position(parser, name) == Ext!SelectInSeq(parser.commands, LAMBDA c : c.name = name)
FindCommand(parser, name) == Ext!SelectInSeq(parser.commands, LAMBDA c : c.name = name \/ name \in Ext!ToSet(c.aliases))
RegisterCommand(parser, command) ==
  IF Position(parser, command.name) # 0 THEN Failed(parser, "command not found")
  ELSE [ok |-> TRUE, parser |-> [parser EXCEPT !.commands = Append(@, command)]]
RegisterCommandAlias(parser, name, alias) ==
  IF Position(parser, name) = 0 THEN [ok |-> FALSE, parser |-> parser]
  ELSE [ok |-> TRUE, parser |-> [parser EXCEPT !.commands[Position(parser, name)].aliases = Append(@, alias)]]
UnregisterCommand(parser, name) ==
  IF Position(parser, name) = 0 THEN Failed(parser, "option not found")
  ELSE Done([parser EXCEPT !.commands = Ext!RemoveAt(@, Position(parser, name))])

\* ------------------------------------------------------------- the parsing --
Fits(option, arg) ==
  \/ option.long # NONE /\ arg = option.long
  \/ option.short # 0 /\ arg = <<45, option.short>>
Dashed(arg) == arg # <<>> /\ Head(arg) = 45

\* the value an option takes from the arguments that begin with it
Consumed(option, args) == IF option.type # "no arg" /\ Len(args) > 1 THEN <<args[2]>> ELSE <<>>

\* status and calls for the arguments left
RECURSIVE ParseFrom(_, _)
ParseFrom(parser, args) ==
  LET option == Ext!SelectInSeq(parser.options, LAMBDA o : Fits(o, args[1]))
      command == FindCommand(parser, args[1])
      value == Consumed(parser.options[option], args)
      rest == ParseFrom(parser, SubSeq(args, 2 + Len(value), Len(args)))
      Wrong(status) == [status |-> status, calls |-> IF parser.onError THEN <<[error |-> args[1]]>> ELSE <<>>]
  IN  IF args = <<>> THEN [status |-> "success", calls |-> <<>>]
      ELSE IF Dashed(args[1])
           THEN IF option = 0 THEN Wrong("parse")
                ELSE [rest EXCEPT !.calls = <<[option |-> parser.options[option].long, value |-> IF value = <<>> THEN NONE ELSE value[1]]>> \o @]
           ELSE IF command = 0 THEN Wrong("command not found")
                ELSE [status |-> "success", calls |-> <<[command |-> parser.commands[command].name, args |-> Tail(args)]>>]
\* A single argument that names a command is that command.
ParseArgs(parser, argv) ==
  LET alone == IF Len(argv) = 1 THEN FindCommand(parser, argv[1]) ELSE 0
      parsed == IF alone # 0 THEN [status |-> "success", calls |-> <<[command |-> parser.commands[alone].name, args |-> argv]>>]
                ELSE ParseFrom(parser, Tail(argv))
      Hook(set, name) == IF set THEN <<[hook |-> name]>> ELSE <<>>
  IN  IF argv = <<>> THEN [status |-> "invalid argument", calls |-> <<>>]
      ELSE [parsed EXCEPT !.calls = Hook(parser.pre, "pre") \o @ \o Hook(parser.post, "post")]
SplitString(arg, delimiter) == J!T!Tokenize(arg, delimiter)
ParseArgsWithDelimiter(parser, argv, delimiter) ==
  LET Parts(arg) == IF Len(SplitString(arg, delimiter)) > 1 THEN SplitString(arg, delimiter) ELSE <<arg>>
  IN  ParseArgs(parser, Ext!FlattenSeq([i \in DOMAIN argv |-> Parts(argv[i])]))
\* what each line of the terminal calls, up to the line exit
RECURSIVE EnterInteractiveMode(_, _)
EnterInteractiveMode(parser, lines) ==
  IF lines = <<>> \/ Head(lines) = <<101, 120, 105, 116>> THEN <<>>
  ELSE ParseArgs(parser, J!T!Tokenize(Head(lines), <<32>>)).calls \o EnterInteractiveMode(parser, Tail(lines))
\* y or n in any case; the lines before the first of them are asked again
RECURSIVE PromptConfirmation(_)
PromptConfirmation(lines) ==
  IF lines = <<>> THEN FALSE
  ELSE IF Head(lines) \in {<<89>>, <<121>>} THEN TRUE ELSE Head(lines) \notin {<<78>>, <<110>>} /\ PromptConfirmation(Tail(lines))

\* -------------------------------------------------------------- the groups --
\* A group keeps its own copy of the options, whether they were registered.
AddOptionGroup(parser, name, options) ==
  IF options = <<>> THEN [parser EXCEPT !.code = "invalid argument"]
  ELSE [Ext!FoldLeft(LAMBDA p, o : RegisterOption(p, o).parser, parser, options) EXCEPT !.groups = Append(@, [name |-> name, options |-> options])]
Group(parser, name) == Ext!SelectInSeq(parser.groups, LAMBDA g : g.name = name)
RemoveOptionGroup(parser, name) ==
  IF Group(parser, name) = 0 THEN [parser EXCEPT !.code = "option not found"]
  ELSE [parser EXCEPT !.groups = Ext!RemoveAt(@, Group(parser, name)), !.code = "success"]
\* Each option of the group takes the first argument that is its long name or
\* begins with its short one, up to a required one that is not there.
ProcessOptionGroup(parser, name, argv) ==
  LET options == IF Group(parser, name) = 0 THEN <<>> ELSE parser.groups[Group(parser, name)].options
      args == Tail(argv)
      Spot(o) == Ext!SelectInSeq(args, LAMBDA arg : arg = o.long \/ (o.short # 0 /\ arg # <<>> /\ Head(arg) = o.short))
      Missing(o) == Spot(o) = 0 /\ o.type = "required"
      stop == IF \E i \in DOMAIN options : Missing(options[i]) THEN Ext!SelectInSeq(options, Missing) ELSE Len(options) + 1
      there == SelectSeq(SubSeq(options, 1, stop - 1), LAMBDA o : Spot(o) # 0)
      Value(o) == LET v == Consumed(o, SubSeq(args, Spot(o), Len(args))) IN IF v = <<>> THEN NONE ELSE v[1]
      calls == [i \in DOMAIN there |-> [option |-> there[i].long, value |-> Value(there[i])]]
  IN  CASE Group(parser, name) = 0 -> [ok |-> FALSE, parser |-> [parser EXCEPT !.code = "option not found"], calls |-> <<>>]
        [] Group(parser, name) # 0 /\ stop <= Len(options) -> [ok |-> FALSE, parser |-> [parser EXCEPT !.code = "option not found"], calls |-> calls]
        [] OTHER -> [ok |-> TRUE, parser |-> [parser EXCEPT !.code = "success"], calls |-> calls]

\* -------------------------------------------------------------- the values --
\* strtol over the whole text; <<>> where it fails
Whole(text, max) ==
  LET start == J!RunEnd(text, 1, J!Spaces)
      digits == IF J!At(text, start) \in {43, 45} THEN start + 1 ELSE start
      end == J!RunEnd(text, digits, J!Digits)
      n == Atoi(text)
  IN  IF end = digits \/ end # Len(text) + 1 \/ n > max \/ n < -max - 1 THEN <<>> ELSE <<n>>
ParseInt(text) == IF Whole(text, LONG_MAX) = <<>> THEN <<>> ELSE Whole(text, INT_MAX)
ParseLong(text) == Whole(text, LONG_MAX)
Yes == {<<116, 114, 117, 101>>, <<121, 101, 115>>, <<111, 110>>, <<49>>}
No == {<<102, 97, 108, 115, 101>>, <<110, 111>>, <<111, 102, 102>>, <<48>>}
ParseBool(text) == IF J!T!ToLower(text) \in Yes THEN <<TRUE>> ELSE IF J!T!ToLower(text) \in No THEN <<FALSE>> ELSE <<>>

------------------------------------------------------------------------------
(***************************************************************************)
(* What cli.c promises of a parser, whatever was registered: each argument *)
(* is answered once and in order, and what was registered is found.        *)
(***************************************************************************)

LONG == <<45, 45, 118>>
OUT == <<45, 45, 111>>
ALIAS == <<45, 45, 119>>
RUN == <<114, 117, 110>>
R == <<114>>
Options == {Option(LONG, 118, "no arg"), Option(OUT, 111, "required"), Option(NONE, 118, "optional"), Option(NONE, 112, "optional")}
Args == {LONG, OUT, ALIAS, <<45, 118>>, <<45, 112>>, RUN, R, <<>>}
Lists == UNION {[1..n -> Args] : n \in 0..2} \union {<<OUT>> \o l : l \in [1..2 -> Args]}

Calls(p) ==
  {RegisterOption(p, o).parser : o \in Options}
  \union {RegisterCommand(p, Command(RUN, <<R>>)).parser, RegisterCommand(p, Command(R, <<>>)).parser}
  \union {AddOptionAlias(p, LONG, ALIAS).parser, RegisterCommandAlias(p, R, RUN).parser}
  \union {UnregisterOption(p, LONG, 0).parser, UnregisterOption(p, NONE, 118).parser, UnregisterCommand(p, RUN).parser}
  \union {AddOptionGroup(p, R, <<Option(OUT, 111, "required"), Option(LONG, 118, "optional")>>), RemoveOptionGroup(p, R)}
  \union {SetErrorHandler(SetPreExecutionHook(SetPostExecutionHook(p, TRUE), TRUE), TRUE)}

\* The arguments that a list of calls stands for
Meant(p, calls) ==
  LET Stands(c) == CASE "option" \in DOMAIN c -> IF c.value = NONE THEN 1 ELSE 2
                     [] "command" \in DOMAIN c -> 1 + Len(c.args)
                     [] "error" \in DOMAIN c -> 1
  IN  Ext!FoldLeft(LAMBDA n, c : n + Stands(c), 0, calls)

\* The hooks run around the parsing, each once; every argument is an option, its
\* value, or the one command there is, and an argument in error is the first
\* that is none of these.
Answered(p) ==
  \A list \in Lists :
    LET parsed == ParseArgs(p, <<<<120>>>> \o list)
        calls == SelectSeq(parsed.calls, LAMBDA c : "hook" \notin DOMAIN c)
        hooks == SelectSeq(parsed.calls, LAMBDA c : "hook" \in DOMAIN c)
        Takes(i) == calls[i].value # NONE
        meant == Meant(p, calls)
    IN  /\ p.pre => Len(hooks) = 2 /\ parsed.calls[1] = [hook |-> "pre"] /\ Ext!Last(parsed.calls) = [hook |-> "post"]
        /\ parsed.status = "success" => meant = Len(list)
        /\ parsed.status # "success" /\ p.onError =>
             /\ Ext!Last(calls).error = list[meant]
             /\ (parsed.status = "parse") = Dashed(list[meant])
             /\ parsed.status = "command not found" => FindCommand(p, list[meant]) = 0
             /\ parsed.status = "parse" => \A i \in DOMAIN p.options : ~Fits(p.options[i], list[meant])
        /\ \A i \in DOMAIN calls : "option" \in DOMAIN calls[i] =>
             LET at == Meant(p, SubSeq(calls, 1, i - 1)) + 1
                 o == CHOOSE j \in DOMAIN p.options : Fits(p.options[j], list[at]) /\ \A k \in 1..j - 1 : ~Fits(p.options[k], list[at])
             IN  /\ calls[i].option = p.options[o].long
                 /\ calls[i].value = IF p.options[o].type = "no arg" \/ at = Len(list) THEN NONE ELSE list[at + 1]
        /\ \A i \in 1..Len(calls) - 1 : "option" \in DOMAIN calls[i]
        /\ ParseArgsWithDelimiter(p, <<Joined(<<<<120>>>> \o list, <<44>>)>>, <<44>>) =
             ParseArgs(p, <<<<120>>>> \o SelectSeq(list, LAMBDA a : a # <<>>))
        /\ list # <<>> /\ list[1] # <<>> /\ J!T!Tokenize(Joined(list, <<32>>), <<32>>) = list =>
             EnterInteractiveMode(p, <<Joined(list, <<32>>), <<101, 120, 105, 116>>, RUN>>) = ParseArgs(p, list).calls

\* No two options or commands answer to the name one was registered with, an
\* alias aside, and what is taken out is not found.
Registered(p) ==
  /\ \A i, j \in DOMAIN p.commands : i # j => p.commands[i].name # p.commands[j].name
  /\ \A i, j \in DOMAIN p.options : i # j => /\ p.options[i].long # p.options[j].long \/ p.options[i].long = NONE
                                             /\ p.options[i].short # p.options[j].short \/ p.options[i].short = 0 \/ ALIAS \in {p.options[i].long, p.options[j].long}
  /\ \A o \in Options :
       LET registered == RegisterOption(p, o)
       IN  /\ registered.ok = (FindOption(p, o.long, o.short).option = NOBODY)
           /\ registered.ok => /\ FindOption(registered.parser, o.long, o.short).option = o
                               /\ UnregisterOption(registered.parser, o.long, o.short).parser.options = p.options
           /\ ~SetOptionDependencies(p, o.long, o.short, NONE, 0).ok
           /\ LET told == SetOptionErrorMessage(p, o.long, o.short, R)
              IN  told.ok => FindOption(told.parser, o.long, o.short).option.message = R
  /\ \A name \in {RUN, R} :
       LET registered == RegisterCommand(p, Command(name, <<>>))
           found == FindCommand(registered.parser, name)
       IN  /\ registered.ok => UnregisterCommand(registered.parser, name).parser.commands = p.commands
           /\ found # 0 /\ (registered.parser.commands[found].name = name \/ name \in Ext!ToSet(registered.parser.commands[found].aliases))
           /\ UnregisterCommand(p, name).ok => Position(UnregisterCommand(p, name).parser, name) = 0

\* A group is processed whether its options could be registered or not.
Grouped(p) ==
  \A list \in {l \in Lists : Len(l) < 3} :
    LET processed == ProcessOptionGroup(p, R, <<<<120>>>> \o list)
        long == SelectSeq(list, LAMBDA a : a \in {OUT, LONG})
    IN  IF Group(p, R) = 0 THEN ~processed.ok /\ processed.calls = <<>>
        ELSE /\ processed.ok = (OUT \in Ext!ToSet(list))
             /\ {processed.calls[i].option : i \in DOMAIN processed.calls} = IF processed.ok THEN Ext!ToSet(long) ELSE {}

CommandValued ==
  /\ \A n \in {-129, -128, -7, 0, 127, 128, 32768} :
       LET text == IF n < 0 THEN <<45>> \o J!DigitsOf(-n) ELSE J!DigitsOf(n)
       IN  /\ ParseInt(text) = IF n \in -128..127 THEN <<n>> ELSE <<>>
           /\ ParseLong(text) = IF n <= 32767 THEN <<n>> ELSE <<>>
           /\ ParseInt(text \o <<32>>) = <<>> /\ ParseInt(<<32>> \o text) = ParseInt(text)
  /\ ParseInt(<<>>) = <<>> /\ ParseInt(<<45>>) = <<>> /\ ParseBool(<<79, 78>>) = <<TRUE>> /\ ParseBool(<<111, 102, 102>>) = <<FALSE>>
  /\ ParseBool(<<121>>) = <<>> /\ PromptConfirmation(<<R, <<89>>, <<78>>>>) /\ ~PromptConfirmation(<<R, <<78>>, <<89>>>>)

------------------------------------------------------------------------------
(***************************************************************************)
(* evalexpr/evalexpr.c: an expression, a sequence of characters, becomes   *)
(* tokens, the tokens reverse Polish notation, and that a value. A token   *)
(* is <<"number", value>>, <<"operator", character>> or <<"(">>, <<")">>.  *)
(* Values are fractions; REAL is any other double, which is not 0, as are  *)
(* those of a LARGE numerator. Literals have no exponent.                  *)
(***************************************************************************)

CONSTANTS MAX_TOKENS, LARGE

NAN == <<>>
REAL == <<0, 0>>
FAIL == <<<<"none">>>>
Letters == (65..90) \union (97..122) \union {95}

Precedence(op) == CASE op = 94 -> 4 [] op \in {42, 47} -> 3 [] op \in {43, 45} -> 2
IsRightAssociative(op) == op = 94
IsOperator(ch) == ch \in {43, 45, 42, 47, 94}

\* -------------------------------------------------------------- tokenizing --
\* digits, a point, digits: <<the value or FAIL, where it ends>>
Literal(expr, pos) ==
  LET point == J!RunEnd(expr, pos, J!Digits)
      end == IF J!At(expr, point) = 46 THEN J!RunEnd(expr, point + 1, J!Digits) ELSE point
      digits == SelectSeq(SubSeq(expr, pos, end - 1), LAMBDA c : c # 46)
  IN  <<IF digits = <<>> THEN FAIL ELSE Q!Q(J!Natural(digits), IF end = point THEN 1 ELSE 10 ^ (end - point - 1)), end>>
\* What a sign stands for: before a literal, its sign; before a parenthesis or
\* a variable, 0 and an operator.
Sign(expr, pos, tokens, vars) ==
  LET next == J!At(expr, J!RunEnd(expr, pos + 1, J!Spaces))
  IN  IF J!At(expr, pos) \notin {43, 45} \/ ~(tokens = <<>> \/ Ext!Last(tokens)[1] \in {"operator", "("}) THEN "operator"
      ELSE IF next \in J!Digits \union {46} THEN "sign"
      ELSE IF next = 40 \/ (vars # <<>> /\ next \in Letters) THEN "from zero" ELSE "operator"
\* the value of the first variable of a name
Lookup(name, vars) ==
  IF \E i \in DOMAIN vars : vars[i][1] = name THEN SelectSeq(vars, LAMBDA v : v[1] = name)[1][2] ELSE FAIL
RECURSIVE TokensFrom(_, _, _, _)
TokensFrom(expr, pos, tokens, vars) ==
  LET ch == J!At(expr, pos)
      sign == Sign(expr, pos, tokens, vars)
      start == IF sign = "sign" THEN J!RunEnd(expr, pos + 1, J!Spaces) ELSE pos
      literal == Literal(expr, start)
      value == IF sign = "sign" /\ ch = 45 /\ literal[1] # FAIL THEN Q!Minus(Q!Q0, literal[1]) ELSE literal[1]
      name == J!RunEnd(expr, pos, Letters \union J!Digits)
      Next(found, end) == IF Len(tokens) + Len(found) > MAX_TOKENS THEN FAIL ELSE TokensFrom(expr, end, tokens \o found, vars)
      Number(v, end) == IF v = FAIL THEN FAIL ELSE Next(<<<<"number", v>>>>, end)
  IN  IF pos > Len(expr) THEN tokens
      ELSE IF ch \in J!Spaces THEN TokensFrom(expr, pos + 1, tokens, vars)
      ELSE IF sign = "sign" \/ ch \in J!Digits \union {46} THEN Number(value, literal[2])
      ELSE IF vars # <<>> /\ ch \in Letters THEN Number(Lookup(SubSeq(expr, pos, name - 1), vars), name)
      ELSE IF IsOperator(ch)
           THEN Next((IF sign = "from zero" THEN <<<<"number", Q!Q0>>>> ELSE <<>>) \o <<<<"operator", ch>>>>, pos + 1)
      ELSE IF ch = 40 THEN Next(<<<<"(">>>>, pos + 1)
      ELSE IF ch = 41 THEN Next(<<<<")">>>>, pos + 1)
      ELSE FAIL
Tokenize(expr, vars) == TokensFrom(expr, 1, <<>>, vars)

\* ---------------------------------------------------- reverse Polish notation --
\* Mutant: all operators group to the left.
YieldsToEqual(top, op) == top[1] = "operator" /\ Precedence(op) <= Precedence(top[2])
\* whether the operator on the stack goes before a new one
Yields(top, op) ==
  top[1] = "operator" /\ (IF IsRightAssociative(op) THEN Precedence(op) < Precedence(top[2]) ELSE Precedence(op) <= Precedence(top[2]))
RECURSIVE Yard(_, _, _)
Yard(tokens, stack, output) ==
  LET pop == Yard(tokens, Ext!Front(stack), Append(output, Ext!Last(stack)))
      push == Yard(Tail(tokens), Append(stack, Head(tokens)), output)
  IN  IF tokens = <<>> THEN IF stack = <<>> THEN output ELSE IF Ext!Last(stack)[1] = "(" THEN FAIL ELSE pop
      ELSE CASE Head(tokens)[1] = "number" -> Yard(Tail(tokens), stack, Append(output, Head(tokens)))
             [] Head(tokens)[1] = "operator" -> IF stack # <<>> /\ Yields(Ext!Last(stack), Head(tokens)[2]) THEN pop ELSE push
             [] Head(tokens)[1] = "(" -> push
             [] Head(tokens)[1] = ")" -> IF stack = <<>> THEN FAIL
                                         ELSE IF Ext!Last(stack)[1] = "(" THEN Yard(Tail(tokens), Ext!Front(stack), output) ELSE pop
ShuntingYard(tokens) == Yard(tokens, <<>>, <<>>)

\* -------------------------------------------------------------- evaluating --
Bounded(v) == IF v # REAL /\ (Q!Magnitude(v[1]) > LARGE \/ v[2] > LARGE) THEN REAL ELSE v
RECURSIVE IntPow(_, _)
IntPow(v, n) ==
  IF n = 0 THEN <<1, 1>> ELSE LET rest == IntPow(v, n - 1) IN IF rest = REAL THEN REAL ELSE Bounded(Q!Times(v, rest))
Pow(left, right) ==
  IF REAL \in {left, right} \/ right[2] # 1 \/ (left = Q!Q0 /\ right[1] < 0) THEN REAL
  ELSE LET up == IF left \in {<<1, 1>>, <<-1, 1>>, Q!Q0} THEN IntPow(left, IF right[1] = 0 THEN 0 ELSE 2 - (right[1] % 2))
                 ELSE IntPow(left, IF Q!Magnitude(right[1]) > 9 THEN 9 ELSE Q!Magnitude(right[1]))
       IN  IF up = REAL \/ right[1] >= 0 THEN up ELSE Q!Quot(<<1, 1>>, up)
\* NAN for a division by zero
Operate(op, left, right) ==
  CASE op = 47 /\ right = Q!Q0 -> NAN
    [] op = 94 -> Pow(left, right)
    [] op # 94 /\ REAL \in {left, right} -> REAL
    [] OTHER -> Bounded(CASE op = 43 -> Q!Plus(left, right) [] op = 45 -> Q!Minus(left, right)
                          [] op = 42 -> Q!Times(left, right) [] op = 47 -> Q!Quot(left, right))
RECURSIVE Run(_, _)
Run(rpn, stack) ==
  IF rpn = <<>> THEN IF Len(stack) = 1 THEN stack[1] ELSE NAN
  ELSE IF Head(rpn)[1] = "number" THEN Run(Tail(rpn), Append(stack, Head(rpn)[2]))
  ELSE IF Len(stack) < 2 THEN NAN
  ELSE LET v == Operate(Head(rpn)[2], stack[Len(stack) - 1], Ext!Last(stack))
       IN  IF v = NAN THEN NAN ELSE Run(Tail(rpn), Append(SubSeq(stack, 1, Len(stack) - 2), v))
EvalRpn(rpn) == Run(rpn, <<>>)

\* ------------------------------------------------------------------- calls --
\* <<the value, the error>>
Ended(v) == IF v = NAN THEN <<NAN, "evaluation">> ELSE <<v, "success">>
OfRpn(rpn) == IF rpn = FAIL THEN <<NAN, "shunting">> ELSE Ended(EvalRpn(rpn))
OfTokens(tokens) == IF tokens = FAIL THEN <<NAN, "tokenize">> ELSE OfRpn(ShuntingYard(tokens))
ExprWithVars(expr, vars) == OfTokens(Tokenize(expr, vars))
ExprStrict(expr) == ExprWithVars(expr, <<>>)
Expr(expr) == ExprStrict(expr)[1]
Notation(tokens) == IF tokens = FAIL THEN FAIL ELSE ShuntingYard(tokens)
ToRpn(expr) == Notation(Tokenize(expr, <<>>))
IsValid(expr) == ToRpn(expr) # FAIL
\* nothing for no token
SomeTokens(tokens) == IF tokens = <<>> THEN FAIL ELSE tokens
ExprTokenize(expr) == SomeTokens(Tokenize(expr, <<>>))
PrintDebug(expr) == [tokens |-> ExprTokenize(expr), rpn |-> ToRpn(expr), result |-> Expr(expr)]

------------------------------------------------------------------------------
(***************************************************************************)
(* What evalexpr.c promises of an expression: the value that its operators *)
(* have by precedence and association, here found by splitting it at the   *)
(* operator that is applied last.                                          *)
(***************************************************************************)

\* 2 3 x y ( ) + - * / ^ and a space
Characters == {50, 51, 120, 40, 41, 43, 45, 42, 94}
Vars == <<<<<<120>>, <<3, 1>>>>, <<<<120>>, <<7, 1>>>>, <<<<120, 50>>, <<5, 1>>>>>>

Depth(expr, i) ==
  LET S(c) == Len(SelectSeq(SubSeq(expr, 1, i), LAMBDA d : d = c)) IN S(40) - S(41)
Outside(expr, ops) == {i \in DOMAIN expr : expr[i] \in ops /\ Depth(expr, i) = 0 /\ i > 1 /\ i < Len(expr) /\ expr[i - 1] \notin {40, 43, 45, 42, 94}}
Most(s) == CHOOSE i \in s : \A j \in s : j <= i
Fewest(s) == CHOOSE i \in s : \A j \in s : j >= i
Known(v) == v \notin {NAN, REAL}
\* the value of an expression, NAN of what is none
RECURSIVE Meaning(_)
Meaning(expr) ==
  LET Split(i) == LET l == Meaning(SubSeq(expr, 1, i - 1)) r == Meaning(SubSeq(expr, i + 1, Len(expr)))
                  IN  IF NAN \in {l, r} THEN NAN ELSE Operate(expr[i], l, r)
      sums == Outside(expr, {43, 45})
      products == Outside(expr, {42})
      powers == Outside(expr, {94})
      rest == Meaning(Tail(expr))
  IN  IF expr = <<>> THEN NAN
      ELSE IF \E i \in DOMAIN expr : Depth(expr, i) < 0 THEN NAN
      ELSE IF sums # {} THEN Split(Most(sums))
      ELSE IF Head(expr) \in {43, 45} /\ Len(expr) > 1 /\ expr[2] \notin {50, 51} /\ expr[2] \notin {43, 45} THEN
           IF rest = NAN THEN rest ELSE Operate(Head(expr), <<0, 1>>, rest)
      ELSE IF products # {} THEN Split(Most(products))
      ELSE IF powers # {} THEN Split(Fewest(powers))
      ELSE IF Head(expr) = 40 /\ Ext!Last(expr) = 41 THEN Meaning(SubSeq(expr, 2, Len(expr) - 1))
      ELSE IF expr = <<120>> THEN <<3, 1>>
      ELSE IF expr = <<120, 50>> THEN <<5, 1>>
      ELSE IF Head(expr) \in {43, 45} /\ Len(expr) > 1 /\ \A i \in 2..Len(expr) : expr[i] \in {50, 51}
           THEN <<(IF Head(expr) = 45 THEN -1 ELSE 1) * J!Natural(Tail(expr)), 1>>
      ELSE IF \A i \in DOMAIN expr : expr[i] \in {50, 51} THEN <<J!Natural(expr), 1>>
      ELSE NAN
\* a sign between an operator and what is no literal: there the code computes 0 - x after
\* the operator, so that 3*-x is 3*0-x (see SignedVariables)
SignedOperand(expr) == \E i \in 2..Len(expr) - 1 : expr[i] \in {43, 45} /\ expr[i - 1] \in {43, 45, 42, 94} /\ expr[i + 1] \in {40, 120}
Signed(expr) == \A value \in {Meaning(expr)} \ {NAN} : ExprWithVars(expr, Vars) = <<value, "success">>
\* What evalexpr.c:481 says, of a number, an operator, a sign and a variable
SignedVariables == \A op \in {43, 45, 42, 94}, sign \in {43, 45} : Signed(<<51, op, sign, 120>>)

ExpressionValued(expr) ==
  /\ ~SignedOperand(expr) => Signed(expr)
  /\ \A r \in {ExprWithVars(expr, Vars)} :
         /\ r[2] = "success" => r[1] # NAN
         /\ r[2] = "shunting" => \E i \in DOMAIN expr : expr[i] \in {40, 41}
         /\ (\A i \in DOMAIN expr : expr[i] # 120) => ExprStrict(expr) = r
         /\ (\E i \in DOMAIN expr : expr[i] = 120) => ExprStrict(expr) = <<NAN, "tokenize">>

\* The notations say the same of an expression.
Noted(expr) ==
  \A d \in {PrintDebug(expr)}, valued \in {ExprWithVars(expr, Vars)} :
    /\ IsValid(expr) = (d.rpn # FAIL)
    /\ d.rpn # FAIL => d.result = EvalRpn(d.rpn)
    /\ d.rpn # FAIL /\ expr # <<>> =>
         \A t \in {"number", "operator"} :
           Len(SelectSeq(d.tokens, LAMBDA x : x[1] = t)) = Len(SelectSeq(d.rpn, LAMBDA x : x[1] = t))
    /\ \A i \in 0..Len(expr) : (i = 0 \/ i = Len(expr) \/ {expr[i], expr[i + 1]} \intersect {50, 51, 120} = {}) =>
         ExprWithVars(SubSeq(expr, 1, i) \o <<32>> \o SubSeq(expr, i + 1, Len(expr)), Vars) = valued
    /\ d.rpn = FAIL => Expr(expr) = NAN
==============================================================================
