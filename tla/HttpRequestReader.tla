--------------------------- MODULE HttpRequestReader ---------------------------
(***************************************************************************)
(* hp_read_full_request_to of network/http.c: one request is read off a    *)
(* connection, first its header block into a buffer that grows, then the   *)
(* body that the headers announce, by length or in chunks.  The peer's     *)
(* bytes arrive in reads of any size; a read may also time out, fail or    *)
(* find the connection closed, and any allocation may fail.                *)
(***************************************************************************)
EXTENDS Integers, SequencesExt

-----------------------------------------------------------------------------
(***************************************************************************)
(* The incremental decoder of Transfer-Encoding: chunked of network/http.c *)
(* (ckd_feed), as a function of the decoder's state and of the bytes of    *)
(* one read.  Bytes are the few the decoder tells apart.                   *)
(***************************************************************************)

CONSTANTS
  SizeMax,   \* the largest size_t
  MaxBody    \* HTTP_MAX_BODY_BYTES

ASSUME ChunkDecoderAssumption == SizeMax \in Nat /\ MaxBody \in 0..SizeMax

\* "0" and "2" are hexadecimal digits, ";" also stands for any other byte.
Bytes == {"0", "2", "CR", "LF", ";"}
HexValue == [b \in {"0", "2"} |-> IF b = "0" THEN 0 ELSE 2]

Decoder == [phase |-> "SIZE", need |-> 0, digits |-> 0, in_ext |-> FALSE,
            body |-> <<>>]

Phases == {"SIZE", "SIZE_LF", "DATA", "DATA_CR", "DATA_LF", "TRAILER",
           "TRAILER_LF", "TRAILER_SKIP", "TRAILER_SKIP_LF", "DONE", "ERROR"}

Fail(d) == [d EXCEPT !.phase = "ERROR"]

\* The phases that expect one byte and go on to another phase.
Expect(d, b, expected, next) ==
  IF b = expected THEN [d EXCEPT !.phase = next] ELSE Fail(d)

\* Mutant: a size is started over without clearing the previous one.
NextSizeKept(d) == [d EXCEPT !.phase = "SIZE"]

NextSize(d) == [d EXCEPT !.phase = "SIZE", !.need = 0, !.digits = 0, !.in_ext = FALSE]

\* need > (SIZE_MAX - h) / 16 is refused before need * 16 + h is computed.
AddDigit(d, h) ==
  IF d.need > (SizeMax - h) \div 16
  THEN Fail(d)
  ELSE [d EXCEPT !.need = @ * 16 + h, !.digits = @ + 1]

DecodeSize(d, b) ==
  CASE b = "CR" -> [d EXCEPT !.phase = "SIZE_LF"]
    [] b # "CR" /\ d.in_ext -> d
    [] b = ";" /\ ~d.in_ext -> [d EXCEPT !.in_ext = TRUE]
    [] b \in DOMAIN HexValue /\ ~d.in_ext -> AddDigit(d, HexValue[b])
    [] OTHER -> Fail(d)

\* Every phase but DATA takes one byte.
DecodeByte(d, b) ==
  CASE d.phase = "SIZE" -> DecodeSize(d, b)
    [] d.phase = "SIZE_LF" ->
         IF b # "LF" \/ d.digits = 0 THEN Fail(d)
         ELSE [d EXCEPT !.phase = IF d.need = 0 THEN "TRAILER" ELSE "DATA"]
    [] d.phase = "DATA_CR" -> Expect(d, b, "CR", "DATA_LF")
    [] d.phase = "DATA_LF" -> IF b = "LF" THEN NextSize(d) ELSE Fail(d)
    [] d.phase = "TRAILER" ->
         [d EXCEPT !.phase = IF b = "CR" THEN "TRAILER_LF" ELSE "TRAILER_SKIP"]
    [] d.phase = "TRAILER_LF" -> Expect(d, b, "LF", "DONE")
    [] d.phase = "TRAILER_SKIP" ->
         IF b = "CR" THEN [d EXCEPT !.phase = "TRAILER_SKIP_LF"] ELSE d
    [] d.phase = "TRAILER_SKIP_LF" -> Expect(d, b, "LF", "TRAILER")

\* httpbuf_append and its bound: max - n is computed in size_t.
Fits(len, n) == len <= (MaxBody + SizeMax + 1 - n) % (SizeMax + 1)

\* Mutant: a chunk takes everything that was read.
TakeDataAll(d, bytes) ==
  IF ~Fits(Len(d.body), Len(bytes)) THEN Fail(d)
  ELSE [d EXCEPT !.body = @ \o bytes, !.need = 0, !.phase = "DATA_CR"]

\* DATA takes as much of the chunk as was read, or nothing if that is too much.
TakeData(d, bytes) ==
  IF ~Fits(Len(d.body), Len(bytes))
  THEN Fail(d)
  ELSE [d EXCEPT !.body = @ \o bytes,
                 !.need = @ - Len(bytes),
                 !.phase = IF d.need = Len(bytes) THEN "DATA_CR" ELSE "DATA"]

\* One turn of the loop of ckd_feed; i bytes of the block have been used.
Turn(r, block) ==
  LET d == r.d
      left == Len(block) - r.i
      take == IF left > d.need THEN d.need ELSE left
  IN  IF left = 0 \/ d.phase \in {"DONE", "ERROR"} THEN r
      ELSE IF d.phase = "DATA"
      THEN [d |-> TakeData(d, SubSeq(block, r.i + 1, r.i + take)), i |-> r.i + take]
      ELSE [d |-> DecodeByte(d, block[r.i + 1]), i |-> r.i + 1]

\* ckd_feed: a turn uses at least a byte or ends the loop.
Feed(d, block) ==
  LET run[k \in 0..Len(block)] ==
        IF k = 0 THEN [d |-> d, i |-> 0] ELSE Turn(run[k - 1], block)
  IN  run[Len(block)].d

-----------------------------------------------------------------------------
(* The reader of one connection.                                            *)

CONSTANTS
  MaxHeader,   \* HTTP_MAX_HEADER_BYTES
  ReadChunk,   \* HTTP_READ_CHUNK: the first buffer, and a read of a chunked body
  Requests     \* what peers send: the bytes, and the headers they carry

\* The two headers that frame a body: te is "none", "chunked" or "other", cl the
\* value of a valid Content-Length, -1 if there is none and -2 if it is invalid.
\* No read brings more of a body than MaxBody (64 KiB and 16 KiB to 16 MiB): max - n
\* is not computed below 0.
ASSUME HttpRequestReaderAssumption ==
  /\ ReadChunk \in Nat \ {0} /\ ReadChunk <= MaxBody
  /\ MaxHeader \in Nat /\ ReadChunk <= MaxHeader /\ MaxHeader <= MaxBody + 4
  /\ \A r \in Requests :
       /\ r.bytes \in Seq(Bytes)
       /\ r.te \in {"none", "chunked", "other"}
       /\ r.cl \in Nat \cup {-1, -2}

VARIABLES
  request,      \* what the peer sends
  pos,          \* how much of it was received
  cap, len,     \* the buffer
  scanned,      \* how much of it was searched for the end of the headers
  header_end,
  decoder,      \* of a chunked body
  phase,        \* "headers", "frame", "length", "chunked" or "done"
  out_status,   \* of a failure
  out           \* the request returned: what precedes the body, and the body

vars == <<request, pos, cap, len, scanned, header_end, decoder, phase, out_status, out>>

MinOf(a, b) == IF a < b THEN a ELSE b
Nothing == [head |-> 0, body |-> <<>>]

Init ==
  /\ request \in Requests
  /\ pos = 0
  /\ cap = ReadChunk
  /\ len = 0
  /\ scanned = 0
  /\ header_end = 0
  /\ decoder = Decoder
  /\ phase = "headers"
  /\ out_status = 0
  /\ out = Nothing

Received(a, b) == SubSeq(request.bytes, a, b)

\* Every failing path frees the buffers and returns a status.
FailWith(status) ==
  /\ phase' = "done"
  /\ out_status' = status
  /\ UNCHANGED <<request, cap, len, scanned, header_end, decoder, out>>

Return(head, body) ==
  /\ phase' = "done"
  /\ out' = [head |-> head, body |-> body]
  /\ UNCHANGED <<out_status>>

-----------------------------------------------------------------------------
(* Phase 1: the header block                                               *)

GrowBuffer ==
  /\ phase = "headers"
  /\ len = cap
  /\ IF cap >= MaxHeader
     THEN FailWith(431)
     ELSE /\ cap' = MinOf(cap * 2, MaxHeader)
          /\ UNCHANGED <<request, len, scanned, header_end, decoder, phase, out_status, out>>
  /\ UNCHANGED pos

EndsHeaders(i) == i >= 4 /\ Received(i - 3, i) = <<"CR", "LF", "CR", "LF">>

\* Mutant: the bytes searched before are not looked at again.
FoundFromScanned(from, to) == {i \in (from + 4)..to : EndsHeaders(i)}

\* CRLFCRLF may begin in the last three bytes that were searched before.
FoundFrom(from, to) ==
  {i \in ((IF from > 3 THEN from - 3 ELSE 0) + 4)..to : EndsHeaders(i)}

ReadHeaders(n) ==
  /\ phase = "headers"
  /\ len < cap
  /\ n <= MinOf(cap - len, Len(request.bytes) - pos)
  /\ pos' = pos + n
  /\ len' = len + n
  /\ scanned' = len'
  /\ LET ends == FoundFrom(scanned, len')
     IN  IF ends = {}
         THEN UNCHANGED <<header_end, phase>>
         ELSE /\ header_end' = CHOOSE i \in ends : \A j \in ends : i <= j
              /\ phase' = "frame"
  /\ UNCHANGED <<request, cap, decoder, out_status, out>>

-----------------------------------------------------------------------------
(* The framing, once the headers are complete                              *)

\* What the reader answers to a chunked body that ckd_feed has refused
RefusedBody(d) == IF Len(d.body) >= MaxBody THEN 413 ELSE 400

\* ckd_feed, and what its result means to the reader.
DecodeBody(bytes) ==
  LET d == Feed(decoder, bytes)
  IN  /\ decoder' = d
      /\ CASE d.phase = "ERROR" ->
                /\ phase' = "done"
                /\ out_status' = RefusedBody(d)
                /\ out' = out
           [] d.phase = "DONE" -> Return(header_end, d.body)
           [] OTHER -> phase' = "chunked" /\ UNCHANGED <<out_status, out>>
      /\ UNCHANGED <<request, cap, len, scanned, header_end>>

\* Mutant: a request with both framings is read in chunks.
FramingErrorButBoth ==
  IF request.te = "other" THEN 501
  ELSE IF request.cl = -2 THEN 400
  ELSE 0

\* The status a request is refused with for its framing headers, or 0.
FramingError ==
  IF request.te = "other" THEN 501
  ELSE CASE request.cl = -2 -> 400
         [] request.te = "chunked" /\ request.cl >= 0 -> 400
         [] request.te = "none" /\ request.cl > MaxBody -> 413
         [] OTHER -> 0

Refuse == phase = "frame" /\ FramingError # 0 /\ FailWith(FramingError) /\ UNCHANGED pos

\* What was read past the headers is the beginning of the body.
BeginChunked ==
  /\ phase = "frame"
  /\ FramingError = 0 /\ request.te = "chunked"
  /\ DecodeBody(Received(header_end + 1, len))
  /\ UNCHANGED pos

BeginLength ==
  /\ phase = "frame"
  /\ FramingError = 0 /\ request.te = "none" /\ request.cl >= 0
  /\ phase' = "length"
  /\ cap' = IF header_end + request.cl > cap THEN header_end + request.cl ELSE cap
  /\ UNCHANGED <<request, pos, len, scanned, header_end, decoder, out_status, out>>

NoBody ==
  /\ phase = "frame"
  /\ FramingError = 0 /\ request.te = "none" /\ request.cl = -1
  /\ Return(header_end, <<>>)
  /\ UNCHANGED <<request, pos, cap, len, scanned, header_end, decoder>>

-----------------------------------------------------------------------------
(* Phase 2: the body                                                       *)

ReadChunked(n) ==
  /\ phase = "chunked"
  /\ n <= MinOf(ReadChunk, Len(request.bytes) - pos)
  /\ pos' = pos + n
  /\ DecodeBody(Received(pos + 1, pos + n))

ReadLength(n) ==
  /\ phase = "length"
  /\ len < header_end + request.cl
  /\ n <= MinOf(cap - len, Len(request.bytes) - pos)
  /\ pos' = pos + n
  /\ len' = len + n
  /\ UNCHANGED <<request, cap, scanned, header_end, decoder, phase, out_status, out>>

\* Bytes past the announced length are ignored.
ReturnLength ==
  /\ phase = "length"
  /\ len >= header_end + request.cl
  /\ Return(header_end, Received(header_end + 1, header_end + request.cl))
  /\ UNCHANGED <<request, pos, cap, len, scanned, header_end, decoder>>

-----------------------------------------------------------------------------
(* What goes wrong                                                         *)

Reading ==
  \/ phase = "headers" /\ len < cap
  \/ phase = "length" /\ len < header_end + request.cl
  \/ phase = "chunked"

ReadTimesOut == Reading /\ FailWith(408) /\ UNCHANGED pos

\* The peer has closed: nothing was ever sent, or the request is cut short.
ReadFails ==
  /\ Reading
  /\ FailWith(IF phase = "headers" /\ len = 0 THEN 0 ELSE 400)
  /\ UNCHANGED pos

\* The first buffer, its growth, and its growth to the length that is announced
BufferStarves ==
  /\ \/ phase = "headers" /\ (pos = 0 \/ (len = cap /\ cap < MaxHeader))
     \/ /\ phase = "frame" /\ FramingError = 0 /\ request.te = "none"
        /\ header_end + request.cl > cap
  /\ FailWith(500)
  /\ UNCHANGED pos

\* httpbuf_append may have to grow the body with what a chunk brings.  Where it cannot,
\* ckd_feed fails as on a body that is malformed; the body was not full, or the append
\* would not have come to realloc, and the answer is 400.  The copy of the headers and of
\* the whole body that is returned may find no memory either.
DecodingStarves(bytes) ==
  \/ /\ \E n \in 0..(Len(bytes) - 1) :
          LET d == Feed(decoder, SubSeq(bytes, 1, n))
          IN  d.phase = "DATA" /\ Fits(Len(d.body), 1)
     /\ FailWith(400)
  \/ Feed(decoder, bytes).phase = "DONE" /\ FailWith(500)

\* What the decoder is given when the reads bring n bytes more.
BodyStarves(n) ==
  \/ /\ phase = "frame" /\ FramingError = 0 /\ request.te = "chunked"
     /\ n = 0 /\ UNCHANGED pos
     /\ DecodingStarves(Received(header_end + 1, len))
  \/ /\ phase = "chunked" /\ n \in 1..MinOf(ReadChunk, Len(request.bytes) - pos)
     /\ pos' = pos + n
     /\ DecodingStarves(Received(pos + 1, pos + n))

Next ==
  \/ GrowBuffer
  \/ \E n \in 1..Len(request.bytes) : ReadHeaders(n) \/ ReadChunked(n) \/ ReadLength(n)
  \/ Refuse
  \/ BeginChunked
  \/ BeginLength
  \/ NoBody
  \/ ReturnLength
  \/ ReadTimesOut
  \/ ReadFails
  \/ BufferStarves
  \/ \E n \in 0..Len(request.bytes) : BodyStarves(n)

Spec == Init /\ [][Next]_vars

-----------------------------------------------------------------------------

\* No read runs past the buffer, the byte after which is kept for the NUL, and
\* the buffer is never larger than the limits allow.
TypeOK ==
  /\ pos \in 0..Len(request.bytes)
  /\ cap \in ReadChunk..(MaxHeader + MaxBody)
  /\ len \in 0..cap
  /\ scanned \in 0..len
  /\ header_end \in 0..len
  /\ phase \in {"headers", "frame", "length", "chunked", "done"}
  /\ out_status \in {0, 400, 408, 413, 431, 500, 501}

\* Where the first CRLFCRLF of the peer's bytes ends, or 0.
HeadersEnd ==
  LET ends == {i \in 4..Len(request.bytes) : EndsHeaders(i)}
  IN  IF ends = {} THEN 0 ELSE CHOOSE i \in ends : \A j \in ends : i <= j

\* However the reads split the bytes, the first end of headers is found by the read
\* that brings its last byte.
HeadersFound == header_end = IF HeadersEnd <= scanned THEN HeadersEnd ELSE 0

Body ==
  CASE request.te = "chunked" ->
         Feed(Decoder, Received(header_end + 1, Len(request.bytes))).body
    [] request.te # "chunked" /\ request.cl >= 0 -> Received(header_end + 1, header_end + request.cl)
    [] OTHER -> <<>>

ReturnsTheRequest ==
  out # Nothing =>
    /\ out = [head |-> HeadersEnd, body |-> Body]
    /\ Len(out.body) <= MaxBody
    /\ request.te = "none" \/ request.cl = -1

\* The buffer is never overrun, the header block is refused as too large only if it
\* is, and a chunked body that does not fit is refused, whatever was read at a time.
WithinLimits ==
  /\ TypeOK
  /\ out_status = 431 => HeadersEnd = 0 \/ HeadersEnd > MaxHeader
  /\ Len(decoder.body) <= MaxBody

\* The decoder, had the bytes after the headers come one by one, n of them.
ByteByByte ==
  LET after[n \in 0..(Len(request.bytes) - header_end)] ==
        IF n = 0 THEN Decoder ELSE Feed(after[n - 1], <<request.bytes[header_end + n]>>)
  IN  after

\* The decoder has been given what was received past the headers.
Fed == phase = "chunked" \/ decoder.phase \in {"DONE", "ERROR"}

\* Wherever the reads split a chunked body, the decoder is where it would be had the
\* bytes come one by one.
SplitsDoNotMatter ==
  Fed => LET bytewise == ByteByByte[pos - header_end]
         IN  /\ decoder.phase = bytewise.phase
             /\ decoder.phase # "ERROR" => decoder = bytewise

\* 413 is for an announced length above the limit, and for a chunked body that failed
\* with as many bytes decoded as the limit allows.  That is less than http.c:28 and
\* http.c:1369 promise, who answer every body above the limit with it: a chunked body of
\* which a part that does not fit is refused as a whole is answered with 400.
RefusedForSize ==
  out_status = 413 =>
    IF request.te = "chunked"
    THEN decoder.phase = "ERROR" /\ Len(decoder.body) = MaxBody
    ELSE request.cl > MaxBody

\* However the reads split the bytes, the end of the headers is found in time, the body
\* is decoded alike, what is returned is the request that was sent, with the whole body
\* its headers announce, a header block is refused for its size only if it is too large,
\* and 413 answers only a body that reaches the limit.
FindsTheRequest ==
  HeadersFound /\ SplitsDoNotMatter /\ ReturnsTheRequest /\ WithinLimits /\ RefusedForSize

-----------------------------------------------------------------------------
(***************************************************************************)
(* Requests for model checking: small ones with every framing and every    *)
(* way a blank line can begin too early or too late, and chunked ones as   *)
(* RFC 7230 has them, or with one byte wrong or missing.  A message is     *)
(* chunks of two bytes with or without an extension, the last, empty       *)
(* chunk, then trailer lines and an empty line.                            *)
(***************************************************************************)

CONSTANT MaxChunks  \* bounds the chunks of a message, the last one not counted

ASSUME MaxChunksAssumption == MaxChunks \in Nat

CRLF == <<"CR", "LF">>

Request(head, body, te, cl) ==
  [bytes |-> head \o CRLF \o CRLF \o body, te |-> te, cl |-> cl]

Data == {<<"CR", "LF">>, <<"0", "CR">>}
Chunk(data, ext) == <<"2">> \o ext \o CRLF \o data \o CRLF
Extensions == {<<>>, <<";", "2">>}
LastChunks == {<<"0">>, <<"0", "0">>, <<"0", ";">>}
Trailers == {<<>>, <<"0", "2">> \o CRLF \o <<";">> \o CRLF}

\* What the first n chunks are on the wire, and what they carry.
ChunksWire(chunks, ext) ==
  LET wire[n \in 0..Len(chunks)] ==
        IF n = 0 THEN <<>> ELSE wire[n - 1] \o Chunk(chunks[n], ext)
  IN  wire

ChunksBody(chunks) ==
  LET body[n \in 0..Len(chunks)] == IF n = 0 THEN <<>> ELSE body[n - 1] \o chunks[n]
  IN  body

Message(chunks, ext, last, trailer) ==
  [wire |-> ChunksWire(chunks, ext)[Len(chunks)] \o last \o CRLF \o trailer \o CRLF,
   body |-> ChunksBody(chunks)[Len(chunks)]]

MessagesEnding(lasts) ==
  {Message(chunks, ext, last, trailer) :
     chunks \in UNION {[1..n -> Data] : n \in 0..MaxChunks},
     ext \in Extensions, last \in lasts, trailer \in Trailers}

Messages == MessagesEnding(LastChunks)
Wires == {m.wire : m \in Messages}
BodyOf == [w \in Wires |-> (CHOOSE m \in Messages : m.wire = w).body]

\* The size of the last chunk is a power of 2 that a size_t has no room for.
Oversized == {m.wire : m \in MessagesEnding({<<"2", "0", "0">>})}

\* A message with one byte lost or replaced
Wrong(w) ==
  {RemoveAt(w, i) : i \in 1..Len(w)} \cup
  {ReplaceAt(w, i, b) : i \in 1..Len(w), b \in Bytes}

Broken == UNION {Wrong(m.wire) : m \in MessagesEnding({<<"0", ";">>})}

ChunkedRequests ==
  {Request(<<>>, w, "chunked", -1) : w \in Oversized \cup Wires \cup Broken}

-----------------------------------------------------------------------------

Heads ==
  UNION {[1..n -> {"0", "CR", "LF"}] : n \in 0..2}
  \cup {<<"0", "0", "0", "0">>, <<"0", "0", "0", "0", "0">>}

ChunkedBodies ==
  {FoldLeft(LAMBDA w, i : w \o Chunk(<<"0", ";">>, <<>>), <<>>, [i \in 1..n |-> i])
     \o <<"0">> \o CRLF \o CRLF : n \in 0..3}
  \cup {<<"2", "0", "0", "CR">>, Chunk(<<"0", ";">>, <<>>) \o <<";", "CR", "LF", "0">>}

PlainBodies == {<<>>, <<"0", "2">>, <<"0", "2", ";">>}

SmallRequests ==
  {Request(h, b, te, cl) : h \in Heads, b \in PlainBodies, te \in {"none", "other"}, cl \in -2..5}
  \cup {Request(h, b, "chunked", cl) : h \in Heads, b \in ChunkedBodies, cl \in {-2, -1, 2}}

AllRequests == SmallRequests \cup ChunkedRequests

-----------------------------------------------------------------------------

Wire == Received(header_end + 1, Len(request.bytes))

\* Wherever the reads split it, a message of the grammar whose body fits is decoded into
\* that body when its last byte is read and not before; one with a size that overflows is
\* refused, and the size never taken for the 0 it wraps to.
DecodesAnySplit ==
  Fed =>
    /\ Wire \in Wires /\ Len(BodyOf[Wire]) <= MaxBody =>
         IF pos < Len(request.bytes)
         THEN phase = "chunked"
         ELSE out = [head |-> header_end, body |-> BodyOf[Wire]]
    /\ Wire \in Oversized => out = Nothing
================================================================================
