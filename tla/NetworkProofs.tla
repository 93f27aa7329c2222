----------------------------- MODULE NetworkProofs -----------------------------
(***************************************************************************)
(* What the request reader finds and returns, for all requests, limits and *)
(* sizes of the reads.  The proof goes in four parts: the decoder of       *)
(* chunked bodies ends in the same state for a block as for its bytes one  *)
(* by one; so what it was fed up to any point is known from the peer's     *)
(* bytes alone; the reader's invariant says so for each phase; and a       *)
(* message of the grammar takes the decoder, byte by byte, to its body.    *)
(* Then the safety of the TLS sessions, for any number of threads,         *)
(* descriptors, slots and SSL objects.  The reader's theorems are about    *)
(* its own specification, those of the sessions about MCNetwork's, whose   *)
(* behaviours are, for the sessions, the ones of TlsSessions.              *)
(***************************************************************************)
EXTENDS MCNetwork, WellFoundedInduction, SequenceTheorems, TLAPS

-----------------------------------------------------------------------------
(* Induction and recursion over the numbers.                               *)

\* A set of numbers has a least one.
LEMMA LeastNat == \A S \in SUBSET Nat : S # {} => \E n \in S : \A m \in S : n <= m
<1> SUFFICES ASSUME NEW S \in SUBSET Nat, S # {} PROVE \E n \in S : \A m \in S : n <= m
  OBVIOUS
<1> DEFINE R == OpToRel(<, Nat)
<1>1. \A a, b \in Nat : <<a, b>> \in R <=> a < b
  BY DEF OpToRel
<1>2. \E x \in S : \A y \in S : ~(<<y, x>> \in R)
  <2> HIDE DEF R
  <2>1. IsWellFoundedOn(R, Nat)
    BY NatLessThanWellFounded, Zenon DEF R
  <2> QED BY <2>1, WFMin, Zenon
<1> HIDE DEF R
<1>3. PICK x \in S : \A y \in S : ~(<<y, x>> \in R)
  BY <1>2, Zenon
<1>4. \A y \in S : ~(y < x)
  BY <1>1, <1>3
<1> QED
  BY <1>4

\* Induction over the numbers, for a set in the place of a predicate.
LEMMA Induction ==
  ASSUME NEW S, 0 \in S, \A n \in Nat : n \in S => n + 1 \in S
  PROVE  \A n \in Nat : n \in S
<1> SUFFICES ASSUME {n \in Nat : n \notin S} # {} PROVE FALSE
  OBVIOUS
<1>1. PICK k \in {n \in Nat : n \notin S} : \A m \in {n \in Nat : n \notin S} : k <= m
  BY LeastNat
<1>2. k # 0
  BY <1>1
<1>3. k - 1 \in Nat /\ k - 1 \in S
  BY <1>1, <1>2
<1> QED
  BY <1>1, <1>3

\* f is what a function defined by recursion on the numbers up to N has to be.
IsRun(f, D, x, N, g) ==
  f \in [0..N -> D] /\ f[0] = x /\ \A n \in 1..N : f[n] = g[<<f[n - 1], n>>]

\* Such a function exists.
LEMMA Recursion ==
  ASSUME NEW D, NEW x \in D, NEW N \in Nat, NEW g \in [D \X (1..N) -> D]
  PROVE  \E f : IsRun(f, D, x, N, g)
<1> DEFINE Runs(m) == {f \in [0..m -> D] : f[0] = x /\ \A n \in 1..m : f[n] = g[<<f[n - 1], n>>]}
           S == {m \in Nat : m <= N => Runs(m) # {}}
<1>1. 0 \in S
  <2>1. [n \in 0..0 |-> x] \in Runs(0)
    OBVIOUS
  <2> QED
    BY <2>1
<1>2. ASSUME NEW m \in Nat, m \in S PROVE m + 1 \in S
  <2> SUFFICES ASSUME m + 1 <= N PROVE Runs(m + 1) # {}
    OBVIOUS
  <2>1. PICK f \in [0..m -> D] : f[0] = x /\ \A n \in 1..m : f[n] = g[<<f[n - 1], n>>]
    BY <1>2
  <2> DEFINE h == [n \in 0..(m + 1) |-> IF n = m + 1 THEN g[<<f[m], m + 1>>] ELSE f[n]]
  <2>2. g[<<f[m], m + 1>>] \in D
    <3>1. f[m] \in D /\ m + 1 \in 1..N
      OBVIOUS
    <3>2. <<f[m], m + 1>> \in D \X (1..N)
      BY <3>1
    <3> QED
      BY <3>2
  <2>3. h \in [0..(m + 1) -> D] /\ h[0] = x
    BY <2>1, <2>2
  <2>4. \A n \in 1..(m + 1) : h[n] = g[<<h[n - 1], n>>]
    <3>1. \A n \in 0..m : h[n] = f[n]
      OBVIOUS
    <3>2. h[m + 1] = g[<<f[m], m + 1>>]
      OBVIOUS
    <3> HIDE DEF h
    <3>3. \A n \in 1..m : h[n] = g[<<h[n - 1], n>>]
      BY <2>1, <3>1
    <3>4. h[m + 1] = g[<<h[m + 1 - 1], m + 1>>]
      BY <3>1, <3>2
    <3> QED
      BY <3>3, <3>4
  <2> QED
    BY <2>3, <2>4
<1> HIDE DEF S
<1>3. N \in S
  BY <1>1, <1>2, Induction
<1> QED
  BY <1>3 DEF S, IsRun

\* The limits.
LEMMA Constants ==
  /\ SizeMax \in Nat /\ MaxBody \in Nat /\ ReadChunk \in Nat /\ MaxHeader \in Nat
  /\ 0 < ReadChunk /\ ReadChunk <= MaxBody /\ ReadChunk <= MaxHeader /\ MaxHeader <= MaxBody + 4
BY ChunkDecoderAssumption, HttpRequestReaderAssumption

-----------------------------------------------------------------------------
(* The decoder.                                                            *)

\* The states of the decoder: in DATA some of the chunk is missing.
States ==
  {d \in [phase : Phases, need : Nat, digits : Nat, in_ext : BOOLEAN, body : Seq(Bytes)] :
     d.phase = "DATA" => d.need > 0}

\* The decoder after one more byte.
Plus(d, b) == Turn([d |-> d, i |-> 0], <<b>>).d

\* f[n] is the decoder after the first n bytes of a block, one by one.
Bytewise(f, d, block) ==
  /\ f \in [0..Len(block) -> States]
  /\ f[0] = d
  /\ \A n \in 1..Len(block) : f[n] = Plus(f[n - 1], block[n])

\* A size that wraps around once.
LEMMA ModOnce == ASSUME NEW m \in Nat, NEW a \in 0..(m - 1) PROVE (a + m) % m = a
OBVIOUS

\* A read that is not larger than MaxBody is taken if the body stays within MaxBody.
LEMMA FitsExactly ==
  ASSUME NEW n \in 0..MaxBody, NEW k \in Nat
  PROVE  Fits(k, n) <=> k + n <= MaxBody
<1>1. MaxBody + SizeMax + 1 - n = (MaxBody - n) + (SizeMax + 1)
  BY ChunkDecoderAssumption
<1>2. (MaxBody - n) \in 0..((SizeMax + 1) - 1) /\ SizeMax + 1 \in Nat
  BY ChunkDecoderAssumption
<1>3. (MaxBody + SizeMax + 1 - n) % (SizeMax + 1) = MaxBody - n
  BY <1>1, <1>2, ModOnce
<1> QED
  BY <1>3, ChunkDecoderAssumption DEF Fits

\* A byte of framing leaves the body alone.
LEMMA DecodeByteState ==
  ASSUME NEW d \in States, d.phase \notin {"DATA", "DONE", "ERROR"}, NEW b \in Bytes
  PROVE  DecodeByte(d, b) \in States /\ DecodeByte(d, b).body = d.body
<1> USE DEF States, Phases, Fail
<1>1. Fail(d) \in States /\ Fail(d).body = d.body
  OBVIOUS
<1>2. CASE d.phase = "SIZE"
  <2>1. DecodeByte(d, b) = DecodeSize(d, b)
    BY <1>2 DEF DecodeByte
  <2>2. CASE b \in DOMAIN HexValue /\ ~d.in_ext
    <3>1. AddDigit(d, HexValue[b]) \in States /\ AddDigit(d, HexValue[b]).body = d.body
      <4>1. HexValue[b] \in Nat
        BY <2>2 DEF HexValue
      <4>2. d.need * 16 + HexValue[b] \in Nat
        BY <4>1
      <4> DEFINE more == [d EXCEPT !.need = @ * 16 + HexValue[b], !.digits = @ + 1]
      <4>3. more \in States /\ more.body = d.body
        <5>1. \A m, n \in Nat : LET e == [d EXCEPT !.need = m, !.digits = n]
                                IN  e \in States /\ e.body = d.body
          BY <1>2
        <5>2. d.digits + 1 \in Nat
          OBVIOUS
        <5> QED
          BY <4>2, <5>1, <5>2
      <4>4. AddDigit(d, HexValue[b]) \in {Fail(d), more}
        BY DEF AddDigit
      <4> QED
        BY <1>1, <4>3, <4>4
    <3>2. b # "CR" /\ b # ";"
      BY <2>2 DEF HexValue
    <3>3. DecodeSize(d, b) = AddDigit(d, HexValue[b])
      BY <2>2, <3>2 DEF DecodeSize
    <3> QED
      BY <2>1, <3>1, <3>3
  <2>3. CASE ~(b \in DOMAIN HexValue /\ ~d.in_ext)
    <3>1. DecodeSize(d, b) \in
            {[d EXCEPT !.phase = "SIZE_LF"], d, [d EXCEPT !.in_ext = TRUE], Fail(d)}
      BY <2>3 DEF DecodeSize
    <3> QED
      BY <1>1, <1>2, <2>1, <3>1
  <2> QED
    BY <2>2, <2>3
<1>3. CASE d.phase = "SIZE_LF"
  BY <1>1, <1>3 DEF DecodeByte
<1>5. CASE d.phase \in {"DATA_CR", "DATA_LF"}
  <2>1. NextSize(d) \in States /\ NextSize(d).body = d.body
    BY DEF NextSize
  <2>2. DecodeByte(d, b) \in {Fail(d), NextSize(d), [d EXCEPT !.phase = "DATA_LF"]}
    BY <1>5 DEF DecodeByte, Expect
  <2> QED
    BY <1>1, <2>1, <2>2
<1>4. CASE d.phase \in {"TRAILER", "TRAILER_LF", "TRAILER_SKIP", "TRAILER_SKIP_LF"}
  BY <1>1, <1>4 DEF DecodeByte, Expect
<1> QED
  BY <1>2, <1>3, <1>4, <1>5 DEF States, Phases

\* d after it has taken bytes of its chunk.
Taken(d, bytes) ==
  [d EXCEPT !.body = @ \o bytes,
            !.need = @ - Len(bytes),
            !.phase = IF d.need = Len(bytes) THEN "DATA_CR" ELSE "DATA"]

\* Data that was taken ends the body, and the chunk misses so much less.
LEMMA TakenState ==
  ASSUME NEW d \in States, NEW bytes \in Seq(Bytes), Len(bytes) <= d.need
  PROVE  /\ Taken(d, bytes) \in States
         /\ Taken(d, bytes).body = d.body \o bytes
         /\ Len(Taken(d, bytes).body) = Len(d.body) + Len(bytes)
         /\ Taken(d, bytes).need = d.need - Len(bytes)
         /\ Taken(d, bytes).phase = IF d.need = Len(bytes) THEN "DATA_CR" ELSE "DATA"
<1>1. d.body \o bytes \in Seq(Bytes) /\ Len(d.body \o bytes) = Len(d.body) + Len(bytes)
  BY ConcatProperties DEF States
<1>2. d.need - Len(bytes) \in Nat
  BY LenProperties DEF States
<1>3. \A b \in Seq(Bytes), n \in Nat, p \in {"DATA", "DATA_CR"} :
        n > 0 \/ p = "DATA_CR" => [d EXCEPT !.body = b, !.need = n, !.phase = p] \in States
  BY DEF States, Phases
<1>4. d.need # Len(bytes) => d.need - Len(bytes) > 0
  BY LenProperties DEF States
<1>5. Taken(d, bytes) = [d EXCEPT !.body = d.body \o bytes, !.need = d.need - Len(bytes),
                                  !.phase = IF d.need = Len(bytes) THEN "DATA_CR" ELSE "DATA"]
  BY DEF Taken
<1>6. Taken(d, bytes) \in States
  <2>1. CASE d.need = Len(bytes)
    <3>1. [d EXCEPT !.body = d.body \o bytes, !.need = d.need - Len(bytes),
                    !.phase = "DATA_CR"] \in States
      BY <1>1, <1>2, <1>3
    <3> QED
      BY <1>5, <2>1, <3>1
  <2>2. CASE d.need # Len(bytes)
    <3>1. [d EXCEPT !.body = d.body \o bytes, !.need = d.need - Len(bytes),
                    !.phase = "DATA"] \in States
      BY <1>1, <1>2, <1>3, <1>4, <2>2
    <3> QED
      BY <1>5, <2>2, <3>1
  <2> QED
    BY <2>1, <2>2
<1> QED
  BY <1>1, <1>5, <1>6 DEF States

\* A decoder that fails keeps its body.
LEMMA FailState ==
  ASSUME NEW d \in States
  PROVE  Fail(d) \in States /\ Fail(d).phase = "ERROR" /\ Fail(d).body = d.body
BY DEF Fail, States, Phases

\* Data is taken if it fits.
LEMMA TakeDataIs ==
  ASSUME NEW d, NEW bytes
  PROVE  TakeData(d, bytes) =
           IF Fits(Len(d.body), Len(bytes)) THEN Taken(d, bytes) ELSE Fail(d)
BY Zenon DEF TakeData, Taken

\* One byte, by the phase that meets it.
LEMMA PlusIs ==
  ASSUME NEW d \in States, NEW b \in Bytes
  PROVE  Plus(d, b) = IF d.phase \in {"DONE", "ERROR"} THEN d
                      ELSE IF d.phase = "DATA" THEN TakeData(d, <<b>>)
                      ELSE DecodeByte(d, b)
<1>1. Len(<<b>>) = 1 /\ <<b>>[1] = b /\ SubSeq(<<b>>, 1, 1) = <<b>>
  <2>1. <<b>> \in Seq(Bytes) /\ Len(<<b>>) = 1 /\ <<b>>[1] = b
    OBVIOUS
  <2> QED
    BY <2>1, SubSeqFull
<1>2. CASE d.phase \in {"DONE", "ERROR"}
  BY <1>1, <1>2 DEF Plus, Turn
<1>3. CASE d.phase = "DATA"
  <2>1. d.need \in Nat /\ d.need > 0
    BY <1>3 DEF States
  <2>2. (IF Len(<<b>>) - 0 > d.need THEN d.need ELSE Len(<<b>>) - 0) = 1
    BY <1>1, <2>1
  <2>3. Turn([d |-> d, i |-> 0], <<b>>).d = TakeData(d, SubSeq(<<b>>, 0 + 1, 0 + 1))
    BY <1>1, <1>3, <2>2 DEF Turn
  <2>4. SubSeq(<<b>>, 0 + 1, 0 + 1) = <<b>>
    BY <1>1
  <2>5. Plus(d, b) = TakeData(d, <<b>>)
    BY <2>3, <2>4 DEF Plus
  <2> QED
    BY <1>3, <2>5
<1>4. CASE d.phase \notin {"DATA", "DONE", "ERROR"}
  BY <1>1, <1>4 DEF Plus, Turn
<1> QED
  BY <1>2, <1>3, <1>4

\* One more byte leaves the decoder in one of its states.
LEMMA PlusState ==
  ASSUME NEW d \in States, NEW b \in Bytes
  PROVE  Plus(d, b) \in States
<1>1. CASE d.phase \in {"DONE", "ERROR"}
  BY <1>1, PlusIs
<1>2. CASE d.phase = "DATA"
  <2>1. <<b>> \in Seq(Bytes) /\ Len(<<b>>) <= d.need
    BY <1>2 DEF States
  <2> QED
    BY <1>2, <2>1, PlusIs, TakeDataIs, TakenState, FailState
<1>3. CASE d.phase \notin {"DATA", "DONE", "ERROR"}
  BY <1>3, PlusIs, DecodeByteState
<1> QED
  BY <1>1, <1>2, <1>3

\* One byte of a chunk is taken if the body has room for it.
LEMMA PlusData ==
  ASSUME NEW d \in States, d.phase = "DATA", NEW b \in Bytes
  PROVE  Plus(d, b) = IF Len(d.body) + 1 <= MaxBody THEN Taken(d, <<b>>) ELSE Fail(d)
<1>1. 1 \in 0..MaxBody /\ Len(<<b>>) = 1
  BY HttpRequestReaderAssumption, ChunkDecoderAssumption
<1>2. Len(d.body) \in Nat
  BY LenProperties DEF States
<1>3. Fits(Len(d.body), Len(<<b>>)) <=> Len(d.body) + 1 <= MaxBody
  BY <1>1, <1>2, FitsExactly
<1> QED
  BY <1>3, PlusIs, TakeDataIs

\* A part of a block.
LEMMA PartIs ==
  ASSUME NEW block \in Seq(Bytes), NEW i \in Nat, NEW j \in Nat, i + j <= Len(block)
  PROVE  SubSeq(block, i + 1, i + j) \in Seq(Bytes) /\ Len(SubSeq(block, i + 1, i + j)) = j
<1>1. \A k \in (i + 1)..(i + j) : block[k] \in Bytes
  BY ElementOfSeq
<1>2. i + 1 \in Int /\ i + j \in Int
  OBVIOUS
<1> DEFINE t == SubSeq(block, i + 1, i + j)
<1>3. t \in Seq(Bytes) /\ Len(t) = IF i + 1 <= i + j THEN i + j - (i + 1) + 1 ELSE 0
  BY <1>1, <1>2, SubSeqProperties
<1> QED
  BY <1>3

\* Bytes that are taken one by one are taken as all of them at once.
LEMMA TakenAgain ==
  ASSUME NEW d \in States, NEW block \in Seq(Bytes),
         NEW i \in 0..Len(block), NEW j \in Nat, i + j + 1 <= Len(block), j < d.need
  PROVE  Taken(Taken(d, SubSeq(block, i + 1, i + j)), <<block[i + j + 1]>>)
           = Taken(d, SubSeq(block, i + 1, i + j + 1))
<1> DEFINE s == SubSeq(block, i + 1, i + j)
           t == SubSeq(block, i + 1, i + j + 1)
           b == block[i + j + 1]
<1>1. s \in Seq(Bytes) /\ Len(s) = j
  BY PartIs
<1>2. b \in Bytes /\ <<b>> \in Seq(Bytes) /\ Len(<<b>>) = 1
  BY ElementOfSeq
<1>3. t = s \o <<b>>
  <2>1. i + 1 \in 1..Len(block) /\ i + j + 1 \in (i + 1)..Len(block)
    OBVIOUS
  <2>2. t = SubSeq(block, i + 1, i + j + 1 - 1) \o <<b>>
    BY <2>1, SubSeqRecursiveSecond
  <2>3. i + j + 1 - 1 = i + j
    OBVIOUS
  <2> QED
    BY <2>2, <2>3
<1>4. t \in Seq(Bytes) /\ Len(t) = j + 1
  BY <1>1, <1>2, <1>3, ConcatProperties
<1> HIDE DEF s, t, b
<1> DEFINE e == Taken(d, s)
<1>5. /\ e \in States
      /\ e.body = d.body \o s
      /\ e.need = d.need - j
      /\ e.phase = "DATA"
  <2>1. Len(s) <= d.need /\ d.need # Len(s)
    BY <1>1 DEF States
  <2> QED
    BY <1>1, <2>1, TakenState
<1>6. e = [d EXCEPT !.body = d.body \o s, !.need = d.need - j, !.phase = "DATA"]
  <2>1. d.need # Len(s)
    BY <1>1
  <2> QED
    BY <1>1, <2>1 DEF Taken
<1>7. (d.body \o s) \o <<b>> = d.body \o t
  <2>1. d.body \in Seq(Bytes)
    BY DEF States
  <2> QED
    <3>1. s \in Seq(Bytes) /\ <<b>> \in Seq(Bytes)
      BY <1>1, <1>2
    <3>0. \A x, y, u \in Seq(Bytes) : (x \o y) \o u = x \o (y \o u)
      OBVIOUS
    <3>2. \A u \in Seq(Bytes) : (d.body \o s) \o u = d.body \o (s \o u)
      BY <2>1, <3>0, <3>1, Zenon
    <3>3. (d.body \o s) \o <<b>> = d.body \o (s \o <<b>>)
      BY <3>1, <3>2
    <3> QED
      BY <1>3, <3>3
<1>8. e.need - 1 = d.need - (j + 1) /\ (e.need = 1 <=> d.need = j + 1)
  BY <1>5 DEF States
<1>9. Taken(e, <<b>>) = [e EXCEPT !.body = (d.body \o s) \o <<b>>, !.need = e.need - 1,
                                  !.phase = IF e.need = 1 THEN "DATA_CR" ELSE "DATA"]
  BY <1>2, <1>5 DEF Taken
<1>10. Taken(d, t) = [d EXCEPT !.body = d.body \o t, !.need = d.need - (j + 1),
                               !.phase = IF d.need = j + 1 THEN "DATA_CR" ELSE "DATA"]
  BY <1>4 DEF Taken
<1> HIDE DEF e
<1>11. Taken(e, <<b>>) = Taken(d, t)
  <2>1. \A b1, n1, p1, b2, n2, p2 :
          [[d EXCEPT !.body = b1, !.need = n1, !.phase = p1]
             EXCEPT !.body = b2, !.need = n2, !.phase = p2]
            = [d EXCEPT !.body = b2, !.need = n2, !.phase = p2]
    BY DEF States
  <2> QED
    <3> DEFINE p == IF d.need = j + 1 THEN "DATA_CR" ELSE "DATA"
               n == d.need - (j + 1)
    <3>1. Taken(e, <<b>>) = [e EXCEPT !.body = d.body \o t, !.need = n, !.phase = p]
      BY <1>7, <1>8, <1>9
    <3>2. Taken(d, t) = [d EXCEPT !.body = d.body \o t, !.need = n, !.phase = p]
      BY <1>10
    <3> HIDE DEF n, p
    <3> QED
      BY <1>6, <2>1, <3>1, <3>2, Zenon
<1> QED
  BY <1>11 DEF e, s, t, b

\* Bytes of a chunk, one by one, are taken as a whole, or fail when they exceed the limit.
LEMMA DataBytewise ==
  ASSUME NEW block \in Seq(Bytes), NEW f, NEW x, Bytewise(f, x, block),
         NEW i \in 0..Len(block), f[i].phase = "DATA",
         NEW take \in Nat, take <= f[i].need, i + take <= Len(block)
  PROVE  \A j \in 1..take :
           /\ Len(f[i].body) + j <= MaxBody =>
                f[i + j] = Taken(f[i], SubSeq(block, i + 1, i + j))
           /\ Len(f[i].body) + j > MaxBody => f[i + j].phase = "ERROR"
<1> DEFINE d == f[i]
           L == Len(d.body)
           Right(j) ==
             /\ L + j <= MaxBody => f[i + j] = Taken(d, SubSeq(block, i + 1, i + j))
             /\ L + j > MaxBody => f[i + j].phase = "ERROR"
           S == {j \in Nat : j + 1 <= take => Right(j + 1)}
<1>0. d \in States /\ L \in Nat /\ L = Len(d.body) /\ d.need \in Nat /\ take <= d.need
  BY LenProperties DEF Bytewise, States
<1>1. \A j \in Nat : j + 1 <= take => /\ i + j + 1 \in 1..Len(block)
                                      /\ block[i + j + 1] \in Bytes
                                      /\ f[i + j + 1] = Plus(f[i + j], block[i + j + 1])
                                      /\ f[i + j] \in States
  <2> SUFFICES ASSUME NEW j \in Nat, j + 1 <= take
               PROVE  /\ i + j + 1 \in 1..Len(block)
                      /\ block[i + j + 1] \in Bytes
                      /\ f[i + j + 1] = Plus(f[i + j], block[i + j + 1])
                      /\ f[i + j] \in States
    OBVIOUS
  <2>1. i + j + 1 \in 1..Len(block) /\ i + j \in 0..Len(block) /\ i + j + 1 - 1 = i + j
    BY LenProperties
  <2>2. block[i + j + 1] \in Bytes
    BY <2>1, ElementOfSeq
  <2>3. f[i + j + 1] = Plus(f[i + j + 1 - 1], block[i + j + 1])
    BY <2>1 DEF Bytewise
  <2>4. f[i + j] \in States
    BY <2>1 DEF Bytewise
  <2> QED
    BY <2>1, <2>2, <2>3, <2>4
<1>2. 0 \in S
  <2> SUFFICES ASSUME 1 <= take PROVE Right(1)
    BY SMT
  <2>1. i + 1 \in 1..Len(block) /\ block[i + 1] \in Bytes /\ f[i + 1] = Plus(d, block[i + 1])
    <3>1. 0 \in Nat /\ i + 0 + 1 = i + 1 /\ i + 0 = i /\ 0 + 1 <= take
      OBVIOUS
    <3> HIDE DEF d
    <3> QED
      BY <1>1, <3>1 DEF d
  <2>2. SubSeq(block, i + 1, i + 1) = <<block[i + 1]>>
    <3>1. i + 1 \in Int /\ \A k \in (i + 1)..(i + 1) : block[k] \in Bytes
      BY <2>1
    <3>2. /\ SubSeq(block, i + 1, i + 1) \in Seq(Bytes)
          /\ Len(SubSeq(block, i + 1, i + 1)) = 1
          /\ SubSeq(block, i + 1, i + 1)[1] = block[i + 1]
      BY <3>1, SubSeqProperties
    <3>3. /\ <<block[i + 1]>> \in Seq(Bytes)
          /\ Len(<<block[i + 1]>>) = 1
          /\ <<block[i + 1]>>[1] = block[i + 1]
      BY <2>1
    <3>4. 1..1 = {1}
      OBVIOUS
    <3> QED
      BY <3>2, <3>3, <3>4, SeqEqual
  <2>3. d.phase = "DATA"
    OBVIOUS
  <2> HIDE DEF d, L
  <2>4. f[i + 1] = IF L + 1 <= MaxBody
                   THEN Taken(d, <<block[i + 1]>>) ELSE Fail(d)
    BY <1>0, <2>1, <2>3, PlusData
  <2>5. CASE L + 1 <= MaxBody
    <3>1. ~(L + 1 > MaxBody)
      BY <1>0, <2>5, ChunkDecoderAssumption
    <3> QED
      BY <2>2, <2>4, <2>5, <3>1
  <2>6. CASE ~(L + 1 <= MaxBody)
    <3>1. f[i + 1].phase = "ERROR"
      BY <1>0, <2>4, <2>6, FailState
    <3> QED
      BY <2>6, <3>1
  <2> QED
    BY <2>5, <2>6
<1>3. ASSUME NEW j \in Nat, j \in S PROVE j + 1 \in S
  <2> SUFFICES ASSUME j + 1 + 1 <= take PROVE Right(j + 1 + 1)
    <3> HIDE DEF Right
    <3> QED
      OBVIOUS
  <2> HIDE DEF d, L
  <2> DEFINE k == j + 1
             b == block[i + k + 1]
  <2>0. k \in Nat /\ k + 1 <= take /\ k + 1 = j + 1 + 1
    OBVIOUS
  <2>9. L \in Nat /\ k \in Nat /\ MaxBody \in Nat
    BY <1>0, <2>0, ChunkDecoderAssumption
  <2>1. Right(k) /\ k \in Nat /\ k + 1 <= take /\ k + 1 = j + 1 + 1
    <3>1. j + 1 <= take
      OBVIOUS
    <3>2. Right(j + 1)
      BY <1>3, <3>1
    <3>3. Right(k)
      BY <3>2, Zenon
    <3>4. k \in Nat /\ k + 1 <= take /\ k + 1 = j + 1 + 1
      OBVIOUS
    <3> QED
      BY <3>3, <3>4, Zenon
  <2>2. b \in Bytes /\ f[i + k + 1] = Plus(f[i + k], b) /\ f[i + k] \in States
    BY <1>1, <2>1
  <2>3. CASE L + k > MaxBody
    <3>1. f[i + k].phase = "ERROR"
      BY <1>0, <2>1, <2>3
    <3>2. f[i + k + 1].phase = "ERROR"
      BY <2>2, <3>1, PlusIs
    <3>3. L + (k + 1) > MaxBody
      BY <2>9, <2>3
    <3>4. ~(L + (k + 1) <= MaxBody)
      BY <2>9, <3>3
    <3>5. i + k + 1 = i + (k + 1)
      OBVIOUS
    <3> QED
      BY <2>1, <3>2, <3>3, <3>4, <3>5
  <2>4. CASE L + k <= MaxBody
    <3> DEFINE s == SubSeq(block, i + 1, i + k)
    <3>1. f[i + k] = Taken(d, s)
      BY <2>1, <2>4
    <3>2. s \in Seq(Bytes) /\ Len(s) = k
      <4>1. i \in Nat /\ i + k <= Len(block)
        BY <2>0, LenProperties
      <4> QED
        BY <2>9, <4>1, PartIs
    <3>3. f[i + k].phase = "DATA" /\ Len(f[i + k].body) = L + k
      <4>1. Len(s) <= d.need /\ d.need # Len(s)
        <5>1. d.need \in Nat /\ take <= d.need
          BY <1>0
        <5>2. k + 1 <= d.need
          BY <2>0, <5>1
        <5> QED
          BY <2>9, <3>2, <5>1, <5>2
      <4>2. /\ Len(Taken(d, s).body) = L + Len(s)
            /\ Taken(d, s).phase = "DATA"
        BY <1>0, <3>2, <4>1, TakenState
      <4> QED
        BY <3>1, <3>2, <4>2
    <3>4. f[i + k + 1] = IF L + k + 1 <= MaxBody
                         THEN Taken(f[i + k], <<b>>) ELSE Fail(f[i + k])
      BY <2>2, <3>3, PlusData
    <3>5. Taken(f[i + k], <<b>>) = Taken(d, SubSeq(block, i + 1, i + k + 1))
      <4>1. i + k + 1 <= Len(block) /\ k < d.need
        BY <1>0, <2>0, LenProperties
      <4> QED
        BY <1>0, <2>1, <3>1, <4>1, TakenAgain
    <3>6. Fail(f[i + k]).phase = "ERROR"
      BY <2>2, FailState
    <3>7. i + k + 1 = i + (k + 1) /\ L + k + 1 = L + (k + 1)
      BY <2>9
    <3>8. CASE L + k + 1 <= MaxBody
      <4>1. ~(L + (k + 1) > MaxBody)
        BY <2>9, <3>8
      <4> QED
        BY <2>1, <3>4, <3>5, <3>7, <3>8, <4>1
    <3>9. CASE ~(L + k + 1 <= MaxBody)
      BY <2>1, <3>4, <3>6, <3>7, <3>9
    <3> QED
      BY <3>8, <3>9
  <2>5. L + k > MaxBody \/ L + k <= MaxBody
    BY <2>9
  <2> QED
    BY <2>3, <2>4, <2>5
<1> HIDE DEF S
<1>4. \A j \in Nat : j \in S
  BY <1>2, <1>3, Induction
<1>5. \A j \in 1..take : Right(j)
  <2> SUFFICES ASSUME NEW j \in 1..take PROVE Right(j)
    OBVIOUS
  <2>1. j - 1 \in Nat /\ j - 1 \in S /\ j - 1 + 1 = j
    BY <1>4
  <2> QED
    BY <2>1 DEF S
<1> QED
  BY <1>5

\* A turn in DATA does at once what its bytes do one by one.
LEMMA DataAtOnce ==
  ASSUME NEW block \in Seq(Bytes), NEW f, NEW x, Bytewise(f, x, block)
  PROVE  \A i \in 0..Len(block), take \in Nat :
           f[i].phase = "DATA" /\ 0 < take /\ take <= f[i].need /\ i + take <= Len(block) =>
             /\ Len(f[i].body) + take <= MaxBody =>
                  f[i + take] = Taken(f[i], SubSeq(block, i + 1, i + take))
             /\ Len(f[i].body) + take > MaxBody => f[i + take].phase = "ERROR"
<1> SUFFICES ASSUME NEW i \in 0..Len(block), NEW take \in Nat, f[i].phase = "DATA",
                    0 < take, take <= f[i].need, i + take <= Len(block)
             PROVE  /\ Len(f[i].body) + take <= MaxBody =>
                         f[i + take] = Taken(f[i], SubSeq(block, i + 1, i + take))
                    /\ Len(f[i].body) + take > MaxBody => f[i + take].phase = "ERROR"
  OBVIOUS
<1>1. take \in 1..take
  OBVIOUS
<1>2. \A j \in 1..take :
        /\ Len(f[i].body) + j <= MaxBody => f[i + j] = Taken(f[i], SubSeq(block, i + 1, i + j))
        /\ Len(f[i].body) + j > MaxBody => f[i + j].phase = "ERROR"
  BY DataBytewise
<1> QED
  BY <1>1, <1>2

\* DONE and ERROR are final.
LEMMA Final ==
  ASSUME NEW block \in Seq(Bytes), NEW f, NEW x, Bytewise(f, x, block),
         NEW i \in 0..Len(block), f[i].phase \in {"DONE", "ERROR"}
  PROVE  \A j \in i..Len(block) : f[j] = f[i]
<1> DEFINE S == {n \in Nat : i + n <= Len(block) => f[i + n] = f[i]}
<1>1. 0 \in S
  OBVIOUS
<1>2. ASSUME NEW n \in Nat, n \in S PROVE n + 1 \in S
  <2> SUFFICES ASSUME i + (n + 1) <= Len(block) PROVE f[i + (n + 1)] = f[i]
    OBVIOUS
  <2>1. i + n <= Len(block) /\ i + n \in 0..Len(block) /\ i + (n + 1) \in 1..Len(block)
        /\ i + (n + 1) - 1 = i + n
    BY LenProperties
  <2>2. f[i + n] = f[i]
    BY <1>2, <2>1
  <2>3. f[i + (n + 1)] = Plus(f[i + n], block[i + (n + 1)]) /\ f[i] \in States
    <3>1. f[i + (n + 1)] = Plus(f[i + (n + 1) - 1], block[i + (n + 1)])
      BY <2>1 DEF Bytewise
    <3>2. f[i] \in States
      BY DEF Bytewise
    <3> QED
      BY <2>1, <3>1, <3>2
  <2>4. block[i + (n + 1)] \in Bytes
    BY <2>1, ElementOfSeq
  <2> QED
    BY <2>2, <2>3, <2>4, PlusIs
<1> HIDE DEF S
<1>3. \A n \in Nat : n \in S
  BY <1>1, <1>2, Induction
<1> QED
  <2> SUFFICES ASSUME NEW j \in i..Len(block) PROVE f[j] = f[i]
    OBVIOUS
  <2>1. j - i \in Nat /\ i + (j - i) = j /\ j <= Len(block)
    BY LenProperties
  <2>2. j - i \in S
    BY <1>3, <2>1
  <2> QED
    BY <2>1, <2>2 DEF S

\* The next byte of a block.
LEMMA BytewiseStep ==
  ASSUME NEW block \in Seq(Bytes), NEW f, NEW x, Bytewise(f, x, block),
         NEW i \in 0..Len(block), i # Len(block)
  PROVE  /\ i + 1 \in 1..Len(block) /\ block[i + 1] \in Bytes
         /\ f[i] \in States /\ f[i + 1] \in States
         /\ f[i + 1] = Plus(f[i], block[i + 1])
<1>1. i + 1 \in 1..Len(block) /\ i + 1 - 1 = i /\ i + 1 \in 0..Len(block)
  BY LenProperties
<1>2. f[i + 1] = Plus(f[i + 1 - 1], block[i + 1]) /\ f[i] \in States /\ f[i + 1] \in States
  BY <1>1 DEF Bytewise
<1> QED
  BY <1>1, <1>2, ElementOfSeq

\* The decoder d is where the bytes one by one have taken it, to e; a block of more than
\* MaxBody may be taken although it is too large, which no reader asks for.
Agrees(d, e, block) ==
  /\ e.phase # "ERROR" => d = e
  /\ e.phase = "ERROR" /\ Len(block) <= MaxBody => d.phase = "ERROR"

\* How much of the chunk is taken in one turn.
Take(r, block) == IF Len(block) - r.i > r.d.need THEN r.d.need ELSE Len(block) - r.i

\* The turn in DATA agrees with the bytes it takes.
LEMMA TurnTakes ==
  ASSUME NEW block \in Seq(Bytes), NEW f, NEW x, Bytewise(f, x, block),
         NEW r \in [d : States, i : 0..Len(block)], Agrees(r.d, f[r.i], block),
         r.i # Len(block), r.d.phase = "DATA",
         NEW n, n = TakeData(r.d, SubSeq(block, r.i + 1, r.i + Take(r, block)))
  PROVE  /\ Take(r, block) \in 1..(Len(block) - r.i)
         /\ n \in States
         /\ Agrees(n, f[r.i + Take(r, block)], block)
         /\ Len(block) <= MaxBody /\ Len(r.d.body) <= MaxBody => Len(n.body) <= MaxBody
<1> DEFINE d == r.d
           i == r.i
           take == Take(r, block)
           s == SubSeq(block, i + 1, i + take)
<1>1. /\ d \in States /\ d.need \in Nat /\ d.need > 0 /\ d.body \in Seq(Bytes)
      /\ i \in Nat /\ Len(block) \in Nat /\ i < Len(block)
  BY LenProperties DEF States
<1>2. take \in 1..(Len(block) - i) /\ take <= d.need /\ take \in Nat /\ i + take <= Len(block)
  BY <1>1 DEF Take
<1>3. s \in Seq(Bytes) /\ Len(s) = take
  BY <1>1, <1>2, PartIs
<1>4. n = IF Fits(Len(d.body), take) THEN Taken(d, s) ELSE Fail(d)
  BY <1>3, TakeDataIs
<1> HIDE DEF take, s
<1>5. /\ Taken(d, s) \in States /\ Len(Taken(d, s).body) = Len(d.body) + take
      /\ Taken(d, s).phase # "ERROR"
  BY <1>1, <1>2, <1>3, TakenState
<1>6. Fail(d) \in States /\ Fail(d).phase = "ERROR" /\ Fail(d).body = d.body
  BY <1>1, FailState
<1>7. Len(d.body) \in Nat /\ MaxBody \in Nat
  BY <1>1, LenProperties, ChunkDecoderAssumption
<1>8. take <= MaxBody => (Fits(Len(d.body), take) <=> Len(d.body) + take <= MaxBody)
  <2> SUFFICES ASSUME take <= MaxBody
               PROVE  Fits(Len(d.body), take) <=> Len(d.body) + take <= MaxBody
    OBVIOUS
  <2>1. take \in 0..MaxBody
    BY <1>2, <1>7
  <2> QED
    BY <1>7, <2>1, FitsExactly
<1>9. Len(block) <= MaxBody => take <= MaxBody
  BY <1>1, <1>2, <1>7
<1>10. Len(d.body) + take <= MaxBody => take <= MaxBody
  BY <1>2, <1>7
<1>11. n \in States
  BY <1>4, <1>5, <1>6
<1>12. Len(block) <= MaxBody /\ Len(d.body) <= MaxBody => Len(n.body) <= MaxBody
  BY <1>4, <1>5, <1>6, <1>8, <1>9
<1>13. Agrees(n, f[i + take], block)
  <2>1. CASE f[i].phase = "ERROR"
    <3>1. i + take \in i..Len(block)
      BY <1>1, <1>2
    <3>2. f[i + take] = f[i]
      BY <1>1, <2>1, <3>1, Final
    <3>3. ~(Len(block) <= MaxBody)
      BY <2>1 DEF Agrees
    <3> QED
      BY <2>1, <3>2, <3>3 DEF Agrees
  <2>2. CASE f[i].phase # "ERROR"
    <3>1. d = f[i]
      BY <2>2 DEF Agrees
    <3>2. /\ Len(d.body) + take <= MaxBody => f[i + take] = Taken(d, s)
          /\ Len(d.body) + take > MaxBody => f[i + take].phase = "ERROR"
      <4>1. i \in 0..Len(block) /\ f[i].phase = "DATA" /\ take <= f[i].need /\ 0 < take
        BY <1>2, <3>1
      <4>2. /\ Len(f[i].body) + take <= MaxBody =>
                 f[i + take] = Taken(f[i], SubSeq(block, i + 1, i + take))
            /\ Len(f[i].body) + take > MaxBody => f[i + take].phase = "ERROR"
        <5>1. \A j \in 0..Len(block), m \in Nat :
           f[j].phase = "DATA" /\ 0 < m /\ m <= f[j].need /\ j + m <= Len(block) =>
             /\ Len(f[j].body) + m <= MaxBody =>
                  f[j + m] = Taken(f[j], SubSeq(block, j + 1, j + m))
             /\ Len(f[j].body) + m > MaxBody => f[j + m].phase = "ERROR"
          BY DataAtOnce
        <5>2. /\ i \in 0..Len(block) /\ take \in Nat /\ f[i].phase = "DATA" /\ 0 < take
              /\ take <= f[i].need /\ i + take <= Len(block)
          BY <1>2, <4>1
        <5> HIDE DEF i
        <5> QED
          BY <5>1, <5>2
      <4> QED
        BY <3>1, <4>2 DEF s
    <3>3. CASE Len(d.body) + take <= MaxBody
      <4>1. n = Taken(d, s)
        BY <1>4, <1>8, <1>10, <3>3
      <4> QED
        BY <1>5, <3>2, <3>3, <4>1 DEF Agrees
    <3>4. CASE Len(d.body) + take > MaxBody
      <4>1. ~(Len(d.body) + take <= MaxBody)
        BY <1>2, <1>7, <3>4
      <4>2. Len(block) <= MaxBody => n = Fail(d)
        BY <1>4, <1>8, <1>9, <4>1
      <4> QED
        BY <1>6, <3>2, <3>4, <4>2 DEF Agrees
    <3>5. Len(d.body) + take <= MaxBody \/ Len(d.body) + take > MaxBody
      BY <1>2, <1>7
    <3> QED
      BY <3>3, <3>4, <3>5
  <2> QED
    BY <2>1, <2>2
<1> QED
  BY <1>2, <1>11, <1>12, <1>13 DEF take

\* Turns of the loop over a block.
Turns(block) == [d : States, i : 0..Len(block)]

\* A turn uses a byte, unless the block or the message is at its end.
LEMMA TurnState ==
  ASSUME NEW block \in Seq(Bytes), NEW r \in Turns(block)
  PROVE  /\ Turn(r, block) \in Turns(block)
         /\ r.i = Len(block) \/ r.d.phase \in {"DONE", "ERROR"} => Turn(r, block) = r
         /\ ~(r.i = Len(block) \/ r.d.phase \in {"DONE", "ERROR"}) => Turn(r, block).i > r.i
<1>1. /\ r.d \in States /\ r.d.need \in Nat /\ r.i \in Nat /\ Len(block) \in Nat
      /\ r.i <= Len(block) /\ (Len(block) - r.i = 0 <=> r.i = Len(block))
  BY LenProperties DEF Turns, States
<1>2. CASE r.i = Len(block) \/ r.d.phase \in {"DONE", "ERROR"}
  BY <1>1, <1>2 DEF Turn
<1>3. CASE r.i # Len(block) /\ r.d.phase = "DATA"
  <2> DEFINE take == Take(r, block)
             s == SubSeq(block, r.i + 1, r.i + take)
  <2>1. /\ Turn(r, block) = [d |-> TakeData(r.d, s), i |-> r.i + take]
        /\ take \in Nat /\ take <= r.d.need /\ r.i + take <= Len(block) /\ take > 0
    <3>1. Len(block) - r.i # 0
      BY <1>1, <1>3
    <3>2. Turn(r, block) = [d |-> TakeData(r.d, s), i |-> r.i + take]
      BY <1>3, <3>1 DEF Turn, Take
    <3>3. r.d.need > 0 /\ r.i < Len(block)
      BY <1>1, <1>3 DEF States
    <3>4. take \in Nat /\ take <= r.d.need /\ r.i + take <= Len(block) /\ take > 0
      BY <1>1, <3>3 DEF Take
    <3> QED
      BY <3>2, <3>4
  <2> HIDE DEF take
  <2>2. s \in Seq(Bytes) /\ Len(s) = take
    BY <1>1, <2>1, PartIs
  <2> HIDE DEF s
  <2>3. TakeData(r.d, s) \in States
    BY <1>1, <2>1, <2>2, TakeDataIs, TakenState, FailState
  <2>4. r.i + take \in 0..Len(block) /\ r.i + take > r.i
    BY <1>1, <2>1
  <2> QED
    BY <1>3, <2>1, <2>3, <2>4 DEF Turns
<1>4. CASE r.i # Len(block) /\ r.d.phase \notin {"DATA", "DONE", "ERROR"}
  <2>1. Len(block) - r.i # 0
    BY <1>1, <1>4
  <2>2. Turn(r, block) = [d |-> DecodeByte(r.d, block[r.i + 1]), i |-> r.i + 1]
    BY <1>4, <2>1 DEF Turn
  <2>3. r.i + 1 \in 1..Len(block) /\ r.i + 1 \in 0..Len(block) /\ r.i + 1 > r.i
    BY <1>1, <1>4
  <2>4. DecodeByte(r.d, block[r.i + 1]) \in States
    BY <1>1, <1>4, <2>3, ElementOfSeq, DecodeByteState
  <2> QED
    BY <1>4, <2>2, <2>3, <2>4 DEF Turns
<1> QED
  BY <1>2, <1>3, <1>4

\* Each turn agrees with the bytes it uses.
LEMMA TurnAgrees ==
  ASSUME NEW block \in Seq(Bytes), NEW f, NEW x, Bytewise(f, x, block),
         NEW r \in Turns(block), Agrees(r.d, f[r.i], block),
         NEW n, n = Turn(r, block)
  PROVE  /\ Agrees(n.d, f[n.i], block)
         /\ Len(block) <= MaxBody /\ Len(r.d.body) <= MaxBody => Len(n.d.body) <= MaxBody
<1>1. /\ r.d \in States /\ r.d.need \in Nat /\ r.i \in Nat /\ Len(block) \in Nat
      /\ r.i \in 0..Len(block) /\ (Len(block) - r.i = 0 <=> r.i = Len(block))
  BY LenProperties DEF Turns, States
<1>2. CASE r.i = Len(block) \/ r.d.phase \in {"DONE", "ERROR"}
  BY <1>2, TurnState
<1>3. CASE r.i # Len(block) /\ r.d.phase = "DATA"
  <2> DEFINE e == TakeData(r.d, SubSeq(block, r.i + 1, r.i + Take(r, block)))
  <2>1. n = [d |-> e, i |-> r.i + Take(r, block)]
    <3>1. Len(block) - r.i # 0
      BY <1>1, <1>3
    <3> QED
      BY <1>3, <3>1 DEF Turn, Take
  <2>2. /\ Agrees(e, f[r.i + Take(r, block)], block)
        /\ Len(block) <= MaxBody /\ Len(r.d.body) <= MaxBody => Len(e.body) <= MaxBody
    BY <1>3, TurnTakes DEF Turns
  <2> HIDE DEF e
  <2>3. n.d = e /\ n.i = r.i + Take(r, block)
    BY <2>1
  <2> QED
    BY <2>2, <2>3
<1>4. CASE r.i # Len(block) /\ r.d.phase \notin {"DATA", "DONE", "ERROR"}
  <2> DEFINE b == block[r.i + 1]
             e == DecodeByte(r.d, b)
  <2>1. n.d = e /\ n.i = r.i + 1
    <3>1. Len(block) - r.i # 0
      BY <1>1, <1>4
    <3> QED
      BY <1>4, <3>1 DEF Turn
  <2>2. /\ r.i + 1 \in 1..Len(block) /\ b \in Bytes
        /\ f[r.i] \in States /\ f[r.i + 1] \in States
        /\ f[r.i + 1] = Plus(f[r.i], b)
    BY <1>1, <1>4, BytewiseStep
  <2>3. e \in States /\ e.body = r.d.body
    BY <1>1, <1>4, <2>2, DecodeByteState
  <2> HIDE DEF e
  <2>4. CASE f[r.i].phase = "ERROR"
    <3>1. ~(Len(block) <= MaxBody)
      BY <1>4, <2>4 DEF Agrees
    <3>2. f[r.i + 1].phase = "ERROR"
      BY <2>2, <2>4, PlusIs
    <3> QED
      BY <2>1, <3>1, <3>2 DEF Agrees
  <2>5. CASE f[r.i].phase # "ERROR"
    <3>1. r.d = f[r.i]
      BY <2>5 DEF Agrees
    <3>2. f[r.i + 1] = e
      BY <1>1, <1>4, <2>2, <3>1, PlusIs DEF e
    <3> QED
      BY <2>1, <2>3, <3>2 DEF Agrees
  <2> QED
    BY <2>4, <2>5
<1> QED
  BY <1>2, <1>3, <1>4

\* ckd_feed does with a block what it does with its bytes one by one, wherever a read has
\* put the block's end.
LEMMA FeedAgrees ==
  ASSUME NEW block \in Seq(Bytes), NEW f, NEW d \in States, Bytewise(f, d, block)
  PROVE  /\ Feed(d, block) \in States
         /\ Agrees(Feed(d, block), f[Len(block)], block)
         /\ Len(block) <= MaxBody /\ Len(d.body) <= MaxBody => Len(Feed(d, block).body) <= MaxBody
<1> DEFINE N == Len(block)
           D == Turns(block)
           first == [d |-> d, i |-> 0]
           g == [p \in D \X (1..N) |-> Turn(p[1], block)]
           run[k \in 0..N] == IF k = 0 THEN [d |-> d, i |-> 0] ELSE Turn(run[k - 1], block)
<1>1. N \in Nat /\ first \in D
  BY LenProperties DEF Turns
<1>2. g \in [D \X (1..N) -> D]
  BY TurnState
<1>3. PICK h \in [0..N -> D] : h[0] = first /\ \A n \in 1..N : h[n] = g[<<h[n - 1], n>>]
  <2> HIDE DEF g, D, N, first
  <2>1. \E h : IsRun(h, D, first, N, g)
    BY <1>1, <1>2, Recursion
  <2> QED
    BY <2>1 DEF IsRun
<1>4. \A n \in 1..N : h[n] = Turn(h[n - 1], block)
  <2> SUFFICES ASSUME NEW n \in 1..N PROVE h[n] = Turn(h[n - 1], block)
    OBVIOUS
  <2>1. h[n - 1] \in D /\ <<h[n - 1], n>> \in D \X (1..N)
    BY <1>1, <1>3
  <2>2. g[<<h[n - 1], n>>] = Turn(h[n - 1], block)
    BY <2>1
  <2> QED
    BY <1>3, <2>2
<1>5. h = [k \in 0..N |-> IF k = 0 THEN [d |-> d, i |-> 0] ELSE Turn(h[k - 1], block)]
  BY <1>1, <1>3, <1>4
<1>6. run = [k \in 0..N |-> IF k = 0 THEN [d |-> d, i |-> 0] ELSE Turn(run[k - 1], block)]
  <2> HIDE DEF N
  <2> QED
    BY <1>5, Zenon
<1>7. Feed(d, block) = run[N].d
  BY DEF Feed
<1> HIDE DEF run, g, D, N
<1> DEFINE S == {k \in Nat : k <= N =>
                   /\ run[k] \in Turns(block)
                   /\ Agrees(run[k].d, f[run[k].i], block)
                   /\ Len(block) <= MaxBody /\ Len(d.body) <= MaxBody => Len(run[k].d.body) <= MaxBody
                   /\ run[k].i >= k \/ run[k].d.phase \in {"DONE", "ERROR"}}
<1>8. 0 \in S
  <2>1. run[0] = first
    BY <1>1, <1>6
  <2>2. f[0] = d
    BY DEF Bytewise
  <2> QED
    BY <1>1, <2>1, <2>2 DEF Agrees, D
<1>9. ASSUME NEW k \in Nat, k \in S PROVE k + 1 \in S
  <2> SUFFICES ASSUME k + 1 <= N
      PROVE /\ run[k + 1] \in Turns(block)
            /\ Agrees(run[k + 1].d, f[run[k + 1].i], block)
            /\ Len(block) <= MaxBody /\ Len(d.body) <= MaxBody => Len(run[k + 1].d.body) <= MaxBody
            /\ run[k + 1].i >= k + 1 \/ run[k + 1].d.phase \in {"DONE", "ERROR"}
    OBVIOUS
  <2>1. k <= N /\ k + 1 \in 0..N /\ k + 1 # 0 /\ k + 1 - 1 = k
    BY <1>1
  <2>2. run[k + 1] = Turn(run[k], block)
    BY <1>6, <2>1
  <2> DEFINE r == run[k]
  <2>3. /\ r \in Turns(block)
        /\ Agrees(r.d, f[r.i], block)
        /\ Len(block) <= MaxBody /\ Len(d.body) <= MaxBody => Len(r.d.body) <= MaxBody
        /\ r.i >= k \/ r.d.phase \in {"DONE", "ERROR"}
    BY <1>9, <2>1
  <2> HIDE DEF r
  <2>4. run[k + 1] \in Turns(block)
    BY <2>2, <2>3, TurnState DEF r
  <2>5. /\ Agrees(run[k + 1].d, f[run[k + 1].i], block)
        /\ Len(block) <= MaxBody /\ Len(r.d.body) <= MaxBody => Len(run[k + 1].d.body) <= MaxBody
    BY <2>2, <2>3, TurnAgrees DEF r
  <2>6. run[k + 1].i >= k + 1 \/ run[k + 1].d.phase \in {"DONE", "ERROR"}
    <3>1. r.i \in Nat /\ run[k + 1].i \in Nat /\ r.i <= N
      BY <2>3, <2>4, LenProperties DEF Turns, N
    <3>2. CASE r.d.phase \in {"DONE", "ERROR"}
      BY <2>2, <2>3, <3>2, TurnState DEF r
    <3>3. CASE r.i = N
      <4>1. run[k + 1] = r
        BY <2>2, <2>3, <3>3, TurnState DEF r, N
      <4> QED
        BY <3>3, <4>1
    <3>4. CASE r.i # N /\ r.d.phase \notin {"DONE", "ERROR"}
      <4>1. run[k + 1].i > r.i
        BY <2>2, <2>3, <3>4, TurnState DEF r, N
      <4>2. r.i >= k
        BY <2>3, <3>4
      <4> QED
        BY <3>1, <4>1, <4>2
    <3> QED
      BY <3>2, <3>3, <3>4
  <2> QED
    BY <2>3, <2>4, <2>5, <2>6
<1> HIDE DEF S
<1>10. N \in S
  BY <1>1, <1>8, <1>9, Induction
<1> DEFINE r == run[N]
<1>11. /\ r \in Turns(block)
       /\ Agrees(r.d, f[r.i], block)
       /\ Len(block) <= MaxBody /\ Len(d.body) <= MaxBody => Len(r.d.body) <= MaxBody
       /\ r.i >= N \/ r.d.phase \in {"DONE", "ERROR"}
  BY <1>1, <1>10 DEF S
<1> HIDE DEF r
<1>12. r.i \in 0..N /\ r.d \in States
  BY <1>11 DEF Turns, N
<1>13. Agrees(r.d, f[N], block)
  <2>1. CASE r.i = N
    BY <1>11, <2>1
  <2>2. CASE r.i # N
    <3>1. r.d.phase \in {"DONE", "ERROR"}
      BY <1>1, <1>11, <1>12, <2>2
    <3>2. CASE f[r.i].phase = "ERROR"
      <4>1. f[N] = f[r.i]
        BY <1>1, <1>12, <3>2, Final DEF N
      <4> QED
        BY <1>11, <4>1
    <3>3. CASE f[r.i].phase # "ERROR"
      <4>1. f[r.i].phase = "DONE"
        BY <1>11, <3>1, <3>3 DEF Agrees
      <4>2. f[N] = f[r.i]
        BY <1>1, <1>12, <4>1, Final DEF N
      <4> QED
        BY <1>11, <4>2
    <3> QED
      BY <3>2, <3>3
  <2> QED
    BY <2>1, <2>2
<1> QED
  BY <1>7, <1>11, <1>12, <1>13 DEF r, N

\* A new decoder.
LEMMA DecoderState == Decoder \in States /\ Len(Decoder.body) = 0
<1>1. <<>> \in Seq(Bytes) /\ Len(<<>>) = 0
  OBVIOUS
<1> QED
  BY <1>1 DEF Decoder, States, Phases

\* A block of one byte.
LEMMA FeedOne ==
  ASSUME NEW d \in States, NEW b \in Bytes
  PROVE  Feed(d, <<b>>) = Plus(d, b)
<1> DEFINE block == <<b>>
           first == [d |-> d, i |-> 0]
           run[k \in 0..Len(block)] == IF k = 0 THEN [d |-> d, i |-> 0] ELSE Turn(run[k - 1], block)
           h == [k \in 0..Len(block) |-> IF k = 0 THEN first ELSE Turn(first, block)]
<1>1. Len(block) = 1
  OBVIOUS
<1>2. Feed(d, block) = run[Len(block)].d
  BY DEF Feed
<1>3. h = [k \in 0..Len(block) |-> IF k = 0 THEN [d |-> d, i |-> 0] ELSE Turn(h[k - 1], block)]
  <2>1. \A k \in 0..1 : k # 0 => h[k - 1] = first
    BY <1>1
  <2> HIDE DEF block
  <2>2. \A k \in 0..Len(block) : h[k] = IF k = 0 THEN first ELSE Turn(h[k - 1], block)
    <3> SUFFICES ASSUME NEW k \in 0..Len(block)
                 PROVE  h[k] = IF k = 0 THEN first ELSE Turn(h[k - 1], block)
      OBVIOUS
    <3>1. h[k] = IF k = 0 THEN first ELSE Turn(first, block)
      OBVIOUS
    <3> HIDE DEF h, first
    <3> QED
      BY <1>1, <2>1, <3>1
  <2> QED
    BY <2>2
<1>4. run = [k \in 0..Len(block) |-> IF k = 0 THEN [d |-> d, i |-> 0] ELSE Turn(run[k - 1], block)]
  <2> HIDE DEF block, h
  <2> QED
    BY <1>3, Zenon
<1> HIDE DEF run, h, block
<1>5. run[0] = first
  BY <1>1, <1>4
<1>6. run[1] = Turn(run[0], block)
  <2>1. 1 \in 0..Len(block) /\ 1 # 0 /\ 1 - 1 = 0
    BY <1>1
  <2> QED
    BY <1>4, <2>1
<1> QED
  BY <1>1, <1>2, <1>5, <1>6 DEF Plus, block

\* The decoder can be fed any block byte by byte.
LEMMA BytewiseExists ==
  ASSUME NEW d \in States, NEW block \in Seq(Bytes)
  PROVE  \E f : Bytewise(f, d, block)
<1> DEFINE N == Len(block)
           g == [p \in States \X (1..N) |-> Plus(p[1], block[p[2]])]
<1>1. N \in Nat
  BY LenProperties
<1>2. g \in [States \X (1..N) -> States]
  BY ElementOfSeq, PlusState
<1>3. \E h : IsRun(h, States, d, N, g)
  <2> HIDE DEF g, N
  <2> QED
    BY <1>1, <1>2, Recursion
<1>4. PICK h : IsRun(h, States, d, N, g)
  BY <1>3
<1>5. h \in [0..N -> States] /\ h[0] = d
  BY <1>4 DEF IsRun
<1>6. \A n \in 1..N : h[n] = Plus(h[n - 1], block[n])
  <2> SUFFICES ASSUME NEW n \in 1..N PROVE h[n] = Plus(h[n - 1], block[n])
    OBVIOUS
  <2>1. <<h[n - 1], n>> \in States \X (1..N)
    BY <1>1, <1>5
  <2>2. g[<<h[n - 1], n>>] = Plus(h[n - 1], block[n])
    BY <2>1
  <2> QED
    BY <1>4, <2>2 DEF IsRun
<1> QED
  BY <1>5, <1>6 DEF Bytewise

\* A body within the limit stays within it.
LEMMA FeedState ==
  ASSUME NEW d \in States, NEW block \in Seq(Bytes)
  PROVE  /\ Feed(d, block) \in States
         /\ Len(block) <= MaxBody /\ Len(d.body) <= MaxBody => Len(Feed(d, block).body) <= MaxBody
<1>1. PICK f : Bytewise(f, d, block)
  BY BytewiseExists
<1> QED
  BY <1>1, FeedAgrees

-----------------------------------------------------------------------------
(* The bytes after the headers, one by one.                                *)

\* ByteByByte, of the bytes from and the end of the headers.
After(bytes, from) ==
  LET after[n \in 0..(Len(bytes) - from)] ==
        IF n = 0 THEN Decoder ELSE Feed(after[n - 1], <<bytes[from + n]>>)
  IN  after

\* ByteByByte is defined, and each byte takes it one further.
LEMMA AfterIs ==
  ASSUME NEW bytes \in Seq(Bytes), NEW from \in 0..Len(bytes)
  PROVE  /\ After(bytes, from) \in [0..(Len(bytes) - from) -> States]
         /\ After(bytes, from)[0] = Decoder
         /\ \A n \in 1..(Len(bytes) - from) :
              /\ bytes[from + n] \in Bytes
              /\ After(bytes, from)[n] = Plus(After(bytes, from)[n - 1], bytes[from + n])
<1> DEFINE N == Len(bytes) - from
           g == [p \in States \X (1..N) |-> Feed(p[1], <<bytes[from + p[2]]>>)]
           after[n \in 0..(Len(bytes) - from)] ==
             IF n = 0 THEN Decoder ELSE Feed(after[n - 1], <<bytes[from + n]>>)
<1>1. N \in Nat
  BY LenProperties
<1>2. \A n \in 1..N : bytes[from + n] \in Bytes
  <2> SUFFICES ASSUME NEW n \in 1..N PROVE bytes[from + n] \in Bytes
    OBVIOUS
  <2>1. from + n \in 1..Len(bytes)
    BY LenProperties
  <2> QED
    BY <2>1, ElementOfSeq
<1> HIDE DEF N
<1>3. g \in [States \X (1..N) -> States]
  <2> SUFFICES ASSUME NEW p \in States \X (1..N)
               PROVE  Feed(p[1], <<bytes[from + p[2]]>>) \in States
    OBVIOUS
  <2>1. p[1] \in States /\ bytes[from + p[2]] \in Bytes
    BY <1>2
  <2> QED
    BY <2>1, FeedOne, PlusState
<1>4. PICK h : IsRun(h, States, Decoder, N, g)
  <2> HIDE DEF g
  <2> QED
    BY <1>1, <1>3, DecoderState, Recursion
<1>5. h \in [0..N -> States] /\ h[0] = Decoder
  BY <1>4 DEF IsRun
<1>6. \A n \in 1..N : h[n] = Feed(h[n - 1], <<bytes[from + n]>>)
  <2> SUFFICES ASSUME NEW n \in 1..N PROVE h[n] = Feed(h[n - 1], <<bytes[from + n]>>)
    OBVIOUS
  <2>1. <<h[n - 1], n>> \in States \X (1..N)
    BY <1>1, <1>5
  <2>2. g[<<h[n - 1], n>>] = Feed(h[n - 1], <<bytes[from + n]>>)
    BY <2>1
  <2> QED
    BY <1>4, <2>2 DEF IsRun
<1> HIDE DEF g
<1>7. h = [n \in 0..N |-> IF n = 0 THEN Decoder ELSE Feed(h[n - 1], <<bytes[from + n]>>)]
  BY <1>1, <1>5, <1>6
<1>8. after = [n \in 0..N |-> IF n = 0 THEN Decoder ELSE Feed(after[n - 1], <<bytes[from + n]>>)]
  BY <1>7, Zenon DEF N
<1>9. After(bytes, from) = after
  BY DEF After
<1> HIDE DEF after
<1> DEFINE S == {n \in Nat : n <= N => after[n] \in States}
<1>10. 0 \in S
  BY <1>1, <1>8, DecoderState
<1>11. ASSUME NEW n \in Nat, n \in S PROVE n + 1 \in S
  <2> SUFFICES ASSUME n + 1 <= N PROVE after[n + 1] \in States
    OBVIOUS
  <2>1. n <= N /\ n + 1 \in 1..N /\ n + 1 \in 0..N /\ n + 1 # 0 /\ n + 1 - 1 = n
    BY <1>1
  <2>2. after[n + 1] = Feed(after[n], <<bytes[from + (n + 1)]>>)
    BY <1>8, <2>1
  <2>3. after[n] \in States
    BY <1>11, <2>1
  <2>4. bytes[from + (n + 1)] \in Bytes
    BY <1>2, <2>1
  <2> QED
    BY <2>2, <2>3, <2>4, FeedOne, PlusState
<1> HIDE DEF S
<1>12. \A n \in Nat : n \in S
  BY <1>10, <1>11, Induction
<1>13. \A n \in 0..N : after[n] \in States
  BY <1>1, <1>12 DEF S
<1>14. after \in [0..N -> States] /\ after[0] = Decoder
  <2>1. after[0] = Decoder
    BY <1>1, <1>8
  <2>2. DOMAIN after = 0..N /\ after = [n \in DOMAIN after |-> after[n]]
    BY <1>8
  <2> QED
    BY <1>13, <2>1, <2>2
<1>15. \A n \in 1..N : after[n] = Plus(after[n - 1], bytes[from + n])
  <2> SUFFICES ASSUME NEW n \in 1..N PROVE after[n] = Plus(after[n - 1], bytes[from + n])
    OBVIOUS
  <2>1. n \in 0..N /\ n # 0 /\ n - 1 \in 0..N
    BY <1>1
  <2>2. after[n] = Feed(after[n - 1], <<bytes[from + n]>>)
    BY <1>8, <2>1
  <2> QED
    BY <1>2, <1>13, <2>1, <2>2, FeedOne
<1> QED
  BY <1>2, <1>9, <1>14, <1>15 DEF N

\* What the decoder is fed between two of the peer's bytes is a window of After.
LEMMA Window ==
  ASSUME NEW bytes \in Seq(Bytes), NEW from \in 0..Len(bytes),
         NEW a \in from..Len(bytes), NEW b \in a..Len(bytes)
  PROVE  /\ SubSeq(bytes, a + 1, b) \in Seq(Bytes) /\ Len(SubSeq(bytes, a + 1, b)) = b - a
         /\ Bytewise([k \in 0..(b - a) |-> After(bytes, from)[a - from + k]],
                     After(bytes, from)[a - from], SubSeq(bytes, a + 1, b))
<1> DEFINE f == After(bytes, from)
           w == [k \in 0..(b - a) |-> f[a - from + k]]
           block == SubSeq(bytes, a + 1, b)
<1>1. Len(bytes) \in Nat /\ a \in Nat /\ b - a \in Nat /\ a + (b - a) = b /\ b <= Len(bytes)
      /\ a - from \in Nat /\ from \in Nat /\ b - from <= Len(bytes) - from
  BY LenProperties
<1>2. block \in Seq(Bytes) /\ Len(block) = b - a /\ \A k \in 1..(b - a) : block[k] = bytes[a + k]
  <2>1. \A k \in (a + 1)..b : bytes[k] \in Bytes
    <3>1. \A k \in (a + 1)..b : k \in 1..Len(bytes)
      BY <1>1
    <3> QED
      BY <3>1, ElementOfSeq
  <2>2. a + 1 \in Int /\ b \in Int
    BY <1>1
  <2>3. /\ block \in Seq(Bytes)
        /\ Len(block) = IF a + 1 <= b THEN b - (a + 1) + 1 ELSE 0
        /\ \A k \in 1..(b - (a + 1) + 1) : block[k] = bytes[a + 1 + k - 1]
    BY <2>1, <2>2, SubSeqProperties
  <2> HIDE DEF block
  <2>4. b - (a + 1) + 1 = b - a /\ \A k \in 1..(b - a) : a + 1 + k - 1 = a + k
    BY <1>1
  <2>5. Len(block) = b - a
    BY <1>1, <2>3
  <2>6. \A k \in 1..(b - a) : block[k] = bytes[a + k]
    BY <2>3, <2>4
  <2> QED
    BY <2>3, <2>5, <2>6
<1> HIDE DEF block
<1>3. /\ f \in [0..(Len(bytes) - from) -> States]
      /\ \A n \in 1..(Len(bytes) - from) : f[n] = Plus(f[n - 1], bytes[from + n])
  BY AfterIs
<1> HIDE DEF f
<1>4. w \in [0..Len(block) -> States]
  <2>1. \A k \in 0..(b - a) : a - from + k \in 0..(Len(bytes) - from)
    BY <1>1
  <2>2. \A k \in 0..(b - a) : f[a - from + k] \in States
    BY <1>3, <2>1
  <2> QED
    BY <1>2, <2>2
<1>5. w[0] = f[a - from]
  BY <1>1
<1>6. \A n \in 1..Len(block) : w[n] = Plus(w[n - 1], block[n])
  <2> SUFFICES ASSUME NEW n \in 1..(b - a) PROVE w[n] = Plus(w[n - 1], block[n])
    BY <1>2
  <2>1. /\ n \in 0..(b - a) /\ n - 1 \in 0..(b - a)
        /\ a - from + n \in 1..(Len(bytes) - from)
        /\ a - from + n - 1 = a - from + (n - 1)
        /\ from + (a - from + n) = a + n
    BY <1>1
  <2>2. f[a - from + n] = Plus(f[a - from + n - 1], bytes[from + (a - from + n)])
    BY <1>3, <2>1
  <2>3. w[n] = f[a - from + n] /\ w[n - 1] = f[a - from + (n - 1)]
    BY <2>1
  <2>4. block[n] = bytes[a + n]
    BY <1>2
  <2> QED
    BY <2>1, <2>2, <2>3, <2>4
<1> HIDE DEF w
<1>7. Bytewise(w, f[a - from], block)
  BY <1>4, <1>5, <1>6 DEF Bytewise
<1> QED
  BY <1>2, <1>7 DEF w, f, block

\* A read between two of the bytes takes the decoder from where After is to where After is.
LEMMA FeedWindow ==
  ASSUME NEW bytes \in Seq(Bytes), NEW from \in 0..Len(bytes),
         NEW a \in from..Len(bytes), NEW b \in a..Len(bytes),
         NEW e, e = Feed(After(bytes, from)[a - from], SubSeq(bytes, a + 1, b))
  PROVE  /\ After(bytes, from)[b - from].phase # "ERROR" => e = After(bytes, from)[b - from]
         /\ After(bytes, from)[b - from].phase = "ERROR" /\ b - a <= MaxBody => e.phase = "ERROR"
<1> DEFINE f == After(bytes, from)
           w == [k \in 0..(b - a) |-> f[a - from + k]]
           block == SubSeq(bytes, a + 1, b)
<1>1. block \in Seq(Bytes) /\ Len(block) = b - a /\ Bytewise(w, f[a - from], block)
  BY Window
<1>2. b - a \in 0..(b - a) /\ a - from + (b - a) = b - from /\ a - from \in 0..(Len(bytes) - from)
  BY LenProperties
<1>3. w[b - a] = f[b - from] /\ f[a - from] \in States
  BY <1>2, AfterIs
<1> HIDE DEF w, f, block
<1>4. Agrees(Feed(f[a - from], block), w[Len(block)], block)
  BY <1>1, <1>3, FeedAgrees
<1>5. Agrees(Feed(f[a - from], block), f[b - from], block)
  BY <1>1, <1>3, <1>4
<1> QED
  BY <1>1, <1>5 DEF f, block, Agrees

\* Once the decoder is done or has failed, the bytes that follow do not matter.
LEMMA AfterFinal ==
  ASSUME NEW bytes \in Seq(Bytes), NEW from \in 0..Len(bytes),
         NEW n \in 0..(Len(bytes) - from), After(bytes, from)[n].phase \in {"DONE", "ERROR"}
  PROVE  After(bytes, from)[Len(bytes) - from] = After(bytes, from)[n]
<1> DEFINE f == After(bytes, from)
           N == Len(bytes) - from
           w == [k \in 0..N |-> f[from - from + k]]
           block == SubSeq(bytes, from + 1, Len(bytes))
<1>1. from \in from..Len(bytes) /\ Len(bytes) \in from..Len(bytes) /\ N \in Nat /\ from - from = 0
  BY LenProperties
<1>2. block \in Seq(Bytes) /\ Len(block) = N /\ Bytewise(w, f[from - from], block)
  BY <1>1, Window
<1>3. \A k \in 0..N : w[k] = f[k]
  BY <1>1
<1> HIDE DEF f, w, block, N
<1>4. n \in 0..Len(block) /\ N \in n..Len(block) /\ N \in 0..N /\ n \in 0..N
  BY <1>1, <1>2 DEF N
<1>5. w[n].phase \in {"DONE", "ERROR"}
  BY <1>3, <1>4 DEF f
<1>6. \A j \in n..Len(block) : w[j] = w[n]
  BY <1>2, <1>4, <1>5, Final
<1>7. f[N] = f[n]
  BY <1>3, <1>4, <1>6
<1> QED
  BY <1>7 DEF f, N

-----------------------------------------------------------------------------
(* What a message of the grammar does to the decoder.                      *)

\* Fed the bytes of s one by one, the decoder goes from D to E, or to a phase of Bad, and
\* before the last byte it is neither done nor in a phase of {"ERROR"} that is not Bad.
Leads(D, s, E, Bad) ==
  \A d \in D : \A f :
    Bytewise(f, d, s) =>
      /\ f[Len(s)] \in E \/ f[Len(s)].phase \in Bad
      /\ \A n \in 0..(Len(s) - 1) : f[n].phase \in {"DONE", "ERROR"} => f[n].phase \in Bad

\* No byte.
LEMMA LeadsNowhere ==
  ASSUME NEW D, NEW Bad
  PROVE  Leads(D, <<>>, D, Bad)
BY DEF Leads, Bytewise

\* One byte.
LEMMA LeadsByte ==
  ASSUME NEW D, NEW E, NEW Bad, NEW b \in Bytes,
         \A d \in D : d \in States /\ d.phase \notin {"DONE", "ERROR"},
         \A d \in D : Plus(d, b) \in E \/ Plus(d, b).phase \in Bad
  PROVE  Leads(D, <<b>>, E, Bad)
<1> SUFFICES ASSUME NEW d \in D, NEW f, Bytewise(f, d, <<b>>)
             PROVE  /\ f[Len(<<b>>)] \in E \/ f[Len(<<b>>)].phase \in Bad
                    /\ \A n \in 0..(Len(<<b>>) - 1) :
                         f[n].phase \in {"DONE", "ERROR"} => f[n].phase \in Bad
  BY DEF Leads
<1>1. Len(<<b>>) = 1 /\ <<b>>[1] = b
  OBVIOUS
<1>2. f[0] = d /\ f[1] = Plus(f[0], b)
  <2>1. 1 \in 1..Len(<<b>>) /\ 1 - 1 = 0
    BY <1>1
  <2> QED
    BY <1>1, <2>1 DEF Bytewise
<1>3. \A n \in 0..(Len(<<b>>) - 1) : n = 0
  BY <1>1
<1> QED
  BY <1>1, <1>2, <1>3

\* A run over two sequences is a run over each.
LEMMA BytewiseConcat ==
  ASSUME NEW s \in Seq(Bytes), NEW t \in Seq(Bytes), NEW d, NEW f, Bytewise(f, d, s \o t)
  PROVE  /\ Len(s) \in Nat /\ Len(t) \in Nat /\ Len(s \o t) = Len(s) + Len(t)
         /\ Bytewise([n \in 0..Len(s) |-> f[n]], d, s)
         /\ Bytewise([n \in 0..Len(t) |-> f[Len(s) + n]], f[Len(s)], t)
         /\ s \o t \in Seq(Bytes)
<1> DEFINE w == s \o t
           g == [n \in 0..Len(s) |-> f[n]]
           h == [n \in 0..Len(t) |-> f[Len(s) + n]]
<1>1. /\ Len(s) \in Nat /\ Len(t) \in Nat /\ w \in Seq(Bytes) /\ Len(w) = Len(s) + Len(t)
      /\ \A n \in 1..Len(s) : w[n] = s[n]
      /\ \A n \in 1..Len(t) : w[Len(s) + n] = t[n]
  BY ConcatProperties, LenProperties
<1>2. /\ f \in [0..Len(w) -> States] /\ f[0] = d
      /\ \A n \in 1..Len(w) : f[n] = Plus(f[n - 1], w[n])
  BY DEF Bytewise
<1> HIDE DEF w
<1>3. Bytewise(g, d, s)
  <2>1. g \in [0..Len(s) -> States] /\ g[0] = d
    BY <1>1, <1>2
  <2>2. \A n \in 1..Len(s) : g[n] = Plus(g[n - 1], s[n])
    <3> SUFFICES ASSUME NEW n \in 1..Len(s) PROVE g[n] = Plus(g[n - 1], s[n])
      OBVIOUS
    <3>1. n \in 1..Len(w) /\ g[n] = f[n] /\ g[n - 1] = f[n - 1] /\ w[n] = s[n]
      BY <1>1
    <3> HIDE DEF g
    <3> QED
      BY <1>2, <3>1
  <2> HIDE DEF g
  <2> QED
    BY <2>1, <2>2 DEF Bytewise
<1>4. Bytewise(h, f[Len(s)], t)
  <2>1. h \in [0..Len(t) -> States] /\ h[0] = f[Len(s)]
    BY <1>1, <1>2
  <2>2. \A n \in 1..Len(t) : h[n] = Plus(h[n - 1], t[n])
    <3> SUFFICES ASSUME NEW n \in 1..Len(t) PROVE h[n] = Plus(h[n - 1], t[n])
      OBVIOUS
    <3>1. /\ Len(s) + n \in 1..Len(w) /\ h[n] = f[Len(s) + n] /\ h[n - 1] = f[Len(s) + (n - 1)]
          /\ w[Len(s) + n] = t[n] /\ Len(s) + (n - 1) = Len(s) + n - 1
      BY <1>1
    <3> HIDE DEF h
    <3> QED
      BY <1>2, <3>1
  <2> HIDE DEF h
  <2> QED
    BY <2>1, <2>2 DEF Bytewise
<1> QED
  BY <1>1, <1>3, <1>4 DEF w

\* One sequence, then another.
LEMMA LeadsConcat ==
  ASSUME NEW D, NEW E, NEW G, NEW Bad, Bad \subseteq {"ERROR"},
         NEW s \in Seq(Bytes), NEW t \in Seq(Bytes),
         Leads(D, s, E, Bad), Leads(E, t, G, Bad)
  PROVE  Leads(D, s \o t, G, Bad) /\ s \o t \in Seq(Bytes)
<1>0. s \o t \in Seq(Bytes)
  OBVIOUS
<1> SUFFICES ASSUME NEW d \in D, NEW f, Bytewise(f, d, s \o t)
             PROVE  /\ f[Len(s \o t)] \in G \/ f[Len(s \o t)].phase \in Bad
                    /\ \A n \in 0..(Len(s \o t) - 1) :
                         f[n].phase \in {"DONE", "ERROR"} => f[n].phase \in Bad
  BY <1>0 DEF Leads
<1> DEFINE g == [n \in 0..Len(s) |-> f[n]]
           h == [n \in 0..Len(t) |-> f[Len(s) + n]]
<1>1. /\ Len(s) \in Nat /\ Len(t) \in Nat /\ Len(s \o t) = Len(s) + Len(t)
      /\ Bytewise(g, d, s) /\ Bytewise(h, f[Len(s)], t)
  BY BytewiseConcat
<1>2. g[Len(s)] = f[Len(s)] /\ \A n \in 0..(Len(s) - 1) : g[n] = f[n]
  BY <1>1
<1>3. h[Len(t)] = f[Len(s) + Len(t)] /\ \A n \in 0..(Len(t) - 1) : h[n] = f[Len(s) + n]
  BY <1>1
<1> HIDE DEF g, h
<1>4. /\ f[Len(s)] \in E \/ f[Len(s)].phase \in Bad
      /\ \A n \in 0..(Len(s) - 1) : f[n].phase \in {"DONE", "ERROR"} => f[n].phase \in Bad
  <2>1. /\ g[Len(s)] \in E \/ g[Len(s)].phase \in Bad
        /\ \A n \in 0..(Len(s) - 1) : g[n].phase \in {"DONE", "ERROR"} => g[n].phase \in Bad
    BY <1>1 DEF Leads
  <2> QED
    BY <1>2, <2>1
<1>5. /\ f[Len(s) + Len(t)] \in G \/ f[Len(s) + Len(t)].phase \in Bad
      /\ \A n \in 0..(Len(t) - 1) :
           f[Len(s) + n].phase \in {"DONE", "ERROR"} => f[Len(s) + n].phase \in Bad
  <2>1. CASE f[Len(s)] \in E
    <3>1. /\ h[Len(t)] \in G \/ h[Len(t)].phase \in Bad
          /\ \A n \in 0..(Len(t) - 1) : h[n].phase \in {"DONE", "ERROR"} => h[n].phase \in Bad
      BY <1>1, <2>1 DEF Leads
    <3> QED
      BY <1>3, <3>1
  <2>2. CASE f[Len(s)].phase \in Bad
    <3>0. f[Len(s)].phase \in {"DONE", "ERROR"}
      BY <2>2
    <3>1. f[Len(s)].phase \in {"DONE", "ERROR"} /\ Len(s) \in 0..Len(s \o t)
      BY <1>1, <3>0
    <3>2. \A n \in Len(s)..Len(s \o t) : f[n] = f[Len(s)]
      BY <1>0, <3>1, Final
    <3>3. Len(s) + Len(t) \in Len(s)..Len(s \o t)
          /\ \A n \in 0..(Len(t) - 1) : Len(s) + n \in Len(s)..Len(s \o t)
      BY <1>1
    <3> QED
      BY <2>2, <3>2, <3>3
  <2> QED
    BY <1>4, <2>1, <2>2
<1>6. ASSUME NEW n \in 0..(Len(s \o t) - 1)
      PROVE  f[n].phase \in {"DONE", "ERROR"} => f[n].phase \in Bad
  <2>1. CASE n < Len(s)
    <3>1. n \in 0..(Len(s) - 1)
      BY <1>1, <2>1
    <3> QED
      BY <1>4, <3>1
  <2>2. CASE ~(n < Len(s))
    <3>1. n - Len(s) \in 0..(Len(t) - 1) /\ Len(s) + (n - Len(s)) = n
      BY <1>1, <2>2
    <3>2. \A m \in 0..(Len(t) - 1) :
            f[Len(s) + m].phase \in {"DONE", "ERROR"} => f[Len(s) + m].phase \in Bad
      BY <1>5
    <3> QED
      BY <3>1, <3>2
  <2> QED
    BY <2>1, <2>2
<1> QED
  BY <1>1, <1>5, <1>6

\* The decoder at the beginning of a chunk, with the body so far.
Fresh(body) ==
  {d \in States : /\ d.phase = "SIZE" /\ d.need = 0 /\ d.digits = 0
                  /\ ~d.in_ext /\ d.body = body}

\* The decoder in a size that has a digit: in its digits, its extension or its line end.
Sized(phases, need, in_ext, body) ==
  {d \in States : /\ d.phase \in phases /\ d.need = need /\ d.digits > 0
                  /\ d.in_ext \in in_ext /\ d.body = body}

\* The decoder in a chunk that misses need bytes.
InData(need, body) ==
  {d \in States : d.phase = "DATA" /\ d.need = need /\ d.body = body}

\* The decoder anywhere else.
AtPhase(ph, body) == {d \in States : d.phase = ph /\ d.body = body}

\* A size begins with a digit.
LEMMA FirstDigit ==
  ASSUME NEW B, NEW d \in Fresh(B), NEW b \in {"0", "2"}
  PROVE  \/ Plus(d, b) \in Sized({"SIZE"}, HexValue[b], {FALSE}, B)
         \/ SizeMax < HexValue[b] /\ Plus(d, b).phase = "ERROR"
<1>1. /\ d \in States /\ d.phase = "SIZE" /\ d.need = 0 /\ d.digits = 0
      /\ d.in_ext = FALSE /\ d.body = B
  BY DEF Fresh, States
<1>2. HexValue[b] \in Nat /\ b \in DOMAIN HexValue /\ b # "CR" /\ b # ";" /\ b \in Bytes
      /\ HexValue[b] <= 2
  <2>1. DOMAIN HexValue = {"0", "2"} /\ HexValue["0"] = 0 /\ HexValue["2"] = 2
    BY DEF HexValue
  <2>2. CASE b = "0"
    BY <2>1, <2>2 DEF Bytes
  <2>3. CASE b = "2"
    BY <2>1, <2>3 DEF Bytes
  <2> QED
    BY <2>2, <2>3
<1>3. Plus(d, b) = AddDigit(d, HexValue[b])
  <2>1. Plus(d, b) = DecodeByte(d, b)
    BY <1>1, <1>2, PlusIs
  <2>2. DecodeByte(d, b) = DecodeSize(d, b)
    BY <1>1 DEF DecodeByte
  <2>3. DecodeSize(d, b) = AddDigit(d, HexValue[b])
    BY <1>1, <1>2 DEF DecodeSize
  <2> QED
    BY <2>1, <2>2, <2>3
<1>4. Plus(d, b) \in States
  BY <1>1, <1>2, PlusState
<1>5. PICK h \in Nat : h = HexValue[b] /\ h <= 2
  BY <1>2
<1>6. CASE SizeMax < h
  <2>1. 0 > (SizeMax - h) \div 16
    BY <1>5, <1>6, Constants
  <2>2. Plus(d, b) = Fail(d)
    BY <1>1, <1>3, <1>5, <2>1 DEF AddDigit
  <2> QED
    BY <1>1, <1>5, <1>6, <2>2, FailState
<1>7. CASE ~(SizeMax < h)
  <2>1. ~(0 > (SizeMax - h) \div 16)
    BY <1>5, <1>7, Constants
  <2>2. Plus(d, b) = [d EXCEPT !.need = d.need * 16 + h, !.digits = d.digits + 1]
    BY <1>1, <1>3, <1>5, <2>1 DEF AddDigit
  <2>3. /\ Plus(d, b).need = h /\ Plus(d, b).digits = 1 /\ Plus(d, b).phase = "SIZE"
        /\ Plus(d, b).in_ext = FALSE /\ Plus(d, b).body = B
    BY <1>1, <1>5, <2>2 DEF States
  <2>4. Plus(d, b).digits > 0
    BY <2>3
  <2>5. Plus(d, b) \in Sized({"SIZE"}, h, {FALSE}, B)
    BY <1>4, <2>3, <2>4 DEF Sized
  <2> QED
    BY <1>5, <2>5
<1> QED
  BY <1>6, <1>7

\* Another 0 makes the size 16 times as large, unless it has ended or overflows.
LEMMA NextDigit ==
  ASSUME NEW B, NEW n \in Nat, NEW d \in Sized({"SIZE"}, n, {FALSE}, B)
  PROVE  \/ Plus(d, "0") \in Sized({"SIZE"}, n * 16, {FALSE}, B)
         \/ n > 0 /\ Plus(d, "0").phase = "ERROR"
<1>1. /\ d \in States /\ d.phase = "SIZE" /\ d.need = n /\ d.digits \in Nat /\ d.digits > 0
      /\ d.in_ext = FALSE /\ d.body = B
  BY DEF Sized, States
<1>2. HexValue["0"] = 0 /\ "0" \in DOMAIN HexValue /\ "0" \in Bytes
  BY DEF HexValue, Bytes
<1>3. Plus(d, "0") = AddDigit(d, 0)
  <2>1. Plus(d, "0") = DecodeByte(d, "0")
    BY <1>1, <1>2, PlusIs
  <2>2. DecodeByte(d, "0") = DecodeSize(d, "0")
    BY <1>1 DEF DecodeByte
  <2>3. DecodeSize(d, "0") = AddDigit(d, 0)
    BY <1>1, <1>2 DEF DecodeSize
  <2> QED
    BY <2>1, <2>2, <2>3
<1>4. Plus(d, "0") \in States
  BY <1>1, <1>2, PlusState
<1>6. CASE n > (SizeMax - 0) \div 16
  <2>1. n > 0
    BY <1>6, Constants
  <2>2. Plus(d, "0") = Fail(d)
    BY <1>1, <1>3, <1>6 DEF AddDigit
  <2> QED
    BY <1>1, <2>1, <2>2, FailState
<1>7. CASE ~(n > (SizeMax - 0) \div 16)
  <2>1. PICK m, k \in Nat : m = d.need * 16 + 0 /\ m = n * 16 /\ k = d.digits + 1 /\ k > 0
    BY <1>1
  <2>2. Plus(d, "0") = [d EXCEPT !.need = m, !.digits = k]
    BY <1>1, <1>3, <1>7, <2>1 DEF AddDigit
  <2>4. /\ Plus(d, "0").need = m /\ Plus(d, "0").digits = k /\ Plus(d, "0").phase = "SIZE"
        /\ Plus(d, "0").in_ext = FALSE /\ Plus(d, "0").body = B
    BY <1>1, <2>2 DEF States
  <2>3. /\ Plus(d, "0").need = n * 16 /\ Plus(d, "0").digits > 0 /\ Plus(d, "0").phase = "SIZE"
        /\ Plus(d, "0").in_ext = FALSE /\ Plus(d, "0").body = B
    BY <2>1, <2>4
  <2> QED
    BY <1>4, <2>3 DEF Sized
<1> QED
  BY <1>6, <1>7

\* What follows a ";" is skipped.
LEMMA Extension ==
  ASSUME NEW B, NEW n \in Nat
  PROVE  /\ \A d \in Sized({"SIZE"}, n, {FALSE}, B) : Plus(d, ";") \in Sized({"SIZE"}, n, {TRUE}, B)
         /\ \A d \in Sized({"SIZE"}, n, {TRUE}, B) : Plus(d, "2") \in Sized({"SIZE"}, n, {TRUE}, B)
<1>1. ASSUME NEW d \in Sized({"SIZE"}, n, {FALSE}, B)
      PROVE  Plus(d, ";") \in Sized({"SIZE"}, n, {TRUE}, B)
  <2>1. /\ d \in States /\ d.phase = "SIZE" /\ d.need = n /\ d.digits > 0
        /\ d.in_ext = FALSE /\ d.body = B /\ ";" \in Bytes
    BY <1>1 DEF Sized, States, Bytes
  <2>2. Plus(d, ";") = DecodeSize(d, ";")
    BY <2>1, PlusIs DEF DecodeByte
  <2>3. DecodeSize(d, ";") = [d EXCEPT !.in_ext = TRUE]
    BY <2>1 DEF DecodeSize, HexValue
  <2>4. Plus(d, ";") \in States
    BY <2>1, PlusState
  <2> QED
    BY <2>1, <2>2, <2>3, <2>4 DEF Sized, States
<1>2. ASSUME NEW d \in Sized({"SIZE"}, n, {TRUE}, B)
      PROVE  Plus(d, "2") \in Sized({"SIZE"}, n, {TRUE}, B)
  <2>1. /\ d \in States /\ d.phase = "SIZE" /\ d.in_ext = TRUE /\ "2" \in Bytes
    BY <1>2 DEF Sized, States, Bytes
  <2>2. Plus(d, "2") = DecodeSize(d, "2")
    BY <2>1, PlusIs DEF DecodeByte
  <2>3. DecodeSize(d, "2") = d
    BY <2>1 DEF DecodeSize, HexValue
  <2> QED
    BY <1>2, <2>2, <2>3
<1> QED
  BY <1>1, <1>2

\* The end of the line of a size.
LEMMA SizeEnds ==
  ASSUME NEW B, NEW n \in Nat
  PROVE  /\ \A d \in Sized({"SIZE"}, n, BOOLEAN, B) :
              Plus(d, "CR") \in Sized({"SIZE_LF"}, n, BOOLEAN, B)
         /\ \A d \in Sized({"SIZE_LF"}, n, BOOLEAN, B) :
              Plus(d, "LF") \in IF n = 0 THEN AtPhase("TRAILER", B) ELSE InData(n, B)
<1>1. ASSUME NEW d \in Sized({"SIZE"}, n, BOOLEAN, B)
      PROVE  Plus(d, "CR") \in Sized({"SIZE_LF"}, n, BOOLEAN, B)
  <2>1. /\ d \in States /\ d.phase = "SIZE" /\ d.need = n /\ d.digits > 0
        /\ d.in_ext \in BOOLEAN /\ d.body = B /\ "CR" \in Bytes
    BY <1>1 DEF Sized, States, Bytes
  <2>2. Plus(d, "CR") = DecodeSize(d, "CR")
    BY <2>1, PlusIs DEF DecodeByte
  <2>3. DecodeSize(d, "CR") = [d EXCEPT !.phase = "SIZE_LF"]
    BY <2>1 DEF DecodeSize, HexValue
  <2>4. Plus(d, "CR") \in States
    BY <2>1, PlusState
  <2> QED
    BY <2>1, <2>2, <2>3, <2>4 DEF Sized, States
<1>2. ASSUME NEW d \in Sized({"SIZE_LF"}, n, BOOLEAN, B)
      PROVE  Plus(d, "LF") \in IF n = 0 THEN AtPhase("TRAILER", B) ELSE InData(n, B)
  <2>1. /\ d \in States /\ d.phase = "SIZE_LF" /\ d.need = n /\ d.digits \in Nat /\ d.digits > 0
        /\ d.body = B /\ "LF" \in Bytes
    BY <1>2 DEF Sized, States, Bytes
  <2>2. Plus(d, "LF") = DecodeByte(d, "LF")
    BY <2>1, PlusIs
  <2>3. DecodeByte(d, "LF") = [d EXCEPT !.phase = IF d.need = 0 THEN "TRAILER" ELSE "DATA"]
    BY <2>1 DEF DecodeByte
  <2>4. Plus(d, "LF") \in States
    BY <2>1, PlusState
  <2> QED
    BY <2>1, <2>2, <2>3, <2>4 DEF AtPhase, InData, States
<1> QED
  BY <1>1, <1>2

\* A byte of a chunk, the last of which ends its data.
LEMMA DataByte ==
  ASSUME NEW B, NEW b \in Bytes, NEW n \in Nat, n > 0, NEW d \in InData(n, B)
  PROVE  \/ Plus(d, b) \in IF n = 1 THEN AtPhase("DATA_CR", B \o <<b>>) ELSE InData(n - 1, B \o <<b>>)
         \/ Plus(d, b).phase = "ERROR" /\ Len(B) + 1 > MaxBody
<1>1. d \in States /\ d.phase = "DATA" /\ d.need = n /\ d.body = B
  BY DEF InData
<1>2. B \in Seq(Bytes) /\ Len(B) \in Nat /\ <<b>> \in Seq(Bytes) /\ Len(<<b>>) = 1
  BY <1>1, LenProperties DEF States
<1>3. CASE Len(B) + 1 <= MaxBody
  <2>1. Plus(d, b) = Taken(d, <<b>>)
    BY <1>1, <1>3, PlusData
  <2>2. Len(<<b>>) <= d.need
    BY <1>1, <1>2
  <2>3. /\ Plus(d, b) \in States /\ Plus(d, b).body = B \o <<b>> /\ Plus(d, b).need = n - 1
        /\ Plus(d, b).phase = IF n = 1 THEN "DATA_CR" ELSE "DATA"
    <3>1. /\ Taken(d, <<b>>) \in States
          /\ Taken(d, <<b>>).body = d.body \o <<b>>
          /\ Taken(d, <<b>>).need = d.need - Len(<<b>>)
          /\ Taken(d, <<b>>).phase = IF d.need = Len(<<b>>) THEN "DATA_CR" ELSE "DATA"
      BY <1>1, <1>2, <2>2, TakenState
    <3> QED
      BY <1>1, <1>2, <2>1, <3>1
  <2> QED
    BY <2>3 DEF AtPhase, InData
<1>4. CASE ~(Len(B) + 1 <= MaxBody)
  <2>1. Plus(d, b) = Fail(d)
    BY <1>1, <1>4, PlusData
  <2> QED
    BY <1>1, <1>2, <1>4, <2>1, FailState, Constants
<1> QED
  BY <1>3, <1>4

\* The end of a chunk.
LEMMA ChunkEnds ==
  ASSUME NEW B
  PROVE  /\ \A d \in AtPhase("DATA_CR", B) : Plus(d, "CR") \in AtPhase("DATA_LF", B)
         /\ \A d \in AtPhase("DATA_LF", B) : Plus(d, "LF") \in Fresh(B)
<1>1. ASSUME NEW d \in AtPhase("DATA_CR", B) PROVE Plus(d, "CR") \in AtPhase("DATA_LF", B)
  <2>1. d \in States /\ d.phase = "DATA_CR" /\ d.body = B /\ "CR" \in Bytes
    BY <1>1 DEF AtPhase, Bytes
  <2>2. Plus(d, "CR") = [d EXCEPT !.phase = "DATA_LF"]
    BY <2>1, PlusIs DEF DecodeByte, Expect
  <2>3. Plus(d, "CR") \in States
    BY <2>1, PlusState
  <2> QED
    BY <2>1, <2>2, <2>3 DEF AtPhase, States
<1>2. ASSUME NEW d \in AtPhase("DATA_LF", B) PROVE Plus(d, "LF") \in Fresh(B)
  <2>1. d \in States /\ d.phase = "DATA_LF" /\ d.body = B /\ "LF" \in Bytes
    BY <1>2 DEF AtPhase, Bytes
  <2>2. Plus(d, "LF") = NextSize(d)
    BY <2>1, PlusIs DEF DecodeByte
  <2>3. Plus(d, "LF") \in States
    BY <2>1, PlusState
  <2> QED
    BY <2>1, <2>2, <2>3 DEF Fresh, NextSize, States
<1> QED
  BY <1>1, <1>2

\* The lines that follow the last chunk.
LEMMA TrailerByte ==
  ASSUME NEW B
  PROVE  /\ \A d \in AtPhase("TRAILER", B) :
              /\ Plus(d, "CR") \in AtPhase("TRAILER_LF", B)
              /\ \A b \in Bytes \ {"CR"} : Plus(d, b) \in AtPhase("TRAILER_SKIP", B)
         /\ \A d \in AtPhase("TRAILER_LF", B) : Plus(d, "LF") \in AtPhase("DONE", B)
         /\ \A d \in AtPhase("TRAILER_SKIP", B) :
              /\ Plus(d, "CR") \in AtPhase("TRAILER_SKIP_LF", B)
              /\ \A b \in Bytes \ {"CR"} : Plus(d, b) \in AtPhase("TRAILER_SKIP", B)
         /\ \A d \in AtPhase("TRAILER_SKIP_LF", B) : Plus(d, "LF") \in AtPhase("TRAILER", B)
<1> DEFINE Phs == {"TRAILER", "TRAILER_LF", "TRAILER_SKIP", "TRAILER_SKIP_LF"}
<1>1. ASSUME NEW d, NEW p \in Phs, d \in AtPhase(p, B), NEW b \in Bytes
      PROVE  Plus(d, b) = DecodeByte(d, b) /\ d.phase = p
  BY <1>1, PlusIs DEF AtPhase
<1>2. ASSUME NEW p \in Phs, NEW d \in AtPhase(p, B), NEW b \in Bytes, NEW q,
             Plus(d, b) = [d EXCEPT !.phase = q]
      PROVE  Plus(d, b) \in AtPhase(q, B)
  <2>1. d \in States /\ d.body = B
    BY DEF AtPhase
  <2>2. [d EXCEPT !.phase = q].phase = q /\ [d EXCEPT !.phase = q].body = B
    BY <2>1 DEF States
  <2>3. Plus(d, b) \in States
    BY <2>1, PlusState
  <2> QED
    BY <1>2, <2>2, <2>3 DEF AtPhase
<1>3. Phs \subseteq Phases /\ "DONE" \in Phases /\ "CR" \in Bytes /\ "LF" \in Bytes
  BY DEF Phases, Bytes
<1>4. ASSUME NEW d \in AtPhase("TRAILER", B), NEW b \in Bytes
      PROVE  Plus(d, b) \in AtPhase(IF b = "CR" THEN "TRAILER_LF" ELSE "TRAILER_SKIP", B)
  <2>1. Plus(d, b) = [d EXCEPT !.phase = IF b = "CR" THEN "TRAILER_LF" ELSE "TRAILER_SKIP"]
    BY <1>1, <1>4 DEF DecodeByte
  <2>2. "TRAILER" \in Phs
    OBVIOUS
  <2> QED
    BY <1>2, <2>1, <2>2
<1>5. ASSUME NEW d \in AtPhase("TRAILER_LF", B) PROVE Plus(d, "LF") \in AtPhase("DONE", B)
  <2>1. Plus(d, "LF") = [d EXCEPT !.phase = "DONE"]
    BY <1>1, <1>3, <1>5 DEF DecodeByte, Expect
  <2>2. "TRAILER_LF" \in Phs
    OBVIOUS
  <2> QED
    BY <1>2, <1>3, <2>1, <2>2
<1>6. ASSUME NEW d \in AtPhase("TRAILER_SKIP", B), NEW b \in Bytes
      PROVE  Plus(d, b) \in AtPhase(IF b = "CR" THEN "TRAILER_SKIP_LF" ELSE "TRAILER_SKIP", B)
  <2>1. Plus(d, b) = IF b = "CR" THEN [d EXCEPT !.phase = "TRAILER_SKIP_LF"] ELSE d
    BY <1>1, <1>6 DEF DecodeByte
  <2>2. "TRAILER_SKIP" \in Phs
    OBVIOUS
  <2>3. CASE b = "CR"
    BY <1>2, <2>1, <2>2, <2>3
  <2>4. CASE b # "CR"
    BY <2>1, <2>4
  <2> QED
    BY <2>3, <2>4
<1>7. ASSUME NEW d \in AtPhase("TRAILER_SKIP_LF", B) PROVE Plus(d, "LF") \in AtPhase("TRAILER", B)
  <2>1. Plus(d, "LF") = [d EXCEPT !.phase = "TRAILER"]
    BY <1>1, <1>3, <1>7 DEF DecodeByte, Expect
  <2>2. "TRAILER_SKIP_LF" \in Phs
    OBVIOUS
  <2> QED
    BY <1>2, <1>3, <2>1, <2>2
<1> QED
  BY <1>3, <1>4, <1>5, <1>6, <1>7

\* A set that is larger at the end, or smaller at the beginning.
LEMMA LeadsWithin ==
  ASSUME NEW D, NEW E, NEW Bad, NEW s, Leads(D, s, E, Bad),
         NEW D2, D2 \subseteq D, NEW E2, E \subseteq E2
  PROVE  Leads(D2, s, E2, Bad)
<1> SUFFICES ASSUME NEW d \in D2, NEW f, Bytewise(f, d, s)
             PROVE  /\ f[Len(s)] \in E2 \/ f[Len(s)].phase \in Bad
                    /\ \A n \in 0..(Len(s) - 1) :
                         f[n].phase \in {"DONE", "ERROR"} => f[n].phase \in Bad
  BY DEF Leads
<1>1. d \in D
  OBVIOUS
<1> QED
  BY <1>1 DEF Leads

\* A sequence of two.
LEMMA PairIs ==
  ASSUME NEW a \in Bytes, NEW b \in Bytes
  PROVE  /\ <<a>> \o <<b>> = <<a, b>>
         /\ <<a>> \in Seq(Bytes) /\ <<b>> \in Seq(Bytes)
         /\ <<a, b>> \in Seq(Bytes) /\ Len(<<a, b>>) = 2
<1>1. /\ <<a>> \in Seq(Bytes) /\ Len(<<a>>) = 1 /\ <<a>>[1] = a
      /\ <<b>> \in Seq(Bytes) /\ Len(<<b>>) = 1 /\ <<b>>[1] = b
      /\ <<a, b>> \in Seq(Bytes) /\ Len(<<a, b>>) = 2 /\ <<a, b>>[1] = a /\ <<a, b>>[2] = b
  OBVIOUS
<1> DEFINE s == <<a>>
           t == <<b>>
           p == <<a, b>>
<1> HIDE DEF s, t, p
<1>2. /\ s \in Seq(Bytes) /\ Len(s) = 1 /\ s[1] = a
      /\ t \in Seq(Bytes) /\ Len(t) = 1 /\ t[1] = b
      /\ p \in Seq(Bytes) /\ Len(p) = 2 /\ p[1] = a /\ p[2] = b
  BY <1>1 DEF s, t, p
<1>3. /\ s \o t \in Seq(Bytes) /\ Len(s \o t) = 2
      /\ (s \o t)[1] = a /\ (s \o t)[2] = b
  <2>1. /\ s \o t \in Seq(Bytes) /\ Len(s \o t) = Len(s) + Len(t)
        /\ \A i \in 1..(Len(s) + Len(t)) : (s \o t)[i] = IF i <= Len(s) THEN s[i] ELSE t[i - Len(s)]
    BY <1>2, ConcatProperties
  <2>2. 1 \in 1..2 /\ 2 \in 1..2 /\ 1 <= 1 /\ ~(2 <= 1) /\ 2 - 1 = 1 /\ 1 + 1 = 2
    OBVIOUS
  <2> QED
    BY <1>2, <2>1, <2>2
<1>4. \A i \in 1..Len(p) : (s \o t)[i] = p[i]
  <2>1. \A i \in 1..Len(p) : i = 1 \/ i = 2
    BY <1>2
  <2> QED
    BY <1>2, <1>3, <2>1
<1>5. s \o t = p
  BY <1>2, <1>3, <1>4, SeqEqual
<1> QED
  BY <1>1, <1>5 DEF s, t, p

\* Two bytes.
LEMMA LeadsPair ==
  ASSUME NEW D, NEW E, NEW G, NEW Bad, Bad \subseteq {"ERROR"},
         NEW a \in Bytes, NEW b \in Bytes,
         Leads(D, <<a>>, E, Bad), Leads(E, <<b>>, G, Bad)
  PROVE  Leads(D, <<a, b>>, G, Bad) /\ <<a, b>> \in Seq(Bytes)
<1>1. <<a>> \in Seq(Bytes) /\ <<b>> \in Seq(Bytes) /\ <<a>> \o <<b>> = <<a, b>>
  BY PairIs
<1>2. Leads(D, <<a>> \o <<b>>, G, Bad) /\ <<a>> \o <<b>> \in Seq(Bytes)
  BY <1>1, LeadsConcat
<1> QED
  BY <1>1, <1>2

\* The bytes of a message.
LEMMA BytesAre ==
  /\ "0" \in Bytes /\ "2" \in Bytes /\ "CR" \in Bytes /\ "LF" \in Bytes /\ ";" \in Bytes
  /\ CRLF = <<"CR", "LF">> /\ CRLF \in Seq(Bytes)
  /\ \A b \in Bytes : <<b>> \in Seq(Bytes)
BY DEF Bytes, CRLF

\* The ends of lines.
LEMMA LeadsCRLF ==
  ASSUME NEW B, NEW Bad, Bad \subseteq {"ERROR"}
  PROVE  /\ \A n \in Nat : Leads(Sized({"SIZE"}, n, BOOLEAN, B), CRLF,
                                 IF n = 0 THEN AtPhase("TRAILER", B) ELSE InData(n, B), Bad)
         /\ Leads(AtPhase("DATA_CR", B), CRLF, Fresh(B), Bad)
         /\ Leads(AtPhase("TRAILER", B), CRLF, AtPhase("DONE", B), Bad)
         /\ Leads(AtPhase("TRAILER_SKIP", B), CRLF, AtPhase("TRAILER", B), Bad)
<1>1. ASSUME NEW n \in Nat
      PROVE  Leads(Sized({"SIZE"}, n, BOOLEAN, B), CRLF,
                   IF n = 0 THEN AtPhase("TRAILER", B) ELSE InData(n, B), Bad)
  <2> DEFINE D == Sized({"SIZE"}, n, BOOLEAN, B)
             E == Sized({"SIZE_LF"}, n, BOOLEAN, B)
             G == IF n = 0 THEN AtPhase("TRAILER", B) ELSE InData(n, B)
  <2>1. /\ \A d \in D : d \in States /\ d.phase \notin {"DONE", "ERROR"}
        /\ \A d \in E : d \in States /\ d.phase \notin {"DONE", "ERROR"}
    BY DEF Sized
  <2>2. /\ \A d \in D : Plus(d, "CR") \in E
        /\ \A d \in E : Plus(d, "LF") \in G
    BY SizeEnds
  <2> HIDE DEF D, E, G
  <2>3. Leads(D, <<"CR">>, E, Bad) /\ Leads(E, <<"LF">>, G, Bad)
    BY <2>1, <2>2, LeadsByte, BytesAre
  <2>4. Leads(D, <<"CR", "LF">>, G, Bad)
    BY <2>3, LeadsPair, BytesAre
  <2> QED
    BY <2>4, BytesAre DEF D, G
<1>2. ASSUME NEW p \in Phases \ {"DONE", "ERROR"}, NEW q \in Phases \ {"DONE", "ERROR"}, NEW G,
             \A d \in AtPhase(p, B) : Plus(d, "CR") \in AtPhase(q, B),
             \A d \in AtPhase(q, B) : Plus(d, "LF") \in G
      PROVE  Leads(AtPhase(p, B), CRLF, G, Bad)
  <2>1. /\ \A d \in AtPhase(p, B) : d \in States /\ d.phase \notin {"DONE", "ERROR"}
        /\ \A d \in AtPhase(q, B) : d \in States /\ d.phase \notin {"DONE", "ERROR"}
    BY DEF AtPhase
  <2>3. Leads(AtPhase(p, B), <<"CR">>, AtPhase(q, B), Bad) /\ Leads(AtPhase(q, B), <<"LF">>, G, Bad)
    BY <1>2, <2>1, LeadsByte, BytesAre
  <2>4. Leads(AtPhase(p, B), <<"CR", "LF">>, G, Bad)
    BY <2>3, LeadsPair, BytesAre
  <2> QED
    BY <2>4, BytesAre
<1>3. {"DATA_CR", "DATA_LF", "TRAILER", "TRAILER_LF", "TRAILER_SKIP", "TRAILER_SKIP_LF"}
        \subseteq Phases \ {"DONE", "ERROR"}
  BY DEF Phases
<1>4. Leads(AtPhase("DATA_CR", B), CRLF, Fresh(B), Bad)
  BY <1>2, <1>3, ChunkEnds
<1>5. Leads(AtPhase("TRAILER", B), CRLF, AtPhase("DONE", B), Bad)
  BY <1>2, <1>3, TrailerByte
<1>6. Leads(AtPhase("TRAILER_SKIP", B), CRLF, AtPhase("TRAILER", B), Bad)
  BY <1>2, <1>3, TrailerByte
<1> QED
  BY <1>1, <1>4, <1>5, <1>6

\* The first digit of a size.
LEMMA LeadsDigit ==
  ASSUME NEW B, NEW Bad, Bad \subseteq {"ERROR"}, NEW b \in {"0", "2"},
         SizeMax < HexValue[b] => "ERROR" \in Bad
  PROVE  Leads(Fresh(B), <<b>>, Sized({"SIZE"}, HexValue[b], {FALSE}, B), Bad)
<1>1. \A d \in Fresh(B) : d \in States /\ d.phase \notin {"DONE", "ERROR"}
  BY DEF Fresh
<1>2. \A d \in Fresh(B) : Plus(d, b) \in Sized({"SIZE"}, HexValue[b], {FALSE}, B)
                          \/ Plus(d, b).phase \in Bad
  BY FirstDigit
<1> QED
  BY <1>1, <1>2, LeadsByte, BytesAre

\* An extension of the size.
LEMMA LeadsExtension ==
  ASSUME NEW B, NEW Bad, Bad \subseteq {"ERROR"}, NEW n \in Nat, NEW ext \in Extensions
  PROVE  Leads(Sized({"SIZE"}, n, {FALSE}, B), ext, Sized({"SIZE"}, n, BOOLEAN, B), Bad)
         /\ ext \in Seq(Bytes)
<1> DEFINE F == Sized({"SIZE"}, n, {FALSE}, B)
           T == Sized({"SIZE"}, n, {TRUE}, B)
           A == Sized({"SIZE"}, n, BOOLEAN, B)
<1>1. /\ F \subseteq A /\ T \subseteq A
      /\ \A d \in A : d \in States /\ d.phase \notin {"DONE", "ERROR"}
  BY DEF Sized
<1>2. /\ \A d \in F : Plus(d, ";") \in T
      /\ \A d \in T : Plus(d, "2") \in T
  BY Extension
<1> HIDE DEF F, T, A
<1>3. CASE ext = <<>>
  <2>1. Leads(F, <<>>, F, Bad) /\ <<>> \in Seq(Bytes)
    BY LeadsNowhere
  <2>2. Leads(F, ext, A, Bad)
    BY <1>1, <1>3, <2>1, LeadsWithin
  <2> QED
    BY <1>3, <2>1, <2>2 DEF F, A
<1>4. CASE ext = <<";", "2">>
  <2>1. Leads(F, <<";">>, T, Bad) /\ Leads(T, <<"2">>, T, Bad)
    BY <1>1, <1>2, LeadsByte, BytesAre
  <2>2. Leads(F, <<";", "2">>, T, Bad) /\ <<";", "2">> \in Seq(Bytes)
    BY <2>1, LeadsPair, BytesAre
  <2>3. Leads(F, ext, A, Bad)
    BY <1>1, <1>4, <2>2, LeadsWithin
  <2> QED
    BY <1>4, <2>2, <2>3 DEF F, A
<1> QED
  BY <1>3, <1>4 DEF Extensions

\* The data of a chunk.
LEMMA LeadsData ==
  ASSUME NEW B \in Seq(Bytes), NEW Bad, Bad \subseteq {"ERROR"}, NEW data \in Data,
         Len(B) + 2 <= MaxBody \/ "ERROR" \in Bad
  PROVE  /\ Leads(InData(2, B), data, AtPhase("DATA_CR", B \o data), Bad)
         /\ data \in Seq(Bytes) /\ Len(data) = 2
         /\ B \o data \in Seq(Bytes) /\ Len(B \o data) = Len(B) + 2
<1>1. PICK a, b \in Bytes : data = <<a, b>>
  BY BytesAre DEF Data
<1>2. /\ <<a>> \in Seq(Bytes) /\ <<b>> \in Seq(Bytes) /\ data \in Seq(Bytes) /\ Len(data) = 2
      /\ <<a>> \o <<b>> = data
  BY <1>1, PairIs
<1> DEFINE C == B \o <<a>>
<1>3. /\ C \in Seq(Bytes) /\ Len(C) = Len(B) + 1 /\ Len(B) \in Nat
      /\ B \o data \in Seq(Bytes) /\ Len(B \o data) = Len(B) + 2
  <2>1. Len(<<a>>) = 1 /\ Len(B) \in Nat
    BY LenProperties
  <2>2. C \in Seq(Bytes) /\ Len(C) = Len(B) + Len(<<a>>)
    BY <1>2, ConcatProperties
  <2>3. B \o data \in Seq(Bytes) /\ Len(B \o data) = Len(B) + Len(data)
    BY <1>2, ConcatProperties
  <2> QED
    BY <1>2, <2>1, <2>2, <2>3
<1>4. C \o <<b>> = B \o data
  <2>1. \A x, y, z \in Seq(Bytes) : (x \o y) \o z = x \o (y \o z)
    OBVIOUS
  <2>2. (B \o <<a>>) \o <<b>> = B \o (<<a>> \o <<b>>)
    BY <1>2, <2>1
  <2> QED
    BY <1>2, <2>2
<1>5. \A d \in InData(2, B) : Plus(d, a) \in InData(1, C) \/ Plus(d, a).phase \in Bad
  <2> SUFFICES ASSUME NEW d \in InData(2, B)
               PROVE  Plus(d, a) \in InData(1, C) \/ Plus(d, a).phase \in Bad
    OBVIOUS
  <2>1. \/ Plus(d, a) \in IF 2 = 1 THEN AtPhase("DATA_CR", B \o <<a>>) ELSE InData(2 - 1, B \o <<a>>)
        \/ Plus(d, a).phase = "ERROR" /\ Len(B) + 1 > MaxBody
    BY DataByte
  <2>2. Len(B) + 1 > MaxBody => "ERROR" \in Bad
    BY <1>3, Constants
  <2> QED
    BY <2>1, <2>2
<1> HIDE DEF C
<1>6. \A d \in InData(1, C) : Plus(d, b) \in AtPhase("DATA_CR", C \o <<b>>) \/ Plus(d, b).phase \in Bad
  <2> SUFFICES ASSUME NEW d \in InData(1, C)
               PROVE  Plus(d, b) \in AtPhase("DATA_CR", C \o <<b>>) \/ Plus(d, b).phase \in Bad
    OBVIOUS
  <2>1. \/ Plus(d, b) \in IF 1 = 1 THEN AtPhase("DATA_CR", C \o <<b>>) ELSE InData(1 - 1, C \o <<b>>)
        \/ Plus(d, b).phase = "ERROR" /\ Len(C) + 1 > MaxBody
    BY DataByte
  <2>2. Len(C) + 1 > MaxBody => "ERROR" \in Bad
    BY <1>3, Constants
  <2> QED
    BY <2>1, <2>2
<1>7. /\ \A d \in InData(2, B) : d \in States /\ d.phase \notin {"DONE", "ERROR"}
      /\ \A d \in InData(1, C) : d \in States /\ d.phase \notin {"DONE", "ERROR"}
  BY DEF InData
<1>8. Leads(InData(2, B), <<a>>, InData(1, C), Bad)
      /\ Leads(InData(1, C), <<b>>, AtPhase("DATA_CR", C \o <<b>>), Bad)
  BY <1>5, <1>6, <1>7, LeadsByte
<1>9. Leads(InData(2, B), <<a, b>>, AtPhase("DATA_CR", C \o <<b>>), Bad)
  BY <1>8, LeadsPair
<1> QED
  BY <1>1, <1>2, <1>3, <1>4, <1>9

\* A chunk adds its data to the body, if there is room for it.
LEMMA LeadsChunk ==
  ASSUME NEW B \in Seq(Bytes), NEW Bad, Bad \subseteq {"ERROR"},
         NEW data \in Data, NEW ext \in Extensions,
         Len(B) + 2 <= MaxBody \/ "ERROR" \in Bad
  PROVE  /\ Leads(Fresh(B), Chunk(data, ext), Fresh(B \o data), Bad)
         /\ Chunk(data, ext) \in Seq(Bytes)
         /\ B \o data \in Seq(Bytes) /\ Len(B \o data) = Len(B) + 2
<1> DEFINE s1 == <<"2">> \o ext
           s2 == s1 \o CRLF
           s3 == s2 \o data
           s4 == s3 \o CRLF
<1>1. HexValue["2"] = 2 /\ <<"2">> \in Seq(Bytes) /\ CRLF \in Seq(Bytes)
  BY BytesAre DEF HexValue
<1>2. SizeMax < 2 => "ERROR" \in Bad
  <2>1. Len(B) \in Nat
    BY LenProperties
  <2> QED
    BY <2>1, ChunkDecoderAssumption
<1>3. Leads(Fresh(B), <<"2">>, Sized({"SIZE"}, 2, {FALSE}, B), Bad)
  BY <1>1, <1>2, LeadsDigit
<1>4. Leads(Sized({"SIZE"}, 2, {FALSE}, B), ext, Sized({"SIZE"}, 2, BOOLEAN, B), Bad)
      /\ ext \in Seq(Bytes)
  BY LeadsExtension
<1>5. Leads(Sized({"SIZE"}, 2, BOOLEAN, B), CRLF, InData(2, B), Bad)
  <2>1. \A n \in Nat : Leads(Sized({"SIZE"}, n, BOOLEAN, B), CRLF,
                             IF n = 0 THEN AtPhase("TRAILER", B) ELSE InData(n, B), Bad)
    BY LeadsCRLF
  <2>2. 2 \in Nat /\ 2 # 0
    OBVIOUS
  <2> QED
    BY <2>1, <2>2
<1>6. Leads(InData(2, B), data, AtPhase("DATA_CR", B \o data), Bad)
      /\ data \in Seq(Bytes) /\ B \o data \in Seq(Bytes) /\ Len(B \o data) = Len(B) + 2
  BY LeadsData
<1>7. Leads(AtPhase("DATA_CR", B \o data), CRLF, Fresh(B \o data), Bad)
  BY LeadsCRLF
<1>8. Leads(Fresh(B), s1, Sized({"SIZE"}, 2, BOOLEAN, B), Bad) /\ s1 \in Seq(Bytes)
  BY <1>1, <1>3, <1>4, LeadsConcat
<1> HIDE DEF s1
<1>9. Leads(Fresh(B), s2, InData(2, B), Bad) /\ s2 \in Seq(Bytes)
  BY <1>1, <1>5, <1>8, LeadsConcat
<1> HIDE DEF s2
<1>10. Leads(Fresh(B), s3, AtPhase("DATA_CR", B \o data), Bad) /\ s3 \in Seq(Bytes)
  BY <1>6, <1>9, LeadsConcat
<1> HIDE DEF s3
<1>11. Leads(Fresh(B), s4, Fresh(B \o data), Bad) /\ s4 \in Seq(Bytes)
  BY <1>1, <1>7, <1>10, LeadsConcat
<1>12. s4 = Chunk(data, ext)
  BY DEF s1, s2, s3, Chunk
<1> QED
  BY <1>6, <1>11, <1>12

\* f[n] is the first n parts one after the other.
Growing(f, N, part, D) ==
  f \in [0..N -> D] /\ f[0] = <<>> /\ \A n \in 1..N : f[n] = f[n - 1] \o part[n]

\* The recursive definition of that.
GrownFrom(f, N, part) == f = [n \in 0..N |-> IF n = 0 THEN <<>> ELSE f[n - 1] \o part[n]]

\* The parts lead from D to D.
Closed(D, N, part) == <<>> \in D /\ \A t \in D, n \in 1..N : t \o part[n] \in D

\* A function defined so exists.
LEMMA GrowingExists ==
  ASSUME NEW N \in Nat, NEW part, NEW D, Closed(D, N, part)
  PROVE  \E f : GrownFrom(f, N, part)
<1> DEFINE g == [p \in D \X (1..N) |-> p[1] \o part[p[2]]]
<1>1. g \in [D \X (1..N) -> D]
  BY DEF Closed
<1>2. \E h : IsRun(h, D, <<>>, N, g)
  <2> HIDE DEF g
  <2> QED
    BY <1>1, Recursion DEF Closed
<1>3. PICK h : IsRun(h, D, <<>>, N, g)
  BY <1>2
<1>4. h \in [0..N -> D] /\ h[0] = <<>>
  BY <1>3 DEF IsRun
<1>5. \A n \in 1..N : h[n] = h[n - 1] \o part[n]
  <2> SUFFICES ASSUME NEW n \in 1..N PROVE h[n] = h[n - 1] \o part[n]
    OBVIOUS
  <2>1. <<h[n - 1], n>> \in D \X (1..N)
    BY <1>4
  <2>2. g[<<h[n - 1], n>>] = h[n - 1] \o part[n]
    BY <2>1
  <2> QED
    BY <1>3, <2>2 DEF IsRun
<1> HIDE DEF g
<1>6. h = [n \in 0..N |-> IF n = 0 THEN <<>> ELSE h[n - 1] \o part[n]]
  <2> DEFINE F(n) == IF n = 0 THEN <<>> ELSE h[n - 1] \o part[n]
  <2>1. \A n \in 0..N : h[n] = F(n)
    <3> SUFFICES ASSUME NEW n \in 0..N PROVE h[n] = F(n)
      OBVIOUS
    <3>1. CASE n = 0
      BY <1>4, <3>1
    <3>2. CASE n # 0
      <4>1. n \in 1..N
        BY <3>2
      <4>2. h[n] = h[n - 1] \o part[n]
        BY <1>5, <4>1
      <4> QED
        BY <3>2, <4>2, Zenon
    <3> QED
      BY <3>1, <3>2
  <2> HIDE DEF F
  <2>2. h = [n \in 0..N |-> F(n)]
    BY <1>4, <2>1
  <2> QED
    BY <2>2 DEF F
<1> QED
  BY <1>6 DEF GrownFrom

\* And it grows part by part.
LEMMA GrowingIn ==
  ASSUME NEW N \in Nat, NEW part, NEW D, Closed(D, N, part),
         NEW f, GrownFrom(f, N, part)
  PROVE  Growing(f, N, part, D)
<1>1. f[0] = <<>> /\ \A n \in 1..N : f[n] = f[n - 1] \o part[n]
  <2>1. \A n \in 0..N : f[n] = IF n = 0 THEN <<>> ELSE f[n - 1] \o part[n]
    BY DEF GrownFrom
  <2>2. 0 \in 0..N /\ \A n \in 1..N : n \in 0..N /\ n # 0
    OBVIOUS
  <2> QED
    BY <2>1, <2>2
<1> DEFINE S == {n \in Nat : n <= N => f[n] \in D}
<1>2. 0 \in S
  BY <1>1 DEF Closed
<1>3. ASSUME NEW n \in Nat, n \in S PROVE n + 1 \in S
  <2> SUFFICES ASSUME n + 1 <= N PROVE f[n + 1] \in D
    OBVIOUS
  <2>1. n <= N /\ n + 1 \in 1..N /\ n + 1 - 1 = n
    OBVIOUS
  <2>2. f[n] \in D
    BY <1>3, <2>1
  <2>3. f[n + 1] = f[n] \o part[n + 1]
    <3>1. PICK m \in 1..N : m = n + 1 /\ m - 1 = n
      BY <2>1
    <3>2. f[m] = f[m - 1] \o part[m]
      BY <1>1, Zenon
    <3> QED
      BY <3>1, <3>2, Zenon
  <2> QED
    BY <2>1, <2>2, <2>3 DEF Closed
<1> HIDE DEF S
<1>4. \A n \in Nat : n \in S
  BY <1>2, <1>3, Induction
<1>5. \A n \in 0..N : f[n] \in D
  <2>1. \A n \in 0..N : n \in Nat /\ n <= N
    OBVIOUS
  <2> QED
    BY <1>4, <2>1 DEF S
<1>6. f \in [0..N -> D]
  <2>1. DOMAIN f = 0..N /\ f = [n \in 0..N |-> f[n]]
    BY DEF GrownFrom
  <2> QED
    BY <1>5, <2>1
<1> QED
  BY <1>1, <1>6, Zenon DEF Growing

\* Both, of sequences of bytes.
LEMMA GrowingIs ==
  ASSUME NEW N \in Nat, NEW part \in [1..N -> Seq(Bytes)]
  PROVE  /\ \E f : GrownFrom(f, N, part)
         /\ \A f : GrownFrom(f, N, part) => Growing(f, N, part, Seq(Bytes))
<1> DEFINE D == Seq(Bytes)
<1>1. Closed(D, N, part)
  BY ConcatProperties DEF Closed
<1> HIDE DEF D
<1>2. \E f : GrownFrom(f, N, part)
  BY <1>1, GrowingExists
<1>3. ASSUME NEW f, GrownFrom(f, N, part)
      PROVE  Growing(f, N, part, Seq(Bytes))
  <2>1. Growing(f, N, part, D)
    BY <1>1, <1>3, GrowingIn
  <2> QED
    BY <2>1 DEF D
<1> QED
  BY <1>2, <1>3

\* What chunks are on the wire, and what they carry.
LEMMA ChunksAre ==
  ASSUME NEW chunks \in Seq(Data), NEW ext \in Extensions
  PROVE  /\ Growing(ChunksWire(chunks, ext), Len(chunks),
                    [n \in 1..Len(chunks) |-> Chunk(chunks[n], ext)], Seq(Bytes))
         /\ Growing(ChunksBody(chunks), Len(chunks), [n \in 1..Len(chunks) |-> chunks[n]],
                    Seq(Bytes))
<1> DEFINE N == Len(chunks)
           parts == [n \in 1..N |-> Chunk(chunks[n], ext)]
           datas == [n \in 1..N |-> chunks[n]]
           wire[n \in 0..Len(chunks)] ==
             IF n = 0 THEN <<>> ELSE wire[n - 1] \o Chunk(chunks[n], ext)
           body[n \in 0..Len(chunks)] == IF n = 0 THEN <<>> ELSE body[n - 1] \o chunks[n]
<1>1. N \in Nat /\ \A n \in 1..N : chunks[n] \in Data
  BY LenProperties, ElementOfSeq
<1>2. \A data \in Data : data \in Seq(Bytes) /\ Chunk(data, ext) \in Seq(Bytes)
  <2> SUFFICES ASSUME NEW data \in Data
               PROVE  data \in Seq(Bytes) /\ Chunk(data, ext) \in Seq(Bytes)
    OBVIOUS
  <2>1. <<>> \in Seq(Bytes) /\ "ERROR" \in {"ERROR"}
    OBVIOUS
  <2> QED
    BY <2>1, LeadsChunk, LeadsData
<1>3. parts \in [1..N -> Seq(Bytes)] /\ datas \in [1..N -> Seq(Bytes)]
  BY <1>1, <1>2
<1>4. Growing(wire, N, parts, Seq(Bytes))
  <2>1. \E f : GrownFrom(f, N, parts)
    <3> HIDE DEF N, parts
    <3> QED
      BY <1>1, <1>3, GrowingIs
  <2>2. PICK f : f = [n \in 0..N |-> IF n = 0 THEN <<>> ELSE f[n - 1] \o parts[n]]
    BY <2>1 DEF GrownFrom
  <2>3. \A h : [n \in 0..N |-> IF n = 0 THEN <<>> ELSE h[n - 1] \o parts[n]]
               = [n \in 0..N |-> IF n = 0 THEN <<>> ELSE h[n - 1] \o Chunk(chunks[n], ext)]
    <3>1. \A n \in 0..N : n # 0 => parts[n] = Chunk(chunks[n], ext)
      BY <1>1
    <3> HIDE DEF parts, N
    <3> QED
      BY <3>1
  <2>4. f = [n \in 0..N |-> IF n = 0 THEN <<>> ELSE f[n - 1] \o Chunk(chunks[n], ext)]
    BY <2>2, <2>3, Zenon
  <2>5. wire = [n \in 0..N |-> IF n = 0 THEN <<>> ELSE wire[n - 1] \o Chunk(chunks[n], ext)]
    BY <2>4, Zenon DEF N
  <2> HIDE DEF wire, N, parts
  <2>6. wire = [n \in 0..N |-> IF n = 0 THEN <<>> ELSE wire[n - 1] \o parts[n]]
    BY <2>3, <2>5, Zenon
  <2> QED
    BY <1>1, <1>3, <2>6, GrowingIs DEF GrownFrom
<1>5. Growing(body, N, datas, Seq(Bytes))
  <2>1. \E f : GrownFrom(f, N, datas)
    <3> HIDE DEF N, datas
    <3> QED
      BY <1>1, <1>3, GrowingIs
  <2>2. PICK f : f = [n \in 0..N |-> IF n = 0 THEN <<>> ELSE f[n - 1] \o datas[n]]
    BY <2>1 DEF GrownFrom
  <2>3. \A h : [n \in 0..N |-> IF n = 0 THEN <<>> ELSE h[n - 1] \o datas[n]]
               = [n \in 0..N |-> IF n = 0 THEN <<>> ELSE h[n - 1] \o chunks[n]]
    <3>1. \A n \in 0..N : n # 0 => datas[n] = chunks[n]
      BY <1>1
    <3> HIDE DEF datas, N
    <3> QED
      BY <3>1
  <2>4. f = [n \in 0..N |-> IF n = 0 THEN <<>> ELSE f[n - 1] \o chunks[n]]
    BY <2>2, <2>3, Zenon
  <2>5. body = [n \in 0..N |-> IF n = 0 THEN <<>> ELSE body[n - 1] \o chunks[n]]
    BY <2>4, Zenon DEF N
  <2> HIDE DEF body, N, datas
  <2>6. body = [n \in 0..N |-> IF n = 0 THEN <<>> ELSE body[n - 1] \o datas[n]]
    BY <2>3, <2>5, Zenon
  <2> QED
    BY <1>1, <1>3, <2>6, GrowingIs DEF GrownFrom
<1> QED
  BY <1>4, <1>5 DEF ChunksWire, ChunksBody

\* Chunks that fit are decoded into what they carry.
LEMMA LeadsChunks ==
  ASSUME NEW chunks \in Seq(Data), NEW ext \in Extensions, NEW Bad, Bad \subseteq {"ERROR"},
         2 * Len(chunks) <= MaxBody \/ "ERROR" \in Bad
  PROVE  LET wire == ChunksWire(chunks, ext)[Len(chunks)]
             body == ChunksBody(chunks)[Len(chunks)]
         IN  /\ Leads({Decoder}, wire, Fresh(body), Bad)
             /\ wire \in Seq(Bytes) /\ body \in Seq(Bytes) /\ Len(body) = 2 * Len(chunks)
<1> DEFINE N == Len(chunks)
           wire == ChunksWire(chunks, ext)
           body == ChunksBody(chunks)
           S == {n \in Nat : n <= N => /\ Leads({Decoder}, wire[n], Fresh(body[n]), Bad)
                                       /\ Len(body[n]) = 2 * n}
<1>1. /\ N \in Nat /\ \A n \in 1..N : chunks[n] \in Data
      /\ MaxBody \in Nat
  BY LenProperties, ElementOfSeq, Constants
<1>2. /\ wire \in [0..N -> Seq(Bytes)] /\ wire[0] = <<>>
      /\ \A n \in 1..N : wire[n] = wire[n - 1] \o Chunk(chunks[n], ext)
      /\ body \in [0..N -> Seq(Bytes)] /\ body[0] = <<>>
      /\ \A n \in 1..N : body[n] = body[n - 1] \o chunks[n]
  BY ChunksAre DEF Growing
<1> HIDE DEF wire, body
<1>3. 0 \in S
  <2>1. Decoder \in Fresh(<<>>)
    BY DecoderState DEF Fresh, Decoder
  <2>2. {Decoder} \subseteq {Decoder} /\ {Decoder} \subseteq Fresh(<<>>)
    BY <2>1
  <2>3. Leads({Decoder}, <<>>, {Decoder}, Bad)
    BY LeadsNowhere
  <2>4. Leads({Decoder}, <<>>, Fresh(<<>>), Bad)
    BY <2>2, <2>3, LeadsWithin
  <2> QED
    BY <1>2, <2>4
<1>4. ASSUME NEW n \in Nat, n \in S PROVE n + 1 \in S
  <2> SUFFICES ASSUME n + 1 <= N
               PROVE  /\ Leads({Decoder}, wire[n + 1], Fresh(body[n + 1]), Bad)
                      /\ Len(body[n + 1]) = 2 * (n + 1)
    OBVIOUS
  <2>1. n <= N /\ n + 1 \in 1..N /\ n + 1 - 1 = n /\ n \in 0..N
    BY <1>1
  <2>2. /\ wire[n + 1] = wire[n] \o Chunk(chunks[n + 1], ext)
        /\ body[n + 1] = body[n] \o chunks[n + 1]
        /\ chunks[n + 1] \in Data
    <3>1. PICK m \in 1..N : m = n + 1 /\ m - 1 = n
      BY <2>1
    <3>2. /\ wire[m] = wire[m - 1] \o Chunk(chunks[m], ext)
          /\ body[m] = body[m - 1] \o chunks[m]
          /\ chunks[m] \in Data
      BY <1>1, <1>2, Zenon
    <3> QED
      BY <3>1, <3>2, Zenon
  <2>8. wire[n] \in Seq(Bytes) /\ body[n] \in Seq(Bytes)
    <3> DEFINE D == Seq(Bytes)
    <3> HIDE DEF D
    <3>1. wire \in [0..N -> D] /\ body \in [0..N -> D]
      BY <1>2 DEF D
    <3>2. wire[n] \in D /\ body[n] \in D
      BY <2>1, <3>1
    <3> QED
      BY <3>2 DEF D
  <2>3. Leads({Decoder}, wire[n], Fresh(body[n]), Bad) /\ Len(body[n]) = 2 * n
    BY <1>4, <2>1
  <2>4. Len(body[n]) + 2 <= MaxBody \/ "ERROR" \in Bad
    BY <1>1, <2>1, <2>3
  <2>5. /\ Leads(Fresh(body[n]), Chunk(chunks[n + 1], ext), Fresh(body[n + 1]), Bad)
        /\ Chunk(chunks[n + 1], ext) \in Seq(Bytes) /\ Len(body[n + 1]) = Len(body[n]) + 2
    BY <2>2, <2>4, <2>8, LeadsChunk
  <2>6. Leads({Decoder}, wire[n + 1], Fresh(body[n + 1]), Bad)
    <3>1. Leads({Decoder}, wire[n] \o Chunk(chunks[n + 1], ext), Fresh(body[n + 1]), Bad)
      BY <2>3, <2>5, <2>8, LeadsConcat
    <3> QED
      BY <2>2, <3>1
  <2>7. Len(body[n + 1]) = 2 * (n + 1)
    BY <2>3, <2>5
  <2> QED
    BY <2>6, <2>7
<1> HIDE DEF S
<1>5. N \in S
  BY <1>1, <1>3, <1>4, Induction
<1>6. N \in 0..N /\ N <= N
  BY <1>1
<1>7. /\ Leads({Decoder}, wire[N], Fresh(body[N]), Bad) /\ Len(body[N]) = 2 * N
      /\ wire[N] \in Seq(Bytes) /\ body[N] \in Seq(Bytes)
  <2> DEFINE D == Seq(Bytes)
  <2> HIDE DEF D, N
  <2>1. wire \in [0..N -> D] /\ body \in [0..N -> D]
    BY <1>2 DEF D
  <2>2. wire[N] \in D /\ body[N] \in D
    BY <1>6, <2>1
  <2> QED
    BY <1>5, <1>6, <2>2 DEF D, S
<1> QED
  BY <1>7 DEF wire, body

\* The last chunk.
LEMMA LeadsLast ==
  ASSUME NEW B, NEW Bad, Bad \subseteq {"ERROR"}, NEW last \in LastChunks
  PROVE  Leads(Fresh(B), last, Sized({"SIZE"}, 0, BOOLEAN, B), Bad) /\ last \in Seq(Bytes)
<1> DEFINE F == Sized({"SIZE"}, 0, {FALSE}, B)
           T == Sized({"SIZE"}, 0, {TRUE}, B)
           A == Sized({"SIZE"}, 0, BOOLEAN, B)
<1>1. /\ F \subseteq A /\ T \subseteq A
      /\ \A d \in A : d \in States /\ d.phase \notin {"DONE", "ERROR"}
  BY DEF Sized
<1>2. Leads(Fresh(B), <<"0">>, F, Bad)
  <2>1. HexValue["0"] = 0 /\ ~(SizeMax < 0) /\ "0" \in {"0", "2"}
    BY Constants DEF HexValue
  <2> QED
    BY <2>1, LeadsDigit
<1>3. \A d \in F : Plus(d, "0") \in F
  <2>1. 0 \in Nat /\ 0 * 16 = 0 /\ ~(0 > 0)
    OBVIOUS
  <2> QED
    BY <2>1, NextDigit
<1>4. \A d \in F : Plus(d, ";") \in T
  BY Extension
<1> HIDE DEF F, T, A
<1>5. Leads(F, <<"0">>, F, Bad) /\ Leads(F, <<";">>, T, Bad)
  BY <1>1, <1>3, <1>4, LeadsByte, BytesAre
<1>6. CASE last = <<"0">>
  <2>1. Leads(Fresh(B), last, A, Bad) /\ last \in Seq(Bytes)
    BY <1>1, <1>2, <1>6, LeadsWithin, BytesAre
  <2> QED
    BY <2>1 DEF A
<1>7. CASE last = <<"0", "0">>
  <2>1. Leads(Fresh(B), last, F, Bad) /\ last \in Seq(Bytes)
    BY <1>2, <1>5, <1>7, LeadsPair, BytesAre
  <2>2. Leads(Fresh(B), last, A, Bad)
    BY <1>1, <2>1, LeadsWithin
  <2> QED
    BY <2>1, <2>2 DEF A
<1>8. CASE last = <<"0", ";">>
  <2>1. Leads(Fresh(B), last, T, Bad) /\ last \in Seq(Bytes)
    BY <1>2, <1>5, <1>8, LeadsPair, BytesAre
  <2>2. Leads(Fresh(B), last, A, Bad)
    BY <1>1, <2>1, LeadsWithin
  <2> QED
    BY <2>1, <2>2 DEF A
<1> QED
  BY <1>6, <1>7, <1>8 DEF LastChunks

\* The trailer lines.
LEMMA LeadsTrailer ==
  ASSUME NEW B, NEW Bad, Bad \subseteq {"ERROR"}, NEW trailer \in Trailers
  PROVE  /\ Leads(AtPhase("TRAILER", B), trailer, AtPhase("TRAILER", B), Bad)
         /\ trailer \in Seq(Bytes) /\ Len(trailer) <= 7
<1> DEFINE A == AtPhase("TRAILER", B)
           K == AtPhase("TRAILER_SKIP", B)
           s1 == <<"0", "2">> \o CRLF
           s2 == s1 \o <<";">>
           s3 == s2 \o CRLF
<1>1. CASE trailer = <<>>
  BY <1>1, LeadsNowhere
<1>2. CASE trailer = <<"0", "2">> \o CRLF \o <<";">> \o CRLF
  <2>1. /\ \A d \in A : d \in States /\ d.phase \notin {"DONE", "ERROR"}
        /\ \A d \in K : d \in States /\ d.phase \notin {"DONE", "ERROR"}
    BY DEF AtPhase
  <2>2. /\ \A d \in A : Plus(d, "0") \in K /\ Plus(d, ";") \in K
        /\ \A d \in K : Plus(d, "2") \in K
    BY TrailerByte, BytesAre
  <2>3. Leads(K, CRLF, A, Bad)
    BY LeadsCRLF
  <2> HIDE DEF A, K
  <2>4. Leads(A, <<"0">>, K, Bad) /\ Leads(K, <<"2">>, K, Bad) /\ Leads(A, <<";">>, K, Bad)
    BY <2>1, <2>2, LeadsByte, BytesAre
  <2>5. Leads(A, <<"0", "2">>, K, Bad) /\ <<"0", "2">> \in Seq(Bytes) /\ Len(<<"0", "2">>) = 2
    BY <2>4, LeadsPair, BytesAre
  <2>6. CRLF \in Seq(Bytes) /\ <<";">> \in Seq(Bytes)
    BY BytesAre
  <2>7. Leads(A, s1, A, Bad) /\ s1 \in Seq(Bytes)
    BY <2>3, <2>5, <2>6, LeadsConcat
  <2>8. Leads(A, s2, K, Bad) /\ s2 \in Seq(Bytes)
    <3> HIDE DEF s1
    <3> QED
      BY <2>4, <2>6, <2>7, LeadsConcat
  <2>9. Leads(A, s3, A, Bad) /\ s3 \in Seq(Bytes)
    <3> HIDE DEF s2
    <3> QED
      BY <2>3, <2>6, <2>8, LeadsConcat
  <2>10. Len(s3) = 7
    <3>1. Len(<<"0", "2">>) = 2 /\ Len(CRLF) = 2 /\ Len(<<";">>) = 1
      BY BytesAre
    <3>2. \A x, y \in Seq(Bytes) : Len(x \o y) = Len(x) + Len(y)
      BY ConcatProperties
    <3> DEFINE a == <<"0", "2">>
               c == <<";">>
    <3>3. Len(s1) = Len(a) + Len(CRLF) /\ Len(s2) = Len(s1) + Len(c) /\ Len(s3) = Len(s2) + Len(CRLF)
      <4>1. a \in Seq(Bytes) /\ c \in Seq(Bytes)
        BY <2>5, <2>6
      <4> HIDE DEF a, c
      <4> QED
        <5>1. Len(s1) = Len(a) + Len(CRLF)
          BY <2>6, <3>2, <4>1 DEF a
        <5>2. Len(s2) = Len(s1) + Len(c)
          BY <2>7, <3>2, <4>1 DEF c
        <5>3. Len(s3) = Len(s2) + Len(CRLF)
          BY <2>6, <2>8, <3>2
        <5> QED
          BY <5>1, <5>2, <5>3
    <3>4. Len(a) = 2 /\ Len(c) = 1
      BY <3>1
    <3> HIDE DEF a, c, s1, s2, s3
    <3> QED
      BY <3>1, <3>3, <3>4
  <2>11. s3 = trailer
    BY <1>2
  <2>12. 7 <= 7
    OBVIOUS
  <2> HIDE DEF s3
  <2>13. Leads(A, trailer, A, Bad) /\ trailer \in Seq(Bytes) /\ Len(trailer) = 7
    BY <2>9, <2>10, <2>11, Zenon
  <2> QED
    BY <2>12, <2>13 DEF A
<1> QED
  BY <1>1, <1>2 DEF Trailers

\* What a message of the grammar is made of.
LEMMA MessageParts ==
  ASSUME NEW chunks \in UNION {[1..n -> Data] : n \in 0..MaxChunks}
  PROVE  chunks \in Seq(Data)
<1>1. PICK n \in 0..MaxChunks : chunks \in [1..n -> Data]
  OBVIOUS
<1>2. n \in Nat
  BY MaxChunksAssumption
<1> QED
  BY <1>1, <1>2, IsASeq

\* A message whose body fits is decoded into it with its last byte.
LEMMA LeadsMessage ==
  ASSUME NEW chunks \in Seq(Data), NEW ext \in Extensions,
         NEW last \in LastChunks, NEW trailer \in Trailers,
         Len(Message(chunks, ext, last, trailer).body) <= MaxBody
  PROVE  /\ Message(chunks, ext, last, trailer).wire \in Seq(Bytes)
         /\ Leads({Decoder}, Message(chunks, ext, last, trailer).wire,
                  AtPhase("DONE", Message(chunks, ext, last, trailer).body), {})
<1> DEFINE c == ChunksWire(chunks, ext)[Len(chunks)]
           B == ChunksBody(chunks)[Len(chunks)]
           s1 == c \o last
           s2 == s1 \o CRLF
           s3 == s2 \o trailer
           s4 == s3 \o CRLF
<1>1. s4 = Message(chunks, ext, last, trailer).wire /\ B = Message(chunks, ext, last, trailer).body
  BY DEF Message
<1>2. {} \subseteq {"ERROR"} /\ {"ERROR"} \subseteq {"ERROR"} /\ "ERROR" \in {"ERROR"}
  OBVIOUS
<1>3. Len(B) = 2 * Len(chunks)
  BY <1>2, LeadsChunks
<1>4. 2 * Len(chunks) <= MaxBody
  BY <1>1, <1>3
<1>5. Leads({Decoder}, c, Fresh(B), {}) /\ c \in Seq(Bytes)
  BY <1>2, <1>4, LeadsChunks
<1> HIDE DEF c, B
<1>6. Leads(Fresh(B), last, Sized({"SIZE"}, 0, BOOLEAN, B), {}) /\ last \in Seq(Bytes)
  BY <1>2, LeadsLast
<1>7. /\ Leads(Sized({"SIZE"}, 0, BOOLEAN, B), CRLF, AtPhase("TRAILER", B), {})
      /\ Leads(AtPhase("TRAILER", B), CRLF, AtPhase("DONE", B), {})
      /\ CRLF \in Seq(Bytes)
  <2>1. \A n \in Nat : Leads(Sized({"SIZE"}, n, BOOLEAN, B), CRLF,
                             IF n = 0 THEN AtPhase("TRAILER", B) ELSE InData(n, B), {})
    BY <1>2, LeadsCRLF
  <2> QED
    BY <1>2, <2>1, LeadsCRLF, BytesAre
<1>8. Leads(AtPhase("TRAILER", B), trailer, AtPhase("TRAILER", B), {}) /\ trailer \in Seq(Bytes)
  BY <1>2, LeadsTrailer
<1>9. Leads({Decoder}, s1, Sized({"SIZE"}, 0, BOOLEAN, B), {}) /\ s1 \in Seq(Bytes)
  BY <1>2, <1>5, <1>6, LeadsConcat
<1> HIDE DEF s1
<1>10. Leads({Decoder}, s2, AtPhase("TRAILER", B), {}) /\ s2 \in Seq(Bytes)
  BY <1>2, <1>7, <1>9, LeadsConcat
<1> HIDE DEF s2
<1>11. Leads({Decoder}, s3, AtPhase("TRAILER", B), {}) /\ s3 \in Seq(Bytes)
  BY <1>2, <1>8, <1>10, LeadsConcat
<1> HIDE DEF s3
<1>12. Leads({Decoder}, s4, AtPhase("DONE", B), {}) /\ s4 \in Seq(Bytes)
  BY <1>2, <1>7, <1>11, LeadsConcat
<1> QED
  BY <1>1, <1>12

\* The decoder in a chunk that misses more than k bytes.
Missing(k) == {d \in States : d.phase = "DATA" /\ d.need > k}

\* Bytes inside of a chunk only fill it.
LEMMA LeadsInside ==
  ASSUME NEW k \in Nat, NEW s \in Seq(Bytes)
  PROVE  Leads(Missing(k + Len(s)), s, Missing(k), {"ERROR"})
<1> SUFFICES ASSUME NEW d \in Missing(k + Len(s)), NEW f, Bytewise(f, d, s)
             PROVE  /\ f[Len(s)] \in Missing(k) \/ f[Len(s)].phase \in {"ERROR"}
                    /\ \A n \in 0..(Len(s) - 1) :
                         f[n].phase \in {"DONE", "ERROR"} => f[n].phase \in {"ERROR"}
  BY DEF Leads
<1>1. /\ Len(s) \in Nat /\ d \in States /\ d.phase = "DATA" /\ d.need \in Nat
      /\ d.need > k + Len(s) /\ Len(d.body) \in Nat /\ MaxBody \in Nat
  BY LenProperties, Constants DEF Missing, States
<1>2. f[0] = d /\ f \in [0..Len(s) -> States]
  BY DEF Bytewise
<1>3. ASSUME NEW n \in 0..Len(s)
      PROVE  f[n] \in Missing(k) \/ f[n].phase = "ERROR"
  <2>1. CASE n = 0
    BY <1>1, <1>2, <2>1 DEF Missing
  <2>2. CASE n # 0
    <3>1. n \in 1..Len(s) /\ 0 \in 0..Len(s) /\ Len(s) <= d.need /\ 0 + Len(s) <= Len(s)
      BY <1>1, <2>2
    <3>2. PICK i \in 0..Len(s) : i = 0
      BY <3>1
    <3>3. f[i].phase = "DATA" /\ Len(s) <= f[i].need /\ i + Len(s) <= Len(s)
      BY <1>1, <1>2, <3>1, <3>2
    <3>4. \A j \in 1..Len(s) :
            /\ Len(f[i].body) + j <= MaxBody => f[i + j] = Taken(f[i], SubSeq(s, i + 1, i + j))
            /\ Len(f[i].body) + j > MaxBody => f[i + j].phase = "ERROR"
      BY <1>1, <3>3, DataBytewise
    <3>5. \A j \in 1..Len(s) :
            /\ Len(f[0].body) + j <= MaxBody => f[0 + j] = Taken(f[0], SubSeq(s, 0 + 1, 0 + j))
            /\ Len(f[0].body) + j > MaxBody => f[0 + j].phase = "ERROR"
      BY <3>2, <3>4
    <3>6. 0 + n = n /\ 0 + 1 = 1
      OBVIOUS
    <3>7. CASE Len(d.body) + n <= MaxBody
      <4>1. f[n] = Taken(d, SubSeq(s, 1, n))
        BY <1>2, <3>1, <3>5, <3>6, <3>7
      <4>2. SubSeq(s, 0 + 1, 0 + n) \in Seq(Bytes) /\ Len(SubSeq(s, 0 + 1, 0 + n)) = n
        BY <3>1, PartIs
      <4> DEFINE part == SubSeq(s, 1, n)
      <4>3. part \in Seq(Bytes) /\ Len(part) = n
        BY <3>6, <4>2
      <4> HIDE DEF part
      <4>4. Taken(d, part).need = d.need - n /\ Taken(d, part).phase = "DATA"
            /\ Taken(d, part) \in States
        BY <1>1, <3>1, <4>3, TakenState
      <4>5. d.need - n > k
        BY <1>1, <3>1
      <4> QED
        BY <4>1, <4>4, <4>5 DEF Missing, part
    <3>8. CASE ~(Len(d.body) + n <= MaxBody)
      <4>1. Len(d.body) + n > MaxBody
        BY <1>1, <3>1, <3>8
      <4> QED
        BY <1>2, <3>1, <3>5, <3>6, <4>1
    <3> QED
      BY <3>7, <3>8
  <2> QED
    BY <2>1, <2>2
<1>4. Len(s) \in 0..Len(s) /\ \A n \in 0..(Len(s) - 1) : n \in 0..Len(s)
  BY <1>1
<1>5. \A n \in 0..Len(s) : f[n] \in Missing(k) \/ f[n].phase = "ERROR"
  BY <1>3
<1> QED
  BY <1>4, <1>5 DEF Missing

\* A size that a size_t has no room for: it is refused, or the chunk is never filled.
LEMMA LeadsOversized ==
  ASSUME NEW chunks \in Seq(Data), NEW ext \in Extensions, NEW trailer \in Trailers
  PROVE  /\ Message(chunks, ext, <<"2", "0", "0">>, trailer).wire \in Seq(Bytes)
         /\ Leads({Decoder}, Message(chunks, ext, <<"2", "0", "0">>, trailer).wire,
                  Missing(0), {"ERROR"})
<1> DEFINE c == ChunksWire(chunks, ext)[Len(chunks)]
           B == ChunksBody(chunks)[Len(chunks)]
           Bad == {"ERROR"}
           last == <<"2", "0", "0">>
           s1 == c \o last
           s2 == s1 \o CRLF
           s3 == s2 \o trailer
           s4 == s3 \o CRLF
           F(n) == Sized({"SIZE"}, n, {FALSE}, B)
<1>1. s4 = Message(chunks, ext, last, trailer).wire
  BY DEF Message
<1>2. Bad \subseteq {"ERROR"} /\ "ERROR" \in Bad
  OBVIOUS
<1>3. Leads({Decoder}, c, Fresh(B), Bad) /\ c \in Seq(Bytes)
  BY <1>2, LeadsChunks
<1> HIDE DEF c, B
<1>4. Leads(Fresh(B), <<"2">>, F(2), Bad)
  <2>1. HexValue["2"] = 2 /\ "2" \in {"0", "2"}
    BY DEF HexValue
  <2> QED
    BY <1>2, <2>1, LeadsDigit
<1>5. ASSUME NEW n \in Nat
      PROVE  Leads(F(n), <<"0">>, F(n * 16), Bad)
  <2>1. \A d \in F(n) : d \in States /\ d.phase \notin {"DONE", "ERROR"}
    BY DEF Sized
  <2>2. \A d \in F(n) : Plus(d, "0") \in F(n * 16) \/ Plus(d, "0").phase \in Bad
    BY NextDigit
  <2> QED
    BY <2>1, <2>2, LeadsByte, BytesAre
<1>6. Leads(F(2), <<"0">>, F(32), Bad) /\ Leads(F(32), <<"0">>, F(512), Bad)
  <2>1. 2 \in Nat /\ 32 \in Nat /\ 2 * 16 = 32 /\ 32 * 16 = 512
    OBVIOUS
  <2> HIDE DEF F
  <2>2. Leads(F(2), <<"0">>, F(2 * 16), Bad) /\ Leads(F(32), <<"0">>, F(32 * 16), Bad)
    BY <1>5, <2>1
  <2> QED
    BY <2>1, <2>2
<1>7. Leads(Fresh(B), last, F(512), Bad) /\ last \in Seq(Bytes)
  <2> DEFINE p == <<"2", "0">>
             z == <<"0">>
  <2>1. Leads(Fresh(B), p, F(32), Bad) /\ p \in Seq(Bytes) /\ z \in Seq(Bytes)
    BY <1>2, <1>4, <1>6, LeadsPair, BytesAre
  <2>2. p \o z = last
    <3>1. /\ Len(p) = 2 /\ p[1] = "2" /\ p[2] = "0" /\ Len(z) = 1 /\ z[1] = "0"
          /\ Len(last) = 3 /\ last[1] = "2" /\ last[2] = "0" /\ last[3] = "0"
      OBVIOUS
    <3>2. last \in Seq(Bytes)
      BY DEF Bytes
    <3> HIDE DEF p, z, last
    <3>3. /\ p \o z \in Seq(Bytes) /\ Len(p \o z) = Len(p) + Len(z)
          /\ \A i \in 1..(Len(p) + Len(z)) : (p \o z)[i] = IF i <= Len(p) THEN p[i] ELSE z[i - Len(p)]
      BY <2>1, ConcatProperties
    <3>4. (p \o z)[1] = "2" /\ (p \o z)[2] = "0" /\ (p \o z)[3] = "0" /\ Len(p \o z) = 3
      <4>1. 1 \in 1..3 /\ 2 \in 1..3 /\ 3 \in 1..3 /\ 3 - 2 = 1 /\ 2 + 1 = 3
        OBVIOUS
      <4> QED
        BY <3>1, <3>3, <4>1
    <3>5. \A i \in 1..3 : i = 1 \/ i = 2 \/ i = 3
      OBVIOUS
    <3>6. \A i \in 1..Len(last) : (p \o z)[i] = last[i]
      BY <3>1, <3>4, <3>5
    <3> QED
      BY <3>1, <3>2, <3>3, <3>4, <3>6, SeqEqual
  <2> HIDE DEF p, last
  <2>3. Leads(Fresh(B), p \o z, F(512), Bad) /\ p \o z \in Seq(Bytes)
    BY <1>2, <1>6, <2>1, LeadsConcat
  <2> QED
    BY <2>2, <2>3
<1> HIDE DEF last
<1>8. Leads(F(512), CRLF, Missing(9 + Len(trailer)), Bad)
      /\ trailer \in Seq(Bytes) /\ Len(trailer) \in Nat
  <2>1. \A n \in Nat : Leads(Sized({"SIZE"}, n, BOOLEAN, B), CRLF,
                             IF n = 0 THEN AtPhase("TRAILER", B) ELSE InData(n, B), Bad)
    BY <1>2, LeadsCRLF
  <2>2. PICK n \in Nat : n = 512
    OBVIOUS
  <2>3. Leads(Sized({"SIZE"}, n, BOOLEAN, B), CRLF, InData(n, B), Bad)
    BY <2>1, <2>2
  <2>4. F(n) \subseteq Sized({"SIZE"}, n, BOOLEAN, B)
    BY DEF Sized
  <2>5. trailer \in Seq(Bytes) /\ Len(trailer) \in Nat /\ Len(trailer) <= 7
    BY <1>2, LeadsTrailer, LenProperties
  <2>6. InData(n, B) \subseteq Missing(9 + Len(trailer))
    <3>1. n > 9 + Len(trailer)
      BY <2>2, <2>5
    <3> QED
      BY <3>1 DEF InData, Missing
  <2>7. Leads(F(n), CRLF, Missing(9 + Len(trailer)), Bad)
    BY <2>3, <2>4, <2>6, LeadsWithin
  <2> QED
    BY <2>2, <2>5, <2>7
<1> HIDE DEF F
<1>9. Leads(Missing(9 + Len(trailer)), trailer, Missing(9), Bad)
  BY <1>8, LeadsInside
<1>10. Leads(Missing(9), CRLF, Missing(0), Bad) /\ CRLF \in Seq(Bytes)
  <2>1. CRLF \in Seq(Bytes) /\ Len(CRLF) = 2
    BY BytesAre
  <2>2. Leads(Missing(0 + Len(CRLF)), CRLF, Missing(0), Bad)
    <3> HIDE DEF Bad
    <3> QED
      BY <2>1, LeadsInside DEF Bad
  <2>3. Missing(9) \subseteq Missing(0 + Len(CRLF))
    BY <2>1 DEF Missing, States
  <2>4. Missing(0) \subseteq Missing(0)
    OBVIOUS
  <2> QED
    BY <2>1, <2>2, <2>3, <2>4, LeadsWithin
<1> HIDE DEF Bad
<1>11. Leads({Decoder}, s1, F(512), Bad) /\ s1 \in Seq(Bytes)
  BY <1>2, <1>3, <1>7, LeadsConcat
<1> HIDE DEF s1
<1>12. Leads({Decoder}, s2, Missing(9 + Len(trailer)), Bad) /\ s2 \in Seq(Bytes)
  BY <1>2, <1>8, <1>10, <1>11, LeadsConcat
<1> HIDE DEF s2
<1>13. Leads({Decoder}, s3, Missing(9), Bad) /\ s3 \in Seq(Bytes)
  BY <1>2, <1>8, <1>9, <1>12, LeadsConcat
<1> HIDE DEF s3
<1>14. Leads({Decoder}, s4, Missing(0), Bad) /\ s4 \in Seq(Bytes)
  BY <1>2, <1>10, <1>13, LeadsConcat
<1> QED
  BY <1>1, <1>14 DEF Bad, last

-----------------------------------------------------------------------------
(* The end of the headers.                                                 *)

\* What CHOOSE takes for the first end of headers is the first.
LEMMA FirstIs ==
  ASSUME NEW E \in SUBSET Nat, E # {}, NEW m, m = CHOOSE i \in E : \A j \in E : i <= j
  PROVE  m \in E /\ \A j \in E : m <= j
BY LeastNat

\* HeadersEnd is the first end of headers among all of the bytes.
LEMMA HeadersEndIs ==
  ASSUME Len(request.bytes) \in Nat
  PROVE  /\ \/ HeadersEnd = 0
            \/ HeadersEnd \in 4..Len(request.bytes) /\ EndsHeaders(HeadersEnd)
         /\ \A i \in 4..Len(request.bytes) :
              EndsHeaders(i) => HeadersEnd # 0 /\ HeadersEnd <= i
<1> DEFINE ends == {i \in 4..Len(request.bytes) : EndsHeaders(i)}
<1>1. ends \in SUBSET Nat
  OBVIOUS
<1>2. HeadersEnd = IF ends = {} THEN 0 ELSE CHOOSE i \in ends : \A j \in ends : i <= j
  BY DEF HeadersEnd
<1>3. CASE ends = {}
  <2>1. HeadersEnd = 0
    BY <1>2, <1>3
  <2>2. \A i \in 4..Len(request.bytes) : ~EndsHeaders(i)
    BY <1>3
  <2> QED
    BY <2>1, <2>2
<1>4. CASE ends # {}
  <2> HIDE DEF ends
  <2>1. HeadersEnd \in ends /\ \A j \in ends : HeadersEnd <= j
    BY <1>1, <1>2, <1>4, FirstIs
  <2> QED
    BY <2>1 DEF ends
<1> QED
  BY <1>3, <1>4

\* What the search of a read finds is the end of the headers, if none was there before.
LEMMA FoundIs ==
  ASSUME Len(request.bytes) \in Nat, NEW from \in Nat, NEW to \in from..Len(request.bytes),
         HeadersEnd = 0 \/ HeadersEnd > from
  PROVE  /\ FoundFrom(from, to) = {} <=> HeadersEnd = 0 \/ HeadersEnd > to
         /\ FoundFrom(from, to) # {} =>
              (CHOOSE i \in FoundFrom(from, to) : \A j \in FoundFrom(from, to) : i <= j) = HeadersEnd
<1> DEFINE ends == FoundFrom(from, to)
           first == CHOOSE i \in ends : \A j \in ends : i <= j
<1>1. ends \in SUBSET (4..to) /\ \A i \in ends : EndsHeaders(i)
  BY DEF FoundFrom
<1>2. \A i \in 4..to : i > from /\ EndsHeaders(i) => i \in ends
  BY DEF FoundFrom
<1> HIDE DEF ends
<1>3. ends # {} => HeadersEnd # 0 /\ HeadersEnd <= to
  <2> SUFFICES ASSUME NEW i \in ends PROVE HeadersEnd # 0 /\ HeadersEnd <= to
    OBVIOUS
  <2>1. i \in 4..Len(request.bytes) /\ EndsHeaders(i) /\ i <= to /\ to \in Nat
    BY <1>1
  <2>2. HeadersEnd # 0 /\ HeadersEnd <= i /\ HeadersEnd \in Nat
    BY <2>1, HeadersEndIs
  <2> QED
    BY <2>1, <2>2
<1>4. HeadersEnd # 0 /\ HeadersEnd <= to => HeadersEnd \in ends
  <2> SUFFICES ASSUME HeadersEnd # 0, HeadersEnd <= to PROVE HeadersEnd \in ends
    OBVIOUS
  <2>1. HeadersEnd \in 4..to /\ EndsHeaders(HeadersEnd) /\ HeadersEnd > from
    BY HeadersEndIs
  <2> QED
    BY <1>2, <2>1
<1>5. HeadersEnd \in Nat
  BY HeadersEndIs
<1>6. ends # {} => first = HeadersEnd
  <2> SUFFICES ASSUME ends # {} PROVE first = HeadersEnd
    OBVIOUS
  <2>1. first \in ends /\ \A j \in ends : first <= j
    <3>1. ends \in SUBSET Nat
      BY <1>1
    <3> QED
      BY <3>1, FirstIs
  <2>2. HeadersEnd \in ends
    BY <1>3, <1>4
  <2>3. first \in 4..Len(request.bytes) /\ EndsHeaders(first) /\ first \in Nat
    <3> HIDE DEF first
    <3>1. first \in 4..to /\ EndsHeaders(first)
      BY <1>1, <2>1
    <3> QED
      BY <3>1
  <2>4. first <= HeadersEnd /\ HeadersEnd <= first
    BY <2>1, <2>2, <2>3, HeadersEndIs
  <2> QED
    BY <1>5, <2>3, <2>4
<1>7. ends = {} <=> HeadersEnd = 0 \/ HeadersEnd > to
  <2>1. to \in Nat
    OBVIOUS
  <2>2. HeadersEnd > to <=> ~(HeadersEnd <= to)
    BY <1>5, <2>1
  <2> QED
    BY <1>3, <1>4, <2>2
<1> QED
  BY <1>6, <1>7 DEF ends

-----------------------------------------------------------------------------
(* The invariant.                                                          *)

\* What is known in each phase of the reader.
Shape ==
  /\ request \in Requests
  /\ TypeOK
  /\ decoder \in States /\ Len(decoder.body) <= MaxBody
  /\ header_end <= pos
  /\ phase \in {"headers", "frame", "length"} => pos = len /\ decoder = Decoder
  /\ phase \in {"headers", "frame"} => scanned = len /\ cap <= MaxHeader
  /\ phase = "headers" => header_end = 0
  /\ phase \in {"frame", "length", "chunked"} => header_end >= 4
  /\ phase = "length" => request.te = "none" /\ request.cl \in 0..MaxBody
  /\ phase = "chunked" =>
       request.te = "chunked" /\ request.cl = -1 /\ decoder.phase \notin {"DONE", "ERROR"}
  /\ phase # "done" => out = Nothing /\ out_status = 0

RequestInv == Shape /\ FindsTheRequest

Statuses == {0, 400, 408, 413, 431, 500, 501}

\* The reader gives up.
GivesUp(status) ==
  /\ phase # "done"
  /\ FailWith(status)
  /\ pos' \in pos..Len(request.bytes)
  /\ status = 431 => phase = "headers" /\ len = cap /\ cap >= MaxHeader
  /\ status = 413 => request.te # "chunked" /\ request.cl > MaxBody

Grows ==
  /\ phase = "headers" /\ len = cap /\ cap < MaxHeader
  /\ cap' = MinOf(cap * 2, MaxHeader)
  /\ UNCHANGED <<request, pos, len, scanned, header_end, decoder, phase, out_status, out>>

\* The decoder is given the bytes after the first a, up to b.
Decodes(a, b) ==
  /\ phase \in {"frame", "chunked"}
  /\ request.te = "chunked" /\ request.cl = -1
  /\ a = IF phase = "frame" THEN header_end ELSE pos
  /\ a <= b /\ b <= Len(request.bytes) /\ b - a <= MaxBody
  /\ pos' = b
  /\ DecodeBody(Received(a + 1, b))

\* What a request is.
LEMMA RequestIs ==
  ASSUME request \in Requests
  PROVE  /\ request.bytes \in Seq(Bytes) /\ Len(request.bytes) \in Nat
         /\ request.te \in {"none", "chunked", "other"} /\ request.cl \in Nat \cup {-1, -2}
BY HttpRequestReaderAssumption, LenProperties

\* The framing that is accepted is chunked or a length within the limit.
LEMMA FramingIs ==
  ASSUME request \in Requests
  PROVE  /\ FramingError \in {0, 400, 413, 501}
         /\ FramingError = 413 => request.te # "chunked" /\ request.cl > MaxBody
         /\ FramingError = 0 => /\ request.te = "chunked" => request.cl = -1
                                /\ request.te = "none" /\ request.cl >= 0 => request.cl \in 0..MaxBody
<1>1. request.te \in {"none", "chunked", "other"} /\ request.cl \in Int /\ MaxBody \in Nat
      /\ (request.cl >= 0 \/ request.cl = -1 \/ request.cl = -2)
  BY RequestIs, Constants
<1>2. CASE request.te = "other"
  BY <1>2 DEF FramingError
<1>3. CASE request.te = "chunked"
  BY <1>1, <1>3 DEF FramingError
<1>4. CASE request.te = "none"
  BY <1>1, <1>4 DEF FramingError
<1> QED
  BY <1>1, <1>2, <1>3, <1>4

\* The sizes of the buffer.
LEMMA TypeIs ==
  ASSUME TypeOK, request \in Requests
  PROVE  /\ pos \in Nat /\ cap \in Nat /\ len \in Nat /\ scanned \in Nat /\ header_end \in Nat
         /\ pos <= Len(request.bytes) /\ Len(request.bytes) \in Nat
         /\ ReadChunk <= cap /\ cap <= MaxHeader + MaxBody
         /\ len <= cap /\ scanned <= len /\ header_end <= len
BY Constants, RequestIs DEF TypeOK

\* The actions, as the steps below know them.
LEMMA Steps ==
  ASSUME Shape, Next
  PROVE  \/ \E status \in Statuses : GivesUp(status)
         \/ Grows
         \/ \E n \in 1..Len(request.bytes) : ReadHeaders(n) \/ ReadLength(n)
         \/ \E a, b \in Nat : Decodes(a, b)
         \/ BeginLength
         \/ NoBody
         \/ ReturnLength
<1>1. request \in Requests /\ TypeOK
  BY DEF Shape
<1>2. /\ pos \in Nat /\ cap \in Nat /\ len \in Nat /\ scanned \in Nat /\ header_end \in Nat
      /\ pos <= Len(request.bytes) /\ Len(request.bytes) \in Nat
      /\ ReadChunk <= cap /\ cap <= MaxHeader + MaxBody
      /\ len <= cap /\ scanned <= len /\ header_end <= len
  BY <1>1, TypeIs
<1>3. CASE GrowBuffer
  <2>1. CASE cap >= MaxHeader
    <3>1. GivesUp(431)
      BY <1>2, <1>3, <2>1 DEF GrowBuffer, GivesUp, FailWith
    <3> QED
      BY <3>1 DEF Statuses
  <2>2. CASE ~(cap >= MaxHeader)
    <3>1. cap < MaxHeader
      BY <1>2, <2>2, Constants
    <3>2. Grows
      BY <1>3, <2>2, <3>1 DEF GrowBuffer, Grows
    <3> QED
      BY <3>2
  <2> QED
    BY <2>1, <2>2
<1>4. CASE Refuse
  <2>1. /\ FramingError \in Statuses \ {431}
        /\ FramingError = 413 => request.te # "chunked" /\ request.cl > MaxBody
    BY <1>1, FramingIs DEF Statuses
  <2>2. GivesUp(FramingError)
    BY <1>2, <1>4, <2>1 DEF Refuse, GivesUp
  <2> QED
    BY <2>1, <2>2
<1>5. CASE ReadTimesOut \/ BufferStarves
  <2>1. GivesUp(408) \/ GivesUp(500)
    BY <1>2, <1>5 DEF ReadTimesOut, BufferStarves, Reading, GivesUp
  <2> QED
    BY <2>1 DEF Statuses
<1>9. ASSUME NEW n \in 0..Len(request.bytes), BodyStarves(n)
      PROVE  \E status \in Statuses : GivesUp(status)
  <2>1. /\ phase \in {"frame", "chunked"} /\ pos' \in pos..Len(request.bytes)
        /\ FailWith(400) \/ FailWith(500)
    <3>1. CASE phase = "frame"
      BY <1>2, <1>9, <3>1 DEF BodyStarves, DecodingStarves
    <3>2. CASE phase # "frame"
      <4>1. /\ phase = "chunked" /\ n \in 1..MinOf(ReadChunk, Len(request.bytes) - pos)
            /\ pos' = pos + n
            /\ DecodingStarves(Received(pos + 1, pos + n))
        BY <1>9, <3>2 DEF BodyStarves
      <4>2. FailWith(400) \/ FailWith(500)
        BY <4>1 DEF DecodingStarves
      <4>3. pos' \in pos..Len(request.bytes)
        BY <1>2, <4>1, Constants DEF MinOf
      <4> QED
        BY <4>1, <4>2, <4>3
    <3> QED
      BY <3>1, <3>2
  <2>2. GivesUp(400) \/ GivesUp(500)
    BY <2>1 DEF GivesUp
  <2> QED
    BY <2>2 DEF Statuses
<1>6. CASE ReadFails
  <2> DEFINE status == IF phase = "headers" /\ len = 0 THEN 0 ELSE 400
  <2>1. status \in Statuses \ {431}
    BY DEF Statuses
  <2>2. GivesUp(status)
    BY <1>2, <1>6, <2>1 DEF ReadFails, Reading, GivesUp
  <2> QED
    BY <2>1, <2>2
<1>7. CASE BeginChunked
  <2>1. phase = "frame" /\ FramingError = 0 /\ request.te = "chunked" /\ pos' = pos
        /\ DecodeBody(Received(header_end + 1, len))
    BY <1>7 DEF BeginChunked
  <2>2. request.cl = -1
    BY <1>1, <2>1, FramingIs
  <2>3. pos = len /\ cap <= MaxHeader /\ header_end >= 4
    BY <2>1 DEF Shape
  <2>4. len - header_end <= MaxBody /\ header_end <= len /\ len <= Len(request.bytes)
    BY <1>2, <2>3, Constants
  <2>5. Decodes(header_end, len)
    BY <2>1, <2>2, <2>3, <2>4 DEF Decodes
  <2> QED
    BY <1>2, <2>5
<1>8. ASSUME NEW n \in 1..Len(request.bytes), ReadChunked(n)
      PROVE  \E a, b \in Nat : Decodes(a, b)
  <2>1. PICK b \in Nat : b = pos + n
    BY <1>2
  <2>2. phase = "chunked" /\ pos' = b /\ DecodeBody(Received(pos + 1, b))
        /\ n <= MinOf(ReadChunk, Len(request.bytes) - pos)
    BY <1>8, <2>1 DEF ReadChunked
  <2>3. request.te = "chunked" /\ request.cl = -1
    BY <2>2 DEF Shape
  <2>4. pos <= b /\ b <= Len(request.bytes) /\ b - pos <= MaxBody
    BY <1>2, <2>1, <2>2, Constants DEF MinOf
  <2>5. phase \in {"frame", "chunked"} /\ pos = IF phase = "frame" THEN header_end ELSE pos
    BY <2>2
  <2>6. Decodes(pos, b)
    BY <2>2, <2>3, <2>4, <2>5 DEF Decodes
  <2> QED
    BY <1>2, <2>6
<1> QED
  BY <1>3, <1>4, <1>5, <1>6, <1>7, <1>8, <1>9 DEF Next

\* What feeding the decoder changes.
LEMMA DecodingIs ==
  ASSUME Shape, NEW a \in Nat, NEW b \in Nat, Decodes(a, b)
  PROVE  /\ Received(a + 1, b) \in Seq(Bytes) /\ Len(Received(a + 1, b)) = b - a
         /\ decoder' = Feed(decoder, Received(a + 1, b))
         /\ decoder' \in States /\ Len(decoder'.body) <= MaxBody
         /\ decoder'.phase = "ERROR" =>
              /\ phase' = "done" /\ out_status' \in {400, 413} /\ out' = out
              /\ out_status' = 413 => Len(decoder'.body) = MaxBody
         /\ decoder'.phase = "DONE" =>
              /\ phase' = "done" /\ out_status' = out_status
              /\ out' = [head |-> header_end, body |-> decoder'.body]
         /\ decoder'.phase \notin {"DONE", "ERROR"} =>
              phase' = "chunked" /\ out_status' = out_status /\ out' = out
         /\ UNCHANGED <<request, cap, len, scanned, header_end>>
         /\ pos' = b /\ header_end <= a /\ a <= b /\ b <= Len(request.bytes) /\ b - a <= MaxBody
<1>1. /\ a <= b /\ b <= Len(request.bytes) /\ b - a <= MaxBody /\ pos' = b
      /\ a = (IF phase = "frame" THEN header_end ELSE pos)
      /\ DecodeBody(Received(a + 1, b))
  BY DEF Decodes
<1>2. request.bytes \in Seq(Bytes) /\ Len(request.bytes) \in Nat
  BY RequestIs DEF Shape
<1>3. Received(a + 1, b) \in Seq(Bytes) /\ Len(Received(a + 1, b)) = b - a
  <2>1. b - a \in Nat /\ a + (b - a) = b
    BY <1>1
  <2>2. \A k \in Nat : a + k <= Len(request.bytes) =>
          /\ SubSeq(request.bytes, a + 1, a + k) \in Seq(Bytes)
          /\ Len(SubSeq(request.bytes, a + 1, a + k)) = k
    BY <1>2, PartIs
  <2>3. SubSeq(request.bytes, a + 1, b) \in Seq(Bytes) /\ Len(SubSeq(request.bytes, a + 1, b)) = b - a
    BY <1>1, <2>1, <2>2
  <2> QED
    BY <2>3 DEF Received
<1>4. header_end <= a
  <2>1. header_end \in Nat /\ header_end <= pos
    BY TypeIs DEF Shape
  <2> QED
    BY <1>1, <2>1
<1> DEFINE d == Feed(decoder, Received(a + 1, b))
<1>5. d \in States /\ Len(d.body) <= MaxBody
  BY <1>1, <1>3, FeedState DEF Shape
<1>6. /\ decoder' = d
      /\ UNCHANGED <<request, cap, len, scanned, header_end>>
      /\ CASE d.phase = "ERROR" ->
                /\ phase' = "done"
                /\ out_status' = RefusedBody(d)
                /\ out' = out
           [] d.phase = "DONE" -> Return(header_end, d.body)
           [] OTHER -> phase' = "chunked" /\ UNCHANGED <<out_status, out>>
  BY <1>1, Zenon DEF DecodeBody
<1> HIDE DEF d
<1>7. CASE d.phase = "ERROR"
  <2>1. phase' = "done" /\ out_status' \in {400, 413} /\ out' = out
    BY <1>6, <1>7 DEF RefusedBody
  <2>2. out_status' = 413 => Len(d.body) >= MaxBody
    BY <1>6, <1>7 DEF RefusedBody
  <2>3. Len(d.body) \in Nat /\ MaxBody \in Nat
    BY <1>5, Constants DEF States
  <2>4. out_status' = 413 => Len(d.body) = MaxBody
    BY <1>5, <2>2, <2>3
  <2> QED
    BY <1>1, <1>3, <1>4, <1>5, <1>6, <1>7, <2>1, <2>4 DEF d
<1>8. CASE d.phase = "DONE"
  <2>1. phase' = "done" /\ out_status' = out_status
        /\ out' = [head |-> header_end, body |-> d.body]
    BY <1>6, <1>8 DEF Return
  <2> QED
    BY <1>1, <1>3, <1>4, <1>5, <1>6, <1>8, <2>1 DEF d
<1>9. CASE d.phase \notin {"DONE", "ERROR"}
  <2>1. phase' = "chunked" /\ out_status' = out_status /\ out' = out
    BY <1>6, <1>9
  <2> QED
    BY <1>1, <1>3, <1>4, <1>5, <1>6, <1>9, <2>1 DEF d
<1> QED
  BY <1>7, <1>8, <1>9

\* The shape holds at first.
LEMMA ShapeInit == Init => Shape
<1> SUFFICES ASSUME Init PROVE Shape
  OBVIOUS
<1>1. Len(request.bytes) \in Nat
  BY RequestIs DEF Init
<1>2. TypeOK
  BY <1>1, Constants DEF Init, TypeOK
<1>3. decoder \in States /\ Len(decoder.body) <= MaxBody
  BY DecoderState, Constants DEF Init
<1> QED
  BY <1>2, <1>3, Constants DEF Init, Shape

\* Every action keeps the shape.
LEMMA ShapeStep ==
  ASSUME Shape, [Next]_vars
  PROVE  Shape'
<1>1. request \in Requests /\ TypeOK /\ decoder \in States /\ Len(decoder.body) <= MaxBody
      /\ header_end <= pos
  BY DEF Shape
<1>2. /\ pos \in Nat /\ cap \in Nat /\ len \in Nat /\ scanned \in Nat /\ header_end \in Nat
      /\ pos <= Len(request.bytes) /\ Len(request.bytes) \in Nat
      /\ ReadChunk <= cap /\ cap <= MaxHeader + MaxBody
      /\ len <= cap /\ scanned <= len /\ header_end <= len
      /\ MaxHeader \in Nat /\ MaxBody \in Nat /\ ReadChunk \in Nat
      /\ 0 < ReadChunk /\ ReadChunk <= MaxHeader
  BY <1>1, TypeIs, Constants
<1>3. /\ phase \in {"headers", "frame", "length", "chunked", "done"}
      /\ out_status \in Statuses
  BY <1>1 DEF TypeOK, Statuses
<1>4. CASE UNCHANGED vars
  BY <1>4 DEF Shape, vars, TypeOK
<1>5. ASSUME NEW status \in Statuses, GivesUp(status) PROVE Shape'
  <2>1. /\ phase' = "done" /\ out_status' = status /\ pos' \in pos..Len(request.bytes)
        /\ UNCHANGED <<request, cap, len, scanned, header_end, decoder, out>>
    BY <1>5 DEF GivesUp, FailWith
  <2>2. pos' \in 0..Len(request.bytes) /\ header_end <= pos'
    BY <1>1, <1>2, <2>1
  <2>3. TypeOK'
    BY <1>1, <1>5, <2>1, <2>2 DEF TypeOK, Statuses
  <2> QED
    BY <1>1, <2>1, <2>2, <2>3 DEF Shape
<1>6. CASE Grows
  <2>1. /\ phase = "headers" /\ len = cap /\ cap < MaxHeader
        /\ cap' = MinOf(cap * 2, MaxHeader)
        /\ UNCHANGED <<request, pos, len, scanned, header_end, decoder, phase, out_status, out>>
    BY <1>6 DEF Grows
  <2>2. cap' \in Nat /\ cap <= cap' /\ cap' <= MaxHeader /\ cap' <= MaxHeader + MaxBody
    BY <1>2, <2>1 DEF MinOf
  <2>3. TypeOK'
    BY <1>1, <1>2, <2>1, <2>2 DEF TypeOK
  <2> QED
    BY <1>1, <2>1, <2>2, <2>3 DEF Shape
<1>7. ASSUME NEW n \in 1..Len(request.bytes), ReadHeaders(n) PROVE Shape'
  <2>1. /\ phase = "headers" /\ len < cap /\ n <= MinOf(cap - len, Len(request.bytes) - pos)
        /\ pos' = pos + n /\ len' = len + n /\ scanned' = len'
        /\ UNCHANGED <<request, cap, decoder, out_status, out>>
    BY <1>7 DEF ReadHeaders
  <2>2. pos = len /\ decoder = Decoder /\ cap <= MaxHeader /\ header_end = 0
        /\ out = Nothing /\ out_status = 0
    BY <2>1 DEF Shape
  <2>3. \/ header_end' = header_end /\ phase' = phase
        \/ header_end' \in 4..len' /\ phase' = "frame"
    <3> DEFINE ends == FoundFrom(scanned, len')
    <3>1. CASE ends = {}
      BY <1>7, <3>1 DEF ReadHeaders
    <3>2. CASE ends # {}
      <4>1. header_end' = (CHOOSE i \in ends : \A j \in ends : i <= j) /\ phase' = "frame"
        BY <1>7, <3>2 DEF ReadHeaders
      <4>2. ends \in SUBSET (4..len') /\ ends \in SUBSET Nat
        BY <1>2, <2>1 DEF FoundFrom
      <4> HIDE DEF ends
      <4>3. header_end' \in ends
        BY <3>2, <4>1, <4>2, FirstIs
      <4> QED
        BY <4>1, <4>2, <4>3
    <3> QED
      BY <3>1, <3>2
  <2>4. /\ pos' \in 0..Len(request.bytes) /\ len' \in 0..cap /\ scanned' \in 0..len'
        /\ header_end' \in 0..len' /\ header_end' <= pos' /\ pos' = len' /\ scanned' = len'
    BY <1>2, <2>1, <2>2, <2>3 DEF MinOf
  <2>5. phase' \in {"headers", "frame"}
    BY <2>1, <2>3
  <2>6. /\ phase' = "headers" => header_end' = 0
        /\ phase' = "frame" => header_end' >= 4
    BY <2>1, <2>2, <2>3
  <2>7. TypeOK'
    BY <1>1, <2>1, <2>4, <2>5 DEF TypeOK
  <2> QED
    BY <1>1, <2>1, <2>2, <2>4, <2>5, <2>6, <2>7 DEF Shape
<1>8. ASSUME NEW a \in Nat, NEW b \in Nat, Decodes(a, b) PROVE Shape'
  <2>1. /\ decoder' \in States /\ Len(decoder'.body) <= MaxBody
        /\ decoder'.phase = "ERROR" =>
             phase' = "done" /\ out_status' \in {400, 413} /\ out' = out
        /\ decoder'.phase = "DONE" => phase' = "done" /\ out_status' = out_status
        /\ decoder'.phase \notin {"DONE", "ERROR"} =>
             phase' = "chunked" /\ out_status' = out_status /\ out' = out
        /\ UNCHANGED <<request, cap, len, scanned, header_end>>
        /\ pos' = b /\ header_end <= a /\ a <= b /\ b <= Len(request.bytes)
    BY <1>8, DecodingIs
  <2>2. /\ phase \in {"frame", "chunked"} /\ request.te = "chunked" /\ request.cl = -1
    BY <1>8 DEF Decodes
  <2>3. header_end >= 4 /\ out = Nothing /\ out_status = 0
    BY <2>2 DEF Shape
  <2>4. phase' \in {"chunked", "done"} /\ out_status' \in {0, 400, 408, 413, 431, 500, 501}
    BY <2>1, <2>3
  <2>5. TypeOK'
    BY <1>1, <1>2, <2>1, <2>4 DEF TypeOK
  <2>6. header_end' <= pos' /\ header_end' >= 4
    BY <1>2, <2>1, <2>3
  <2>7. phase' = "chunked" => /\ decoder'.phase \notin {"DONE", "ERROR"}
                              /\ out' = Nothing /\ out_status' = 0
    BY <2>1, <2>3
  <2> QED
    BY <1>1, <2>1, <2>2, <2>4, <2>5, <2>6, <2>7 DEF Shape
<1>9. CASE BeginLength
  <2>1. /\ phase = "frame" /\ phase' = "length"
        /\ FramingError = 0 /\ request.te = "none" /\ request.cl >= 0
        /\ cap' = IF header_end + request.cl > cap THEN header_end + request.cl ELSE cap
        /\ UNCHANGED <<request, pos, len, scanned, header_end, decoder, out_status, out>>
    BY <1>9 DEF BeginLength
  <2>2. request.cl \in 0..MaxBody
    BY <1>1, <2>1, FramingIs
  <2>3. /\ pos = len /\ decoder = Decoder /\ cap <= MaxHeader /\ header_end >= 4
        /\ out = Nothing /\ out_status = 0
    BY <2>1 DEF Shape
  <2>4. cap' \in ReadChunk..(MaxHeader + MaxBody) /\ cap <= cap'
    BY <1>2, <2>1, <2>2, <2>3
  <2>5. TypeOK'
    BY <1>1, <1>2, <2>1, <2>4 DEF TypeOK
  <2> QED
    BY <1>1, <2>1, <2>2, <2>3, <2>5 DEF Shape
<1>10. CASE NoBody \/ ReturnLength
  <2>1. /\ phase' = "done" /\ out_status' = out_status
        /\ UNCHANGED <<request, pos, cap, len, scanned, header_end, decoder>>
    BY <1>10 DEF NoBody, ReturnLength, Return
  <2>2. TypeOK'
    BY <1>1, <2>1 DEF TypeOK
  <2> QED
    BY <1>1, <2>1, <2>2 DEF Shape
<1>11. ASSUME NEW n \in 1..Len(request.bytes), ReadLength(n) PROVE Shape'
  <2>1. /\ phase = "length" /\ n <= MinOf(cap - len, Len(request.bytes) - pos)
        /\ pos' = pos + n /\ len' = len + n
        /\ UNCHANGED <<request, cap, scanned, header_end, decoder, phase, out_status, out>>
    BY <1>11 DEF ReadLength
  <2>2. pos = len /\ decoder = Decoder /\ header_end >= 4 /\ out = Nothing /\ out_status = 0
        /\ request.te = "none" /\ request.cl \in 0..MaxBody
    BY <2>1 DEF Shape
  <2>3. /\ pos' \in 0..Len(request.bytes) /\ len' \in 0..cap /\ scanned \in 0..len'
        /\ header_end \in 0..len' /\ header_end <= pos' /\ pos' = len'
    BY <1>2, <2>1, <2>2 DEF MinOf
  <2>4. TypeOK'
    BY <1>1, <2>1, <2>3 DEF TypeOK
  <2> QED
    BY <1>1, <2>1, <2>2, <2>3, <2>4 DEF Shape
<1> QED
  BY <1>4, <1>5, <1>6, <1>7, <1>8, <1>9, <1>10, <1>11, Steps

-----------------------------------------------------------------------------
(* The end of the headers is found by the read that brings it.             *)

\* HeadersEnd, Body and ByteByByte are those of the request.
LEMMA SameRequest ==
  ASSUME request' = request
  PROVE  /\ HeadersEnd' = HeadersEnd
         /\ header_end' = header_end => Body' = Body /\ ByteByByte' = ByteByByte
<1>1. HeadersEnd' = HeadersEnd
  BY DEF HeadersEnd, EndsHeaders, Received
<1>2. ASSUME header_end' = header_end PROVE Body' = Body
  BY <1>2 DEF Body, Received
<1>3. ASSUME header_end' = header_end PROVE ByteByByte' = ByteByByte
  BY <1>3 DEF ByteByByte
<1> QED
  BY <1>1, <1>2, <1>3

\* A read of the headers finds their end, and nothing else moves it.
LEMMA HeadersFoundStep ==
  ASSUME Shape, HeadersFound, [Next]_vars
  PROVE  request' = request /\ HeadersFound'
<1>1. ASSUME UNCHANGED <<request, scanned, header_end>>
      PROVE  request' = request /\ HeadersFound'
  <2>1. HeadersEnd' = HeadersEnd
    BY <1>1, SameRequest
  <2> QED
    BY <1>1, <2>1 DEF HeadersFound
<1>2. CASE UNCHANGED vars
  BY <1>1, <1>2 DEF vars
<1>3. CASE \E status \in Statuses : GivesUp(status)
  BY <1>1, <1>3 DEF GivesUp, FailWith
<1>4. CASE Grows \/ BeginLength \/ NoBody \/ ReturnLength
  BY <1>1, <1>4 DEF Grows, BeginLength, NoBody, ReturnLength
<1>5. ASSUME NEW a \in Nat, NEW b \in Nat, Decodes(a, b)
      PROVE  request' = request /\ HeadersFound'
  <2>1. UNCHANGED <<request, scanned, header_end>>
    BY <1>5, DecodingIs
  <2> QED
    BY <1>1, <2>1
<1>6. ASSUME NEW n \in 1..Len(request.bytes), ReadLength(n)
      PROVE  request' = request /\ HeadersFound'
  BY <1>1, <1>6 DEF ReadLength
<1>7. ASSUME NEW n \in 1..Len(request.bytes), ReadHeaders(n)
      PROVE  request' = request /\ HeadersFound'
  <2>1. request \in Requests /\ TypeOK /\ scanned = len /\ pos = len /\ header_end = 0
    BY <1>7 DEF Shape, ReadHeaders
  <2>2. /\ pos \in Nat /\ len \in Nat /\ scanned \in Nat
        /\ pos <= Len(request.bytes) /\ Len(request.bytes) \in Nat
    BY <2>1, TypeIs
  <2>3. PICK to \in Nat : to = len + n
    BY <2>2
  <2>4. /\ request' = request /\ len' = to /\ scanned' = to
        /\ n <= MinOf(cap - len, Len(request.bytes) - pos) /\ cap \in Nat
    BY <1>7, <2>1, <2>3, TypeIs DEF ReadHeaders
  <2>5. to \in scanned..Len(request.bytes) /\ scanned <= to
    BY <2>1, <2>2, <2>3, <2>4 DEF MinOf
  <2>6. HeadersEnd \in Nat /\ HeadersEnd' = HeadersEnd
    BY <2>2, <2>4, HeadersEndIs, SameRequest
  <2>7. HeadersEnd = 0 \/ HeadersEnd > scanned
    <3>1. HeadersEnd <= scanned => HeadersEnd = 0
      BY <2>1 DEF HeadersFound
    <3> QED
      BY <2>2, <2>6, <3>1
  <2> DEFINE ends == FoundFrom(scanned, to)
  <2>8. /\ ends = {} <=> HeadersEnd = 0 \/ HeadersEnd > to
        /\ ends # {} => (CHOOSE i \in ends : \A j \in ends : i <= j) = HeadersEnd
    BY <2>2, <2>5, <2>7, FoundIs
  <2>9. /\ ends = {} => header_end' = header_end
        /\ ends # {} => header_end' = CHOOSE i \in ends : \A j \in ends : i <= j
    BY <1>7, <2>4 DEF ReadHeaders
  <2> HIDE DEF ends
  <2>10. header_end' = IF HeadersEnd <= to THEN HeadersEnd ELSE 0
    <3>1. HeadersEnd > to <=> ~(HeadersEnd <= to)
      BY <2>3, <2>6
    <3> QED
      BY <2>1, <2>8, <2>9, <3>1
  <2> QED
    BY <2>4, <2>6, <2>10 DEF HeadersFound
<1> QED
  BY <1>2, <1>3, <1>4, <1>5, <1>6, <1>7, Steps

-----------------------------------------------------------------------------
(* A chunked body is decoded alike wherever the reads split it.            *)

\* The decoder before and after a step that feeds it, in terms of After.
LEMMA DecodingAfter ==
  ASSUME Shape, SplitsDoNotMatter, NEW a \in Nat, NEW b \in Nat, Decodes(a, b)
  PROVE  LET f == After(request.bytes, header_end)
         IN  /\ f[b - header_end].phase # "ERROR" => decoder' = f[b - header_end]
             /\ f[b - header_end].phase = "ERROR" => decoder'.phase = "ERROR"
             /\ b - header_end \in 0..(Len(request.bytes) - header_end)
<1> DEFINE f == After(request.bytes, header_end)
<1>1. request.bytes \in Seq(Bytes) /\ Len(request.bytes) \in Nat
  BY RequestIs DEF Shape
<1>2. /\ header_end \in Nat /\ header_end <= a /\ a <= b /\ b <= Len(request.bytes)
      /\ b - a <= MaxBody
      /\ decoder' = Feed(decoder, Received(a + 1, b))
  BY DecodingIs, TypeIs DEF Shape
<1>3. /\ header_end \in 0..Len(request.bytes) /\ a \in header_end..Len(request.bytes)
      /\ b \in a..Len(request.bytes)
      /\ b - header_end \in 0..(Len(request.bytes) - header_end)
  BY <1>1, <1>2
<1>4. decoder = f[a - header_end]
  <2>1. CASE phase = "frame"
    <3>1. a = header_end /\ a - header_end = 0 /\ decoder = Decoder
      BY <1>2, <2>1 DEF Decodes, Shape
    <3> QED
      BY <1>1, <1>3, <3>1, AfterIs
  <2>2. CASE phase = "chunked"
    <3>1. a = pos /\ decoder.phase # "ERROR"
      BY <2>2 DEF Decodes, Shape
    <3>2. Fed
      BY <2>2 DEF Fed
    <3>3. decoder = ByteByByte[pos - header_end]
      BY <3>1, <3>2 DEF SplitsDoNotMatter
    <3> QED
      BY <3>1, <3>3 DEF ByteByByte, After
  <2> QED
    BY <2>1, <2>2 DEF Decodes
<1>5. decoder' = Feed(f[a - header_end], SubSeq(request.bytes, a + 1, b))
  BY <1>2, <1>4 DEF Received
<1> QED
  BY <1>1, <1>2, <1>3, <1>5, FeedWindow

\* Each read keeps the decoder where its bytes one by one would have taken it.
LEMMA SplitsStep ==
  ASSUME Shape, SplitsDoNotMatter, [Next]_vars
  PROVE  SplitsDoNotMatter'
<1>1. ASSUME UNCHANGED <<request, pos, header_end, decoder>>, Fed' => Fed
      PROVE  SplitsDoNotMatter'
  <2>1. ByteByByte' = ByteByByte
    BY <1>1, SameRequest
  <2> QED
    BY <1>1, <2>1 DEF SplitsDoNotMatter
<1>2. CASE UNCHANGED vars
  BY <1>1, <1>2 DEF vars, Fed
<1>3. CASE \E status \in Statuses : GivesUp(status)
  <2>1. phase # "done" /\ phase' = "done" /\ decoder' = decoder
    BY <1>3 DEF GivesUp, FailWith
  <2>2. decoder.phase \notin {"DONE", "ERROR"}
    <3>1. phase \in {"headers", "frame", "length", "chunked"}
      BY <2>1 DEF Shape, TypeOK
    <3> QED
      BY <3>1 DEF Shape, Decoder
  <2> QED
    BY <2>1, <2>2 DEF SplitsDoNotMatter, Fed
<1>4. CASE Grows \/ BeginLength \/ NoBody \/ ReturnLength
  BY <1>1, <1>4 DEF Grows, BeginLength, NoBody, ReturnLength, Return, Fed
<1>5. ASSUME NEW n \in 1..Len(request.bytes), ReadHeaders(n) \/ ReadLength(n)
      PROVE  SplitsDoNotMatter'
  <2>1. phase \in {"headers", "length"} /\ phase' \in {"headers", "frame", "length"}
        /\ decoder' = decoder
    <3>1. ReadHeaders(n) => phase' \in {"headers", "frame"}
      BY DEF ReadHeaders
    <3> QED
      BY <1>5, <3>1 DEF ReadHeaders, ReadLength
  <2>2. decoder'.phase = "SIZE"
    BY <2>1 DEF Shape, Decoder
  <2> QED
    BY <2>1, <2>2 DEF SplitsDoNotMatter, Fed
<1>6. ASSUME NEW a \in Nat, NEW b \in Nat, Decodes(a, b)
      PROVE  SplitsDoNotMatter'
  <2> DEFINE f == After(request.bytes, header_end)
  <2>1. /\ f[b - header_end].phase # "ERROR" => decoder' = f[b - header_end]
        /\ f[b - header_end].phase = "ERROR" => decoder'.phase = "ERROR"
    BY <1>6, DecodingAfter
  <2>2. request' = request /\ header_end' = header_end /\ pos' = b
    BY <1>6, DecodingIs
  <2>3. ByteByByte' = f
    BY <2>2, SameRequest DEF ByteByByte, After
  <2> HIDE DEF f
  <2>4. ByteByByte'[pos' - header_end'] = f[b - header_end]
    BY <2>2, <2>3
  <2>5. /\ decoder'.phase = f[b - header_end].phase
        /\ decoder'.phase # "ERROR" => decoder' = f[b - header_end]
    BY <2>1
  <2> QED
    BY <2>4, <2>5 DEF SplitsDoNotMatter
<1> QED
  BY <1>2, <1>3, <1>4, <1>5, <1>6, Steps

-----------------------------------------------------------------------------
(* What is returned is the request.                                        *)

\* From the framing on, the end of the headers is known.
LEMMA HeadIs ==
  ASSUME Shape, HeadersFound, phase \in {"frame", "length", "chunked"}
  PROVE  header_end = HeadersEnd
<1>1. header_end >= 4
  BY DEF Shape
<1> QED
  BY <1>1 DEF HeadersFound

\* When the decoder is done, all of the bytes after the headers decode to its body.
LEMMA DecodedBody ==
  ASSUME Shape, SplitsDoNotMatter, NEW a \in Nat, NEW b \in Nat, Decodes(a, b),
         decoder'.phase = "DONE"
  PROVE  Body = decoder'.body
<1> DEFINE f == After(request.bytes, header_end)
           N == Len(request.bytes) - header_end
           e == Feed(f[header_end - header_end], SubSeq(request.bytes, header_end + 1, Len(request.bytes)))
<1>1. request.bytes \in Seq(Bytes) /\ Len(request.bytes) \in Nat
  BY RequestIs DEF Shape
<1>2. header_end \in 0..Len(request.bytes) /\ header_end \in header_end..Len(request.bytes)
      /\ Len(request.bytes) \in header_end..Len(request.bytes) /\ header_end - header_end = 0
  BY <1>1, TypeIs DEF Shape
<1>3. b - header_end \in 0..N /\ decoder' = f[b - header_end]
  BY DecodingAfter
<1>4. f[N] = decoder'
  BY <1>1, <1>2, <1>3, AfterFinal
<1>5. e = f[N]
  BY <1>1, <1>2, <1>4, FeedWindow
<1>6. f[header_end - header_end] = Decoder
  BY <1>1, <1>2, AfterIs
<1>7. Body = e.body
  BY <1>6 DEF Body, Received, Decodes
<1> QED
  BY <1>4, <1>5, <1>7

\* Every way to return a request returns the one that was sent.
LEMMA ReturnsStep ==
  ASSUME Shape, HeadersFound, SplitsDoNotMatter, ReturnsTheRequest, [Next]_vars
  PROVE  ReturnsTheRequest'
<1>1. ASSUME UNCHANGED <<request, header_end, out>>
      PROVE  ReturnsTheRequest'
  <2>1. HeadersEnd' = HeadersEnd /\ Body' = Body
    BY <1>1, SameRequest
  <2> QED
    BY <1>1, <2>1 DEF ReturnsTheRequest
<1>2. ASSUME UNCHANGED <<request, header_end>>, header_end = HeadersEnd,
             out' = [head |-> header_end, body |-> Body], Len(Body) <= MaxBody,
             request.te = "none" \/ request.cl = -1
      PROVE  ReturnsTheRequest'
  <2>1. HeadersEnd' = HeadersEnd /\ Body' = Body
    BY <1>2, SameRequest
  <2> QED
    BY <1>2, <2>1 DEF ReturnsTheRequest
<1>3. CASE UNCHANGED vars
  BY <1>1, <1>3 DEF vars
<1>4. CASE \E status \in Statuses : GivesUp(status)
  BY <1>1, <1>4 DEF GivesUp, FailWith
<1>5. CASE Grows \/ BeginLength
  BY <1>1, <1>5 DEF Grows, BeginLength
<1>6. ASSUME NEW n \in 1..Len(request.bytes), ReadHeaders(n) \/ ReadLength(n)
      PROVE  ReturnsTheRequest'
  <2>1. phase # "done" /\ out' = out
    BY <1>6 DEF ReadHeaders, ReadLength
  <2> QED
    BY <2>1 DEF ReturnsTheRequest, Shape
<1>7. CASE NoBody
  <2>1. /\ phase = "frame" /\ request.te = "none" /\ request.cl = -1
        /\ out' = [head |-> header_end, body |-> <<>>] /\ UNCHANGED <<request, header_end>>
    BY <1>7 DEF NoBody, Return
  <2>2. Body = <<>>
    BY <2>1 DEF Body
  <2>3. Len(Body) <= MaxBody
    BY <2>2, Constants
  <2> QED
    BY <1>2, <2>1, <2>2, <2>3, HeadIs
<1>8. CASE ReturnLength
  <2>1. /\ phase = "length" /\ len >= header_end + request.cl
        /\ out' = [head |-> header_end, body |-> Received(header_end + 1, header_end + request.cl)]
        /\ UNCHANGED <<request, header_end>>
    BY <1>8 DEF ReturnLength, Return
  <2>2. /\ request.te = "none" /\ request.cl \in 0..MaxBody /\ pos = len
        /\ request \in Requests /\ TypeOK
    BY <2>1 DEF Shape
  <2>3. /\ request.cl \in Nat /\ request.cl <= MaxBody /\ header_end \in Nat
        /\ header_end + request.cl <= Len(request.bytes)
    BY <2>1, <2>2, TypeIs, Constants
  <2>4. Body = Received(header_end + 1, header_end + request.cl)
    BY <2>2, <2>3 DEF Body
  <2>5. Len(Body) = request.cl
    BY <2>2, <2>3, <2>4, RequestIs, PartIs DEF Received
  <2>6. Len(Body) <= MaxBody
    BY <2>3, <2>5
  <2> QED
    BY <1>2, <2>1, <2>2, <2>4, <2>6, HeadIs
<1>9. ASSUME NEW a \in Nat, NEW b \in Nat, Decodes(a, b)
      PROVE  ReturnsTheRequest'
  <2>1. /\ UNCHANGED <<request, header_end>> /\ Len(decoder'.body) <= MaxBody
        /\ decoder'.phase = "DONE" => out' = [head |-> header_end, body |-> decoder'.body]
        /\ decoder'.phase # "DONE" => out' = out
    BY <1>9, DecodingIs
  <2>2. phase \in {"frame", "chunked"} /\ request.cl = -1
    BY <1>9 DEF Decodes
  <2>3. CASE decoder'.phase = "DONE"
    <3>1. Body = decoder'.body
      BY <1>9, <2>3, DecodedBody
    <3> QED
      BY <1>2, <2>1, <2>2, <2>3, <3>1, HeadIs
  <2>4. CASE decoder'.phase # "DONE"
    BY <1>1, <2>1, <2>4
  <2> QED
    BY <2>3, <2>4
<1> QED
  BY <1>3, <1>4, <1>5, <1>6, <1>7, <1>8, <1>9, Steps

-----------------------------------------------------------------------------
(* A request is refused for its size only if it is too large.              *)

\* Only a full buffer without the end of the headers is refused as too large.
LEMMA LimitsStep ==
  ASSUME Shape, Shape', HeadersFound, WithinLimits, [Next]_vars
  PROVE  WithinLimits'
<1> DEFINE StillLarge == out_status' = 431 => HeadersEnd = 0 \/ HeadersEnd > MaxHeader
<1>1. TypeOK' /\ Len(decoder.body)' <= MaxBody
  BY DEF Shape
<1>2. HeadersEnd' = HeadersEnd
  BY HeadersFoundStep, SameRequest
<1>3. ASSUME out_status' = out_status \/ out_status' # 431
      PROVE  StillLarge
  BY <1>3 DEF WithinLimits
<1> HIDE DEF StillLarge
<1>4. ASSUME UNCHANGED vars PROVE StillLarge
  BY <1>3, <1>4 DEF vars
<1>5. ASSUME NEW status \in Statuses, GivesUp(status)
      PROVE  StillLarge
  <2> SUFFICES ASSUME out_status' = 431
               PROVE  HeadersEnd = 0 \/ HeadersEnd > MaxHeader
    BY DEF StillLarge
  <2>1. status = 431
    BY <1>5 DEF GivesUp, FailWith
  <2>2. phase = "headers" /\ len = cap /\ cap >= MaxHeader
    BY <1>5, <2>1 DEF GivesUp
  <2>3. request \in Requests /\ TypeOK /\ scanned = len /\ header_end = 0
    BY <2>2 DEF Shape
  <2>4. scanned \in Nat /\ scanned >= MaxHeader /\ MaxHeader \in Nat /\ Len(request.bytes) \in Nat
    BY <2>2, <2>3, TypeIs, Constants
  <2>5. HeadersEnd \in Nat
    BY <2>4, HeadersEndIs
  <2>6. HeadersEnd <= scanned => HeadersEnd = 0
    BY <2>3 DEF HeadersFound
  <2> QED
    BY <2>4, <2>5, <2>6
<1>6. ASSUME Grows \/ BeginLength \/ NoBody \/ ReturnLength PROVE StillLarge
  BY <1>3, <1>6 DEF Grows, BeginLength, NoBody, ReturnLength, Return
<1>7. ASSUME NEW n \in 1..Len(request.bytes), ReadHeaders(n) \/ ReadLength(n)
      PROVE  StillLarge
  BY <1>3, <1>7 DEF ReadHeaders, ReadLength
<1>8. ASSUME NEW a \in Nat, NEW b \in Nat, Decodes(a, b)
      PROVE  StillLarge
  <2>1. out_status' = out_status \/ out_status' \in {400, 413}
    BY <1>8, DecodingIs
  <2> QED
    BY <1>3, <2>1
<1>9. StillLarge
  BY <1>4, <1>5, <1>6, <1>7, <1>8, Steps
<1> QED
  BY <1>1, <1>2, <1>9 DEF WithinLimits, StillLarge

\* 413 answers an announced length above the limit or a chunked body that is full.
LEMMA RefusedStep ==
  ASSUME Shape, RefusedForSize, [Next]_vars
  PROVE  RefusedForSize'
<1>1. ASSUME out_status' # 413 PROVE RefusedForSize'
  BY <1>1 DEF RefusedForSize
<1>2. ASSUME phase # "done", out_status' = out_status PROVE RefusedForSize'
  BY <1>1, <1>2 DEF Shape
<1>3. CASE UNCHANGED vars
  BY <1>3 DEF vars, RefusedForSize
<1>4. ASSUME NEW status \in Statuses, GivesUp(status) PROVE RefusedForSize'
  BY <1>4 DEF GivesUp, FailWith, RefusedForSize
<1>5. CASE Grows \/ BeginLength \/ NoBody \/ ReturnLength
  BY <1>2, <1>5 DEF Grows, BeginLength, NoBody, ReturnLength, Return
<1>6. ASSUME NEW n \in 1..Len(request.bytes), ReadHeaders(n) \/ ReadLength(n)
      PROVE  RefusedForSize'
  BY <1>2, <1>6 DEF ReadHeaders, ReadLength
<1>7. ASSUME NEW a \in Nat, NEW b \in Nat, Decodes(a, b)
      PROVE  RefusedForSize'
  <2>1. phase # "done" /\ request' = request /\ request.te = "chunked"
    BY <1>7, DecodingIs DEF Decodes
  <2>2. CASE decoder'.phase = "ERROR"
    <3>1. out_status' = 413 => Len(decoder'.body) = MaxBody
      BY <1>7, <2>2, DecodingIs
    <3> QED
      BY <2>1, <2>2, <3>1 DEF RefusedForSize
  <2>3. CASE decoder'.phase # "ERROR"
    <3>1. out_status' = out_status
      BY <1>7, <2>3, DecodingIs
    <3> QED
      BY <1>2, <2>1, <3>1
  <2> QED
    BY <2>2, <2>3
<1> QED
  BY <1>3, <1>4, <1>5, <1>6, <1>7, Steps

-----------------------------------------------------------------------------

\* The shape of the reader and what FindsTheRequest says are inductive together.
THEOREM ReaderInvariance == Spec => []RequestInv
<1>1. Init => RequestInv
  <2> SUFFICES ASSUME Init PROVE RequestInv
    OBVIOUS
  <2>1. Shape
    BY ShapeInit
  <2>2. HeadersFound
    <3>1. header_end = 0 /\ scanned = 0 /\ Len(request.bytes) \in Nat
      BY <2>1, RequestIs DEF Init, Shape
    <3>2. HeadersEnd = 0 \/ HeadersEnd \in 4..Len(request.bytes)
      BY <3>1, HeadersEndIs
    <3>3. HeadersEnd <= 0 => HeadersEnd = 0
      BY <3>1, <3>2
    <3> QED
      BY <3>1, <3>3 DEF HeadersFound
  <2>3. SplitsDoNotMatter
    BY DEF Init, SplitsDoNotMatter, Fed, Decoder
  <2>4. ReturnsTheRequest
    BY DEF Init, ReturnsTheRequest
  <2>5. WithinLimits /\ RefusedForSize
    BY <2>1 DEF Init, WithinLimits, RefusedForSize, Shape
  <2> QED
    BY <2>1, <2>2, <2>3, <2>4, <2>5 DEF RequestInv, FindsTheRequest
<1>2. RequestInv /\ [Next]_vars => RequestInv'
  <2> SUFFICES ASSUME RequestInv, [Next]_vars PROVE RequestInv'
    OBVIOUS
  <2>1. Shape /\ HeadersFound /\ SplitsDoNotMatter /\ ReturnsTheRequest /\ WithinLimits
        /\ RefusedForSize
    BY DEF RequestInv, FindsTheRequest
  <2>2. Shape'
    BY <2>1, ShapeStep
  <2>3. HeadersFound' /\ SplitsDoNotMatter' /\ ReturnsTheRequest' /\ WithinLimits'
        /\ RefusedForSize'
    BY <2>1, <2>2, HeadersFoundStep, SplitsStep, ReturnsStep, LimitsStep, RefusedStep
  <2> QED
    BY <2>2, <2>3 DEF RequestInv, FindsTheRequest
<1> QED
  BY <1>1, <1>2, PTL DEF Spec

\* However the peer's bytes are split into reads, and whenever a read or an allocation
\* fails, hp_read_full_request_to finds the end of the headers by the read that brings
\* it, decodes a chunked body as it would byte by byte, returns the request that was
\* sent or none, refuses a header block as too large only if it is, and answers 413 only
\* to a body that announces more than the limit or reaches it: for every request, every
\* limit and every size of the reads.
THEOREM RequestFound == Spec => []FindsTheRequest
<1>1. RequestInv => FindsTheRequest
  BY DEF RequestInv
<1> QED
  BY <1>1, ReaderInvariance, PTL

-----------------------------------------------------------------------------
(* A message is decoded into its body with its last byte.                  *)

\* Once the decoder is done the request is returned, and if it has failed none is.
Decided ==
  /\ decoder.phase = "DONE" => out = [head |-> header_end, body |-> decoder.body]
  /\ decoder.phase = "ERROR" => out = Nothing

\* The reads that feed the decoder are the only steps that matter to that.
LEMMA DecidedStep ==
  ASSUME Shape, Decided, [Next]_vars
  PROVE  Decided'
<1>1. ASSUME UNCHANGED <<decoder, header_end, out>> PROVE Decided'
  BY <1>1 DEF Decided
<1>2. CASE UNCHANGED vars
  BY <1>1, <1>2 DEF vars
<1>3. CASE \E status \in Statuses : GivesUp(status)
  BY <1>1, <1>3 DEF GivesUp, FailWith
<1>4. CASE Grows \/ BeginLength
  BY <1>1, <1>4 DEF Grows, BeginLength
<1>5. ASSUME decoder' = decoder, decoder = Decoder PROVE Decided'
  BY <1>5 DEF Decided, Decoder
<1>6. ASSUME NEW n \in 1..Len(request.bytes), ReadHeaders(n) \/ ReadLength(n) PROVE Decided'
  BY <1>5, <1>6 DEF ReadHeaders, ReadLength, Shape
<1>7. CASE NoBody \/ ReturnLength
  BY <1>5, <1>7 DEF NoBody, ReturnLength, Shape
<1>8. ASSUME NEW a \in Nat, NEW b \in Nat, Decodes(a, b) PROVE Decided'
  <2>1. /\ header_end' = header_end
        /\ decoder'.phase = "ERROR" => out' = out
        /\ decoder'.phase = "DONE" => out' = [head |-> header_end, body |-> decoder'.body]
    BY <1>8, DecodingIs
  <2>2. out = Nothing
    BY <1>8 DEF Decodes, Shape
  <2> QED
    BY <2>1, <2>2 DEF Decided, Nothing
<1> QED
  BY <1>2, <1>3, <1>4, <1>6, <1>7, <1>8, Steps

\* What the invariant says of a message that leads the decoder somewhere.
LEMMA FedLeads ==
  ASSUME Shape, SplitsDoNotMatter, Fed, NEW E, NEW Bad, Bad \subseteq {"ERROR"},
         Leads({Decoder}, Wire, E, Bad)
  PROVE  /\ pos < Len(request.bytes) /\ decoder.phase \in {"DONE", "ERROR"} => decoder.phase \in Bad
         /\ ~(pos < Len(request.bytes)) =>
              \/ decoder.phase \in Bad
              \/ \E e \in E : decoder.phase = e.phase /\ (decoder.phase # "ERROR" => decoder = e)
<1> DEFINE f == After(request.bytes, header_end)
           N == Len(request.bytes) - header_end
           w == [k \in 0..N |-> f[header_end - header_end + k]]
<1>1. request.bytes \in Seq(Bytes) /\ Len(request.bytes) \in Nat
  BY RequestIs DEF Shape
<1>2. /\ header_end \in Nat /\ pos \in Nat /\ header_end <= pos /\ pos <= Len(request.bytes)
  BY TypeIs DEF Shape
<1>3. /\ header_end \in 0..Len(request.bytes) /\ header_end \in header_end..Len(request.bytes)
      /\ Len(request.bytes) \in header_end..Len(request.bytes) /\ header_end - header_end = 0
      /\ N \in Nat /\ pos - header_end \in 0..N
  BY <1>1, <1>2
<1>4. Bytewise(w, Decoder, Wire) /\ Len(Wire) = N
  <2> DEFINE block == SubSeq(request.bytes, header_end + 1, Len(request.bytes))
  <2>1. Bytewise(w, f[header_end - header_end], block) /\ Len(block) = N
    BY <1>1, <1>3, Window
  <2>2. f[header_end - header_end] = Decoder
    BY <1>1, <1>3, AfterIs
  <2>3. Wire = block
    BY DEF Wire, Received
  <2> HIDE DEF w, block
  <2> QED
    BY <2>1, <2>2, <2>3
<1>5. \A k \in 0..N : w[k] = f[k]
  BY <1>3
<1>6. /\ decoder.phase = f[pos - header_end].phase
      /\ decoder.phase # "ERROR" => decoder = f[pos - header_end]
  BY DEF SplitsDoNotMatter, ByteByByte, After
<1> HIDE DEF f, w, N
<1>7. /\ w[N] \in E \/ w[N].phase \in Bad
      /\ \A n \in 0..(N - 1) : w[n].phase \in {"DONE", "ERROR"} => w[n].phase \in Bad
  BY <1>4 DEF Leads
<1>8. CASE pos < Len(request.bytes)
  <2>1. pos - header_end \in 0..(N - 1)
    BY <1>1, <1>2, <1>8 DEF N
  <2>2. w[pos - header_end] = f[pos - header_end]
    BY <1>3, <1>5
  <2> QED
    BY <1>6, <1>7, <1>8, <2>1, <2>2
<1>9. CASE ~(pos < Len(request.bytes))
  <2>1. pos - header_end = N
    BY <1>1, <1>2, <1>9 DEF N
  <2>2. w[N] = f[N] /\ N \in 0..N
    BY <1>3, <1>5
  <2> QED
    BY <1>6, <1>7, <1>9, <2>1, <2>2
<1> QED
  BY <1>8, <1>9

\* What the invariant says of the messages of the grammar.
LEMMA MessagesDecoded ==
  ASSUME Shape, SplitsDoNotMatter, Decided
  PROVE  DecodesAnySplit
<1> SUFFICES ASSUME Fed
             PROVE  /\ Wire \in Wires /\ Len(BodyOf[Wire]) <= MaxBody =>
                         IF pos < Len(request.bytes)
                         THEN phase = "chunked"
                         ELSE out = [head |-> header_end, body |-> BodyOf[Wire]]
                    /\ Wire \in Oversized => out = Nothing
  BY DEF DecodesAnySplit
<1>1. ASSUME Wire \in Wires, Len(BodyOf[Wire]) <= MaxBody
      PROVE  IF pos < Len(request.bytes)
             THEN phase = "chunked"
             ELSE out = [head |-> header_end, body |-> BodyOf[Wire]]
  <2>1. PICK m : m = CHOOSE x \in Messages : x.wire = Wire
    OBVIOUS
  <2>2. m \in Messages /\ m.wire = Wire
    <3>1. \E x \in Messages : x.wire = Wire
      BY <1>1 DEF Wires
    <3> QED
      BY <2>1, <3>1
  <2>3. BodyOf[Wire] = m.body
    BY <1>1, <2>1 DEF BodyOf
  <2>4. Leads({Decoder}, Wire, AtPhase("DONE", m.body), {})
    <3>1. PICK chunks \in UNION {[1..n -> Data] : n \in 0..MaxChunks},
               ext \in Extensions, last \in LastChunks, trailer \in Trailers :
                 m = Message(chunks, ext, last, trailer)
      BY <2>2 DEF Messages, MessagesEnding
    <3>2. chunks \in Seq(Data)
      BY MessageParts
    <3> QED
      BY <1>1, <2>2, <2>3, <3>1, <3>2, LeadsMessage
  <2>5. PICK Bad : Bad = {}
    OBVIOUS
  <2>6. Leads({Decoder}, Wire, AtPhase("DONE", m.body), Bad) /\ Bad \subseteq {"ERROR"}
    BY <2>4, <2>5
  <2>7. CASE pos < Len(request.bytes)
    <3>1. decoder.phase \in {"DONE", "ERROR"} => decoder.phase \in Bad
      BY <2>7, <2>6, FedLeads
    <3>2. decoder.phase \notin {"DONE", "ERROR"}
      BY <2>5, <3>1
    <3> QED
      BY <2>7, <3>2 DEF Fed
  <2>8. CASE ~(pos < Len(request.bytes))
    <3>1. \/ decoder.phase \in Bad
          \/ \E e \in AtPhase("DONE", m.body) :
               decoder.phase = e.phase /\ (decoder.phase # "ERROR" => decoder = e)
      BY <2>8, <2>6, FedLeads
    <3>2. PICK e \in AtPhase("DONE", m.body) :
            decoder.phase = e.phase /\ (decoder.phase # "ERROR" => decoder = e)
      BY <2>5, <3>1
    <3>3. decoder.phase = "DONE" /\ decoder.body = m.body
      BY <3>2 DEF AtPhase
    <3> QED
      BY <2>3, <2>8, <3>3 DEF Decided
  <2> QED
    BY <2>7, <2>8
<1>2. ASSUME Wire \in Oversized PROVE out = Nothing
  <2>1. PICK chunks \in UNION {[1..n -> Data] : n \in 0..MaxChunks},
             ext \in Extensions, trailer \in Trailers :
               Wire = Message(chunks, ext, <<"2", "0", "0">>, trailer).wire
    BY <1>2 DEF Oversized, MessagesEnding
  <2>2. chunks \in Seq(Data)
    BY MessageParts
  <2>3. Leads({Decoder}, Wire, Missing(0), {"ERROR"})
    BY <2>1, <2>2, LeadsOversized
  <2>4. decoder.phase # "DONE"
    <3>1. PICK Bad : Bad = {"ERROR"}
      OBVIOUS
    <3>2. Leads({Decoder}, Wire, Missing(0), Bad) /\ Bad \subseteq {"ERROR"}
      BY <2>3, <3>1
    <3>3. CASE pos < Len(request.bytes)
      <4>1. decoder.phase \in {"DONE", "ERROR"} => decoder.phase \in Bad
        BY <3>2, <3>3, FedLeads
      <4> QED
        BY <3>1, <4>1
    <3>4. CASE ~(pos < Len(request.bytes))
      <4>1. \/ decoder.phase \in Bad
            \/ \E e \in Missing(0) :
                 decoder.phase = e.phase /\ (decoder.phase # "ERROR" => decoder = e)
        BY <3>2, <3>4, FedLeads
      <4> QED
        BY <3>1, <4>1 DEF Missing
    <3> QED
      BY <3>3, <3>4
  <2>5. CASE phase = "chunked"
    BY <2>5 DEF Shape
  <2>6. CASE decoder.phase = "ERROR"
    BY <2>6 DEF Decided
  <2> QED
    BY <2>4, <2>5, <2>6 DEF Fed
<1> QED
  BY <1>1, <1>2

\* Whatever a peer's bytes are split into, a chunked message of the grammar of RFC 7230
\* (of chunks of two bytes, any number of them) whose body fits is returned with exactly
\* that body when its last byte is read and not before, and one whose last chunk has a
\* size that overflows is never returned: for every size_t, every limit on the body and
\* on the header block and every size of the reads of hp_read_full_request_to.
THEOREM MessageDecoded == Spec => []DecodesAnySplit
<1>1. Init => Decided
  BY DEF Init, Decided, Decoder
<1>2. RequestInv /\ Decided /\ [Next]_vars => Decided'
  BY DecidedStep DEF RequestInv
<1>3. RequestInv /\ Decided => DecodesAnySplit
  BY MessagesDecoded DEF RequestInv, FindsTheRequest
<1> QED
  BY <1>1, <1>2, <1>3, ReaderInvariance, PTL DEF Spec

-----------------------------------------------------------------------------
(* The TLS sessions                                                        *)

\* A thread that has a socket open, and one that may have a session for it
Connected == {"handshake", "check", "connected", "plain", "enabled"}
InSession == {"check", "connected", "enabled"}

Calls == [verify : BOOLEAN, trusted : BOOLEAN, socket : Sockets \cup {None}, ssl : Objects \cup {None}]

\* A socket that is in use is open and used by one thread.
SocketsOwned ==
  /\ \A t \in Threads : pc[t] \in Connected => call[t].socket \in open
  /\ \A t, u \in Threads :
       pc[t] \in Connected /\ pc[u] \in Connected /\ call[t].socket = call[u].socket => t = u

\* The object of a slot is live, and belongs to the thread whose socket the slot is for,
\* unless tcp_close left it behind.
SlotOwned(i) ==
  table[i] # Tls!Empty =>
    /\ object[table[i].ssl] = "live"
    /\ table[i].socket \notin left =>
         \E t \in Threads : /\ pc[t] \in InSession
                            /\ call[t].socket = table[i].socket
                            /\ call[t].ssl = table[i].ssl

SlotsDiffer(i, j) ==
  i # j /\ table[i] # Tls!Empty =>
    table[i].socket # table[j].socket /\ table[i].ssl # table[j].ssl

\* Threads own their sockets; the slots of the table have a live object each and belong to
\* threads inside a session, those of descriptors closed by tcp_close excepted; and a
\* verified connection has a trusted peer.
TlsInv ==
  /\ Tls!TypeOK
  /\ call \in [Threads -> Calls]
  /\ SocketsOwned
  /\ \A i \in Slots : SlotOwned(i)
  /\ \A i, j \in Slots : SlotsDiffer(i, j)
  /\ Tls!VerifiedIsTrusted

-----------------------------------------------------------------------------
(* The table                                                               *)

\* What is in the table is a socket and an object.
LEMMA UsedSlot ==
  ASSUME Tls!TypeOK, NEW i \in Slots, table[i] # Tls!Empty
  PROVE  table[i].socket \in Sockets /\ table[i].ssl \in Objects
BY DEF Tls!TypeOK

\* A socket of a thread has at most one slot.
LEMMA OwnSlots ==
  ASSUME TlsInv, NEW t \in Threads, pc[t] \in Connected, NEW i \in Tls!SlotsOf(call[t].socket)
  PROVE  i \in Slots /\ table[i] # Tls!Empty /\ Tls!SlotsOf(call[t].socket) = {i}
<1>1. i \in Slots /\ table[i].socket = call[t].socket /\ call[t].socket \in Sockets
  BY DEF Tls!SlotsOf, TlsInv, SocketsOwned, Tls!TypeOK
<1>2. table[i] # Tls!Empty
  BY <1>1, TlsSessionsAssumption DEF Tls!Empty
<1>3. Tls!SlotsOf(call[t].socket) = {i}
  BY <1>1, <1>2 DEF TlsInv, SlotsDiffer, Tls!SlotsOf
<1> QED
  BY <1>1, <1>2, <1>3

\* The object that the table has for a thread's socket, and the slots of others
LEMMA OwnMapping ==
  ASSUME TlsInv, NEW t \in Threads, pc[t] \in Connected
  PROVE  /\ Tls!Mapped(call[t].socket) = None <=> Tls!SlotsOf(call[t].socket) = {}
         /\ Tls!Mapped(call[t].socket) # None =>
              /\ Tls!Mapped(call[t].socket) \in Objects
              /\ \A j \in Slots : table[j] # Tls!Empty /\ table[j].ssl = Tls!Mapped(call[t].socket)
                                    => j \in Tls!SlotsOf(call[t].socket)
<1>1. CASE Tls!SlotsOf(call[t].socket) = {}
  BY <1>1 DEF Tls!Mapped
<1>2. CASE Tls!SlotsOf(call[t].socket) # {}
  <2>1. PICK i \in Tls!SlotsOf(call[t].socket) : i = CHOOSE j \in Tls!SlotsOf(call[t].socket) : TRUE
    BY <1>2
  <2>2. i \in Slots /\ table[i] # Tls!Empty
    BY <2>1, OwnSlots
  <2>3. Tls!Mapped(call[t].socket) = table[i].ssl /\ table[i].ssl \in Objects
    BY <1>2, <2>1, <2>2, UsedSlot DEF Tls!Mapped, TlsInv
  <2>4. \A j \in Slots : table[j] # Tls!Empty /\ table[j].ssl = table[i].ssl => j = i
    BY <2>2 DEF TlsInv, SlotsDiffer
  <2> QED
    BY <1>2, <2>1, <2>3, <2>4, TlsSessionsAssumption
<1> QED
  BY <1>1, <1>2

\* A table that only loses sessions, while their threads stay where they are
LEMMA SessionsKept ==
  ASSUME TlsInv, table' \in [Slots -> [socket : Sockets, ssl : Objects] \cup {Tls!Empty}],
         \A i \in Slots : table'[i] = table[i] \/ table'[i] = Tls!Empty,
         \A i \in Slots : table'[i] # Tls!Empty => object'[table[i].ssl] = object[table[i].ssl],
         \A i \in Slots, t \in Threads :
           table'[i] # Tls!Empty /\ pc[t] \in InSession /\ call[t].socket = table[i].socket =>
             \/ pc'[t] \in InSession /\ call'[t].socket = call[t].socket /\ call'[t].ssl = call[t].ssl
             \/ table[i].socket \in left',
         \A i \in Slots : table'[i] # Tls!Empty /\ table[i].socket \in left => table[i].socket \in left'
  PROVE  /\ \A i \in Slots : SlotOwned(i)'
         /\ \A i, j \in Slots : SlotsDiffer(i, j)'
<1>1. ASSUME NEW i \in Slots PROVE SlotOwned(i)'
  BY <1>1 DEF TlsInv, SlotOwned
<1>2. ASSUME NEW i \in Slots, NEW j \in Slots PROVE SlotsDiffer(i, j)'
  <2>1. table[i] # Tls!Empty /\ i # j => table[i].socket # table[j].socket /\ table[i].ssl # table[j].ssl
    BY DEF TlsInv, SlotsDiffer
  <2>2. table'[i] # Tls!Empty => table'[i] = table[i] /\ table[i].socket \in Sockets /\ table[i].ssl \in Objects
    BY UsedSlot DEF TlsInv
  <2>3. Tls!Empty.socket = None /\ Tls!Empty.ssl = None
    BY DEF Tls!Empty
  <2> QED
    BY <2>1, <2>2, <2>3, TlsSessionsAssumption DEF SlotsDiffer
<1> QED
  BY <1>1, <1>2

\* A thread gets a fresh object o for its socket, in a slot that the socket may have.
LEMMA SessionAdded ==
  ASSUME TlsInv, NEW t \in Threads, pc[t] \in Connected,
         NEW o \in Objects, object[o] = "new",
         NEW i \in Tls!SlotsFor(call[t].socket), Tls!PutSsl(i, call[t].socket, o),
         object' = [object EXCEPT ![o] = "live"],
         pc' = [pc EXCEPT ![t] = pc'[t]], pc'[t] \in InSession,
         call' = [call EXCEPT ![t].ssl = o]
  PROVE  /\ table' \in [Slots -> [socket : Sockets, ssl : Objects] \cup {Tls!Empty}]
         /\ \A k \in Slots : SlotOwned(k)'
         /\ \A j, k \in Slots : SlotsDiffer(j, k)'
<1>0. /\ table' = [table EXCEPT ![i] = [socket |-> call[t].socket, ssl |-> o]]
      /\ left' = left \ {call[t].socket}
  BY DEF Tls!PutSsl
<1>1. /\ i \in Slots /\ call[t].socket \in Sockets
      /\ Tls!TypeOK /\ call \in [Threads -> Calls]
  BY DEF Tls!SlotsFor, Tls!SlotsOf, TlsInv, SocketsOwned, Tls!TypeOK
<1>2. table'[i] = [socket |-> call[t].socket, ssl |-> o]
  BY <1>0, <1>1 DEF Tls!TypeOK
<1>3. \A k \in Slots \ {i} : table'[k] = table[k]
  BY <1>0, <1>1 DEF Tls!TypeOK
<1>4. table' \in [Slots -> [socket : Sockets, ssl : Objects] \cup {Tls!Empty}]
  BY <1>0, <1>1 DEF Tls!TypeOK
<1>5. \A k \in Slots \ {i} : table[k] # Tls!Empty =>
        table[k].socket # call[t].socket /\ table[k].ssl # o
  <2> SUFFICES ASSUME NEW k \in Slots \ {i}, table[k] # Tls!Empty
               PROVE  table[k].socket # call[t].socket /\ table[k].ssl # o
    OBVIOUS
  <2>1. object[table[k].ssl] = "live"
    BY DEF TlsInv, SlotOwned
  <2>2. CASE Tls!SlotsOf(call[t].socket) = {}
    BY <2>1, <2>2 DEF Tls!SlotsOf
  <2>3. CASE Tls!SlotsOf(call[t].socket) # {}
    <3>1. Tls!SlotsOf(call[t].socket) = {i}
      BY <2>3, OwnSlots DEF Tls!SlotsFor
    <3> QED
      BY <2>1, <3>1 DEF Tls!SlotsOf
  <2> QED
    BY <2>2, <2>3
<1>6. /\ pc'[t] \in InSession
      /\ call'[t].socket = call[t].socket /\ call'[t].ssl = o
      /\ object'[o] = "live"
  BY <1>1 DEF Tls!TypeOK, Calls
<1>7. ASSUME NEW k \in Slots, table'[k] # Tls!Empty PROVE SlotOwned(k)'
  <2>1. CASE k = i
    BY <1>2, <1>6, <2>1 DEF SlotOwned
  <2>2. CASE k # i
    <3>1. table[k] # Tls!Empty /\ table'[k] = table[k]
      BY <1>3, <1>7, <2>2
    <3>2. object'[table[k].ssl] = "live"
      BY <3>1, <1>1 DEF TlsInv, SlotOwned, Tls!TypeOK
    <3>3. CASE table[k].socket \in left
      BY <3>1, <3>2, <3>3, <2>2, <1>0, <1>5 DEF SlotOwned
    <3>4. CASE table[k].socket \notin left
      <4>1. PICK u \in Threads : /\ pc[u] \in InSession
                                 /\ call[u].socket = table[k].socket
                                 /\ call[u].ssl = table[k].ssl
        BY <3>1, <3>4 DEF TlsInv, SlotOwned
      <4>2. u # t
        BY <3>1, <4>1, <2>2, <1>5
      <4>3. pc'[u] = pc[u] /\ call'[u] = call[u]
        BY <4>2, <1>1 DEF Tls!TypeOK
      <4> QED
        BY <3>1, <3>2, <4>1, <4>3 DEF SlotOwned
    <3> QED
      BY <3>3, <3>4
  <2> QED
    BY <2>1, <2>2
<1>8. ASSUME NEW j \in Slots, NEW k \in Slots PROVE SlotsDiffer(j, k)'
  <2>1. Tls!Empty.socket = None /\ Tls!Empty.ssl = None
    BY DEF Tls!Empty
  <2>2. \A l \in Slots : table[l] # Tls!Empty => table[l].socket \in Sockets /\ table[l].ssl \in Objects
    BY <1>1, UsedSlot
  <2> QED
    BY <1>1, <1>2, <1>3, <1>5, <2>1, <2>2, TlsSessionsAssumption DEF SlotsDiffer, TlsInv
<1> QED
  BY <1>4, <1>7, <1>8 DEF SlotOwned

-----------------------------------------------------------------------------
(* The steps                                                               *)

LEMMA TlsInvInit == Tls!Init => TlsInv
<1> SUFFICES ASSUME Tls!Init PROVE TlsInv
  OBVIOUS
<1>1. verify_mode \in BOOLEAN
  BY Zenon DEF Tls!Init
<1>2. Tls!TypeOK
  BY <1>1 DEF Tls!Init, Tls!TypeOK
<1>3. call \in [Threads -> Calls]
  <2>1. Tls!Idle \in Calls
    BY DEF Tls!Idle, Calls
  <2> QED
    BY <2>1 DEF Tls!Init
<1> QED
  BY <1>2, <1>3 DEF Tls!Init, TlsInv, SocketsOwned, SlotOwned, SlotsDiffer, Tls!VerifiedIsTrusted, Connected

\* The table stays as it is, or is emptied.
TableGoesOn == UNCHANGED <<table, left>> \/ table' = [i \in Slots |-> Tls!Empty]

\* A step that takes sessions away, or none, and leaves the threads' sockets alone
LEMMA ContextStep ==
  ASSUME TlsInv, UNCHANGED <<open, object, pc, call>>, ssl_ctx' \in {None, "server", "client"},
         verify_mode' \in BOOLEAN, left' \subseteq Sockets, TableGoesOn
  PROVE  TlsInv'
<1>1. Tls!TypeOK'
  BY DEF TlsInv, Tls!TypeOK, TableGoesOn
<1>2. (\A i \in Slots : SlotOwned(i)') /\ (\A i, j \in Slots : SlotsDiffer(i, j)')
  BY <1>1, SessionsKept DEF Tls!TypeOK, TlsInv, TableGoesOn
<1> QED
  BY <1>1, <1>2 DEF TlsInv, SocketsOwned, Tls!VerifiedIsTrusted

\* A thread that has no socket goes on, with another thread's sessions untouched.
LEMMA ThreadStep ==
  ASSUME TlsInv, NEW t \in Threads, pc[t] \notin InSession, UNCHANGED object,
         NEW state, pc' = [pc EXCEPT ![t] = state],
         state \in {"idle", "init", "verify", "socket", "handshake", "plain"},
         NEW c \in Calls, call' = [call EXCEPT ![t] = c],
         open' \subseteq Sockets,
         \A u \in Threads \ {t} : pc[u] \in Connected => call[u].socket \in open',
         state \in Connected =>
           /\ c.socket \in open'
           /\ \A u \in Threads \ {t} : pc[u] \in Connected => call[u].socket # c.socket,
         ssl_ctx' \in {None, "server", "client"}, verify_mode' \in BOOLEAN,
         left' \subseteq Sockets, TableGoesOn
  PROVE  TlsInv'
<1> USE DEF TlsInv
<1>1. Tls!TypeOK' /\ call' \in [Threads -> Calls]
  BY DEF Tls!TypeOK, TableGoesOn
<1>2. \A u \in Threads \ {t} : pc'[u] = pc[u] /\ call'[u] = call[u]
  BY DEF Tls!TypeOK
<1>3. pc'[t] = state /\ call'[t] = c
  BY DEF Tls!TypeOK
<1>4. SocketsOwned'
  BY <1>2, <1>3 DEF SocketsOwned
<1>5. (\A i \in Slots : SlotOwned(i)') /\ (\A i, j \in Slots : SlotsDiffer(i, j)')
  <2>1. \A u \in Threads : pc[u] \in InSession =>
          pc'[u] \in InSession /\ call'[u].socket = call[u].socket /\ call'[u].ssl = call[u].ssl
    BY <1>2
  <2> QED
    BY <1>1, <2>1, SessionsKept DEF Tls!TypeOK, TableGoesOn
<1>6. Tls!VerifiedIsTrusted'
  BY <1>2, <1>3 DEF Tls!VerifiedIsTrusted
<1> QED
  BY <1>1, <1>4, <1>5, <1>6

\* A thread closes its socket: its session goes, if there is one, or is left behind.
LEMMA CloseStep ==
  ASSUME TlsInv, NEW t \in Threads, pc[t] \in Connected, Tls!Returns(t),
         open' = open \ {call[t].socket}, UNCHANGED <<ssl_ctx, verify_mode>>,
         left' \subseteq Sockets, left \ {call[t].socket} \subseteq left',
         \/ /\ UNCHANGED <<object, table>>
            /\ Tls!SlotsOf(call[t].socket) # {} => call[t].socket \in left'
         \/ /\ Tls!Mapped(call[t].socket) # None
            /\ object' = [object EXCEPT ![Tls!Mapped(call[t].socket)] = "freed"]
            /\ table' = Tls!RemoveMapping(call[t].socket)
  PROVE  TlsInv'
<1> USE DEF TlsInv
<1>0. Tls!Idle \in Calls /\ ~Tls!Idle.verify
  BY DEF Tls!Idle, Calls
<1>1. Tls!TypeOK' /\ call' \in [Threads -> Calls]
  BY <1>0, OwnMapping DEF Tls!TypeOK, Tls!Returns, Tls!RemoveMapping
<1>2. \A u \in Threads \ {t} : pc'[u] = pc[u] /\ call'[u] = call[u]
  BY DEF Tls!TypeOK, Tls!Returns
<1>3. pc'[t] = "idle"
  BY DEF Tls!TypeOK, Tls!Returns
<1>4. SocketsOwned'
  BY <1>2, <1>3 DEF SocketsOwned, Connected
<1>5. \A i \in Slots :
        /\ table'[i] = table[i] \/ table'[i] = Tls!Empty
        /\ table'[i] # Tls!Empty => /\ table[i] # Tls!Empty
                                    /\ i \in Tls!SlotsOf(call[t].socket) =>
                                         UNCHANGED object /\ call[t].socket \in left'
  BY DEF Tls!TypeOK, Tls!RemoveMapping
<1>6. \A i \in Slots : table'[i] # Tls!Empty => object'[table[i].ssl] = object[table[i].ssl]
  <2> SUFFICES ASSUME NEW i \in Slots, table'[i] # Tls!Empty
               PROVE  object'[table[i].ssl] = object[table[i].ssl]
    OBVIOUS
  <2>1. CASE UNCHANGED object
    BY <2>1
  <2>2. CASE /\ Tls!Mapped(call[t].socket) # None
             /\ object' = [object EXCEPT ![Tls!Mapped(call[t].socket)] = "freed"]
             /\ table' = Tls!RemoveMapping(call[t].socket)
    <3>1. i \notin Tls!SlotsOf(call[t].socket)
      BY <2>2 DEF Tls!RemoveMapping
    <3> QED
      BY <1>5, <2>2, <3>1, OwnMapping DEF Tls!TypeOK
  <2> QED
    BY <2>1, <2>2
<1>7. \A i \in Slots :
        table'[i] # Tls!Empty /\ table[i].socket = call[t].socket => table[i].socket \in left'
  BY <1>5 DEF Tls!SlotsOf
<1>71. \A i \in Slots : table'[i] # Tls!Empty /\ table[i].socket \in left => table[i].socket \in left'
  BY <1>7
<1>8. (\A i \in Slots : SlotOwned(i)') /\ (\A i, j \in Slots : SlotsDiffer(i, j)')
  BY <1>1, <1>2, <1>5, <1>6, <1>7, <1>71, SessionsKept DEF Tls!TypeOK
<1>9. Tls!VerifiedIsTrusted'
  BY <1>2, <1>3 DEF Tls!VerifiedIsTrusted
<1> QED
  BY <1>1, <1>4, <1>8, <1>9

\* A thread makes an object for its socket, and the table takes it or has no room.
LEMMA SessionStep ==
  ASSUME TlsInv, NEW t \in Threads, pc[t] \in Connected, UNCHANGED <<ssl_ctx, verify_mode, open>>,
         NEW o \in Tls!Fresh, object' = [object EXCEPT ![o] = "live"],
         NEW state, state \in {"check", "enabled"}, pc' = [pc EXCEPT ![t] = state],
         call' = [call EXCEPT ![t].ssl = o],
         \/ UNCHANGED <<table, left>> /\ Tls!SlotsFor(call[t].socket) = {}
         \/ \E i \in Tls!SlotsFor(call[t].socket) : Tls!PutSsl(i, call[t].socket, o)
  PROVE  TlsInv'
<1> USE DEF TlsInv
<1>0. o \in Objects /\ object[o] = "new"
  BY DEF Tls!Fresh
<1>1. \A u \in Threads \ {t} : pc'[u] = pc[u] /\ call'[u] = call[u]
  BY DEF Tls!TypeOK
<1>2. /\ pc'[t] = state /\ call'[t].ssl = o
      /\ call'[t].socket = call[t].socket /\ call'[t].verify = call[t].verify
  BY DEF Tls!TypeOK, Calls
<1>3. call' \in [Threads -> Calls]
  BY <1>0 DEF Calls
<1>4. SocketsOwned'
  BY <1>1, <1>2 DEF SocketsOwned, Connected
<1> DEFINE TableFits == /\ table \in [Slots -> [socket : Sockets, ssl : Objects] \cup {Tls!Empty}]
                        /\ \A i \in Slots : SlotOwned(i)
                        /\ \A i, j \in Slots : SlotsDiffer(i, j)
<1>5. TableFits'
  <2>1. CASE UNCHANGED <<table, left>> /\ Tls!SlotsFor(call[t].socket) = {}
    <3>1. Tls!SlotsOf(call[t].socket) = {}
      BY <2>1 DEF Tls!SlotsFor
    <3>2. \A i \in Slots : table[i] # Tls!Empty => object'[table[i].ssl] = object[table[i].ssl]
      BY <1>0 DEF Tls!TypeOK, SlotOwned
    <3> QED
      BY <2>1, <3>1, <3>2, <1>1, SessionsKept DEF Tls!TypeOK, Tls!SlotsOf
  <2>2. ASSUME NEW i \in Tls!SlotsFor(call[t].socket), Tls!PutSsl(i, call[t].socket, o)
        PROVE  TableFits'
    BY <2>2, <1>0, <1>2, SessionAdded DEF InSession
  <2> QED
    BY <2>1, <2>2
<1>6. Tls!TypeOK'
  BY <1>0, <1>5 DEF Tls!TypeOK, Tls!PutSsl
<1>7. Tls!VerifiedIsTrusted'
  BY <1>1, <1>2 DEF Tls!VerifiedIsTrusted
<1> QED
  BY <1>3, <1>4, <1>5, <1>6, <1>7

\* The handshake fails and the socket is closed before it has a session of its own: the table
\* has none for it, or one that was left behind.
LEMMA HandshakeFails ==
  ASSUME TlsInv, NEW t \in Threads, pc[t] = "handshake", Tls!Returns(t),
         open' = open \ {call[t].socket},
         UNCHANGED <<ssl_ctx, verify_mode, object, table, left>>
  PROVE  TlsInv'
<1>1. pc[t] \in Connected
  BY DEF Connected
<1>2. ASSUME NEW i \in Tls!SlotsOf(call[t].socket) PROVE call[t].socket \in left
  <2>1. i \in Slots /\ table[i] # Tls!Empty /\ table[i].socket = call[t].socket
    BY <1>1, <1>2, OwnSlots DEF Tls!SlotsOf
  <2>2. ASSUME NEW u \in Threads, pc[u] \in InSession, call[u].socket = call[t].socket PROVE FALSE
    BY <1>1, <2>2 DEF TlsInv, SocketsOwned, InSession, Connected
  <2> QED
    BY <2>1, <2>2 DEF TlsInv, SlotOwned
<1>3. left \subseteq Sockets
  BY DEF TlsInv, Tls!TypeOK
<1> QED
  BY <1>1, <1>2, <1>3, CloseStep

LEMMA TlsInvStep == TlsInv /\ [Tls!Next]_(Tls!vars) => TlsInv'
<1> SUFFICES ASSUME TlsInv, [Tls!Next]_(Tls!vars) PROVE TlsInv'
  OBVIOUS
<1> USE DEF TlsInv
<1>0. /\ Tls!Idle \in Calls
      /\ \A t \in Threads : pc[t] \in Connected => call[t].socket \in Sockets
      /\ \A t \in Threads : call[t] \in Calls
      /\ open \subseteq Sockets /\ left \subseteq Sockets /\ ssl_ctx \in {None, "server", "client"} /\ verify_mode \in BOOLEAN
      /\ \A t \in Threads : pc[t] \in Connected => call[t].socket \in open
  BY DEF Tls!Idle, Calls, SocketsOwned, Tls!TypeOK
<1>1. CASE Tls!InitServerContext \/ Tls!CleanUp
  <2>1. verify_mode' \in BOOLEAN
    BY <1>1, Zenon DEF Tls!InitServerContext, Tls!CleanUp, Tls!InitContext, Tls!TypeOK
  <2>2. left' \subseteq Sockets /\ TableGoesOn
    BY <1>1 DEF Tls!InitServerContext, Tls!CleanUp, Tls!InitContext, Tls!TypeOK, TableGoesOn
  <2> QED
    BY <1>1, <2>1, <2>2, ContextStep DEF Tls!InitServerContext, Tls!CleanUp, Tls!InitContext
<1>2. ASSUME NEW t \in Threads, Tls!CallConnect(t) PROVE TlsInv'
  <2>1. PICK v, trusted \in BOOLEAN :
          call' = [call EXCEPT ![t] = [Tls!Idle EXCEPT !.verify = v, !.trusted = trusted]]
    BY <1>2 DEF Tls!CallConnect
  <2>2. [Tls!Idle EXCEPT !.verify = v, !.trusted = trusted] \in Calls
    BY DEF Tls!Idle, Calls
  <2>3. /\ pc[t] \notin InSession /\ "init" \notin Connected
        /\ pc' = [pc EXCEPT ![t] = "init"]
        /\ UNCHANGED <<ssl_ctx, verify_mode, table, open, object>>
        /\ left' \subseteq Sockets /\ TableGoesOn
    BY <1>0, <1>2 DEF TableGoesOn, Tls!CallConnect, Connected, InSession
  <2> QED
    BY <1>0, <2>1, <2>2, <2>3, ThreadStep
<1>3. ASSUME NEW t \in Threads, Tls!InitClient(t) PROVE TlsInv'
  <2>1. call' = [call EXCEPT ![t] = call[t]]
    BY <1>3 DEF Tls!InitClient
  <2>2. verify_mode' \in BOOLEAN
    BY <1>3, Zenon DEF Tls!InitClient, Tls!InitContext, Tls!TypeOK
  <2>3. /\ pc[t] \notin InSession /\ "verify" \notin Connected
        /\ pc' = [pc EXCEPT ![t] = "verify"]
        /\ ssl_ctx' \in {None, "server", "client"}
        /\ left' \subseteq Sockets /\ TableGoesOn
        /\ UNCHANGED <<open, object>>
    BY <1>0, <1>3 DEF TableGoesOn, Tls!InitClient, Tls!InitContext, Connected, InSession
  <2> QED
    BY <1>0, <2>1, <2>2, <2>3, ThreadStep
<1>4. ASSUME NEW t \in Threads, Tls!SetVerify(t) PROVE TlsInv'
  <2>1. verify_mode' \in BOOLEAN
    BY <1>0, <1>4 DEF Tls!SetVerify, Tls!TypeOK, Calls
  <2>2. CASE ssl_ctx = None
    BY <1>0, <1>4, <2>1, <2>2, ThreadStep
       DEF Tls!SetVerify, Tls!Returns, Connected, InSession, SocketsOwned, Tls!TypeOK, TableGoesOn
  <2>3. CASE ssl_ctx # None
    <3>1. call' = [call EXCEPT ![t] = call[t]]
      BY <1>4, <2>3 DEF Tls!SetVerify
    <3>2. /\ pc[t] \notin InSession /\ "socket" \notin Connected
          /\ pc' = [pc EXCEPT ![t] = "socket"]
          /\ UNCHANGED <<ssl_ctx, table, open, object>>
          /\ left' \subseteq Sockets /\ TableGoesOn
      BY <1>0, <1>4, <2>3 DEF TableGoesOn, Tls!SetVerify, Connected, InSession
    <3> QED
      BY <1>0, <2>1, <3>1, <3>2, ThreadStep
  <2> QED
    BY <2>2, <2>3
<1>5. ASSUME NEW t \in Threads, Tls!ConnectSocket(t) \/ Tls!AcceptSocket(t) PROVE TlsInv'
  <2>0. /\ pc[t] \notin InSession /\ "idle" \notin Connected
        /\ UNCHANGED <<ssl_ctx, verify_mode, table, object>>
        /\ left' \subseteq Sockets /\ TableGoesOn
    BY <1>0, <1>5 DEF TableGoesOn, Tls!ConnectSocket, Tls!AcceptSocket, Connected, InSession
  <2>1. CASE Tls!Returns(t) /\ UNCHANGED open
    BY <1>0, <2>0, <2>1, ThreadStep DEF Tls!Returns
  <2>2. ASSUME NEW s \in Sockets \ open, open' = open \cup {s},
               NEW state \in {"handshake", "plain"}, pc' = [pc EXCEPT ![t] = state],
               call' = [call EXCEPT ![t].socket = s]
        PROVE  TlsInv'
    <3>1. PICK c \in Calls : call' = [call EXCEPT ![t] = c] /\ c.socket = s
      <4>1. [call[t] EXCEPT !.socket = s] \in Calls /\ [call[t] EXCEPT !.socket = s].socket = s
        BY <1>0 DEF Calls
      <4> QED
        BY <2>2, <4>1
    <3>2. /\ open' \subseteq Sockets /\ c.socket \in open'
          /\ \A u \in Threads \ {t} : pc[u] \in Connected => call[u].socket \in open'
          /\ \A u \in Threads \ {t} : pc[u] \in Connected => call[u].socket # c.socket
      BY <1>0, <2>2, <3>1
    <3>3. /\ state \in {"idle", "init", "verify", "socket", "handshake", "plain"}
          /\ ssl_ctx' \in {None, "server", "client"} /\ verify_mode' \in BOOLEAN
          /\ UNCHANGED object
      BY <1>0, <2>0, <2>2
    <3> QED
      BY <2>0, <2>2, <3>1, <3>2, <3>3, ThreadStep
  <2> QED
    BY <1>5, <2>1, <2>2 DEF Tls!ConnectSocket, Tls!AcceptSocket
<1>6. ASSUME NEW t \in Threads, Tls!Handshake(t) PROVE TlsInv'
  <2>1. pc[t] \in Connected
    BY <1>6 DEF Tls!Handshake, Connected
  <2>2. CASE open' = open \ {call[t].socket} /\ Tls!Returns(t) /\ UNCHANGED <<object, table, left>>
    BY <1>6, <2>1, <2>2, HandshakeFails DEF Tls!Handshake
  <2>3. ASSUME NEW o \in Tls!Fresh, NEW i \in Tls!SlotsFor(call[t].socket),
               object' = [object EXCEPT ![o] = "live"], Tls!PutSsl(i, call[t].socket, o),
               pc' = [pc EXCEPT ![t] = "check"], call' = [call EXCEPT ![t].ssl = o],
               UNCHANGED open
        PROVE  TlsInv'
    BY <1>6, <2>1, <2>3, SessionStep DEF Tls!Handshake
  <2> QED
    BY <1>6, <2>2, <2>3 DEF Tls!Handshake
<1>7. ASSUME NEW t \in Threads, pc[t] \in Connected, Tls!CloseTls(t) PROVE TlsInv'
  <2>1. left' \subseteq Sockets /\ left \ {call[t].socket} \subseteq left'
    BY <1>0, <1>7 DEF Tls!CloseTls
  <2> QED
    BY <1>7, <2>1, OwnMapping, CloseStep DEF Tls!CloseTls
<1>71. ASSUME NEW t \in Threads, Tls!CallClose(t) PROVE TlsInv'
  <2>1. pc[t] \in Connected
    BY <1>71 DEF Tls!CallClose, Tls!HasConnection, Connected
  <2>2. /\ left' \subseteq Sockets /\ left \ {call[t].socket} \subseteq left'
        /\ Tls!SlotsOf(call[t].socket) # {} => call[t].socket \in left'
    BY <1>0, <1>71, <2>1, OwnMapping DEF Tls!CallClose
  <2> QED
    BY <1>71, <2>1, <2>2, CloseStep DEF Tls!CallClose
<1>8. ASSUME NEW t \in Threads, Tls!CheckPeer(t) PROVE TlsInv'
  <2>1. CASE Tls!CloseTls(t)
    BY <1>7, <1>8, <2>1 DEF Tls!CheckPeer, Connected
  <2>2. CASE /\ pc' = [pc EXCEPT ![t] = "connected"]
             /\ call[t].verify => call[t].trusted
             /\ UNCHANGED <<ssl_ctx, verify_mode, table, open, object, call, left>>
    <3>1. /\ \A u \in Threads : pc'[u] \in Connected <=> pc[u] \in Connected
          /\ \A u \in Threads : pc'[u] \in InSession <=> pc[u] \in InSession
      BY <1>8, <2>2 DEF Tls!CheckPeer, Tls!TypeOK, Connected, InSession
    <3>2. Tls!TypeOK' /\ SocketsOwned'
      BY <2>2, <3>1 DEF Tls!TypeOK, SocketsOwned
    <3>3. (\A i \in Slots : SlotOwned(i)') /\ (\A i, j \in Slots : SlotsDiffer(i, j)')
      BY <2>2, <3>1, SessionsKept DEF Tls!TypeOK
    <3>4. Tls!VerifiedIsTrusted'
      BY <2>2 DEF Tls!VerifiedIsTrusted, Tls!TypeOK
    <3> QED
      BY <2>2, <3>2, <3>3, <3>4
  <2> QED
    BY <1>8, <2>1, <2>2 DEF Tls!CheckPeer
<1>9. ASSUME NEW t \in Threads, Tls!EnableSsl(t) \/ Tls!AcceptTls(t) PROVE TlsInv'
  <2>1. pc[t] \in Connected /\ pc' = [pc EXCEPT ![t] = "enabled"]
    BY <1>9 DEF Tls!EnableSsl, Tls!AcceptTls, Connected
  <2>2. PICK o \in Tls!Fresh :
          /\ object' = [object EXCEPT ![o] = "live"]
          /\ call' = [call EXCEPT ![t].ssl = o]
          /\ \/ UNCHANGED <<table, left>> /\ Tls!SlotsFor(call[t].socket) = {}
             \/ \E i \in Tls!SlotsFor(call[t].socket) : Tls!PutSsl(i, call[t].socket, o)
    BY <1>9 DEF Tls!EnableSsl, Tls!AcceptTls, Tls!SetSsl
  <2> QED
    BY <1>9, <2>1, <2>2, SessionStep DEF Tls!EnableSsl, Tls!AcceptTls
<1>10. ASSUME NEW t \in Threads, Tls!DisableSsl(t) PROVE TlsInv'
  <2> DEFINE s == call[t].socket
  <2>1. /\ pc[t] \in {"plain", "enabled"} /\ pc[t] \in Connected
        /\ Tls!Mapped(s) # None /\ Tls!Mapped(s) \in Objects
    BY <1>10, OwnMapping DEF Tls!DisableSsl, Connected
  <2>2. \A u \in Threads \ {t} : pc'[u] = pc[u] /\ call'[u] = call[u]
    BY <1>10 DEF Tls!DisableSsl, Tls!TypeOK
  <2>3. pc'[t] = "plain" /\ call'[t].socket = s /\ call' \in [Threads -> Calls]
    BY <1>0, <1>10 DEF Tls!DisableSsl, Tls!TypeOK, Calls
  <2>4. Tls!TypeOK'
    BY <1>10, <2>1 DEF Tls!DisableSsl, Tls!TypeOK, Tls!RemoveMapping
  <2>5. SocketsOwned'
    BY <1>10, <2>1, <2>2, <2>3 DEF Tls!DisableSsl, SocketsOwned, Connected
  <2>6. \A i \in Slots : /\ table'[i] = table[i] \/ table'[i] = Tls!Empty
                         /\ table'[i] # Tls!Empty => table[i] # Tls!Empty /\ i \notin Tls!SlotsOf(s)
    BY <1>10 DEF Tls!DisableSsl, Tls!TypeOK, Tls!RemoveMapping
  <2>7. \A i \in Slots : table'[i] # Tls!Empty => object'[table[i].ssl] = object[table[i].ssl]
    BY <1>10, <2>1, <2>6, OwnMapping DEF Tls!DisableSsl, Tls!TypeOK
  <2>8. /\ \A i \in Slots, u \in Threads :
             table'[i] # Tls!Empty /\ pc[u] \in InSession /\ call[u].socket = table[i].socket => u # t
        /\ \A i \in Slots : table'[i] # Tls!Empty /\ table[i].socket \in left => table[i].socket \in left'
    BY <1>10, <2>6 DEF Tls!SlotsOf, Tls!DisableSsl
  <2>9. (\A i \in Slots : SlotOwned(i)') /\ (\A i, j \in Slots : SlotsDiffer(i, j)')
    BY <2>2, <2>4, <2>6, <2>7, <2>8, SessionsKept DEF Tls!TypeOK
  <2>10. Tls!VerifiedIsTrusted'
    BY <2>2, <2>3 DEF Tls!VerifiedIsTrusted
  <2> QED
    BY <2>3, <2>4, <2>5, <2>9, <2>10
<1>11. CASE UNCHANGED Tls!vars
  BY <1>11 DEF Tls!vars, Tls!TypeOK, SocketsOwned, SlotOwned, SlotsDiffer, Tls!VerifiedIsTrusted
<1> QED
  BY <1>1, <1>2, <1>3, <1>4, <1>5, <1>6, <1>7, <1>71, <1>8, <1>9, <1>10, <1>11
     DEF Tls!Next, Tls!CallSslClose, Tls!ReceiveEnd, Tls!HasConnection, Connected

LEMMA StepsOfTls == ASSUME [MCNext]_allVars PROVE [Tls!Next]_(Tls!vars)
BY DEF MCNext, allVars, tls, Tls!vars

\* Threads own their sockets and sessions, whatever other threads do to the context and
\* whichever of the two closing functions they call.
THEOREM Owned == MCSpec => []TlsInv
<1>1. MCInit => TlsInv
  BY TlsInvInit DEF MCInit
<1>2. TlsInv /\ [MCNext]_allVars => TlsInv'
  BY StepsOfTls, TlsInvStep
<1> QED
  BY <1>1, <1>2, PTL DEF MCSpec

\* The table leads from every socket to the live session of the connection that opened it,
\* never to one that was freed or to another's; and to that of an earlier connection only
\* where that one was closed with tcp_close over its session.
THEOREM SessionsCorrect == MCSpec => []SessionsOfConnections
<1>1. TlsInv => SessionsOfConnections
  <2> SUFFICES ASSUME TlsInv PROVE SessionsOfConnections
    OBVIOUS
  <2> USE DEF TlsInv
  <2>1. Tls!NoInheritedSession
    BY DEF Tls!NoInheritedSession, SlotOwned, SocketsOwned, Connected, InSession
  <2>2. \A i \in Slots : table[i].ssl # None => object[table[i].ssl] = "live"
    BY TlsSessionsAssumption DEF SlotOwned, Tls!Empty, Tls!TypeOK
  <2> QED
    BY <2>1, <2>2 DEF SessionsOfConnections, Tls!SessionsOfConnections, Tls!NoDanglingSession, SlotsDiffer
<1> QED
  BY <1>1, Owned, PTL

\* A connection that was asked to verify its peer has a trusted one, although the mode of
\* the context belongs to all threads.
THEOREM Verified == MCSpec => []VerifiedIsTrusted
<1>1. TlsInv => VerifiedIsTrusted
  BY DEF TlsInv, VerifiedIsTrusted
<1> QED
  BY <1>1, Owned, PTL

================================================================================
