------------------------------ MODULE MCLibrary ------------------------------
(***************************************************************************)
(* The functions of the library that run to their end without anybody in   *)
(* between, on all the small inputs there are and in all the short         *)
(* sequences of calls. A behaviour is of one part: it builds an input,     *)
(* entry by entry or call by call, and in every state that it passes       *)
(* through the part's functions are compared with each other and with what *)
(* they promise. The laws are in the modules of the functions.             *)
(***************************************************************************)
EXTENDS Integers, Sequences, FiniteSets

CONSTANTS
  Subjects,    \* the parts that behaviours are of
  MaxItems,    \* of an array
  MaxBits,     \* of a bitset
  MaxDays,     \* that pass after each of the Starts
  MaxChars,    \* of a text, of an expression and of a file's content
  MaxCalls     \* on a string, a tree, a table, a config, a parser, a file

VARIABLES part, input, done

vars == <<part, input, done>>

\* A register of four bits that goes through all values but 0, for the generator's shifts
Register(x) == LET y == 2 * x - 16 IN IF x < 8 THEN 2 * x ELSE IF (y \div 2) % 2 = 1 THEN y - 1 ELSE y + 3
\* Strings share a hash in pairs.
HalfOf(p) == p \div 2

M == INSTANCE Matrix
A == INSTANCE Arrays WITH SRT_ISORT_MAX <- 2, SMALL_SORT <- 3, INTRO_SORT <- 4, MEDIUM_SORT <- 5, BYTE <- 3
N == INSTANCE Numbers WITH ULONG_MAX <- 15, RANDOM_BYTE <- 2, Step <- Register, NONZERO <- 9, SECRETS_BYTE <- 16, WORDS <- 16, BLOCK <- 5, LENGTH <- 2
S == INSTANCE Strings WITH CAPACITY <- 2, INITIAL <- 4, Hash <- HalfOf, WORD_BYTE <- 16, ASCII85 <- 10
J == INSTANCE Json
D == INSTANCE Documents WITH BUFFER <- 9, INT_MAX <- 127, LONG_MAX <- 32767, MAX_TOKENS <- 9, LARGE <- 2000
O == INSTANCE Ownership

\* ------------------------------------------------------------------ inputs --
Matrices == {M!Zeros(s[1], s[2]) : s \in {<<1, 3>>, <<2, 2>>, <<2, 3>>, <<3, 2>>, <<3, 3>>}}
EntriesOf(m) == IF m.rows = 3 THEN {0, 1} ELSE {-1, 0, 2}

\* The days before the ends of months, years, and leap years of every kind
Starts == {<<1600, 2, 24>>, <<1899, 12, 26>>, <<1900, 2, 25>>, <<1969, 12, 27>>, <<2000, 2, 25>>, <<2020, 12, 29>>, <<2021, 3, 17>>,
           <<2023, 9, 20>>, <<2024, 2, 26>>, <<2025, 3, 17>>}

\* What a text is made of
Alphabet ==
  CASE part = "expression" -> D!Characters
    [] part = "integers" -> N!Numbers
    [] part = "records" -> {97, 44, 34, 10, 13}
    [] part = "text" -> {97, 98, 65, 32, 49}
    [] part = "draws" -> {-1, 1, 3, 8, 14, 15}
    [] part = "message" -> {7}
    [] part = "bytes" -> {0, 1, 65, 128, 255}
    [] part = "utf8" -> {65, 128, 143, 144, 159, 160, 191, 194, 224, 237, 240, 244, 248}
    [] part = "points" -> {0, 127, 128, 2047, 2048, 55295, 57344, 65535, 65536, 1114111}
Texts == {"bytes", "utf8", "points", "text", "draws", "message", "records", "integers", "expression"}
MaxLength ==
  CASE part \in {"bytes", "text", "records", "expression"} -> MaxChars
    [] part = "draws" -> 4
    [] part = "integers" -> 2
    [] part = "message" -> 14
    [] part = "points" -> 3
    [] OTHER -> IF done = 3 /\ input[1] >= 240 THEN 4 ELSE 3

Init ==
  /\ part \in Subjects
  /\ done = 0
  /\ input \in CASE part = "matrix" -> Matrices
                 [] part \in Texts \union {"array", "tokens", "lines"} -> {<<>>}
                 [] part = "date" -> {N!DateOf(s[1], s[2], s[3], "Gregorian") : s \in Starts}
                 [] part = "bitset" -> {A!Create(n) : n \in 0..MaxBits}
                 [] part = "buffer" -> {S!Create(<<>>), S!Create(<<97>>), S!CreateWithPool}
                 [] part = "registry" -> {[registry |-> S!Empty, alive |-> {}]}
                 [] part = "json" -> {J!Create("array"), J!Create("object"), J!Create("number")}
                 [] part = "csv" -> {D!TableFresh}
                 [] part = "config" -> {D!CreateEmpty, D!Twice}
                 [] part = "files" -> D!Writers
                 [] part = "cli" -> {D!ParserCreate}
                 [] part = "variants" -> {O!Variants}
                 [] part = "pointers" -> {O!Pointers}
                 [] part = "tuples" -> {O!Tuples}
                 [] part = "random" -> {N!Initial}
                 [] part = "uuid" -> N!Uuids

\* ------------------------------------------------------------------- steps --
MatrixSet ==
  /\ part = "matrix" /\ done < M!Size(input)
  /\ \E value \in EntriesOf(input) : input' = M!Set(input, done \div input.cols, done % input.cols, value)
  /\ done' = done + 1 /\ UNCHANGED part
\* An item is a key and what tells it from others of the key.
ArrayGrows ==
  /\ part = "array" /\ done < MaxItems
  /\ \E key \in 0..2 : input' = Append(input, <<key, done>>)
  /\ done' = done + 1 /\ UNCHANGED part
BitFlips ==
  /\ part = "bitset"
  /\ \E pos \in done..input.size - 1 : input' = A!Flip(input, pos) /\ done' = pos + 1
  /\ UNCHANGED part
DayPasses ==
  /\ part = "date" /\ done < MaxDays
  /\ input' = N!AddDays(input, 1) /\ done' = done + 1
  /\ UNCHANGED part
TextGrows ==
  /\ part \in Texts /\ done < MaxLength
  /\ \E c \in Alphabet : input' = Append(input, c)
  /\ done' = done + 1 /\ UNCHANGED part
TokenFollows ==
  /\ part \in {"tokens", "lines"} /\ done < MaxChars
  /\ \E token \in (CASE part = "tokens" -> J!Tokens [] part = "lines" -> D!Tokens) : input' = input \o token
  /\ done' = done + 1 /\ UNCHANGED part
StringChanges ==
  /\ part = "buffer" /\ done < MaxCalls
  /\ \E call \in S!Calls(input) : input' = call[1]
  /\ done' = done + 1 /\ UNCHANGED part
StringIsCreated ==
  /\ part = "registry"
  /\ \E p \in 1..5 : input' = [registry |-> S!Add(input.registry, p), alive |-> input.alive \union {p}]
  /\ UNCHANGED <<part, done>>
\* A string may be freed twice.
StringIsFreed ==
  /\ part = "registry"
  /\ \E p \in 1..5 : input' = [registry |-> S!Removed(input.registry, p).registry, alive |-> input.alive \ {p}]
  /\ UNCHANGED <<part, done>>
DocumentChanges ==
  /\ part \in {"json", "csv", "config", "cli", "files"} /\ done < MaxCalls
  /\ input' \in CASE part = "json" -> J!Calls(input) [] part = "csv" -> D!TableCalls(input) [] part = "config" -> D!SettingsCalls(input)
                  [] part = "cli" -> D!Calls(input) [] part = "files" -> D!FilesCalls(input)
  /\ done' = done + 1 /\ UNCHANGED part
OwnersChange ==
  /\ part \in {"variants", "pointers", "tuples"} /\ done < MaxCalls + 1
  /\ input' \in CASE part = "variants" -> O!VariantCalls(input) [] part = "pointers" -> O!UniqueCalls(input) [] part = "tuples" -> O!TupleCalls(input)
  /\ done' = done + 1 /\ UNCHANGED part
NumbersAreDrawn ==
  /\ part = "random" /\ input' \in N!RandomCalls(input)
  /\ UNCHANGED <<part, done>>
UuidChanges ==
  /\ part = "uuid" /\ done < MaxCalls
  /\ input' \in N!UuidCalls(input)
  /\ done' = done + 1 /\ UNCHANGED part

Next ==
  \/ MatrixSet \/ ArrayGrows \/ BitFlips \/ DayPasses
  \/ TextGrows \/ TokenFollows \/ StringChanges \/ StringIsCreated \/ StringIsFreed
  \/ DocumentChanges \/ OwnersChange \/ NumbersAreDrawn \/ UuidChanges

Spec == Init /\ [][Next]_vars

\* -------------------------------------------------------------- properties --
\* matrix.c: turning, cutting and joining lose no entry and undo each other; every way to a
\* determinant or a product gives the same, and to an inverse of two rows and more and a
\* rank that is found without exchanging rows; the matrices of a special form have it, of a
\* circulant matrix but for the direction; the statistics agree with their definitions.
MatricesAgree ==
  part = "matrix" =>
    /\ done = M!Size(input) =>
         /\ M!RearrangingLaws(input) /\ M!EntryLaws(input) /\ M!AlgebraLaws(input) /\ M!SpecialLaws(input)
         /\ input.rows < 3 => M!StatisticsLaws(input)
    /\ done = 0 => \A n \in 1..4 : M!SizeLaws(n)

Keys == [i \in DOMAIN input |-> input[i][1]]
Companion == [i \in DOMAIN input |-> (i * i + input[i][1]) % 4]
\* algorithm.c, sort.c, statistics.c, span.c and bitset.c: all sorts sort, and insertion,
\* merge, bubble, bucket, counting and radix sort and the two named stable keep equal items
\* in order (sort_timsort is documented to, and does not: see Claims); searches find what a
\* scan finds, medians, quantiles and ranks are those of the sorted data, a span shares its
\* memory, and no bit past the size of a bitset is ever set.
ArraysAgree ==
  CASE part = "array" ->
         /\ A!AlgorithmLaws(input) /\ A!SortLaws(input)
         /\ Len(input) <= 5 => /\ A!StatisticsOfAreRight(Keys, Companion)
                               /\ A!SpanLaws(Keys, 1) /\ (Len(input) % 2 = 0 => A!SpanLaws(Keys, 2))
    [] part = "bitset" -> A!BitsetLaws(input)
    [] OTHER -> TRUE

\* bigint.c, evalexpr.c, date.c and std_time.c: quotients and remainders belong together;
\* an expression has the value that precedence and association give it, where no sign stands
\* between an operator and a name or a parenthesis; both calendars count the same days in the
\* Persian years 1277 to 1435; times come back from their differences and their texts.
ValuesAgree ==
  CASE part = "integers" ->
         done = 2 => /\ N!Divided(input[1], input[2]) /\ N!Bitwise(input[1], input[2])
                     /\ N!Written(input[1], input[2]) /\ N!Multiplied(input[1], input[2])
    [] part = "expression" -> D!ExpressionValued(input) /\ (done < MaxChars => D!Noted(input))
    [] part = "date" -> N!GregorianLaws(input) /\ (done = 0 => N!TimeLaws)
    [] OTHER -> TRUE

\* encoding.c and std_string.c: what an encoder writes its decoder reads back, a decoder
\* takes nothing that no encoder writes, a string and its capacity stay together through
\* every call, and a string is freed once however its registry was rehashed.
TextsSurvive ==
  CASE part = "bytes" -> S!CodecLaws(input)
    [] part = "utf8" -> S!Utf8Laws(input)
    [] part = "points" -> S!PointLaws(input)
    [] part = "text" -> S!StringsOf(input) /\ S!PartsOf(input)
    [] part = "buffer" -> S!BufferLaws(input)
    [] part = "registry" -> S!RegistryLaws(input.registry, input.alive)
    [] OTHER -> TRUE

\* json.c, csv.c, config.c, cli.c, file_writer.c and file_reader.c: whatever calls made a
\* tree, a table, a configuration or a file of bytes, it is read back from what was written
\* of it, but for the blank rows of a table, and of a configuration the comments of its
\* sections and its empty values; of a file in UTF-16 nothing else is read. Searches find
\* what was put in, and arguments reach the options they name.
DocumentsSurvive ==
  CASE part = "json" -> J!WrittenAndRead(input) /\ J!Searched(input) /\ J!Changed(input) /\ J!Converted(input)
    [] part = "tokens" -> J!Parsed(input)
    [] part = "csv" -> D!TableWritten(input) /\ D!Columned(input) /\ D!Rearranged(input) /\ D!Validated(input)
    [] part = "records" -> D!TableRead(input)
    [] part = "config" -> D!Found(input) /\ D!Listed(input) /\ D!Saved(input)
    [] part = "lines" -> D!SettingsRead(<<91, 98, 93, 10>> \o input)
    [] part = "files" -> D!Kept(input) /\ D!ReadBack(input) /\ D!Unicode(input)
    [] part = "cli" -> D!Answered(input) /\ D!Registered(input) /\ D!Grouped(input) /\ (done = 0 => D!CommandValued)
    [] OTHER -> TRUE

\* variant.c, uniqueptr.c and tuple.c: a block has one owner, and after any calls, with
\* and without memory, nothing is leaked, freed twice or read after it was freed, as long as
\* no item of an array that is full is pushed to the array itself.
OwnershipHolds ==
  CASE part = "variants" -> O!VariantsOwn(input)
    [] part = "pointers" -> O!PointersOwn(input)
    [] part = "tuples" -> O!TuplesOwn(input)
    [] OTHER -> TRUE

\* random.c, secrets.c and uuid.c: draws stay in their ranges, those of all functions but
\* random_gauss repeat with the state, no letter or number is likelier than another, a
\* digest does not depend on how its message was cut, and an identifier comes back from
\* its texts.
ChanceKept ==
  CASE part = "random" -> N!InRange(input) /\ N!Reproducible(input)
    [] part = "draws" -> N!SecretLaws(input) /\ N!Fair(Len(input) + 1)
    [] part = "message" -> N!DigestLaws([i \in DOMAIN input |-> i])
    [] part = "uuid" -> N!UuidLaws(input)
    [] OTHER -> TRUE

------------------------------------------------------------------------------
(***************************************************************************)
(* What the documents and comments of the library promise, and the code of *)
(* one thread does not keep: every claim is judged on a case of its own,   *)
(* one after the other, and input gathers those that are refuted. Each is  *)
(* quoted in the findings, with the line it is from.                       *)
(***************************************************************************)

Lists == INSTANCE Deque WITH deque <- input, call <- done, Objects <- {1}, Items <- {1}, BlockSize <- 1, SizeMax <- 15, Zero <- 0, MaxLength <- 1
Maps == INSTANCE Map WITH map <- input, call <- done, Objects <- {1}, MapKeys <- 1..2, MapValues <- {1}, FirstSlabCap <- 1, MaxSlabCap <- 1
Sets == INSTANCE SetTree WITH set <- input, call <- done, Objects <- {1}, Elements <- 1..3, FirstSlabCap <- 1, MaxSlabCap <- 1
Tables == INSTANCE HashMap WITH hmap <- input, call <- done, Objects <- {1}, HashKeys <- 1..2, HashValues <- {1}, LoadFactors <- {}, Counts <- {},
            FirstSlabCap <- 1, MaxSlabCap <- 1
Http == INSTANCE HttpRequestReader WITH SizeMax <- 31, MaxBody <- 3, MaxHeader <- 4, ReadChunk <- 2, MaxChunks <- 1, Requests <- {}, request <- input, pos <- done,
            cap <- done, len <- done, scanned <- done, header_end <- done, decoder <- input, phase <- part, out_status <- done, out <- input

TwoKeys == Maps!Insert(Maps!Insert(Maps!MapCreate(1), 1, 1), 2, 1)
TwoHashed == Tables!Insert(Tables!Insert(Tables!CreateWithBuckets(TRUE, 1), 1, 1, TRUE), 2, 1, TRUE)
SetOf(elements) == Sets!Grown(Sets!SetCreate, Len(elements), elements).tree
Whole(made, size) == made.made => made.tree.size = size
Entries(rows, cols) == {[rows |-> rows, cols |-> cols, data |-> data] : data \in [1..rows * cols -> {0, 1}]}
RowOfThree == [rows |-> 1, cols |-> 3, data |-> <<2, 3, 1>>]
\* of 2 + 3x + x^2
CompanionOfThree == M!Companion(RowOfThree, 3)
\* two chunks of two bytes
Oversize == <<"2", "CR", "LF", ";", ";", "CR", "LF", "2", "CR", "LF", ";", ";", "CR", "LF">>

\* every claim, and whether the code keeps it
Claims ==
  <<<<"deque_back is the last item", Lists!DequeBack(Lists!PushFront(Lists!DequeCreate, 1, TRUE)) = <<1>>>>,
    <<"map_copy is whole", \A slabs \in 0..2 : Maps!Copy(TwoKeys, slabs).size = 2>>,
    <<"hashmap_copy is whole", \A slabs \in 0..2 : Tables!Copy(TwoHashed, slabs).size = 2>>,
    <<"set_union is whole", \A slabs \in 0..3 : Whole(Sets!Union(SetOf(<<1, 2>>), SetOf(<<2, 3>>), slabs), 3)>>,
    <<"set_intersection is whole", \A slabs \in 0..3 : Whole(Sets!Intersection(SetOf(<<1, 2>>), SetOf(<<2, 3>>), slabs), 1)>>,
    <<"set_difference is whole", \A slabs \in 0..3 : Whole(Sets!Difference(SetOf(<<1, 2>>), SetOf(<<2, 3>>), slabs), 1)>>,
    <<"set_symmetric_difference is whole", \A slabs \in 0..3 : Whole(Sets!SymmetricDifference(SetOf(<<1, 2>>), SetOf(<<2, 3>>), slabs), 2)>>,
    <<"circulant rows turn right", \A i, j \in 0..2 : M!At(M!Circulant(RowOfThree), i, j) = RowOfThree.data[((j - i) % 3) + 1]>>,
    <<"a companion matrix has its polynomial",
      M!Add(M!Add(M!ScalarMultiply(M!CreateIdentity(2), 2), M!ScalarMultiply(CompanionOfThree, 3)), M!Multiply(CompanionOfThree, CompanionOfThree)) = M!Zeros(2, 2)>>,
    <<"the rank is that of the matrix", \A m \in Entries(3, 2) \union Entries(3, 3) : M!Rank(m) = M!TrueRank(m)>>,
    <<"a matrix of one entry is inverted",
      LET one == [rows |-> 1, cols |-> 1, data |-> <<2>>] IN M!QMultiply(M!Inverse(one), M!Fractions(one)) = M!Fractions(M!CreateIdentity(1))>>,
    <<"sort_timsort is stable", \A n \in 1..5 : A!TimsortIsStable(n)>>,
    <<"a sign applies to a variable", D!SignedVariables>>,
    <<"a Persian year has its days", N!PersianYears(1270..1440)>>,
    <<"random_gauss repeats with the seed", N!GaussReproducible(N!Gauss(N!Initial).g)>>,
    <<"random_randrange refuses steps below 0", N!StepsBelowZeroRefused(N!Initial)>>,
    <<"an item is pushed to its own array", O!PushReadsLive>>,
    <<"a failed push is reported", O!PushReportsFailure>>,
    <<"a custom variant is whole", O!CustomIsWhole>>,
    <<"file_writer_copy is whole", D!CopiedWhole(<<97>>)>>,
    <<"a lock is held until it is released", D!LockHeld>>,
    <<"file_writer_write_batch reports what it wrote", D!BatchReported(<<<<97>>, <<98>>>>)>>,
    <<"UTF-16 is read whole", D!UnicodeRead(<<97, 98, 99, 100>>)>>,
    <<"file_reader_copy is whole", D!ShortTextCopied(<<97>>)>>,
    <<"csv text is read as a file is", D!StringReadAsFile(<<97, 10, 10, 98, 10>>)>>,
    <<"a column is inserted", D!ColumnInserted(<<<<97>>, <<98>>>>, 2)>>,
    <<"an encrypted value is decrypted", D!EncryptedWhole(<<97, 44, 98>>, 44)>>,
    <<"an empty value is saved", D!SavedWhole(D!SetValue(D!CreateEmpty, <<97>>, <<98>>, <<>>).config)>>,
    <<"a comment is saved", D!SavedWhole(D!SetComment(D!SetValue(D!CreateEmpty, <<97>>, <<98>>, <<99>>).config, <<97>>, <<100>>))>>,
    <<"config text is read as a file is", D!FileReadAsString(<<91, 98, 93, 10, 61, 97, 61, 98, 10>>)>>,
    <<"an oversize chunked body is answered 413", Http!RefusedBody(Http!Feed(Http!Decoder, Oversize)) = 413>>>>

DocsInit == part = "claims" /\ input = {} /\ done = 0
ClaimIsJudged ==
  /\ done < Len(Claims)
  /\ input' = input \union {Claims[i][1] : i \in {i \in {done + 1} : ~Claims[i][2]}}
  /\ done' = done + 1 /\ UNCHANGED part
DocsSpec == DocsInit /\ [][ClaimIsJudged]_vars

\* Every one of the promises quoted in the findings of this run is kept, which is what the
\* documents say; the last state of the trace names those that are not.
ClaimsHold == part = "claims" /\ done = Len(Claims) => input = {}
===============================================================================
