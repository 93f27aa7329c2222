------------------------------ MODULE Json ------------------------------
(***************************************************************************)
(* json/json.c: a text parsed into a tree of elements, the tree changed    *)
(* and searched, and written back. An element is a record with one field,  *)
(* named for its type: [null], [bool], [number], [string], [array] or      *)
(* [object]. A text is a sequence of character codes; a number is          *)
(* <<m, e>>, that is m * 10^e, m without a zero at its end; an array is a  *)
(* sequence and an object a function of its keys, which its map keeps in   *)
(* the order of strcmp. NONE is NULL. A call that changes an element       *)
(* returns whether it did and the element. last_error is left out.         *)
(***************************************************************************)
EXTENDS Integers, Sequences, FiniteSets

Ext == INSTANCE SequencesExt
T == INSTANCE Strings WITH CAPACITY <- 32, INITIAL <- 64, Hash <- LAMBDA p : p, WORD_BYTE <- 256, ASCII85 <- 85

NONE == [none |-> 0]
TypeOf(v) == CHOOSE type \in DOMAIN v : TRUE

Null == [null |-> 0]
Bool(value) == [bool |-> value]
Number(value) == [number |-> value]
String(value) == [string |-> value]
Create(type) ==
  CASE type = "null" -> Null [] type = "bool" -> Bool(FALSE) [] type = "number" -> Number(<<0, 0>>)
    [] type = "array" -> [array |-> <<>>] [] type = "object" -> [object |-> <<>>]

\* ------------------------------------------------------------- characters --
QUOTE == 34
BACKSLASH == 92
\* <<the letter after a backslash, the character it stands for>>
Escapes == {<<34, 34>>, <<92, 92>>, <<47, 47>>, <<98, 8>>, <<102, 12>>, <<110, 10>>, <<114, 13>>, <<116, 9>>}
Words == {<<<<116, 114, 117, 101>>, Bool(TRUE)>>, <<<<102, 97, 108, 115, 101>>, Bool(FALSE)>>, <<<<110, 117, 108, 108>>, Null>>}
Spaces == {32} \union (9..13)
Digits == 48..57
Alnum == Digits \union (65..90) \union (97..122)
Hex == Digits \union (65..70) \union (97..102)
At(text, pos) == IF pos \in DOMAIN text THEN text[pos] ELSE 0
RECURSIVE RunEnd(_, _, _)
RunEnd(text, pos, chars) == IF At(text, pos) \in chars THEN RunEnd(text, pos + 1, chars) ELSE pos
Upto0(text) == SubSeq(text, 1, RunEnd(text, 1, 1..255) - 1)

\* ----------------------------------------------------------------- numbers --
RECURSIVE Normal(_, _)
Normal(m, e) == IF m = 0 THEN <<0, 0>> ELSE IF m % 10 = 0 THEN Normal(m \div 10, e + 1) ELSE <<m, e>>
RECURSIVE Natural(_)
Natural(digits) == IF digits = <<>> THEN 0 ELSE Natural(SubSeq(digits, 1, Len(digits) - 1)) * 10 + digits[Len(digits)] - 48
RECURSIVE DigitsOf(_)
DigitsOf(n) == (IF n < 10 THEN <<>> ELSE DigitsOf(n \div 10)) \o <<48 + (n % 10)>>
\* strtod: the longest beginning of the text that is a number, <<>> for none
Strtod(text) ==
  LET start == IF At(text, 1) = 45 THEN 2 ELSE 1
      whole == RunEnd(text, start, Digits)
      point == At(text, whole) = 46
      fraction == IF point THEN RunEnd(text, whole + 1, Digits) ELSE whole
      digits == SubSeq(text, start, whole - 1) \o (IF point THEN SubSeq(text, whole + 1, fraction - 1) ELSE <<>>)
      hasE == At(text, fraction) \in {69, 101}
      signed == At(text, fraction + 1) \in {43, 45}
      power == SubSeq(text, fraction + (IF signed THEN 2 ELSE 1), RunEnd(text, fraction + (IF signed THEN 2 ELSE 1), Digits) - 1)
      e == IF ~hasE THEN 0 ELSE Natural(power) * (IF At(text, fraction + 1) = 45 THEN -1 ELSE 1)
  IN  IF digits = <<>> THEN <<>>
      ELSE Normal(Natural(digits) * (IF start = 2 THEN -1 ELSE 1), e - (IF point THEN fraction - whole - 1 ELSE 0))
\* %lld for a whole number, %.17g for another
NumberText(n) ==
  LET m == IF n[1] < 0 THEN -n[1] ELSE n[1]
      digits == IF n[2] >= 0 THEN DigitsOf(m * 10 ^ n[2]) ELSE DigitsOf(m \div 10 ^ (-n[2]))
      fraction == [i \in 1..-n[2] |-> 48 + ((m \div 10 ^ (-n[2] - i)) % 10)]
  IN  (IF n[1] < 0 THEN <<45>> ELSE <<>>) \o digits \o (IF n[2] < 0 THEN <<46>> \o fraction ELSE <<>>)
Truncated(n) ==
  IF n[2] >= 0 THEN n[1] * 10 ^ n[2] ELSE IF n[1] < 0 THEN -((-n[1]) \div 10 ^ (-n[2])) ELSE n[1] \div 10 ^ (-n[2])

\* ----------------------------------------------------------------- parsing --
\* The word that begins here, with nothing after it that could belong to it
WordAt(text, pos) ==
  LET fits == {w \in Words : SubSeq(text, pos, IF pos + Len(w[1]) - 1 <= Len(text) THEN pos + Len(w[1]) - 1 ELSE Len(text)) = w[1]}
  IN  {w \in fits : At(text, pos + Len(w[1])) \notin Alnum \union {95}}
\* A token's kind is its first character, or EOF, NUMBER, WORD or ERROR; the
\* position moves past that character.
TokenAt(text, p, c) ==
  IF c = 0 THEN [kind |-> "EOF", pos |-> p]
  ELSE [kind |-> CASE c = 123 -> "{" [] c = 125 -> "}" [] c = 91 -> "[" [] c = 93 -> "]" [] c = 58 -> ":" [] c = 44 -> ","
                   [] c = QUOTE -> "STRING" [] c = 45 \/ c \in Digits -> "NUMBER"
                   [] OTHER -> IF WordAt(text, p) # {} THEN "WORD" ELSE "ERROR",
        pos |-> p + 1]
NextToken(text, pos) == LET p == RunEnd(text, pos, Spaces) IN TokenAt(text, p, At(text, p))

\* A code point in up to three bytes, each half of a surrogate pair by itself
Utf8(cp) ==
  IF cp < 128 THEN <<cp>>
  ELSE IF cp < 2048 THEN <<192 + cp \div 64, 128 + (cp % 64)>>
  ELSE <<224 + cp \div 4096, 128 + ((cp \div 64) % 64), 128 + (cp % 64)>>
RECURSIVE StringFrom(_, _, _)
StringFrom(text, pos, out) ==
  LET c == At(text, pos)
      esc == At(text, pos + 1)
      known == {p \in Escapes : p[1] = esc}
      hex == \A k \in 2..5 : At(text, pos + k) \in Hex
      cp == T!HexOf(At(text, pos + 2)) * 4096 + T!HexOf(At(text, pos + 3)) * 256 + T!HexOf(At(text, pos + 4)) * 16 + T!HexOf(At(text, pos + 5))
  IN  IF c = 0 THEN [value |-> NONE, pos |-> pos]
      ELSE IF c = QUOTE THEN [value |-> String(Upto0(out)), pos |-> pos + 1]
      ELSE IF c # BACKSLASH THEN StringFrom(text, pos + 1, Append(out, c))
      ELSE IF esc = 117 THEN IF hex THEN StringFrom(text, pos + 6, out \o Utf8(cp)) ELSE [value |-> NONE, pos |-> pos]
      ELSE IF known = {} THEN [value |-> NONE, pos |-> pos]
      ELSE StringFrom(text, pos + 2, Append(out, (CHOOSE p \in known : TRUE)[2]))
ParseString(text, pos) == StringFrom(text, pos, <<>>)
\* What looks like one number is taken whole; strtod may read less of it.
ParseNumber(text, pos) ==
  LET stop == RunEnd(text, pos, Digits \union {46, 69, 101, 43, 45})
      value(n) == IF n = <<>> THEN NONE ELSE Number(n)
  IN  [value |-> value(Strtod(SubSeq(text, pos - 1, stop - 1))), pos |-> stop]
ParseWord(text, pos) ==
  LET w == CHOOSE w \in WordAt(text, pos - 1) : TRUE IN [value |-> w[2], pos |-> pos + Len(w[1]) - 1]

RECURSIVE ParseValue(_, _), ParseArray(_, _, _), ParseItem(_, _, _), ParseObject(_, _, _), ParseMember(_, _, _, _)
ParseValue(text, token) ==
  CASE token.kind = "{" -> ParseObject(text, NextToken(text, token.pos), <<>>)
    [] token.kind = "[" -> ParseArray(text, NextToken(text, token.pos), <<>>)
    [] token.kind = "STRING" -> ParseString(text, token.pos)
    [] token.kind = "NUMBER" -> ParseNumber(text, token.pos)
    [] token.kind = "WORD" -> ParseWord(text, token.pos)
    [] OTHER -> [value |-> NONE, pos |-> token.pos]
\* A comma before an element is skipped, there or not.
ParseArray(text, token, items) ==
  IF token.kind = "]" THEN [value |-> [array |-> items], pos |-> token.pos]
  ELSE ParseItem(text, ParseValue(text, IF token.kind = "," THEN NextToken(text, token.pos) ELSE token), items)
ParseItem(text, item, items) ==
  IF item.value = NONE THEN item ELSE ParseArray(text, NextToken(text, item.pos), Append(items, item.value))
\* So is one after a member. Of two members with one key the later stays.
Bound(object, key, value) == [k \in DOMAIN object \union {key} |-> IF k = key THEN value ELSE object[k]]
ParseObject(text, token, members) ==
  CASE token.kind = "}" -> [value |-> [object |-> members], pos |-> token.pos]
    [] token.kind = "STRING" -> ParseMember(text, ParseString(text, token.pos), NONE, members)
    [] OTHER -> [value |-> NONE, pos |-> token.pos]
\* The key, then, past a colon, its value
ParseMember(text, key, item, members) ==
  LET colon == NextToken(text, key.pos)
      after == NextToken(text, item.pos)
  IN  IF key.value = NONE THEN key
      ELSE IF item = NONE THEN IF colon.kind = ":" THEN ParseMember(text, key, ParseValue(text, NextToken(text, colon.pos)), members)
                               ELSE [value |-> NONE, pos |-> colon.pos]
      ELSE IF item.value = NONE THEN item
      ELSE ParseObject(text, IF after.kind = "," THEN NextToken(text, after.pos) ELSE after, Bound(members, key.value.string, item.value))
WholeOf(text, root) == IF root.value # NONE /\ NextToken(text, root.pos).kind = "EOF" THEN root.value ELSE NONE
Parse(text) == WholeOf(text, ParseValue(text, NextToken(text, 1)))
ReadFromFile(text) == IF text = <<>> THEN NONE ELSE Parse(text)

\* ----------------------------------------------------------------- writing --
KeysInOrder(object) == Ext!SetToSortSeq(DOMAIN object, LAMBDA a, b : T!StrCmp(a, b) < 0)
Joined(texts, comma) ==
  Ext!FlattenSeq([i \in DOMAIN texts |-> IF i < Len(texts) THEN texts[i] \o comma ELSE texts[i]])
SerializeString(text) ==
  LET coded(c) == LET known == {p \in Escapes : p[2] = c /\ c # 47}
                  IN  IF known # {} THEN <<BACKSLASH, (CHOOSE p \in known : TRUE)[1]>>
                      ELSE IF c < 32 THEN <<BACKSLASH, 117, 48, 48, T!HexDigit(c \div 16), T!HexDigit(c % 16)>> ELSE <<c>>
  IN  <<QUOTE>> \o Ext!FlattenSeq([i \in DOMAIN text |-> coded(text[i])]) \o <<QUOTE>>
WordOf(v) == (CHOOSE w \in Words : w[2] = v)[1]
RECURSIVE Serialize(_)
Serialize(v) ==
  CASE TypeOf(v) \in {"null", "bool"} -> WordOf(v)
    [] TypeOf(v) = "number" -> NumberText(v.number)
    [] TypeOf(v) = "string" -> SerializeString(v.string)
    [] TypeOf(v) = "array" -> <<91>> \o Joined([i \in DOMAIN v.array |-> Serialize(v.array[i])], <<44, 32>>) \o <<93>>
    [] TypeOf(v) = "object" ->
         LET keys == KeysInOrder(v.object)
         IN  <<123>> \o Joined([i \in DOMAIN keys |-> SerializeString(keys[i]) \o <<58, 32>> \o Serialize(v.object[keys[i]])], <<44, 32>>)
             \o <<125>>
WriteToFile(v) == Serialize(v)
\* With a line for each element, and the strings as they are
AppendIndent(indent) == [i \in 1..indent |-> 32]
FormatString(text) == <<QUOTE>> \o text \o <<QUOTE>>
RECURSIVE FormatAt(_, _)
FormatAt(v, indent) ==
  CASE TypeOf(v) = "string" -> FormatString(v.string)
    [] TypeOf(v) = "array" ->
         <<91, 10>> \o Ext!FlattenSeq([i \in DOMAIN v.array |-> AppendIndent(indent + 2) \o FormatAt(v.array[i], indent + 2)
                                                              \o (IF i < Len(v.array) THEN <<44, 10>> ELSE <<10>>)])
         \o AppendIndent(indent) \o <<93>>
    [] TypeOf(v) = "object" ->
         LET keys == KeysInOrder(v.object)
             line(k) == AppendIndent(indent + 2) \o FormatString(k) \o <<58, 32>> \o FormatAt(v.object[k], indent + 2)
         IN  <<123, 10>> \o Joined([i \in DOMAIN keys |-> line(keys[i])], <<44, 10>>) \o (IF keys = <<>> THEN <<>> ELSE <<10>>)
             \o AppendIndent(indent) \o <<125>>
    [] OTHER -> Serialize(v)
Format(v) == FormatAt(v, 0)
\* json_print: two deeper, the closing bracket two less, two decimals at most
PrintNumber(n) ==
  LET m == IF n[1] < 0 THEN -n[1] ELSE n[1]
      hundredths == IF n[2] >= -2 THEN m * 10 ^ (n[2] + 2) ELSE (m + 5 * 10 ^ (-n[2] - 3)) \div 10 ^ (-n[2] - 2)
  IN  IF n[2] >= 0 THEN NumberText(n) ELSE NumberText(<<IF n[1] < 0 THEN -hundredths ELSE hundredths, -2>>)
RECURSIVE PrintAt(_, _)
PrintAt(v, indent) ==
  LET item(e, comma) == PrintAt(e, indent + 2) \o (IF comma THEN <<44, 10>> ELSE <<10>>)
      keys == IF TypeOf(v) = "object" THEN KeysInOrder(v.object) ELSE <<>>
  IN  CASE TypeOf(v) = "array" ->
             <<91, 10>> \o Ext!FlattenSeq([i \in DOMAIN v.array |-> AppendIndent(indent + 2) \o item(v.array[i], i < Len(v.array))])
             \o AppendIndent(indent - 2) \o <<93>>
        [] TypeOf(v) = "object" ->
             <<123, 10>> \o Ext!FlattenSeq([i \in DOMAIN keys |-> AppendIndent(indent + 2) \o FormatString(keys[i]) \o <<58, 32>>
                                                                 \o item(v.object[keys[i]], i < Len(keys))])
             \o AppendIndent(indent - 2) \o <<125>>
        [] TypeOf(v) = "string" -> FormatString(v.string)
        [] TypeOf(v) = "number" -> PrintNumber(v.number)
        [] OTHER -> WordOf(v)
PrintText(v) == PrintAt(v, 2)

\* --------------------------------------------------------------- the tree --
\* strtol, all of the text
IndexOf(text) ==
  LET p == RunEnd(text, 1, Spaces)
      start == IF At(text, p) = 43 THEN p + 1 ELSE p
  IN  IF start <= Len(text) /\ RunEnd(text, start, Digits) = Len(text) + 1 THEN Natural(SubSeq(text, start, Len(text))) ELSE -1
Holds(v, key) ==
  CASE TypeOf(v) = "object" -> key \in DOMAIN v.object
    [] TypeOf(v) = "array" -> IndexOf(key) \in 0..Len(v.array) - 1
    [] OTHER -> FALSE
GetElement(v, key) ==
  IF ~Holds(v, key) THEN NONE ELSE IF TypeOf(v) = "object" THEN v.object[key] ELSE v.array[IndexOf(key) + 1]
ArraySize(v) == IF TypeOf(v) = "array" THEN Len(v.array) ELSE 0
ObjectSize(v) == IF TypeOf(v) = "object" THEN Len(KeysInOrder(v.object)) ELSE 0
AddToArray(v, value) == [v EXCEPT !.array = Append(@, value)]
AddToObject(v, key, value) ==
  IF TypeOf(v) # "object" THEN [done |-> FALSE, element |-> v]
  ELSE [done |-> TRUE, element |-> [object |-> Bound(v.object, key, value)]]
SetElement(v, key, value) ==
  IF TypeOf(v) = "object" THEN AddToObject(v, key, value)
  ELSE IF ~Holds(v, key) THEN [done |-> FALSE, element |-> v]
  ELSE [done |-> TRUE, element |-> [v EXCEPT !.array[IndexOf(key) + 1] = value]]
RemoveElement(v, key) ==
  IF ~Holds(v, key) THEN [done |-> FALSE, element |-> v]
  ELSE [done |-> TRUE,
        element |-> IF TypeOf(v) = "object" THEN [object |-> [k \in DOMAIN v.object \ {key} |-> v.object[k]]]
                    ELSE [array |-> Ext!RemoveAt(v.array, IndexOf(key) + 1)]]
Merge(a, b) ==
  IF TypeOf(a) # "object" \/ TypeOf(b) # "object" THEN NONE
  ELSE [object |-> [k \in DOMAIN a.object \union DOMAIN b.object |-> IF k \in DOMAIN b.object THEN b.object[k] ELSE a.object[k]]]
RECURSIVE DeepCopy(_)
DeepCopy(v) ==
  CASE TypeOf(v) = "array" -> [array |-> [i \in DOMAIN v.array |-> DeepCopy(v.array[i])]]
    [] TypeOf(v) = "object" -> [object |-> [k \in DOMAIN v.object |-> DeepCopy(v.object[k])]]
    [] OTHER -> v
Clone(v) == DeepCopy(v)
RECURSIVE Compare(_, _)
Compare(a, b) ==
  /\ TypeOf(a) = TypeOf(b)
  /\ CASE TypeOf(a) = "array" -> Len(a.array) = Len(b.array) /\ \A i \in DOMAIN a.array : Compare(a.array[i], b.array[i])
       [] TypeOf(a) = "object" -> /\ ObjectSize(a) = ObjectSize(b)
                                  /\ \A k \in DOMAIN a.object : k \in DOMAIN b.object /\ Compare(a.object[k], b.object[k])
       [] OTHER -> a = b
GetKeys(v) == IF TypeOf(v) = "object" THEN KeysInOrder(v.object) ELSE NONE
ToStringArray(v) ==
  IF TypeOf(v) # "array" \/ v = Create("array") \/ \E i \in DOMAIN v.array : TypeOf(v.array[i]) # "string" THEN NONE
  ELSE [i \in DOMAIN v.array |-> v.array[i].string]

\* The elements a predicate accepts are given as a set, a callback as a function.
Elements(v) ==
  CASE TypeOf(v) = "array" -> v.array
    [] TypeOf(v) = "object" -> [i \in DOMAIN KeysInOrder(v.object) |-> v.object[KeysInOrder(v.object)[i]]]
    [] OTHER -> <<>>
Find(v, accepted) == LET found == SelectSeq(Elements(v), LAMBDA e : e \in accepted) IN IF found = <<>> THEN NONE ELSE Head(found)
Filter(v, accepted) ==
  IF TypeOf(v) # "array" THEN NONE ELSE [array |-> SelectSeq(v.array, LAMBDA e : e \in accepted)]
MapEach(v, callback) ==
  IF TypeOf(v) # "array" \/ \E i \in DOMAIN v.array : callback[v.array[i]] = NONE THEN NONE
  ELSE [array |-> [i \in DOMAIN v.array |-> callback[v.array[i]]]]
Reduce(v, initial, callback) ==
  IF TypeOf(v) # "array" THEN NONE ELSE Ext!FoldLeft(LAMBDA acc, e : callback[<<e, acc>>], initial, v.array)

\* A path of keys between dots, each with at most one index that is looked at;
\* an index that is not closed ends the search where it is.
SplitQuery(query) == T!Tokenize(query, <<46>>)
Indexed(v, index) == IF v = NONE \/ TypeOf(v) # "array" THEN NONE ELSE GetElement(v, index)
RECURSIVE Walk(_, _), Onward(_, _)
Walk(v, tokens) ==
  LET token == Head(tokens)
      open == T!StrStr(token, <<91>>, 1)
      shut == T!StrStr(token, <<93>>, open + 1)
      next == IF open = 0 THEN GetElement(v, token)
              ELSE Indexed(GetElement(v, SubSeq(token, 1, open - 1)), SubSeq(token, open + 1, shut - 1))
  IN  IF tokens = <<>> \/ (open # 0 /\ shut = 0) THEN v ELSE Onward(next, Tail(tokens))
Onward(next, tokens) == IF next = NONE THEN NONE ELSE Walk(next, tokens)
Query(v, query) == Walk(v, SplitQuery(query))

\* -------------------------------------------------------- typed look-ups --
GetTyped(v, key, type, default) ==
  LET e == GetElement(v, key) IN IF e = NONE \/ TypeOf(e) # type THEN default ELSE e[type]
GetInt(v, key, default) == LET n == GetTyped(v, key, "number", <<default, 0>>) IN Truncated(n)
GetDouble(v, key, default) == GetTyped(v, key, "number", default)
GetBool(v, key, default) == GetTyped(v, key, "bool", default)
GetString(v, key, default) == GetTyped(v, key, "string", default)

\* ------------------------------------------------------------- conversion --
RECURSIVE Characters(_)
Characters(text) ==
  LET n == T!Utf8CharLen(Head(text))
  IN  IF text = <<>> THEN <<>>
      ELSE IF n = 0 \/ n > Len(text) THEN <<NONE>>
      ELSE <<String(SubSeq(text, 1, n))>> \o Characters(SubSeq(text, n + 1, Len(text)))
\* Into a number or a truth value it returns the value and not an element. No
\* truth value becomes a string: the new element's own is NULL.
Convert(v, type) ==
  CASE type = "string" -> IF TypeOf(v) = "number" THEN String(NumberText(v.number)) ELSE NONE
    [] type = "number" -> IF TypeOf(v) # "string" THEN NONE ELSE IF Strtod(v.string) = <<>> THEN <<0, 0>> ELSE Strtod(v.string)
    [] type = "bool" -> IF TypeOf(v) = "number" THEN v.number # <<0, 0>> ELSE NONE
    [] type = "array" ->
         IF TypeOf(v) # "string" THEN [array |-> <<DeepCopy(v)>>]
         ELSE LET chars == Characters(v.string) IN IF NONE \in Ext!ToSet(chars) THEN NONE ELSE [array |-> chars]
    [] type = "object" ->
         IF TypeOf(v) \in {"array", "object"} THEN NONE ELSE [object |-> Bound(<<>>, <<118, 97, 108, 117, 101>>, v)]
    [] OTHER -> NONE

TypeName(v) ==
  CASE TypeOf(v) = "null" -> <<110, 117, 108, 108>>
    [] TypeOf(v) = "bool" -> <<98, 111, 111, 108, 101, 97, 110>>
    [] TypeOf(v) = "number" -> <<110, 117, 109, 98, 101, 114>>
    [] TypeOf(v) = "string" -> <<115, 116, 114, 105, 110, 103>>
    [] TypeOf(v) = "array" -> <<97, 114, 114, 97, 121>>
    [] TypeOf(v) = "object" -> <<111, 98, 106, 101, 99, 116>>
TYPE == <<116, 121, 112, 101>>
\* A schema says the type of the whole, and nothing of what is in it.
GenerateSchema(v) == <<123>> \o FormatString(TYPE) \o <<58>> \o FormatString(TypeName(v)) \o <<125>>
Allows(s, v) == s # NONE /\ TypeOf(s) = "object" /\ GetElement(s, TYPE) = String(TypeName(v))
Validate(v, schema) == Allows(Parse(schema), v)

------------------------------------------------------------------------------
(***************************************************************************)
(* What json.c promises of a tree of elements, whatever calls made it: it  *)
(* is written as a text that is parsed as the same tree, and the searches  *)
(* see what the changes left.                                              *)
(***************************************************************************)

A == <<97>>
B == <<98, 34, 10>>
ZERO == <<48>>
ONE == <<49>>
Keys == {A, B, ZERO, ONE}
Atoms == {Null, Bool(TRUE), Number(<<-15, -1>>), Number(<<2, 1>>), String(<<97, 92, 1, 195, 169>>)}
Values(v) == {Null, Number(<<-15, -1>>), String(<<97, 92, 1, 195, 169>>), Clone(v)}

\* Every call that changes an element
Calls(v) ==
  {SetElement(v, k, x).element : k \in Keys, x \in Values(v)}
  \union {AddToObject(v, k, x).element : k \in {A, B}, x \in Values(v)}
  \union {RemoveElement(v, k).element : k \in Keys}
  \union (IF TypeOf(v) = "array" THEN {AddToArray(v, x) : x \in Values(v)} ELSE {})
  \union (IF TypeOf(v) = "object" THEN {Merge(v, [object |-> Bound(<<>>, B, Bool(TRUE))])} ELSE {})
  \union ({Convert(v, "array"), Convert(v, "object")} \ {NONE})

RECURSIVE Plain(_)
Plain(v) ==
  CASE TypeOf(v) = "string" -> v = Parse(FormatString(v.string))
    [] TypeOf(v) = "array" -> \A i \in DOMAIN v.array : Plain(v.array[i])
    [] TypeOf(v) = "object" -> \A k \in DOMAIN v.object : Plain(String(k)) /\ Plain(v.object[k])
    [] OTHER -> TRUE

WrittenAndRead(v) ==
  LET text == Serialize(v)
  IN  /\ Parse(text) = v /\ ReadFromFile(WriteToFile(v)) = v
      /\ Parse(<<91, 10>> \o text \o <<44>> \o text \o <<9, 93>>) = [array |-> <<v, v>>]
      /\ Parse(text \o <<44>>) = NONE /\ Parse(<<91>> \o text) = NONE
      /\ Plain(v) => Parse(Format(v)) = v
      /\ TypeOf(v) \in {"array", "object"} => Parse(SubSeq(text, 1, Len(text) - 1)) = NONE
      /\ Plain(v) => Parse(PrintText(v)) = v

Searched(v) ==
  LET seen == Elements(v)
      taken == {seen[i] : i \in {i \in DOMAIN seen : i % 2 = 0}}
      kept == Filter(v, taken)
  IN  /\ Compare(v, DeepCopy(v)) /\ DeepCopy(v) = v /\ \A a \in Atoms : Compare(v, a) = (v = a)
      /\ Len(seen) = ArraySize(v) + ObjectSize(v)
      /\ Find(v, taken) = (IF \E i \in DOMAIN seen : seen[i] \in taken THEN seen[CHOOSE i \in DOMAIN seen : seen[i] \in taken /\ \A j \in 1..i - 1 : seen[j] \notin taken] ELSE NONE)
      /\ TypeOf(v) = "array" => /\ Len(kept.array) + Len(Filter(v, Ext!ToSet(seen) \ taken).array) = Len(seen)
                                  /\ MapEach(v, [x \in Ext!ToSet(seen) |-> x]) = v
                                  /\ \A i \in DOMAIN seen : GetElement(v, DigitsOf(i - 1)) = seen[i]
      /\ TypeOf(v) = "object" => LET keys == GetKeys(v)
                                   IN  /\ Ext!ToSet(keys) = DOMAIN v.object
                                       /\ \A i \in 1..Len(keys) - 1 : T!StrCmp(keys[i], keys[i + 1]) < 0
                                       /\ \A i \in DOMAIN keys : GetElement(v, keys[i]) = seen[i]
      /\ \A x \in Atoms \union {v} : /\ Validate(x, GenerateSchema(v)) = (TypeOf(x) = TypeOf(v))

Converted(v) ==
  /\ \A x \in Atoms \union {v} :
       LET items == Convert(x, "array")
       IN  /\ TypeOf(x) = "string" => Ext!FlattenSeq(ToStringArray(items)) = x.string /\ ArraySize(items) = 4
           /\ TypeOf(x) # "string" => items = [array |-> <<x>>]
           /\ TypeOf(x) = "number" => Convert(Convert(x, "string"), "number") = x.number
           /\ TypeOf(x) \notin {"array", "object"} => Elements(Convert(x, "object")) = <<x>>

\* A text of tokens that is parsed is a balanced one, and says no more than the
\* element it made, which is written and parsed as itself.
Tokens == {<<91>>, <<93>>, <<123>>, <<125>>, <<34, 97, 34>>, <<58>>, <<44>>, <<45, 49, 46, 32>>, <<110, 117, 108, 108>>}
Parsed(text) ==
  LET count(c) == Len(SelectSeq(text, LAMBDA x : x = c))
  IN  \A v \in {Parse(text)} \ {NONE} :
        /\ Parse(Serialize(v)) = v
        /\ count(91) = count(93) /\ count(123) = count(125)
        /\ Parse(<<123, 34, 97, 34, 58>> \o text \o <<125>>) = [object |-> Bound(<<>>, A, v)]
        /\ Parse(text \o <<91>>) = NONE

Changed(v) ==
  /\ \A k \in Keys, x \in Atoms :
       LET set == SetElement(v, k, x)
           gone == RemoveElement(v, k)
       IN  /\ set.done => GetElement(set.element, k) = x /\ Query(set.element, k) = x
           /\ set.done => \A other \in Keys \ {k} : GetElement(set.element, other) = GetElement(v, other)
           /\ ~set.done => set.element = v
           /\ gone.done = Holds(v, k) /\ (~gone.done => gone.element = v)
           /\ TypeOf(v) = "object" => ~Holds(gone.element, k)
           /\ TypeOf(v) = "array" /\ gone.done => ArraySize(gone.element) = ArraySize(v) - 1
           /\ set.done => /\ GetInt(set.element, k, 7) = (IF x = Number(<<-15, -1>>) THEN -1 ELSE IF x = Number(<<2, 1>>) THEN 20 ELSE 7)
                          /\ GetBool(set.element, k, FALSE) = (x = Bool(TRUE))
  /\ TypeOf(v) = "array" =>
       /\ Query([object |-> Bound(<<>>, A, v)], A \o <<91, 48, 93>>) = GetElement(v, ZERO)
       /\ Query([object |-> Bound(<<>>, A, [array |-> <<v>>])], <<97, 91, 48, 93, 46>> \o ONE) = GetElement(v, ONE)
  /\ TypeOf(v) = "object" =>
       LET other == [object |-> Bound(Bound(<<>>, A, Null), B, v)]
           merged == Merge(v, other)
       IN  /\ \A k \in Keys : GetElement(merged, k) = IF Holds(other, k) THEN GetElement(other, k) ELSE GetElement(v, k)
           /\ Merge(merged, other) = merged
           /\ Query(merged, B \o <<46>> \o A) = GetElement(v, A)
==============================================================================
