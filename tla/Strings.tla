------------------------------ MODULE Strings ------------------------------
(***************************************************************************)
(* string/std_string.c: text in a buffer taken from a pool. A String is    *)
(* [text, cap, data]: its characters, which are ASCII codes, the bytes of  *)
(* its buffer, which also holds the 0 after them, and whether it has one.  *)
(* The functions that go through strlen are for texts without a 0. NONE is *)
(* a NULL result.                                                          *)
(*                                                                         *)
(* In this order: std_string.c, its registry and their laws; encoding.c and*)
(* its laws.                                                               *)
(***************************************************************************)
EXTENDS Integers, Sequences, FiniteSets

Ext == INSTANCE SequencesExt

CONSTANT CAPACITY    \* 32: what a new String has to spare

NONE == <<-1>>

Create(initial) == [text |-> initial, cap |-> CAPACITY + Len(initial), data |-> TRUE]
CreateWithPool == [text |-> <<>>, cap |-> 1, data |-> FALSE]

\* -------------------------------------------------------------- the buffer --
RECURSIVE Doubled(_, _)
Doubled(cap, needed) == IF cap >= needed THEN cap ELSE Doubled(2 * cap, needed)
GrowKeepOld(s, newCap) == [s EXCEPT !.cap = newCap, !.data = TRUE]

StringResize(s, newSize) ==
  IF newSize <= Len(s.text) THEN [s EXCEPT !.text = SubSeq(@, 1, newSize)]
  ELSE LET room == IF ~s.data \/ newSize >= s.cap THEN GrowKeepOld(s, newSize + 1) ELSE s
       IN  [room EXCEPT !.text = [i \in 1..newSize |-> IF i <= Len(@) THEN @[i] ELSE 0]]
ShrinkToFit(s) == IF ~s.data THEN s ELSE [s EXCEPT !.cap = Len(s.text) + 1]
Reserve(s, newCap) == IF newCap <= s.cap THEN s ELSE GrowKeepOld(s, newCap + CAPACITY)
SetPoolSize(s, newSize) ==
  IF newSize = 0 THEN s
  ELSE LET cap == IF Len(s.text) + 1 < CAPACITY THEN CAPACITY ELSE Len(s.text) + 1 IN [s EXCEPT !.cap = cap, !.data = TRUE]

AppendText(s, item) ==
  LET size == Len(s.text) + Len(item)
      room == IF size >= s.cap THEN GrowKeepOld(s, Doubled(s.cap, size + 1)) ELSE s
  IN  IF item = <<>> THEN s ELSE [room EXCEPT !.text = @ \o item]
PushBack(s, ch) ==
  LET room == IF ~s.data \/ Len(s.text) + 1 >= s.cap THEN GrowKeepOld(s, Doubled(2 * s.cap, Len(s.text) + 2)) ELSE s
  IN  [room EXCEPT !.text = Append(@, ch)]
Assign(s, new) ==
  LET room == IF ~s.data \/ Len(new) + 1 > s.cap THEN GrowKeepOld(s, Len(new) + 1) ELSE s IN [room EXCEPT !.text = new]
Insert(s, pos, item) ==
  LET size == Len(s.text) + Len(item)
      room == IF size + 1 > s.cap THEN GrowKeepOld(s, size + 1) ELSE s
  IN  IF ~s.data \/ pos > Len(s.text) THEN s
      ELSE [room EXCEPT !.text = SubSeq(@, 1, pos) \o item \o SubSeq(@, pos + 1, Len(@))]
Erase(s, pos, len) ==
  LET size == Len(s.text)
      n == IF pos + len > size THEN size - pos ELSE len
  IN  IF pos >= size THEN s ELSE [s EXCEPT !.text = SubSeq(@, 1, pos) \o SubSeq(@, pos + n + 1, size)]
RemoveRange(s, from, to) == IF ~s.data \/ from >= to \/ to > Len(s.text) THEN s ELSE Erase(s, from, to - from)
PopBack(s) == IF s.text = <<>> THEN s ELSE [s EXCEPT !.text = SubSeq(@, 1, Len(@) - 1)]
Clear(s) == [s EXCEPT !.text = <<>>]
PadLeft(s, total, ch) ==
  IF Len(s.text) >= total THEN s
  ELSE [text |-> [i \in 1..total - Len(s.text) |-> ch] \o s.text, cap |-> total + 1, data |-> TRUE]
PadRight(s, total, ch) ==
  IF Len(s.text) >= total THEN s
  ELSE [text |-> s.text \o [i \in 1..total - Len(s.text) |-> ch], cap |-> IF total + 1 <= s.cap THEN s.cap ELSE total + 1, data |-> TRUE]

\* ----------------------------------------------------------- what is found --
\* strstr: the first place at or after from where part begins, or 0
StrStr(text, part, from) ==
  LET at == {i \in from..Len(text) - Len(part) + 1 : SubSeq(text, i, i + Len(part) - 1) = part}
  IN  IF at = {} THEN 0 ELSE CHOOSE i \in at : \A j \in at : i <= j
Least(at) == IF at = {} THEN -1 ELSE CHOOSE i \in at : \A j \in at : i <= j
Greatest(at) == IF at = {} THEN -1 ELSE CHOOSE i \in at : \A j \in at : i >= j
Clip(text, pos) == IF pos < Len(text) THEN pos ELSE Len(text) - 1

Contains(text, part) == StrStr(text, part, 1) # 0
Find(text, part, pos) == IF pos >= Len(text) THEN -1 ELSE StrStr(text, part, pos + 1) - 1
Rfind(text, part, pos) ==
  IF part = <<>> \/ pos < Len(part) - 1 THEN -1
  ELSE Greatest({i \in 0..Clip(text, pos) : i + Len(part) <= Len(text) /\ SubSeq(text, i + 1, i + Len(part)) = part})
FindFirstOf(text, chars, pos) ==
  IF pos >= Len(text) THEN -1 ELSE Least({i \in pos..Len(text) - 1 : text[i + 1] \in Ext!ToSet(chars)})
FindLastOf(text, chars, pos) == Greatest({i \in 0..Clip(text, pos) : text[i + 1] \in Ext!ToSet(chars)})
FindFirstNotOf(text, chars, pos) ==
  IF pos >= Len(text) THEN -1 ELSE Least({i \in pos..Len(text) - 1 : text[i + 1] \notin Ext!ToSet(chars)})
FindLastNotOf(text, chars, pos) ==
  IF chars = <<>> THEN -1 ELSE Greatest({i \in 0..Clip(text, pos) : text[i + 1] \notin Ext!ToSet(chars)})
Substr(text, pos, len) == IF pos >= Len(text) THEN NONE ELSE SubSeq(text, pos + 1, pos + len)
CopyOut(text, pos, len) ==
  IF pos >= Len(text) THEN <<>> ELSE IF len = 0 THEN SubSeq(text, pos + 1, Len(text)) ELSE SubSeq(text, pos + 1, pos + len)
RECURSIVE CountFrom(_, _, _)
CountFrom(text, part, from) ==
  LET at == StrStr(text, part, from) IN IF at = 0 THEN 0 ELSE 1 + CountFrom(text, part, at + Len(part))
Count(text, part) == CountFrom(text, part, 1)
StartsWith(text, part) == Len(part) <= Len(text) /\ SubSeq(text, 1, Len(part)) = part
EndsWith(text, part) == Len(part) <= Len(text) /\ SubSeq(text, Len(text) - Len(part) + 1, Len(text)) = part

\* strcmp: by the first character that differs, the end counting as 0
RECURSIVE StrCmp(_, _)
StrCmp(a, b) ==
  LET x == IF a = <<>> THEN 0 ELSE Head(a)
      y == IF b = <<>> THEN 0 ELSE Head(b)
  IN  IF x # y THEN IF x < y THEN -1 ELSE 1 ELSE IF x = 0 THEN 0 ELSE StrCmp(Tail(a), Tail(b))
Compare(a, b) == StrCmp(a, b)

\* -------------------------------------------------------------- rewriting --
\* The first occurrence only; a buffer too small is replaced by one that fits.
Replace(s, old, new) ==
  LET at == StrStr(s.text, old, 1)
      text == SubSeq(s.text, 1, at - 1) \o new \o SubSeq(s.text, at + Len(old), Len(s.text))
  IN  IF at = 0 THEN s ELSE [s EXCEPT !.text = text, !.cap = IF Len(text) + 1 > @ THEN Len(text) + 1 ELSE @]
RECURSIVE ReplaceFrom(_, _, _, _)
ReplaceFrom(text, old, new, from) ==
  LET at == StrStr(text, old, from)
  IN  IF at = 0 THEN SubSeq(text, from, Len(text)) ELSE SubSeq(text, from, at - 1) \o new \o ReplaceFrom(text, old, new, at + Len(old))
ReplaceAll(s, old, new) == Assign(s, ReplaceFrom(s.text, old, new, 1))
\* What moves up is searched from where the last one was.
RECURSIVE RemoveFrom(_, _, _)
RemoveFrom(text, part, from) ==
  LET at == StrStr(text, part, from)
  IN  IF at = 0 THEN text ELSE RemoveFrom(SubSeq(text, 1, at - 1) \o SubSeq(text, at + Len(part), Len(text)), part, at)
Remove(s, part) == IF part = <<>> THEN s ELSE [s EXCEPT !.text = RemoveFrom(@, part, 1)]
Reverse(s) == Replace(s, s.text, Ext!Reverse(s.text))

Spaces == {32} \union (9..13)
Trimmed(text, chars, left, right) ==
  LET keep == {i \in DOMAIN text : text[i] \notin chars}
      first == IF ~left THEN 1 ELSE IF keep = {} THEN Len(text) + 1 ELSE Least(keep)
      last == IF ~right THEN Len(text) ELSE IF keep = {} THEN 0 ELSE Greatest(keep)
  IN  SubSeq(text, first, last)
TrimLeft(s) == [s EXCEPT !.text = Trimmed(@, Spaces, TRUE, FALSE)]
TrimRight(s) == [s EXCEPT !.text = Trimmed(@, Spaces, FALSE, TRUE)]
Trim(s) == TrimRight(TrimLeft(s))
TrimCharacters(s, chars) == [s EXCEPT !.text = Trimmed(@, Ext!ToSet(chars), TRUE, TRUE)]

\* strtok: what lies between delimiters, nothing for those that meet
RECURSIVE Tokenize(_, _)
Tokenize(text, delimiters) ==
  LET rest == Trimmed(text, Ext!ToSet(delimiters), TRUE, FALSE)
      stop == Least({i \in DOMAIN rest : rest[i] \in Ext!ToSet(delimiters)})
  IN  IF rest = <<>> THEN <<>>
      ELSE IF stop = -1 THEN <<rest>> ELSE <<SubSeq(rest, 1, stop - 1)>> \o Tokenize(SubSeq(rest, stop, Len(rest)), delimiters)
Split(text, delimiters) == LET tokens == Tokenize(text, delimiters) IN IF tokens = <<>> THEN NONE ELSE tokens
Join(texts, delimiter) ==
  IF texts = <<>> THEN NONE
  ELSE Ext!FoldLeft(LAMBDA a, b : a \o delimiter \o b, Head(texts), Tail(texts))
JoinVariadic(texts) == Ext!FlattenSeq(texts)
Repeat(text, count) == Ext!FlattenSeq([i \in 1..count |-> text])

\* ------------------------------------------------------------- characters --
LOWER == 97..122
UPPER == 65..90
DIGITS == 48..57
ToUpper(text) == [i \in DOMAIN text |-> IF text[i] \in LOWER THEN text[i] - 32 ELSE text[i]]
ToLower(text) == [i \in DOMAIN text |-> IF text[i] \in UPPER THEN text[i] + 32 ELSE text[i]]
SwapCase(text) ==
  [i \in DOMAIN text |-> IF text[i] \in LOWER THEN text[i] - 32 ELSE IF text[i] \in UPPER THEN text[i] + 32 ELSE text[i]]
ToTitle(text) ==
  [i \in DOMAIN text |-> IF i = 1 \/ text[i - 1] \notin LOWER \union UPPER THEN ToUpper(text)[i] ELSE ToLower(text)[i]]
ToCapitalize(text) == [i \in DOMAIN text |-> IF i = 1 THEN ToUpper(text)[1] ELSE text[i]]
CompareIgnoreCase(a, b) == StrCmp(ToLower(a), ToLower(b))

IsAlpha(text) == Ext!ToSet(text) \subseteq LOWER \union UPPER
IsDigit(text) == Ext!ToSet(text) \subseteq DIGITS
IsUpper(text) == Ext!ToSet(text) \intersect LOWER = {}
IsLower(text) == Ext!ToSet(text) \intersect UPPER = {}
IsAlnum(text) == text # <<>> /\ Ext!ToSet(text) \subseteq LOWER \union UPPER \union DIGITS
IsSpace(text) == text # <<>> /\ Ext!ToSet(text) = {32}
IsPrintable(text) == Ext!ToSet(text) \intersect (0..31) = {}
IsPalindrome(text) == \A i \in DOMAIN text : text[i] = text[Len(text) + 1 - i]
\* A word starts at the beginning and after a space, and only there.
IsTitle(text) ==
  LET letter(i) == text[i] \in LOWER \union UPPER
      starts(i) == i = 1 \/ text[i - 1] = 32
  IN  text # <<>> /\ \A i \in DOMAIN text : letter(i) => (text[i] \in UPPER <=> starts(i))

\* ------------------------------------------------------------- conversions --
HexDigit(d) == IF d < 10 THEN 48 + d ELSE 87 + d
HexOf(c) == IF c \in DIGITS THEN c - 48 ELSE IF c \in 97..102 THEN c - 87 ELSE c - 55
ToHex(text) == Ext!FlattenSeq([i \in DOMAIN text |-> <<HexDigit(text[i] \div 16), HexDigit(text[i] % 16)>>])
FromHex(text) ==
  IF text = <<>> \/ Len(text) % 2 # 0 THEN NONE
  ELSE [i \in 1..Len(text) \div 2 |-> HexOf(text[2 * i - 1]) * 16 + HexOf(text[2 * i])]

\* Sixes of bits out of a number the characters are shifted into; only its low
\* bits are ever looked at
STRING_PAD == 64
RECURSIVE Base64From(_, _, _, _)
Base64From(text, val, valb, out) ==
  IF valb >= 0 THEN Base64From(text, val, valb - 6, Append(out, (val \div 2 ^ valb) % 64))
  ELSE IF text # <<>> THEN Base64From(Tail(text), (val * 256 + Head(text)) % 65536, valb + 8, out)
  ELSE IF valb > -6 THEN Append(out, ((val * 256) \div 2 ^ (valb + 8)) % 64) ELSE out
StringBase64Encode(text) ==
  LET coded == Base64From(text, 0, -6, <<>>) IN coded \o [i \in 1..(4 - (Len(coded) % 4)) % 4 |-> STRING_PAD]
RECURSIVE Base64DecodeFrom(_, _, _, _)
Base64DecodeFrom(coded, val, valb, out) ==
  LET c == Head(coded)
      v == (val * 64 + c) % 65536
  IN  IF coded = <<>> \/ c = STRING_PAD THEN out
      ELSE IF c > STRING_PAD THEN Base64DecodeFrom(Tail(coded), val, valb, out)
      ELSE IF valb + 6 < 0 THEN Base64DecodeFrom(Tail(coded), v, valb + 6, out)
      ELSE Base64DecodeFrom(Tail(coded), v, valb - 2, Append(out, (v \div 2 ^ (valb + 6)) % 256))
Base64Decode(coded) == Base64DecodeFrom(coded, 0, -8, <<>>)

LengthUtf8(bytes) == Len(SelectSeq(bytes, LAMBDA b : b \notin 128..191))
Utf8CharLen(b) == IF b < 128 THEN 1 ELSE IF b \in 192..223 THEN 2 ELSE IF b \in 224..239 THEN 3 ELSE IF b \in 240..247 THEN 4 ELSE 0

------------------------------------------------------------------------------
(***************************************************************************)
(* string/std_string.c: the table of the Strings that are alive, by which  *)
(* string_deallocate tells a String from one already freed. Slots hold a   *)
(* String, NULL or the TOMBSTONE of one removed; r.count are the Strings   *)
(* in it, r.used the slots that are not NULL.                              *)
(***************************************************************************)

CONSTANTS INITIAL,    \* 64: the slots of the first table
          Hash(_)     \* registry_hash

NULL == 0
TOMBSTONE == -1
Empty == [slots |-> <<>>, count |-> 0, used |-> 0]
Cap(r) == Cardinality(DOMAIN r.slots)

\* The slots p is looked for in, in the order they are probed
Probe(slots, p, k) == ((Hash(p) + k) % Cardinality(DOMAIN slots)) + 1
FirstProbe(slots, p, stops) ==
  LET n == Cardinality(DOMAIN slots)
      at == {k \in 0..n - 1 : slots[Probe(slots, p, k)] \in stops}
  IN  IF at = {} THEN -1 ELSE CHOOSE k \in at : \A j \in at : k <= j

Live(slots) == {i \in DOMAIN slots : slots[i] \notin {NULL, TOMBSTONE}}
\* The live ones in a table of their own, without the tombstones
RECURSIVE Rehashed(_, _, _)
Rehashed(old, from, slots) ==
  IF from > Cardinality(DOMAIN old) THEN slots
  ELSE IF from \notin Live(old) THEN Rehashed(old, from + 1, slots)
  ELSE Rehashed(old, from + 1, [slots EXCEPT ![Probe(slots, old[from], FirstProbe(slots, old[from], {NULL}))] = old[from]])
RegistryResize(r, newCap) ==
  LET n == Cardinality(Live(r.slots))
  IN  [slots |-> Rehashed(r.slots, 1, [i \in 1..newCap |-> NULL]), count |-> n, used |-> n]
RECURSIVE Target(_, _)
Target(cap, count) == IF (count + 1) * 2 >= cap THEN Target(2 * cap, count) ELSE cap

\* A full half makes a new table; the first tombstone passed is taken.
Place(r, p) ==
  LET stop == FirstProbe(r.slots, p, {NULL, p})
      tomb == FirstProbe(r.slots, p, {TOMBSTONE})
      there == r.slots[Probe(r.slots, p, stop)] = p
      atTomb == tomb # -1 /\ tomb < stop
  IN  IF there THEN r
      ELSE [slots |-> [r.slots EXCEPT ![Probe(r.slots, p, IF atTomb THEN tomb ELSE stop)] = p],
            count |-> r.count + 1, used |-> IF atTomb THEN r.used ELSE r.used + 1]
Add(r, p) ==
  Place(IF Cap(r) = 0 THEN RegistryResize(r, INITIAL)
        ELSE IF (r.used + 1) * 2 >= Cap(r) THEN RegistryResize(r, Target(Cap(r), r.count)) ELSE r, p)

\* Mutant: the slot is left empty.
RemovedBlank(r, p) ==
  LET stop == FirstProbe(r.slots, p, {NULL, p})
      i == Probe(r.slots, p, stop)
  IN  IF Cap(r) = 0 \/ r.slots[i] # p THEN [done |-> FALSE, registry |-> r]
      ELSE [done |-> TRUE, registry |-> [r EXCEPT !.slots[i] = NULL, !.count = @ - 1]]
\* Found, it becomes a tombstone, so that those stored past it are still found.
Removed(r, p) ==
  LET stop == FirstProbe(r.slots, p, {NULL, p})
      i == Probe(r.slots, p, stop)
  IN  IF Cap(r) = 0 \/ r.slots[i] # p THEN [done |-> FALSE, registry |-> r]
      ELSE [done |-> TRUE, registry |-> [r EXCEPT !.slots[i] = TOMBSTONE, !.count = @ - 1]]

------------------------------------------------------------------------------
(***************************************************************************)
(* What the functions of StdString must return: the text of a String is a  *)
(* sequence of characters, and its buffer holds it and the 0 after it.     *)
(***************************************************************************)

Fits(s) == s.data => Len(s.text) + 1 <= s.cap
Changed(s, to) == Fits(to) /\ to.text = s

Parts == {<<97>>, <<97, 98>>, <<65, 32>>}
\* Every call that changes a String: what it leaves, and the text it should
Calls(s) ==
  LET n == Len(s.text)
      t == s.text
  IN  {<<PushBack(s, 97), Append(t, 97)>>, <<PopBack(s), SubSeq(t, 1, n - 1)>>, <<Clear(s), <<>>>>,
       <<ShrinkToFit(s), t>>, <<SetPoolSize(s, 1), t>>}
      \union {<<AppendText(s, p), t \o p>> : p \in Parts} \union {<<Assign(s, p), p>> : p \in Parts}
      \union {<<StringResize(s, k), [i \in 1..k |-> IF i <= n THEN t[i] ELSE 0]>> : k \in {0, 1, 3, 6}}
      \union {<<Reserve(s, k), t>> : k \in {1, 5}}
      \union {<<Insert(s, k, <<98, 32>>), IF ~s.data THEN t ELSE SubSeq(t, 1, k) \o <<98, 32>> \o SubSeq(t, k + 1, n)>> : k \in 0..n}
      \union {<<Erase(s, k, 2), SubSeq(t, 1, k) \o SubSeq(t, k + 3, n)>> : k \in 0..n}
      \union {<<RemoveRange(s, 1, k), IF k > n THEN t ELSE SelectSeq(SubSeq(t, 1, 1), LAMBDA c : TRUE) \o SubSeq(t, k + 1, n)>> : k \in 2..4}
      \union {<<PadLeft(s, k, 49), [i \in 1..k - n |-> 49] \o t>> : k \in {2, 5}}
      \union {<<PadRight(s, k, 49), t \o [i \in 1..k - n |-> 49]>> : k \in {2, 5}}
BufferLaws(s) == \A call \in Calls(s) : Changed(call[2], call[1])

Occurs(t, p, i) == SubSeq(t, i + 1, i + Len(p)) = p
Held(t) == [text |-> t, cap |-> Len(t) + 1, data |-> TRUE]
FindLaws(t, p, pos) ==
  LET n == Len(t)
      here == {i \in 0..n - Len(p) : Occurs(t, p, i)}
      last == Rfind(t, p, n)
      first == Find(t, p, pos)
  IN  /\ first = -1 <=> {i \in here : i >= pos} = {}
      /\ first # -1 => first \in here /\ first >= pos /\ \A i \in here : i < pos \/ i >= first
      /\ last = -1 <=> here = {} /\ last # -1 => \A i \in here : i <= last
      /\ Contains(t, p) = (here # {}) /\ StartsWith(t, p) = (0 \in here) /\ EndsWith(t, p) = (n - Len(p) \in here)
      /\ Count(t, p) <= Cardinality(here) /\ (Count(t, p) = 0 <=> here = {})
      /\ LET f == FindFirstOf(t, p, pos) g == FindFirstNotOf(t, p, pos)
         IN  pos < n => {f, g} \subseteq {-1} \union (pos..n - 1) /\ pos \in {f, g} /\ f # g
      /\ LET f == FindLastOf(t, p, n) g == FindLastNotOf(t, p, n)
         IN  n > 0 => n - 1 \in {f, g} /\ f # g

RewriteLaws(t, p) ==
  LET gone == Remove(Held(t), p).text
      all == ReplaceAll(Held(t), p, <<48, 48, 48>>)
      one == Replace(Held(t), p, <<48, 48, 48>>)
  IN  /\ ~Contains(all.text, p) /\ Fits(all) /\ Fits(one)
      /\ Len(all.text) = Len(t) + Count(t, p) * (3 - Len(p))
      /\ ReplaceAll(all, <<48, 48, 48>>, p).text = t
      /\ Len(one.text) = (IF Contains(t, p) THEN Len(t) + 3 - Len(p) ELSE Len(t))
      /\ Len(t) - Len(gone) = Len(p) * ((Len(t) - Len(gone)) \div Len(p)) /\ Len(gone) <= Len(t) - Count(t, p) * Len(p)

TextLaws(t) ==
  LET trimmed == Trim(Held(t)).text
      words == Tokenize(t, <<32>>)
      title == ToTitle(t)
  IN  /\ Reverse(Held(t)).text = Ext!Reverse(t) /\ Fits(Reverse(Held(t)))
      /\ IsPalindrome(t) = (Ext!Reverse(t) = t)
      /\ \A i \in {1, Len(trimmed)} : trimmed # <<>> => trimmed[i] # 32
      /\ Contains(t, trimmed) /\ SelectSeq(trimmed, LAMBDA c : c # 32) = SelectSeq(t, LAMBDA c : c # 32)
      /\ TrimCharacters(Held(t), <<32>>).text = trimmed
      /\ Ext!FlattenSeq(words) = SelectSeq(t, LAMBDA c : c # 32) /\ \A i \in DOMAIN words : words[i] # <<>>
      /\ words # <<>> => /\ Split(t, <<32>>) = words
                         /\ Tokenize(Join(words, <<32>>), <<32>>) = words
                         /\ JoinVariadic(words) = Ext!FlattenSeq(words)
      /\ Repeat(t, 3) = t \o t \o t
      /\ ToLower(ToUpper(t)) = ToLower(t) /\ SwapCase(SwapCase(t)) = t
      /\ CompareIgnoreCase(t, SwapCase(t)) = 0
      /\ IsUpper(ToUpper(t)) /\ IsLower(ToLower(t))
      /\ IsAlpha(SelectSeq(t, LAMBDA c : c \notin {32, 49})) /\ IsSpace(t) = (t # <<>> /\ trimmed = <<>>)
      /\ IsAlnum(t) = (t # <<>> /\ 32 \notin Ext!ToSet(t)) /\ (IsDigit(t) /\ t # <<>> => IsAlnum(t))
      /\ (t # <<>> /\ IsAlpha(SelectSeq(t, LAMBDA c : c # 32))) => IsTitle(title)
      /\ t # <<>> => ToCapitalize(t) = <<ToUpper(t)[1]>> \o Tail(t) /\ FromHex(ToHex(t)) = t
      /\ Base64Decode(StringBase64Encode(t)) = t /\ Len(StringBase64Encode(t)) = 4 * ((Len(t) + 2) \div 3)

CompareLaws(t, u) ==
  /\ Compare(t, u) = -Compare(u, t) /\ (Compare(t, u) = 0 <=> t = u)
  /\ Ext!IsStrictPrefix(t, u) => Compare(t, u) = -1

StringsOf(t) == BufferLaws(Held(t)) /\ TextLaws(t)
PartsOf(t) == \A p \in Parts : RewriteLaws(t, p) /\ CompareLaws(t, p) /\ \A pos \in 0..Len(t) : FindLaws(t, p, pos)

\* The registry holds exactly the Strings alive, each where it is looked for,
\* and always has a free slot to stop at.
RegistryLaws(r, alive) ==
  /\ r.count = Cardinality(alive) /\ {r.slots[i] : i \in Live(r.slots)} = alive /\ Cardinality(Live(r.slots)) = r.count
  /\ \A p \in 1..5 : Removed(r, p).done = (p \in alive)
  /\ Cap(r) > 0 => \E i \in DOMAIN r.slots : r.slots[i] = NULL
  /\ r.used = Cardinality({i \in DOMAIN r.slots : r.slots[i] # NULL})

------------------------------------------------------------------------------
(***************************************************************************)
(* encoding/encoding.c: bytes as text and back. A character of an alphabet *)
(* is its index, PAD the '=', UNKNOWN a character the decoder's table does   *)
(* not know, NONE a NULL result.                                           *)
(***************************************************************************)

CONSTANTS WORD_BYTE,   \* 256: the values of a byte in Ascii85's 32-bit words
          ASCII85      \* 85: its radix

ENCODING_PAD == -1
UNKNOWN == -2
SPACE == -3
ZED == -4
ENCODING_NONE == <<-5>>

LeadingCount(s, x) == IF \A i \in DOMAIN s : s[i] = x THEN Len(s) ELSE (CHOOSE i \in DOMAIN s : s[i] # x /\ \A j \in 1..i - 1 : s[j] = x) - 1
Flat(n, part(_)) == Ext!FlattenSeq([i \in 1..n |-> part(i)])

\* Three octets, those past the end 0, as four sextets; the last ones padded
EncodingBase64Encode(input) ==
  LET n == Len(input)
      octet(i) == IF i <= n THEN input[i] ELSE 0
      triple(k) == octet(3 * k - 2) * 65536 + octet(3 * k - 1) * 256 + octet(3 * k)
      coded == Flat((n + 2) \div 3, LAMBDA k : <<triple(k) \div 262144, (triple(k) \div 4096) % 64, (triple(k) \div 64) % 64, triple(k) % 64>>)
      pads == (3 - (n % 3)) % 3
  IN  [i \in DOMAIN coded |-> IF i > Len(coded) - pads THEN ENCODING_PAD ELSE coded[i]]
\* A character the table does not know counts as 0.
Base64DecodeEx(input) ==
  LET n == Len(input)
      sextet(i) == IF input[i] < 0 THEN 0 ELSE input[i]
      triple(k) == sextet(4 * k - 3) * 262144 + sextet(4 * k - 2) * 4096 + sextet(4 * k - 1) * 64 + sextet(4 * k)
      decoded == Flat(n \div 4, LAMBDA k : <<triple(k) \div 65536, (triple(k) \div 256) % 256, triple(k) % 256>>)
      pads == (IF input[n] = ENCODING_PAD THEN 1 ELSE 0) + (IF input[n - 1] = ENCODING_PAD THEN 1 ELSE 0)
  IN  IF n % 4 # 0 THEN ENCODING_NONE ELSE IF n = 0 THEN <<>> ELSE SubSeq(decoded, 1, Len(decoded) - pads)

\* Five bits at a time of a buffer the bytes are shifted into
RECURSIVE Base32From(_, _, _, _)
Base32From(input, buffer, bits, out) ==
  IF bits >= 5 THEN Base32From(input, buffer, bits - 5, Append(out, (buffer \div 2 ^ (bits - 5)) % 32))
  ELSE IF input # <<>> THEN Base32From(Tail(input), (buffer * 256 + Head(input)) % 65536, bits + 8, out)
  ELSE IF bits > 0 THEN Append(out, (buffer * 2 ^ (5 - bits)) % 32) ELSE out
Base32Encode(input) ==
  LET coded == Base32From(input, 0, 0, <<>>)
  IN  [i \in 1..((Len(input) + 4) \div 5) * 8 |-> IF i <= Len(coded) THEN coded[i] ELSE ENCODING_PAD]

GetOctet(block) == (block * 5) \div 8
GetOffset(block) == 3 - ((5 * block) % 8)
Shifted(c, offset) == IF offset >= 0 THEN (c * 2 ^ offset) % 256 ELSE c \div 2 ^ (-offset)
\* The octets of eight characters, as many as are whole before the first
\* character that is not of the alphabet
DecodeSequence(coded) ==
  LET bad == {b \in 0..7 : coded[b + 1] < 0}
      stop == IF bad = {} THEN 8 ELSE CHOOSE b \in bad : \A c \in bad : b <= c
      here(o) == {b \in 0..stop - 1 : GetOctet(b) = o}
      spill(o) == {b \in 0..stop - 1 : GetOctet(b) = o - 1 /\ GetOffset(b) < 0}
      octet(o) == Ext!FoldLeft(LAMBDA a, b : a + (IF b \in here(o) THEN Shifted(coded[b + 1], GetOffset(b))
                                               ELSE IF b \in spill(o) THEN Shifted(coded[b + 1], 8 + GetOffset(b)) ELSE 0),
                           0, <<0, 1, 2, 3, 4, 5, 6, 7>>)
  IN  [o \in 1..(IF stop = 8 THEN 5 ELSE GetOctet(stop)) |-> octet(o - 1)]
RECURSIVE Base32DecodeFrom(_)
Base32DecodeFrom(input) ==
  IF input = <<>> \/ Head(input) = ENCODING_PAD THEN <<>>
  ELSE LET block == DecodeSequence(SubSeq(input, 1, 8))
       IN  IF Len(block) < 5 THEN block ELSE block \o Base32DecodeFrom(SubSeq(input, 9, Len(input)))
Base32DecodeEx(input) == IF Len(input) % 8 # 0 THEN ENCODING_NONE ELSE Base32DecodeFrom(input)

Digit(d) == IF d < 10 THEN 48 + d ELSE 55 + d
HexValue(c) ==
  IF c \in 48..57 THEN c - 48 ELSE IF c \in 65..70 THEN c - 55 ELSE IF c \in 97..102 THEN c - 87 ELSE -1
Base16Encode(input) == Flat(Len(input), LAMBDA i : <<Digit(input[i] \div 16), Digit(input[i] % 16)>>)
Base16DecodeEx(input) ==
  IF Len(input) % 2 # 0 \/ \E i \in DOMAIN input : HexValue(input[i]) < 0 THEN ENCODING_NONE
  ELSE [i \in 1..Len(input) \div 2 |-> HexValue(input[2 * i - 1]) * 16 + HexValue(input[2 * i])]

\* Letters, digits and - . _ ~ stand for themselves.
Unreserved == (48..57) \union (65..90) \union (97..122) \union {45, 46, 95, 126}
UrlEncode(input) ==
  Flat(Len(input), LAMBDA i : IF input[i] \in Unreserved THEN <<input[i]>>
                              ELSE <<37, Digit(input[i] \div 16), Digit(input[i] % 16)>>)
RECURSIVE UrlDecodeFrom(_, _, _)
UrlDecodeFrom(input, i, out) ==
  IF i > Len(input) THEN out
  ELSE IF input[i] # 37 THEN UrlDecodeFrom(input, i + 1, Append(out, IF input[i] = 43 THEN 32 ELSE input[i]))
  ELSE IF i + 2 > Len(input) \/ HexValue(input[i + 1]) < 0 \/ HexValue(input[i + 2]) < 0 THEN ENCODING_NONE
  ELSE UrlDecodeFrom(input, i + 3, Append(out, HexValue(input[i + 1]) * 16 + HexValue(input[i + 2])))
UrlDecode(input) == UrlDecodeFrom(input, 1, <<>>)

\* Four bytes are one word of five digits; a word of zeros is z. n bytes left
\* over are n + 1 digits.
Word(input, i) == Ext!FoldLeft(LAMBDA a, b : a * WORD_BYTE + b, 0, [k \in 1..4 |-> IF i + k - 1 <= Len(input) THEN input[i + k - 1] ELSE 0])
RadixDigits(word) == [k \in 1..5 |-> (word \div ASCII85 ^ (5 - k)) % ASCII85]
RECURSIVE Base85From(_, _)
Base85From(input, i) ==
  LET left == Len(input) - i + 1
  IN  IF left <= 0 THEN <<>>
      ELSE IF left < 4 THEN SubSeq(RadixDigits(Word(input, i)), 1, left + 1)
      ELSE (IF Word(input, i) = 0 THEN <<ZED>> ELSE RadixDigits(Word(input, i))) \o Base85From(input, i + 4)
Base85Encode(input) == IF input = <<>> THEN ENCODING_NONE ELSE Base85From(input, 1)

\* Of up to five characters those that are not spaces; fewer than five end the
\* text and are filled up with the highest digit.
RECURSIVE Base85DecodeFrom(_, _, _)
Base85DecodeFrom(input, i, out) ==
  LET last == IF i + 4 > Len(input) THEN Len(input) ELSE i + 4
      group == SelectSeq(SubSeq(input, i, last), LAMBDA c : c # SPACE)
      padding == 5 - Len(group)
      acc == Ext!FoldLeft(LAMBDA a, d : (a * ASCII85 + d) % WORD_BYTE ^ 4, 0, [k \in 1..5 |-> IF k <= Len(group) THEN group[k] ELSE ASCII85 - 1])
      bytes == [k \in 1..4 |-> (acc \div WORD_BYTE ^ (4 - k)) % WORD_BYTE]
  IN  IF i > Len(input) THEN out
      ELSE IF input[i] = SPACE THEN Base85DecodeFrom(input, i + 1, out)
      ELSE IF input[i] = ZED THEN Base85DecodeFrom(input, i + 1, out \o <<0, 0, 0, 0>>)
      ELSE IF \E k \in DOMAIN group : group[k] < 0 THEN ENCODING_NONE
      ELSE IF padding = 0 THEN Base85DecodeFrom(input, i + 5, out \o bytes) ELSE out \o SubSeq(bytes, 1, 4 - padding)
Base85Decode(input) == IF input = <<>> THEN ENCODING_NONE ELSE Base85DecodeFrom(input, 1, <<>>)

\* carry + number * by into a number of base digits, from its lowest digit up
\* to where the number ends so far
RECURSIVE Carried(_, _, _, _, _, _)
Carried(buf, j, high, carry, by, base) ==
  LET sum == carry + by * buf[j + 1]
      next == [buf EXCEPT ![j + 1] = sum % base]
  IN  IF j <= high /\ carry = 0 THEN [buf |-> buf, high |-> j]
      ELSE IF j = 0 THEN [buf |-> next, high |-> 0] ELSE Carried(next, j - 1, high, sum \div base, by, base)
Zeros(n) == [i \in 1..n |-> 0]
Converted(digits, size, by, base) ==
  LET all == Ext!FoldLeft(LAMBDA r, d : Carried(r.buf, size - 1, r.high, d, by, base), [buf |-> Zeros(size), high |-> size - 1], digits)
  IN  SubSeq(all.buf, LeadingCount(all.buf, 0) + 1, size)

Base58Encode(bin) ==
  LET zcount == LeadingCount(bin, 0)
      size == ((Len(bin) - zcount) * 138) \div 100 + 1
  IN  Zeros(zcount) \o Converted(SubSeq(bin, zcount + 1, Len(bin)), size, 256, 58)
Base58Decode(b58) ==
  IF \E i \in DOMAIN b58 : b58[i] < 0 THEN ENCODING_NONE
  ELSE Zeros(LeadingCount(b58, 0)) \o Converted(b58, (Len(b58) * 733) \div 1000 + 1, 58, 256)

\* Two characters for 13 bits, or for 14 when the 13 are at most 88
RECURSIVE Base91From(_, _, _, _, _)
Base91From(data, b, n, room, out) ==
  LET v == IF b % 8192 > 88 THEN b % 8192 ELSE b % 16384
      used == IF b % 8192 > 88 THEN 13 ELSE 14
  IN  IF n > 13
      THEN IF Len(out) + 2 >= room THEN ENCODING_NONE
           ELSE Base91From(data, b \div 2 ^ used, n - used, room, out \o <<v % 91, v \div 91>>)
      ELSE IF data # <<>> THEN Base91From(Tail(data), b + Head(data) * 2 ^ n, n + 8, room, out)
      ELSE IF n = 0 THEN out
      ELSE LET one == IF Len(out) + 1 < room THEN Append(out, b % 91) ELSE out
           IN  IF (n > 7 \/ b > 90) /\ Len(one) + 1 < room THEN Append(one, b \div 91) ELSE one
Base91Encode(data) == IF data = <<>> THEN ENCODING_NONE ELSE Base91From(data, 0, 0, (Len(data) * 123) \div 100 + 2, <<>>)

RECURSIVE Base91DecodeFrom(_, _, _, _, _)
Base91DecodeFrom(encoded, v, b, n, out) ==
  LET w == v + Head(encoded) * 91
      grown == b + w * 2 ^ n
      bits == n + (IF w % 8192 > 88 THEN 13 ELSE 14)
      bytes == [k \in 1..bits \div 8 |-> (grown \div 256 ^ (k - 1)) % 256]
  IN  IF encoded = <<>> THEN IF v = -1 THEN out ELSE Append(out, (b + v * 2 ^ n) % 256)
      ELSE IF Head(encoded) < 0 THEN ENCODING_NONE
      ELSE IF v < 0 THEN Base91DecodeFrom(Tail(encoded), Head(encoded), b, n, out)
      ELSE Base91DecodeFrom(Tail(encoded), -1, grown \div 256 ^ (bits \div 8), bits % 8, out \o bytes)
Base91Decode(encoded) == Base91DecodeFrom(encoded, -1, 0, 0, <<>>)

------------------------------------------------------------------------------
(***************************************************************************)
(* encoding/encoding.c: UTF-8, UTF-16 and UTF-32, each a sequence of code  *)
(* units. A conversion is [result, units]; NONE is a NULL result.          *)
(***************************************************************************)

HIGH == 55296..56319      \* UNI_SUR_HIGH_START..UNI_SUR_HIGH_END
LOW == 56320..57343       \* UNI_SUR_LOW_START..UNI_SUR_LOW_END
REPLACEMENT == 65533
HALF_BASE == 65536
MAX_LEGAL == 1114111

TrailingBytes(b) == IF b < 192 THEN 0 ELSE IF b < 224 THEN 1 ELSE IF b < 240 THEN 2 ELSE IF b < 248 THEN 3 ELSE IF b < 252 THEN 4 ELSE 5

\* One character of the given length: a lead byte and what may follow it
IsUtf8(input) ==
  LET n == Len(input)
      second == CASE input[1] = 224 -> 160..191 [] input[1] = 237 -> 128..159 [] input[1] = 240 -> 144..191
                  [] input[1] = 244 -> 128..143 [] OTHER -> 128..191
  IN  /\ n \in 1..4 /\ input[1] <= 244
      /\ ~(input[1] >= 128 /\ input[1] < 194)
      /\ n >= 2 => input[2] \in second
      /\ \A i \in 3..n : input[i] \in 128..191

\* The bytes one code point is written as
Utf8Units(ch) ==
  CASE ch < 128 -> <<ch>>
    [] ch >= 128 /\ ch < 2048 -> <<192 + ch \div 64, 128 + (ch % 64)>>
    [] ch >= 2048 /\ ch < 65536 -> <<224 + ch \div 4096, 128 + ((ch \div 64) % 64), 128 + (ch % 64)>>
    [] OTHER -> <<240 + ch \div 262144, 128 + ((ch \div 4096) % 64), 128 + ((ch \div 64) % 64), 128 + (ch % 64)>>

RECURSIVE ConvertUTF16toUTF8(_, _, _, _)
ConvertUTF16toUTF8(source, room, strict, out) ==
  LET ch == Head(source)
      pair == Len(source) > 1 /\ source[2] \in LOW
      point == IF ch \in HIGH /\ pair THEN (ch - 55296) * 1024 + (source[2] - 56320) + HALF_BASE ELSE ch
      units == Utf8Units(point)
      with(result) == [result |-> result, units |-> out]
  IN  IF source = <<>> THEN with("ok")
      ELSE IF ch \in HIGH /\ Len(source) = 1 THEN with("exhausted")
      ELSE IF strict /\ (ch \in LOW \/ (ch \in HIGH /\ ~pair)) THEN with("illegal")
      ELSE IF Len(out) + Len(units) > room THEN with("targetExhausted")
      ELSE ConvertUTF16toUTF8(SubSeq(source, IF point # ch THEN 3 ELSE 2, Len(source)), room, strict, out \o units)

\* A code point past the last legal one is replaced, and the result stays
\* illegal.
RECURSIVE ConvertUTF32toUTF8(_, _, _, _, _)
ConvertUTF32toUTF8(source, room, strict, result, out) ==
  LET ch == Head(source)
      units == Utf8Units(IF ch > MAX_LEGAL THEN REPLACEMENT ELSE ch)
  IN  IF source = <<>> THEN [result |-> result, units |-> out]
      ELSE IF strict /\ ch \in HIGH \union LOW THEN [result |-> "illegal", units |-> out]
      ELSE IF Len(out) + Len(units) > room THEN [result |-> "targetExhausted", units |-> out]
      ELSE ConvertUTF32toUTF8(Tail(source), room, strict, IF ch > MAX_LEGAL THEN "illegal" ELSE result, out \o units)

\* The six bits of every byte that follows the lead, under the lead's own
Utf8Point(bytes) ==
  LET lead == bytes[1] - <<0, 192, 224, 240>>[Len(bytes)]
      point[i \in 1..Len(bytes)] == IF i = 1 THEN lead ELSE point[i - 1] * 64 + (bytes[i] - 128)
  IN  point[Len(bytes)]
Utf16Units(ch) ==
  IF ch < HALF_BASE THEN <<ch>> ELSE <<(ch - HALF_BASE) \div 1024 + 55296, ((ch - HALF_BASE) % 1024) + 56320>>

\* Both conversions from UTF-8: to a unit for every character, or to surrogates
RECURSIVE ConvertUTF8(_, _, _, _, _)
ConvertUTF8(source, room, strict, to16, out) ==
  LET n == TrailingBytes(Head(source)) + 1
      bytes == SubSeq(source, 1, n)
      ch == Utf8Point(bytes)
      units == IF ch \in HIGH \union LOW THEN <<REPLACEMENT>> ELSE IF to16 THEN Utf16Units(ch) ELSE <<ch>>
      with(result) == [result |-> result, units |-> out]
  IN  IF source = <<>> THEN with("ok")
      ELSE IF n > Len(source) THEN with("exhausted")
      ELSE IF ~IsUtf8(bytes) THEN with("illegal")
      ELSE IF Len(out) + Len(units) > room THEN with("targetExhausted")
      ELSE IF strict /\ ch \in HIGH \union LOW THEN with("illegal")
      ELSE ConvertUTF8(SubSeq(source, n + 1, Len(source)), room, strict, to16, out \o units)
ConvertUTF8toUTF16(source, room, strict) == ConvertUTF8(source, room, strict, TRUE, <<>>)
ConvertUTF8toUTF32(source, room, strict) == ConvertUTF8(source, room, strict, FALSE, <<>>)

Unless(input, converted) == IF input = <<>> \/ converted.result # "ok" THEN NONE ELSE converted.units
Utf16ToUtf8(input) == Unless(input, ConvertUTF16toUTF8(input, Len(input) * 4, FALSE, <<>>))
Utf32ToUtf8(input) == Unless(input, ConvertUTF32toUTF8(input, Len(input) * 4, FALSE, "ok", <<>>))
Utf8ToUtf16(input) == Unless(input, ConvertUTF8toUTF16(input, Len(input) * 2, FALSE))
Utf8ToUtf32(input) == Unless(input, ConvertUTF8toUTF32(input, Len(input), FALSE))

RECURSIVE Utf32To16From(_)
Utf32To16From(input) == IF input = <<>> THEN <<>> ELSE Utf16Units(Head(input)) \o Utf32To16From(Tail(input))
Utf32ToUtf16(input) ==
  IF input = <<>> \/ \E i \in DOMAIN input : input[i] > MAX_LEGAL THEN NONE ELSE Utf32To16From(input)
\* A high surrogate needs its low one; a low one alone is kept.
RECURSIVE Utf16To32From(_, _)
Utf16To32From(input, out) ==
  LET ch == Head(input)
  IN  IF input = <<>> THEN out
      ELSE IF ch \notin HIGH THEN Utf16To32From(Tail(input), Append(out, ch))
      ELSE IF Len(input) = 1 \/ input[2] \notin LOW THEN NONE
      ELSE Utf16To32From(SubSeq(input, 3, Len(input)), Append(out, (ch - 55296) * 1024 + (input[2] - 56320) + HALF_BASE))
Utf16ToUtf32(input) == IF input = <<>> THEN NONE ELSE Utf16To32From(input, <<>>)

RECURSIVE AllUtf8(_)
AllUtf8(source) ==
  LET n == TrailingBytes(Head(source)) + 1
  IN  source = <<>> \/ (n <= Len(source) /\ IsUtf8(SubSeq(source, 1, n)) /\ AllUtf8(SubSeq(source, n + 1, Len(source))))
IsUtf8String(input) == input # <<>> /\ AllUtf8(input)

------------------------------------------------------------------------------
(***************************************************************************)
(* What the functions of Encoding and Unicode must return. Decoding undoes *)
(* encoding, the encoded text is as long as its standard says, and the     *)
(* UTF forms are those of the Unicode standard.                            *)
(***************************************************************************)

Bits(bytes) == Ext!FlattenSeq([i \in DOMAIN bytes |-> [k \in 1..8 |-> (bytes[i] \div 2 ^ (8 - k)) % 2]])
\* The value of the bits i to i + n - 1, those past the end being 0
Field(bits, i, n) == Ext!FoldLeft(LAMBDA a, k : 2 * a + (IF k <= Len(bits) THEN bits[k] ELSE 0), 0, [k \in 1..n |-> i + k - 1])
Fields(bytes, n) == [k \in 1..(8 * Len(bytes) + n - 1) \div n |-> Field(Bits(bytes), (k - 1) * n + 1, n)]
Upto(text) == SelectSeq(text, LAMBDA c : c # ENCODING_PAD)
Lower(text) == [i \in DOMAIN text |-> IF text[i] \in 65..70 THEN text[i] + 32 ELSE text[i]]
Value(digits, base) == Ext!FoldLeft(LAMBDA a, d : a * base + d, 0, digits)

CodecLaws(b) ==
  LET b64 == EncodingBase64Encode(b)
      b32 == Base32Encode(b)
      b16 == Base16Encode(b)
      b58 == Base58Encode(b)
      b91 == Base91Encode(b)
      url == UrlEncode(b)
      words == [i \in DOMAIN b |-> b[i] % 16]
      b85 == Base85Encode(words)
  IN  /\ Upto(b64) = Fields(b, 6) /\ Len(b64) % 4 = 0 /\ Len(b64) < Len(Upto(b64)) + 4 /\ Base64DecodeEx(b64) = b
      /\ Upto(b32) = Fields(b, 5) /\ Len(b32) % 8 = 0 /\ Len(b32) < Len(Upto(b32)) + 8 /\ Base32DecodeEx(b32) = b
      /\ Base64DecodeEx(Append(b64, 1)) = ENCODING_NONE /\ Base32DecodeEx(Append(b32, 1)) = ENCODING_NONE
      /\ Base16DecodeEx(b16) = b /\ Base16DecodeEx(Lower(b16)) = b /\ Base16DecodeEx(Append(b16, 48)) = ENCODING_NONE
      /\ UrlDecode(url) = b /\ Ext!ToSet(url) \subseteq Unreserved \union {37}
      /\ UrlDecode(Append(url, 37)) = ENCODING_NONE /\ UrlDecode(url \o <<43>>) = Append(b, 32)
      /\ Base58Decode(b58) = b /\ LeadingCount(b58, 0) = LeadingCount(b, 0)
      /\ Len(b) <= 3 => Value(b58, 58) = Value(b, 256)
      /\ Base58Decode(Append(b58, UNKNOWN)) = ENCODING_NONE
      /\ b # <<>> =>
           /\ Base85Decode(b85) = words /\ Base85Decode(<<SPACE>> \o b85) = words
           /\ Base85Decode(Append(b85, UNKNOWN)) \in {ENCODING_NONE}
           /\ \A i \in DOMAIN b85 : b85[i] = ZED => \E k \in 1..Len(words) - 3 : \A m \in k..k + 3 : words[m] = 0
           /\ Base91Decode(b91) = b /\ Base91Decode(Append(b91, UNKNOWN)) = ENCODING_NONE
           /\ 13 * Len(b91) <= 16 * Len(b) + 26

IsScalar(p) == p \in 0..1114111 /\ p \notin HIGH \union LOW

\* Well-formed, and read alike by every decoder: the points it stands for are
\* written back as it was
Utf8Laws(text) ==
  LET points == Utf8ToUtf32(text)
      wellFormed == points # NONE /\ \A i \in DOMAIN points : IsScalar(points[i])
      \* one byte of each character is not a continuation
      starts == Len(SelectSeq(text, LAMBDA c : c \notin 128..191))
  IN  text # <<>> =>
      /\ IsUtf8String(text) = wellFormed
      /\ (points = NONE) = (Utf8ToUtf16(text) = NONE)
      /\ wellFormed => /\ Len(points) = starts
                       /\ Utf32ToUtf8(points) = text
                       /\ Utf8ToUtf16(text) = Utf32ToUtf16(points) /\ Utf16ToUtf8(Utf8ToUtf16(text)) = text
                       /\ ConvertUTF8toUTF16(text, Len(text) * 2, TRUE).result = "ok"

PointLaws(points) ==
  points # <<>> =>
  /\ Utf8ToUtf32(Utf32ToUtf8(points)) = points /\ Utf16ToUtf32(Utf32ToUtf16(points)) = points
  /\ IsUtf8String(Utf32ToUtf8(points)) /\ Utf16ToUtf8(Utf32ToUtf16(points)) = Utf32ToUtf8(points)
  /\ Len(Utf32ToUtf16(points)) = Len(points) + Len(SelectSeq(points, LAMBDA p : p >= 65536))
  \* cutting a pair or a character in two is noticed
  /\ points[Len(points)] >= 65536 =>
       /\ Utf16ToUtf32(Ext!Front(Utf32ToUtf16(points))) = NONE /\ Utf16ToUtf8(Ext!Front(Utf32ToUtf16(points))) = NONE
       /\ Utf8ToUtf16(Ext!Front(Utf32ToUtf8(points))) = NONE
  /\ Utf32ToUtf8(Append(points, 1114112)) = NONE /\ Utf32ToUtf16(Append(points, 1114112)) = NONE
==============================================================================
