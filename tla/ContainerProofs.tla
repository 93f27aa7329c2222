---------------------------- MODULE ContainerProofs ----------------------------
(***************************************************************************)
(* Vectors, queues, stacks and priority queues of any number of items, of  *)
(* any size, called in any order with or without memory to be had.         *)
(***************************************************************************)
EXTENDS Vector, SequenceTheorems, FiniteSetTheorems, WellFoundedInduction, TLAPS

\* As long as no vector fills more than half of the memory there can be, or its items are
\* bytes, doubling its capacity asks for no more than can be addressed.
RoomToDouble == ItemSize = 1 \/ 2 * MaxLength <= SizeMax \div ItemSize

-----------------------------------------------------------------------------
(* Numbers                                                                 *)

\* The sizes are numbers, and a new vector can be addressed.
LEMMA Sizes ==
  /\ SizeMax \in Nat /\ InitialCapacity \in Nat /\ EmptyCapacity \in Nat /\ ItemSize \in Nat
  /\ 0 < InitialCapacity /\ 0 < EmptyCapacity /\ 0 < ItemSize /\ EmptyCapacity <= InitialCapacity
  /\ InitialCapacity <= SizeMax
  /\ InitialCapacity * ItemSize <= SizeMax
BY VectorAssumption

\* A quotient is the largest number of times the divisor fits.
LEMMA DivIs ==
  ASSUME NEW a \in Nat, NEW b \in Nat, 0 < b, NEW c \in Nat
  PROVE  a \div b \in Nat /\ (c <= a \div b <=> c * b <= a)
OBVIOUS

\* A size_t keeps what it can hold, and wraps once for less than twice that.
LEMMA ModIs ==
  ASSUME NEW a \in Nat, NEW m \in Nat
  PROVE  /\ a % (m + 1) \in Nat
         /\ a <= m => a % (m + 1) = a
         /\ m < a /\ a <= 2 * m => a % (m + 1) = a - (m + 1)
OBVIOUS

\* What can be addressed.
LEMMA Addressable ==
  /\ SizeMax \div ItemSize \in Nat
  /\ \A c \in Nat : c <= SizeMax \div ItemSize <=> c * ItemSize <= SizeMax
  /\ EmptyCapacity <= SizeMax \div ItemSize /\ InitialCapacity <= SizeMax \div ItemSize
  /\ MaxLength \in Nat /\ MaxLength <= SizeMax \div ItemSize
<1>1. SizeMax \div ItemSize \in Nat
  BY Sizes, DivIs
<1>2. \A c \in Nat : c <= SizeMax \div ItemSize <=> c * ItemSize <= SizeMax
  BY Sizes, DivIs
<1>3. InitialCapacity <= SizeMax \div ItemSize
  BY <1>2, Sizes
<1>4. EmptyCapacity <= SizeMax \div ItemSize
  BY <1>1, <1>3, Sizes
<1>5. MaxLength \in Nat /\ MaxLength <= SizeMax \div ItemSize
  BY <1>1, VectorClientAssumption
<1> QED
  BY <1>1, <1>2, <1>3, <1>4, <1>5

-----------------------------------------------------------------------------
(* The functions of a vector                                               *)

\* Vectors of items of a set
Struct(X) == [items : Seq(X), capacity : Nat]
Sound(v, X) == v \in Struct(X) /\ Fits(v)

\* What the fields of a vector are.
LEMMA FieldsAre ==
  ASSUME NEW X, NEW v \in Struct(X)
  PROVE  /\ v.items \in Seq(X) /\ v.capacity \in Nat /\ Size(v) \in Nat
         /\ \A s \in Seq(X) : /\ [v EXCEPT !.items = s] \in Struct(X)
                              /\ [v EXCEPT !.items = s].items = s
                              /\ [v EXCEPT !.items = s].capacity = v.capacity
         /\ \A c \in Nat : /\ [v EXCEPT !.capacity = c] \in Struct(X)
                           /\ [v EXCEPT !.capacity = c].items = v.items
                           /\ [v EXCEPT !.capacity = c].capacity = c
BY LenProperties DEF Struct, Size

\* A vector keeps fitting its slots with as many items, or with fewer.
LEMMA StillFits ==
  ASSUME NEW X, NEW v, Sound(v, X), NEW s \in Seq(X), Len(s) <= v.capacity,
         NEW w, w = [v EXCEPT !.items = s]
  PROVE  Sound(w, X) /\ w.items = s /\ w.capacity = v.capacity
BY FieldsAre DEF Sound, Fits, Size

\* A new vector is empty and fits.
LEMMA CreateSound ==
  ASSUME NEW X
  PROVE  Sound(VectorCreate, X) /\ VectorCreate.items = <<>>
<1>1. VectorCreate.items = <<>> /\ VectorCreate.capacity = InitialCapacity
  BY DEF VectorCreate
<1>2. VectorCreate \in Struct(X)
  BY Sizes DEF VectorCreate, Struct
<1> QED
  BY <1>1, <1>2, Sizes DEF Sound, Fits, Size

\* Reallocation keeps the items, and fails only for want of memory.
LEMMA ReallocIs ==
  ASSUME NEW X, NEW v, Sound(v, X), NEW c \in Nat, Size(v) <= c, NEW memory \in BOOLEAN,
         NEW w, w = Realloc(v, c, memory)
  PROVE  /\ Sound(w, X) /\ w.items = v.items
         /\ w = v \/ w.capacity = c
         /\ memory /\ c <= SizeMax \div ItemSize => w.capacity = c
<1>1. v \in Struct(X) /\ Fits(v)
  BY DEF Sound
<1>2. CASE c = 0 \/ (c <= SizeMax \div ItemSize /\ memory)
  <2>1. w = [v EXCEPT !.capacity = c]
    BY <1>2 DEF Realloc
  <2>2. w \in Struct(X) /\ w.items = v.items /\ w.capacity = c
    BY <1>1, <2>1, FieldsAre
  <2>3. c <= SizeMax \div ItemSize
    BY <1>2, Addressable
  <2>4. c * ItemSize <= SizeMax
    BY <2>3, Addressable
  <2>5. Fits(w)
    BY <2>2, <2>4 DEF Fits, Size
  <2> QED
    BY <2>2, <2>5 DEF Sound
<1>3. CASE ~(c = 0 \/ (c <= SizeMax \div ItemSize /\ memory))
  <2>1. w = v
    BY <1>3 DEF Realloc
  <2> QED
    BY <1>3, <2>1
<1> QED
  BY <1>2, <1>3

\* The next capacity is enough, and can be addressed as long as vectors are small.
LEMMA NextCapacityIs ==
  ASSUME NEW X, NEW v, Sound(v, X), ~HasRoom(v),
         NEW next, next = NextCapacity(v, Size(v) + 1)
  PROVE  /\ next \in Nat /\ Size(v) + 1 <= next
         /\ RoomToDouble /\ Size(v) < MaxLength => next <= SizeMax \div ItemSize
<1> DEFINE cap == v.capacity
           n == Size(v)
           most == SizeMax \div ItemSize
           doubled == IF cap = 0 THEN EmptyCapacity ELSE (cap * 2) % (SizeMax + 1)
           wrapped == cap # 0 /\ doubled \div 2 # cap
           larger == IF wrapped THEN most ELSE doubled
<1>1. next = IF larger < n + 1 THEN n + 1 ELSE larger
  BY DEF NextCapacity
<1>2. cap \in Nat /\ n \in Nat /\ cap = n /\ cap * ItemSize <= SizeMax
  BY FieldsAre DEF Sound, Fits, HasRoom
<1>3. most \in Nat /\ EmptyCapacity <= most /\ EmptyCapacity \in Nat /\ SizeMax \in Nat
      /\ MaxLength \in Nat /\ MaxLength <= most
  BY Sizes, Addressable
<1>4. cap <= most /\ cap * 2 \in Nat
  BY <1>2, Addressable
<1>5. most <= SizeMax
  <2>1. most * ItemSize <= SizeMax
    BY <1>3, Addressable
  <2>2. most <= most * ItemSize
    BY <1>3, Sizes
  <2> QED
    BY <1>3, <2>1, <2>2, Sizes
<1>6. doubled \in Nat
  BY <1>3, <1>4, ModIs
<1>7. (RoomToDouble /\ n < MaxLength) => larger <= most
  <2> SUFFICES ASSUME RoomToDouble, n < MaxLength PROVE larger <= most
    OBVIOUS
  <2>1. CASE cap = 0
    BY <1>3, <2>1
  <2>2. CASE cap # 0 /\ cap * 2 <= SizeMax
    <3>1. doubled = cap * 2
      BY <1>3, <1>4, <2>2, ModIs
    <3>2. doubled \div 2 = cap
      BY <1>2, <3>1
    <3>3. CASE ItemSize = 1
      <4>1. cap * 2 <= most
        BY <1>4, <2>2, <3>3, Addressable
      <4> QED
        BY <3>1, <3>2, <4>1
    <3>4. CASE 2 * MaxLength <= most
      <4>1. cap * 2 <= most
        BY <1>2, <1>3, <3>4
      <4> QED
        BY <3>1, <3>2, <4>1
    <3> QED
      BY <3>3, <3>4 DEF RoomToDouble
  <2>3. CASE cap # 0 /\ cap * 2 > SizeMax
    <3>1. cap * 2 <= 2 * SizeMax
      BY <1>2, <1>3, <1>4, <1>5
    <3>2. doubled = cap * 2 - (SizeMax + 1)
      BY <1>3, <1>4, <2>3, <3>1, ModIs
    <3>3. doubled < cap * 2
      BY <1>2, <1>3, <3>2
    <3>4. doubled \div 2 # cap
      BY <1>2, <1>6, <3>3
    <3> HIDE DEF doubled
    <3> QED
      BY <1>3, <2>3, <3>4
  <2> QED
    BY <1>2, <1>3, <1>4, <2>1, <2>2, <2>3
<1>8. larger \in Nat
  BY <1>3, <1>6
<1> HIDE DEF larger, most, n
<1>9. next \in Nat /\ n + 1 <= next /\ (larger <= most /\ n < MaxLength => next <= most)
  BY <1>1, <1>2, <1>3, <1>8
<1> QED
  BY <1>7, <1>9 DEF n, most

\* Making room keeps the items; there is room then, but for memory.
LEMMA EnsureIs ==
  ASSUME NEW X, NEW v, Sound(v, X), NEW memory \in BOOLEAN,
         NEW w, w = EnsureOneMore(v, memory)
  PROVE  /\ Sound(w, X) /\ w.items = v.items
         /\ RoomToDouble /\ Size(v) < MaxLength /\ memory => HasRoom(w)
<1>1. CASE HasRoom(v)
  BY <1>1 DEF EnsureOneMore
<1>2. CASE ~HasRoom(v)
  <2> DEFINE next == NextCapacity(v, Size(v) + 1)
  <2>1. w = Realloc(v, next, memory)
    BY <1>2 DEF EnsureOneMore
  <2>2. /\ next \in Nat /\ Size(v) + 1 <= next
        /\ RoomToDouble /\ Size(v) < MaxLength => next <= SizeMax \div ItemSize
    BY <1>2, NextCapacityIs
  <2> HIDE DEF next
  <2>3. Size(v) \in Nat
    BY FieldsAre DEF Sound
  <2>4. Size(v) <= next /\ Size(v) < next
    BY <2>2, <2>3
  <2>5. /\ Sound(w, X) /\ w.items = v.items
        /\ memory /\ next <= SizeMax \div ItemSize => w.capacity = next
    BY <2>1, <2>2, <2>4, ReallocIs
  <2>6. Size(w) = Size(v)
    BY <2>5 DEF Size
  <2> QED
    BY <2>2, <2>4, <2>5, <2>6 DEF HasRoom
<1> QED
  BY <1>1, <1>2

\* A push puts the item at the back, or, without memory, nothing.
LEMMA PushBackIs ==
  ASSUME NEW X, NEW v, Sound(v, X), NEW x \in X, NEW memory \in BOOLEAN,
         NEW w, w = PushBack(v, x, memory)
  PROVE  /\ Sound(w, X)
         /\ \/ w.items = Append(v.items, x) /\ Size(w) = Size(v) + 1
            \/ w.items = v.items /\ Size(w) = Size(v) /\ ~HasRoom(v)
               /\ (RoomToDouble /\ Size(v) < MaxLength => ~memory)
         /\ HasRoom(v) => w.items = Append(v.items, x) /\ w.capacity = v.capacity
<1> DEFINE ensured == EnsureOneMore(v, memory)
<1>1. /\ Sound(ensured, X) /\ ensured.items = v.items
      /\ RoomToDouble /\ Size(v) < MaxLength /\ memory => HasRoom(ensured)
      /\ HasRoom(v) => ensured = v
      /\ w = IF HasRoom(ensured) THEN [ensured EXCEPT !.items = Append(@, x)] ELSE ensured
  BY EnsureIs DEF PushBack, EnsureOneMore
<1> HIDE DEF ensured
<1>2. PICK u :
        /\ Sound(u, X) /\ u.items = v.items
        /\ RoomToDouble /\ Size(v) < MaxLength /\ memory => HasRoom(u)
        /\ HasRoom(v) => u = v
        /\ w = IF HasRoom(u) THEN [u EXCEPT !.items = Append(@, x)] ELSE u
  BY <1>1
<1>3. u.items \in Seq(X) /\ u.capacity \in Nat /\ Size(u) \in Nat /\ Size(u) = Size(v)
  BY <1>2, FieldsAre DEF Sound, Size
<1>4. PICK s : s = Append(u.items, x) /\ s \in Seq(X) /\ Len(s) = Size(u) + 1
  <2>1. Append(u.items, x) \in Seq(X) /\ Len(Append(u.items, x)) = Len(u.items) + 1
    BY <1>3, AppendProperties
  <2> QED
    BY <2>1 DEF Size
<1>5. CASE HasRoom(u)
  <2>1. Len(s) <= u.capacity
    BY <1>3, <1>4, <1>5 DEF HasRoom
  <2>2. w = [u EXCEPT !.items = s]
    BY <1>2, <1>4, <1>5
  <2>3. Sound(w, X) /\ w.items = s /\ w.capacity = u.capacity
    <3>1. Sound(u, X) /\ s \in Seq(X)
      BY <1>2, <1>4
    <3> QED
      BY <2>1, <2>2, <3>1, StillFits
  <2> QED
    BY <1>2, <1>3, <1>4, <2>3 DEF Size
<1>6. CASE ~HasRoom(u)
  BY <1>2, <1>3, <1>6
<1> QED
  BY <1>5, <1>6

-----------------------------------------------------------------------------
(* Sequences                                                               *)

\* What a part of a sequence is, from after its first m items.
LEMMA PartIs ==
  ASSUME NEW X, NEW s \in Seq(X), NEW m \in Nat, NEW n \in m..Len(s)
  PROVE  /\ SubSeq(s, m + 1, n) \in Seq(X) /\ Len(SubSeq(s, m + 1, n)) = n - m
         /\ \A i \in 1..n - m : SubSeq(s, m + 1, n)[i] = s[m + i]
<1>1. Len(s) \in Nat /\ \A i \in 1..Len(s) : s[i] \in X
  BY LenProperties, ElementOfSeq
<1>2. m + 1 \in Int /\ n \in Int /\ \A i \in (m + 1)..n : s[i] \in X
  BY <1>1
<1>3. /\ SubSeq(s, m + 1, n) \in Seq(X)
      /\ Len(SubSeq(s, m + 1, n)) = IF m + 1 <= n THEN n - (m + 1) + 1 ELSE 0
      /\ \A i \in 1..n - (m + 1) + 1 : SubSeq(s, m + 1, n)[i] = s[m + 1 + i - 1]
  BY <1>2, SubSeqProperties
<1>4. n - (m + 1) + 1 = n - m /\ (m + 1 <= n \/ n - m = 0)
  BY <1>1
<1>5. \A i \in 1..n - m : m + 1 + i - 1 = m + i
  BY <1>1
<1> QED
  BY <1>3, <1>4, <1>5

\* The first n items.
LEMMA PrefixIs ==
  ASSUME NEW X, NEW s \in Seq(X), NEW n \in 0..Len(s)
  PROVE  /\ SubSeq(s, 1, n) \in Seq(X) /\ Len(SubSeq(s, 1, n)) = n
         /\ \A i \in 1..n : SubSeq(s, 1, n)[i] = s[i]
<1>1. Len(s) \in Nat
  BY LenProperties
<1>2. 0 \in Nat /\ n \in 0..Len(s)
  OBVIOUS
<1>3. /\ SubSeq(s, 0 + 1, n) \in Seq(X) /\ Len(SubSeq(s, 0 + 1, n)) = n - 0
      /\ \A i \in 1..n - 0 : SubSeq(s, 0 + 1, n)[i] = s[0 + i]
  BY <1>2, PartIs
<1>4. 0 + 1 = 1 /\ n - 0 = n /\ \A i \in 1..n : 0 + i = i
  BY <1>1
<1> QED
  BY <1>3, <1>4

\* Inserting makes a sequence longer by one.
LEMMA InsertAtIs ==
  ASSUME NEW X, NEW s \in Seq(X), NEW pos \in 0..Len(s), NEW x \in X
  PROVE  InsertAt(s, pos + 1, x) \in Seq(X) /\ Len(InsertAt(s, pos + 1, x)) = Len(s) + 1
<1>1. Len(s) \in Nat
  BY LenProperties
<1>2. SubSeq(s, 1, pos) \in Seq(X) /\ Len(SubSeq(s, 1, pos)) = pos
  BY PrefixIs
<1>3. SubSeq(s, pos + 1, Len(s)) \in Seq(X) /\ Len(SubSeq(s, pos + 1, Len(s))) = Len(s) - pos
  <2>1. pos \in Nat /\ Len(s) \in pos..Len(s)
    BY <1>1
  <2> QED
    BY <2>1, PartIs
<1>4. <<x>> \in Seq(X) /\ Len(<<x>>) = 1
  OBVIOUS
<1>5. PICK t : t = SubSeq(s, 1, pos) \o <<x>> /\ t \in Seq(X) /\ Len(t) = pos + 1
  <2>1. PICK r : r = SubSeq(s, 1, pos) /\ r \in Seq(X) /\ Len(r) = pos
    BY <1>2
  <2>2. PICK e : e = <<x>> /\ e \in Seq(X) /\ Len(e) = 1
    BY <1>4
  <2>3. r \in Seq(X) /\ e \in Seq(X)
    BY <2>1, <2>2
  <2>4. r \o e \in Seq(X) /\ Len(r \o e) = Len(r) + Len(e)
    BY <2>3, ConcatProperties
  <2>5. r \o e = SubSeq(s, 1, pos) \o <<x>> /\ Len(r) + Len(e) = pos + 1
    BY <2>1, <2>2
  <2> QED
    BY <2>4, <2>5
<1>6. PICK u : u = SubSeq(s, pos + 1, Len(s)) /\ u \in Seq(X) /\ Len(u) = Len(s) - pos
  BY <1>3
<1>7. t \o u \in Seq(X) /\ Len(t \o u) = pos + 1 + (Len(s) - pos)
  <2>1. t \in Seq(X) /\ u \in Seq(X)
    BY <1>5, <1>6
  <2>2. t \o u \in Seq(X) /\ Len(t \o u) = Len(t) + Len(u)
    BY <2>1, ConcatProperties
  <2> QED
    BY <1>5, <1>6, <2>2
<1>8. InsertAt(s, pos + 1, x) = t \o u
  <2>1. (pos + 1) - 1 = pos
    OBVIOUS
  <2> QED
    BY <1>5, <1>6, <2>1 DEF InsertAt
<1>9. pos + 1 + (Len(s) - pos) = Len(s) + 1
  BY <1>1
<1> QED
  BY <1>7, <1>9, <1>8

\* What is left without len items from pos.
LEMMA WithoutIs ==
  ASSUME NEW X, NEW s \in Seq(X), NEW pos \in Nat, NEW len \in Nat, pos + len <= Len(s)
  PROVE  /\ SubSeq(s, 1, pos) \o SubSeq(s, pos + len + 1, Len(s)) \in Seq(X)
         /\ Len(SubSeq(s, 1, pos) \o SubSeq(s, pos + len + 1, Len(s))) <= Len(s)
<1>1. Len(s) \in Nat
  BY LenProperties
<1>2. SubSeq(s, 1, pos) \in Seq(X) /\ Len(SubSeq(s, 1, pos)) = pos
  <2>1. pos \in 0..Len(s)
    BY <1>1
  <2> QED
    BY <2>1, PrefixIs
<1>3. /\ SubSeq(s, pos + len + 1, Len(s)) \in Seq(X)
      /\ Len(SubSeq(s, pos + len + 1, Len(s))) = Len(s) - (pos + len)
  <2>1. pos + len \in Nat /\ Len(s) \in (pos + len)..Len(s)
    BY <1>1
  <2> QED
    BY <2>1, PartIs
<1>4. /\ SubSeq(s, 1, pos) \o SubSeq(s, pos + len + 1, Len(s)) \in Seq(X)
      /\ Len(SubSeq(s, 1, pos) \o SubSeq(s, pos + len + 1, Len(s))) = pos + (Len(s) - (pos + len))
  BY <1>2, <1>3, ConcatProperties
<1>5. pos + (Len(s) - (pos + len)) <= Len(s)
  BY <1>1
<1> QED
  BY <1>4, <1>5

-----------------------------------------------------------------------------
(* The functions of a vector, continued                                    *)

\* An insertion inside puts the item at its position, or, without memory, nothing.
LEMMA InsertIs ==
  ASSUME NEW X, NEW v, Sound(v, X), NEW pos \in Nat, NEW x \in X, NEW memory \in BOOLEAN,
         NEW w, w = Insert(v, pos, x, memory)
  PROVE  /\ Sound(w, X)
         /\ pos > Size(v) => w = v
         /\ pos <= Size(v) =>
              \/ w.items = InsertAt(v.items, pos + 1, x)
              \/ w.items = v.items /\ (RoomToDouble /\ Size(v) < MaxLength => ~memory)
<1>1. PICK u :
        /\ u = EnsureOneMore(v, memory)
        /\ Sound(u, X) /\ u.items = v.items
        /\ RoomToDouble /\ Size(v) < MaxLength /\ memory => HasRoom(u)
  BY EnsureIs
<1>2. w = IF pos <= Size(v) /\ HasRoom(u) THEN [u EXCEPT !.items = InsertAt(@, pos + 1, x)]
          ELSE IF pos <= Size(v) THEN u ELSE v
  BY <1>1 DEF Insert
<1>3. u.items \in Seq(X) /\ u.capacity \in Nat /\ Size(u) \in Nat /\ Size(u) = Size(v)
  BY <1>1, FieldsAre DEF Sound, Size
<1>4. CASE pos <= Size(v) /\ HasRoom(u)
  <2>1. PICK s : s = InsertAt(u.items, pos + 1, x) /\ s \in Seq(X) /\ Len(s) = Size(u) + 1
    <3>1. pos \in 0..Len(u.items)
      BY <1>3, <1>4 DEF Size
    <3>2. InsertAt(u.items, pos + 1, x) \in Seq(X)
          /\ Len(InsertAt(u.items, pos + 1, x)) = Len(u.items) + 1
      BY <1>3, <3>1, InsertAtIs
    <3> QED
      BY <3>2 DEF Size
  <2>2. Len(s) <= u.capacity
    BY <1>3, <1>4, <2>1 DEF HasRoom
  <2>3. w = [u EXCEPT !.items = s]
    BY <1>2, <1>4, <2>1
  <2>4. Sound(w, X) /\ w.items = s
    <3>1. Sound(u, X) /\ s \in Seq(X)
      BY <1>1, <2>1
    <3> QED
      BY <2>2, <2>3, <3>1, StillFits
  <2> QED
    BY <1>1, <1>3, <1>4, <2>1, <2>4
<1>5. CASE pos <= Size(v) /\ ~HasRoom(u)
  BY <1>1, <1>2, <1>3, <1>5
<1>6. CASE ~(pos <= Size(v))
  BY <1>2, <1>3, <1>6
<1> QED
  BY <1>4, <1>5, <1>6

\* Erasing takes out what is in the range, and nothing where that is not inside.
LEMMA EraseIs ==
  ASSUME NEW X, NEW v, Sound(v, X), NEW pos \in Nat, NEW len \in Nat, pos + len <= SizeMax,
         NEW w, w = Erase(v, pos, len)
  PROVE  /\ Sound(w, X)
         /\ w.items = IF pos < Len(v.items) /\ pos + len <= Len(v.items)
                      THEN SubSeq(v.items, 1, pos) \o SubSeq(v.items, pos + len + 1, Len(v.items))
                      ELSE v.items
<1>1. v.items \in Seq(X) /\ v.capacity \in Nat /\ Len(v.items) \in Nat
      /\ Len(v.items) <= v.capacity
  BY FieldsAre DEF Sound, Size, Fits
<1>2. (pos + len) % (SizeMax + 1) = pos + len
  <2>1. pos + len \in Nat /\ SizeMax \in Nat
    BY Sizes
  <2> QED
    BY <2>1, ModIs
<1>3. CASE pos < Len(v.items) /\ pos + len <= Len(v.items)
  <2>1. PICK s :
          /\ s = SubSeq(v.items, 1, pos) \o SubSeq(v.items, pos + len + 1, Len(v.items))
          /\ s \in Seq(X) /\ Len(s) <= Len(v.items)
    <3>1. v.items \in Seq(X) /\ pos + len <= Len(v.items)
      BY <1>1, <1>3
    <3> QED
      BY <3>1, WithoutIs
  <2>2. w = [v EXCEPT !.items = s]
    BY <1>2, <1>3, <2>1 DEF Erase, Size
  <2>3. Len(s) <= v.capacity
    <3>1. s \in Seq(X)
      BY <2>1
    <3>2. Len(s) \in Nat
      BY <3>1, LenProperties
    <3>3. Len(s) <= Len(v.items)
      BY <2>1
    <3> QED
      BY <1>1, <3>2, <3>3
  <2>4. Sound(w, X) /\ w.items = s
    <3>1. s \in Seq(X)
      BY <2>1
    <3> QED
      BY <2>2, <2>3, <3>1, StillFits
  <2> QED
    BY <1>3, <2>1, <2>4
<1>4. CASE ~(pos < Len(v.items) /\ pos + len <= Len(v.items))
  BY <1>2, <1>4 DEF Erase, Size
<1> QED
  BY <1>3, <1>4

\* A replacement changes the item at its position, and nothing past the end.
LEMMA ReplaceIs ==
  ASSUME NEW X, NEW v, Sound(v, X), NEW pos \in Nat, NEW x \in X,
         NEW w, w = Replace(v, pos, x)
  PROVE  /\ Sound(w, X)
         /\ w.items = IF pos < Len(v.items) THEN [v.items EXCEPT ![pos + 1] = x] ELSE v.items
<1>1. v.items \in Seq(X) /\ Len(v.items) \in Nat /\ Len(v.items) <= v.capacity
  BY FieldsAre DEF Sound, Size, Fits
<1>2. CASE pos < Len(v.items)
  <2>1. pos + 1 \in 1..Len(v.items)
    BY <1>1, <1>2
  <2>2. PICK s : s = [v.items EXCEPT ![pos + 1] = x] /\ s \in Seq(X) /\ Len(s) = Len(v.items)
    <3>1. \A t \in Seq(X) : pos + 1 \in 1..Len(t) =>
            [t EXCEPT ![pos + 1] = x] \in Seq(X) /\ Len([t EXCEPT ![pos + 1] = x]) = Len(t)
      BY ExceptSeq
    <3> QED
      BY <1>1, <2>1, <3>1
  <2>3. w = [v EXCEPT !.items = s]
    BY <1>2, <2>2 DEF Replace, Size
  <2>4. Sound(w, X) /\ w.items = s
    <3>1. s \in Seq(X) /\ Len(s) <= v.capacity
      BY <1>1, <2>2
    <3> QED
      BY <2>3, <3>1, StillFits
  <2> QED
    BY <1>2, <2>2, <2>4
<1>3. CASE ~(pos < Len(v.items))
  BY <1>3 DEF Replace, Size
<1> QED
  BY <1>2, <1>3

\* A pop takes the last item, and nothing from an empty vector.
LEMMA PopBackIs ==
  ASSUME NEW X, NEW v, Sound(v, X), NEW w, w = PopBack(v)
  PROVE  /\ Sound(w, X)
         /\ w.items = IF v.items = <<>> THEN <<>> ELSE Front(v.items)
         /\ Size(v) = 0 <=> v.items = <<>>
<1>1. v.items \in Seq(X) /\ Len(v.items) \in Nat /\ Len(v.items) <= v.capacity /\ v.capacity \in Nat
  BY FieldsAre DEF Sound, Size, Fits
<1>2. Len(v.items) = 0 <=> v.items = <<>>
  BY <1>1, EmptySeq
<1>3. CASE Len(v.items) = 0
  BY <1>2, <1>3 DEF PopBack, Size
<1>4. CASE Len(v.items) # 0
  <2>1. Len(v.items) - 1 \in 0..Len(v.items)
    BY <1>1, <1>4
  <2>2. PICK s : s = Front(v.items) /\ s \in Seq(X) /\ Len(s) = Len(v.items) - 1
    <3>1. \A t \in Seq(X) : Len(t) - 1 \in 0..Len(t) =>
            Front(t) \in Seq(X) /\ Len(Front(t)) = Len(t) - 1
      BY PrefixIs DEF Front
    <3> QED
      BY <1>1, <2>1, <3>1
  <2>3. w = [v EXCEPT !.items = s]
    BY <1>4, <2>2 DEF PopBack, Size
  <2>4. Len(s) <= v.capacity
    BY <1>1, <2>2
  <2>5. Sound(w, X) /\ w.items = s
    BY <2>2, <2>3, <2>4, StillFits
  <2> QED
    BY <1>2, <1>4, <2>2, <2>5 DEF Size
<1> QED
  BY <1>3, <1>4

\* A vector that is emptied keeps its slots.
LEMMA ClearIs ==
  ASSUME NEW X, NEW v, Sound(v, X), NEW w, w = Clear(v)
  PROVE  Sound(w, X) /\ w.items = <<>> /\ w.capacity = v.capacity
<1>1. <<>> \in Seq(X) /\ Len(<<>>) = 0 /\ v.capacity \in Nat
  BY FieldsAre DEF Sound
<1>2. Len(<<>>) <= v.capacity /\ w = [v EXCEPT !.items = <<>>]
  BY <1>1 DEF Clear
<1>3. PICK s : s = <<>> /\ s \in Seq(X) /\ Len(s) <= v.capacity /\ w = [v EXCEPT !.items = s]
  BY <1>1, <1>2
<1>4. Sound(w, X) /\ w.items = s /\ w.capacity = v.capacity
  <2>1. s \in Seq(X) /\ Len(s) <= v.capacity /\ w = [v EXCEPT !.items = s]
    BY <1>3
  <2> QED
    BY <2>1, StillFits
<1> QED
  BY <1>3, <1>4

\* What is reserved is there, but for memory; what is inside is not touched.
LEMMA ReserveIs ==
  ASSUME NEW X, NEW v, Sound(v, X), NEW size \in Nat, NEW memory \in BOOLEAN,
         NEW w, w = Reserve(v, size, memory)
  PROVE  /\ Sound(w, X) /\ w.items = v.items
         /\ memory /\ size <= SizeMax \div ItemSize => Reserved(w, size)
<1>1. v.capacity \in Nat /\ Size(v) \in Nat /\ Size(v) <= v.capacity
  BY FieldsAre DEF Sound, Fits
<1>2. CASE v.capacity >= size
  BY <1>2 DEF Reserve, Reserved
<1>3. CASE ~(v.capacity >= size)
  <2>1. Size(v) <= size /\ w = Realloc(v, size, memory)
    BY <1>1, <1>3 DEF Reserve
  <2>2. /\ Sound(w, X) /\ w.items = v.items
        /\ memory /\ size <= SizeMax \div ItemSize => w.capacity = size
    BY <2>1, ReallocIs
  <2> QED
    BY <2>2 DEF Reserved
<1> QED
  BY <1>2, <1>3

\* A vector gets the size it is given, with zeros for the new items, or, without memory, keeps
\* what it has.
LEMMA ResizeIs ==
  ASSUME NEW X, Zero \in X, NEW v, Sound(v, X), NEW size \in Nat, NEW memory \in BOOLEAN,
         NEW w, w = Resize(v, size, memory)
  PROVE  /\ Sound(w, X)
         /\ \/ w.items = [i \in 1..size |-> IF i <= Len(v.items) THEN v.items[i] ELSE Zero]
            \/ w.items = v.items /\ (size <= SizeMax \div ItemSize => ~memory)
<1>1. PICK u :
        /\ u = Reserve(v, size, memory)
        /\ Sound(u, X) /\ u.items = v.items
        /\ memory /\ size <= SizeMax \div ItemSize => Reserved(u, size)
  BY ReserveIs
<1>2. v.items \in Seq(X) /\ Len(v.items) \in Nat
  BY FieldsAre DEF Sound, Size
<1> DEFINE t == [i \in 1..size |-> IF i <= Len(v.items) THEN v.items[i] ELSE Zero]
<1>3. w = IF Reserved(u, size) THEN [u EXCEPT !.items = t] ELSE u
  BY <1>1 DEF Resize, Size
<1>4. t \in Seq(X) /\ Len(t) = size
  <2>1. \A i \in 1..size : (IF i <= Len(v.items) THEN v.items[i] ELSE Zero) \in X
    BY <1>2, ElementOfSeq
  <2>2. t \in [1..size -> X]
    BY <2>1
  <2> HIDE DEF t
  <2> QED
    BY <2>2
<1> HIDE DEF t
<1>5. CASE Reserved(u, size)
  <2>1. PICK s : s = t /\ s \in Seq(X) /\ Len(s) <= u.capacity
    <3>1. u.capacity \in Nat
      BY <1>1, FieldsAre DEF Sound
    <3> QED
      BY <1>4, <1>5, <3>1 DEF Reserved
  <2>2. w = [u EXCEPT !.items = s]
    BY <1>3, <1>5, <2>1
  <2>3. Sound(w, X) /\ w.items = s
    BY <1>1, <2>1, <2>2, StillFits
  <2> QED
    BY <2>1, <2>3 DEF t
<1>6. CASE ~Reserved(u, size)
  BY <1>1, <1>3, <1>6
<1> QED
  BY <1>5, <1>6

\* Shrinking keeps the items.
LEMMA ShrinkIs ==
  ASSUME NEW X, NEW v, Sound(v, X), NEW memory \in BOOLEAN, NEW w, w = ShrinkToFit(v, memory)
  PROVE  Sound(w, X) /\ w.items = v.items
<1>1. Size(v) \in Nat /\ Size(v) <= Size(v)
  BY FieldsAre DEF Sound
<1>2. CASE Size(v) = v.capacity
  BY <1>2 DEF ShrinkToFit
<1>3. CASE Size(v) # v.capacity
  <2>1. w = Realloc(v, Size(v), memory)
    BY <1>3 DEF ShrinkToFit
  <2> QED
    BY <1>1, <2>1, ReallocIs
<1> QED
  BY <1>2, <1>3

-----------------------------------------------------------------------------
(* Induction                                                               *)

\* A set of numbers has a least one.
LEMMA LeastNat == \A S \in SUBSET Nat : S # {} => \E n \in S : \A m \in S : n <= m
<1> SUFFICES ASSUME NEW S \in SUBSET Nat, S # {} PROVE \E n \in S : \A m \in S : n <= m
  OBVIOUS
<1> DEFINE R == OpToRel(<, Nat)
<1>1. \A a, b \in Nat : <<a, b>> \in R <=> a < b
  BY DEF OpToRel
<1>2. \E x \in S : \A y \in S : ~(<<y, x>> \in R)
  <2> HIDE DEF R
  <2>1. IsWellFoundedOn(R, Nat)
    BY NatLessThanWellFounded, Zenon DEF R
  <2> QED BY <2>1, WFMin, Zenon
<1> HIDE DEF R
<1>3. PICK x \in S : \A y \in S : ~(<<y, x>> \in R)
  BY <1>2, Zenon
<1>4. \A y \in S : ~(y < x)
  BY <1>1, <1>3
<1> QED
  BY <1>4

\* Induction over the numbers, for a set in the place of a predicate.
LEMMA Induction ==
  ASSUME NEW S, 0 \in S, \A n \in Nat : n \in S => n + 1 \in S
  PROVE  \A n \in Nat : n \in S
<1> SUFFICES ASSUME {n \in Nat : n \notin S} # {} PROVE FALSE
  OBVIOUS
<1>1. PICK k \in {n \in Nat : n \notin S} : \A m \in {n \in Nat : n \notin S} : k <= m
  BY LeastNat
<1>2. k # 0
  BY <1>1
<1>3. k - 1 \in Nat /\ k - 1 \in S
  BY <1>1, <1>2
<1> QED
  BY <1>1, <1>3

-----------------------------------------------------------------------------
(* Items pushed one by one                                                 *)

\* A first part of a sequence is the part before it with one item more.
LEMMA PrefixAppend ==
  ASSUME NEW X, NEW s \in Seq(X), NEW n \in 1..Len(s)
  PROVE  Append(SubSeq(s, 1, n - 1), s[n]) = SubSeq(s, 1, n)
<1>1. Len(s) \in Nat /\ s[n] \in X
  BY LenProperties, ElementOfSeq
<1>2. 1 \in 1..Len(s) /\ n \in 1..Len(s) /\ n - 1 \in 0..Len(s)
  BY <1>1
<1>3. SubSeq(s, 1, n) = SubSeq(s, 1, n - 1) \o <<s[n]>>
  BY <1>2, SubSeqRecursiveSecond
<1>4. SubSeq(s, 1, n - 1) \in Seq(X)
  BY <1>2, PrefixIs
<1>5. Append(SubSeq(s, 1, n - 1), s[n]) = SubSeq(s, 1, n - 1) \o <<s[n]>>
  BY <1>1, <1>4, AppendIsConcat
<1> QED
  BY <1>3, <1>5

\* An empty vector with enough slots takes all of the items.
LEMMA PushAllIs ==
  ASSUME NEW X, NEW v, Sound(v, X), v.items = <<>>, NEW s \in Seq(X), Len(s) <= v.capacity,
         NEW memory \in BOOLEAN, NEW w, w = PushAll(v, s, memory)
  PROVE  Sound(w, X) /\ w.items = s
<1> DEFINE h == [n \in 0..Len(s) |-> [v EXCEPT !.items = SubSeq(s, 1, n)]]
           pushed[n \in 0..Len(s)] ==
             IF n = 0 THEN v ELSE PushBack(pushed[n - 1], s[n], memory)
<1>1. Len(s) \in Nat /\ v.capacity \in Nat /\ v \in Struct(X)
  BY LenProperties, FieldsAre DEF Sound
<1>2. \A n \in 0..Len(s) :
        /\ h[n] = [v EXCEPT !.items = SubSeq(s, 1, n)]
        /\ Sound(h[n], X) /\ h[n].items = SubSeq(s, 1, n) /\ h[n].capacity = v.capacity
        /\ Size(h[n]) = n
  <2> SUFFICES ASSUME NEW n \in 0..Len(s)
               PROVE  /\ h[n] = [v EXCEPT !.items = SubSeq(s, 1, n)]
                      /\ Sound(h[n], X) /\ h[n].items = SubSeq(s, 1, n)
                      /\ h[n].capacity = v.capacity /\ Size(h[n]) = n
    OBVIOUS
  <2>1. h[n] = [v EXCEPT !.items = SubSeq(s, 1, n)]
    OBVIOUS
  <2>2. PICK t : t = SubSeq(s, 1, n) /\ t \in Seq(X) /\ Len(t) = n
    BY PrefixIs
  <2> HIDE DEF h
  <2>3. PICK u : u = h[n]
    OBVIOUS
  <2>4. u = [v EXCEPT !.items = t] /\ t \in Seq(X) /\ Len(t) <= v.capacity
    BY <1>1, <2>1, <2>2, <2>3
  <2>5. Sound(u, X) /\ u.items = t /\ u.capacity = v.capacity
    BY <2>4, StillFits
  <2> QED
    BY <2>1, <2>2, <2>3, <2>5 DEF Size
<1>3. h[0] = v
  <2>1. SubSeq(s, 1, 0) = <<>>
    BY SubSeqEmpty
  <2>2. [v EXCEPT !.items = <<>>] = v
    BY <1>1 DEF Struct
  <2>3. h[0] = [v EXCEPT !.items = SubSeq(s, 1, 0)]
    BY <1>1, <1>2
  <2> HIDE DEF h
  <2> QED
    BY <2>1, <2>2, <2>3
<1>4. \A n \in 1..Len(s) : PushBack(h[n - 1], s[n], memory) = h[n]
  <2> SUFFICES ASSUME NEW n \in 1..Len(s) PROVE PushBack(h[n - 1], s[n], memory) = h[n]
    OBVIOUS
  <2> HIDE DEF h
  <2>1. n \in 0..Len(s) /\ n - 1 \in 0..Len(s) /\ n - 1 < Len(s) /\ s[n] \in X
    BY <1>1, ElementOfSeq
  <2>2. PICK u : u = h[n - 1]
    OBVIOUS
  <2>3. /\ u = [v EXCEPT !.items = SubSeq(s, 1, n - 1)]
        /\ u.items = SubSeq(s, 1, n - 1) /\ u.capacity = v.capacity /\ Size(u) = n - 1
    BY <1>2, <2>1, <2>2
  <2>4. HasRoom(u)
    BY <1>1, <2>1, <2>3 DEF HasRoom
  <2>5. PushBack(u, s[n], memory) = [u EXCEPT !.items = Append(u.items, s[n])]
    BY <2>4 DEF PushBack, EnsureOneMore
  <2>6. Append(u.items, s[n]) = SubSeq(s, 1, n)
    BY <2>3, PrefixAppend
  <2>7. h[n] = [v EXCEPT !.items = SubSeq(s, 1, n)]
    BY <1>2, <2>1
  <2>8. \A a, b : [[v EXCEPT !.items = a] EXCEPT !.items = b] = [v EXCEPT !.items = b]
    BY <1>1 DEF Struct
  <2> QED
    BY <2>2, <2>3, <2>5, <2>6, <2>7, <2>8
<1>5. h = [n \in 0..Len(s) |-> IF n = 0 THEN v ELSE PushBack(h[n - 1], s[n], memory)]
  <2>1. h = [n \in 0..Len(s) |-> h[n]]
    OBVIOUS
  <2> HIDE DEF h
  <2>2. \A n \in 0..Len(s) : h[n] = IF n = 0 THEN v ELSE PushBack(h[n - 1], s[n], memory)
    BY <1>1, <1>3, <1>4
  <2> QED
    BY <2>1, <2>2
<1> HIDE DEF h
<1>6. pushed = [n \in 0..Len(s) |-> IF n = 0 THEN v ELSE PushBack(pushed[n - 1], s[n], memory)]
  BY <1>5, Zenon
<1>7. w = pushed[Len(s)]
  BY DEF PushAll
<1> HIDE DEF pushed
<1> DEFINE S == {n \in Nat : n <= Len(s) => pushed[n] = h[n]}
<1>8. 0 \in S
  BY <1>1, <1>3, <1>6
<1>9. ASSUME NEW n \in Nat, n \in S PROVE n + 1 \in S
  <2> SUFFICES ASSUME n + 1 <= Len(s) PROVE pushed[n + 1] = h[n + 1]
    OBVIOUS
  <2>1. n <= Len(s) /\ n + 1 \in 1..Len(s) /\ n + 1 \in 0..Len(s) /\ n + 1 # 0 /\ n + 1 - 1 = n
    BY <1>1
  <2>2. pushed[n + 1] = PushBack(pushed[n], s[n + 1], memory)
    BY <1>6, <2>1
  <2>3. pushed[n] = h[n]
    BY <1>9, <2>1
  <2>4. PushBack(h[n], s[n + 1], memory) = h[n + 1]
    BY <1>4, <2>1
  <2> QED
    BY <2>2, <2>3, <2>4
<1> HIDE DEF S
<1>10. \A n \in Nat : n \in S
  BY <1>8, <1>9, Induction
<1>11. w = h[Len(s)]
  BY <1>1, <1>7, <1>10 DEF S
<1>12. Sound(w, X) /\ w.items = SubSeq(s, 1, Len(s))
  <2>1. Len(s) \in 0..Len(s)
    BY <1>1
  <2> QED
    BY <1>2, <1>11, <2>1
<1> QED
  BY <1>12, SubSeqFull

\* An assignment gives a vector the items it is given, or, without memory, none.
LEMMA AssignItemsIs ==
  ASSUME NEW X, NEW v, Sound(v, X), NEW s \in Seq(X), NEW memory \in BOOLEAN,
         NEW w, w = AssignItems(v, s, memory)
  PROVE  /\ Sound(w, X)
         /\ \/ w.items = s
            \/ /\ w.items = <<>> /\ s # <<>>
               /\ Len(s) <= SizeMax \div ItemSize => ~memory
<1>1. PICK c : c = Clear(v) /\ Sound(c, X) /\ c.items = <<>>
  BY ClearIs
<1>2. Len(s) \in Nat /\ (s = <<>> <=> Len(s) = 0)
  BY LenProperties, EmptySeq
<1>3. CASE s = <<>>
  <2>1. w = PushAll(c, s, memory)
    BY <1>1, <1>3 DEF AssignItems
  <2>2. Len(s) <= c.capacity
    BY <1>1, <1>2, <1>3, FieldsAre DEF Sound
  <2>3. Sound(c, X) /\ c.items = <<>>
    BY <1>1
  <2> QED
    BY <2>1, <2>2, <2>3, PushAllIs
<1>4. CASE s # <<>>
  <2>1. PICK r :
          /\ r = Reserve(c, Len(s), memory)
          /\ Sound(r, X) /\ r.items = c.items
          /\ memory /\ Len(s) <= SizeMax \div ItemSize => Reserved(r, Len(s))
    BY <1>1, <1>2, ReserveIs
  <2>2. w = IF Reserved(r, Len(s)) THEN PushAll(r, s, memory) ELSE r
    BY <1>1, <1>4, <2>1 DEF AssignItems
  <2>3. CASE Reserved(r, Len(s))
    <3>1. w = PushAll(r, s, memory) /\ Sound(r, X) /\ r.items = <<>>
      BY <1>1, <2>1, <2>2, <2>3
    <3>2. r.capacity \in Nat
      BY <3>1, FieldsAre DEF Sound
    <3>3. Len(s) <= r.capacity
      BY <1>2, <2>3, <3>2 DEF Reserved
    <3> QED
      BY <3>1, <3>3, PushAllIs
  <2>4. CASE ~Reserved(r, Len(s))
    BY <1>1, <1>4, <2>1, <2>2, <2>4
  <2> QED
    BY <2>3, <2>4
<1> QED
  BY <1>3, <1>4

-----------------------------------------------------------------------------
(* The vector                                                              *)

\* What holds between two calls: the items are items, and fit into the slots.
VectorInv == vector \in [Objects -> Struct(Items)] /\ VectorFits

\* Each vector is one the functions are made for.
LEMMA VectorsSound ==
  ASSUME VectorInv, NEW o \in Objects
  PROVE  Sound(vector[o], Items)
BY DEF VectorInv, VectorFits, Sound

\* A call that leaves one vector sound leaves all of them so.
LEMMA VectorUpdate ==
  ASSUME VectorInv, NEW o \in Objects, NEW w, Sound(w, Items), Becomes(o, w)
  PROVE  VectorInv'
<1>1. vector' = [vector EXCEPT ![o] = w]
  BY DEF Becomes
<1>2. vector' \in [Objects -> Struct(Items)]
  BY <1>1 DEF VectorInv, Sound
<1>3. \A p \in Objects : Fits(vector'[p])
  BY <1>1 DEF VectorInv, VectorFits, Sound
<1> QED
  BY <1>2, <1>3 DEF VectorInv, VectorFits

\* What a call on one vector does to the sequences.
LEMMA VectorBecomes ==
  ASSUME VectorInv, NEW o \in Objects, NEW w, Becomes(o, w)
  PROVE  /\ [p \in Objects |-> vector'[p].items]
              = [[p \in Objects |-> vector[p].items] EXCEPT ![o] = w.items]
         /\ [p \in Objects |-> vector[p].items][o] = vector[o].items
BY DEF Becomes, VectorInv

\* vector_clear.
LEMMA VectorClear ==
  ASSUME VectorInv, NEW o \in Objects, CallClear(o)
  PROVE  VectorInv' /\ VectorSequence!Next
<1>1. PICK w : Becomes(o, w) /\ w = Clear(vector[o])
  BY DEF CallClear
<1>2. Sound(w, Items) /\ w.items = <<>>
  BY <1>1, VectorsSound, ClearIs
<1>3. VectorInv'
  BY <1>1, <1>2, VectorUpdate
<1>4. /\ call'.op = "clear" /\ call'.on = o /\ call'.ok = TRUE /\ call'.result = <<>>
      /\ call' # [op |-> "none"]
  BY DEF CallClear, Call, CallOf, NULL
<1>5. [p \in Objects |-> vector'[p].items]
        = [[p \in Objects |-> vector[p].items] EXCEPT ![o] = w.items]
  BY <1>1, VectorBecomes
<1>6. VectorSequence!Clear
  BY <1>2, <1>4, <1>5
   DEF VectorSequence!Clear, VectorSequence!Done, VectorSequence!Becomes, VectorSequence!Is,
       VectorSequence!NULL
<1> QED
  BY <1>3, <1>4, <1>6 DEF VectorSequence!Next, VectorSequence!NoCall

\* vector_assign.
LEMMA VectorReplace ==
  ASSUME VectorInv, NEW o \in Objects, NEW pos \in Nat, NEW x \in Items, CallReplace(o, pos, x)
  PROVE  VectorInv' /\ VectorSequence!Next
<1>1. PICK w :
        /\ Becomes(o, w)
        /\ w = Replace(vector[o], pos, x)
  BY DEF CallReplace, NULL
<1>2. Sound(vector[o], Items)
  BY VectorsSound
<1>3. /\ Sound(w, Items)
      /\ w.items = IF pos < Len(vector[o].items) THEN [vector[o].items EXCEPT ![pos + 1] = x]
                   ELSE vector[o].items
  BY <1>1, <1>2, ReplaceIs
<1>4. VectorInv'
  BY <1>1, <1>3, VectorUpdate
<1>5. /\ call'.op = "replace" /\ call'.on = o /\ call'.args = <<pos, x>>
      /\ call'.ok = TRUE /\ call'.result = <<>> /\ call' # [op |-> "none"]
  BY DEF CallReplace, Call, CallOf, NULL
<1>6. /\ [p \in Objects |-> vector'[p].items]
           = [[p \in Objects |-> vector[p].items] EXCEPT ![o] = w.items]
      /\ [p \in Objects |-> vector[p].items][o] = vector[o].items
  BY <1>1, VectorBecomes
<1>7. VectorSequence!Replace
  <2>1. call'.args[1] = pos /\ call'.args[2] = x
    BY <1>5
  <2>2. CASE pos < Len(vector[o].items)
    <3>1. w.items = [vector[o].items EXCEPT ![pos + 1] = x]
      BY <1>3, <2>2
    <3> QED
      BY <1>5, <1>6, <2>1, <2>2, <3>1
       DEF VectorSequence!Replace, VectorSequence!Is, VectorSequence!Arg, VectorSequence!Mine,
       VectorSequence!Done, VectorSequence!Becomes, VectorSequence!NULL
  <2>3. CASE ~(pos < Len(vector[o].items))
    <3>1. w.items = vector[o].items
      BY <1>3, <2>3
    <3> QED
      BY <1>5, <1>6, <2>1, <2>3, <3>1
       DEF VectorSequence!Replace, VectorSequence!Is, VectorSequence!Arg, VectorSequence!Mine,
       VectorSequence!Refused, VectorSequence!Becomes, VectorSequence!NULL
  <2> QED
    BY <2>2, <2>3
<1> QED
  BY <1>4, <1>5, <1>7 DEF VectorSequence!Next, VectorSequence!NoCall

\* A failure is reported by what is not silent.
LEMMA NotAMember ==
  ASSUME NEW failed, failed = FALSE, NEW S, NEW e, e \notin S
  PROVE  failed = (e \in S)
<1>1. (e \in S) = FALSE
  OBVIOUS
<1> QED
  BY <1>1

\* The calls that do not report whether they went well.
VectorSilent ==
  {"insert", "emplace", "erase", "replace", "clear", "resize", "shrink_to_fit", "swap"}

\* vector_push_back and vector_emplace_back append, or report that there is no memory.
LEMMA VectorPushBack ==
  ASSUME VectorInv, NEW o \in Objects, NEW op \in {"push_back", "emplace_back"},
         NEW x \in Items, NEW memory \in BOOLEAN, CallPushBack(o, op, x, memory)
  PROVE  VectorInv' /\ (RoomToDouble => VectorSequence!Next)
<1>1. PICK w :
        /\ Becomes(o, w) /\ Size(vector[o]) < MaxLength
        /\ call' = Call(op, o, <<x>>, memory, Grew(o, w), NULL)
        /\ w = PushBack(vector[o], x, memory)
  BY DEF CallPushBack
<1>2. Sound(vector[o], Items) /\ Size(vector[o]) \in Nat
  BY VectorsSound, FieldsAre DEF Sound
<1>3. /\ Sound(w, Items)
      /\ \/ w.items = Append(vector[o].items, x) /\ Size(w) = Size(vector[o]) + 1
         \/ w.items = vector[o].items /\ Size(w) = Size(vector[o])
            /\ (RoomToDouble => ~memory)
  BY <1>1, <1>2, PushBackIs
<1>4. VectorInv'
  BY <1>1, <1>3, VectorUpdate
<1>5. /\ call'.op = op /\ call'.on = o /\ call'.args = <<x>> /\ call'.memory = memory
      /\ call'.ok = (Size(w) = Size(vector[o]) + 1) /\ call'.result = <<>>
      /\ call' # [op |-> "none"]
  BY <1>1 DEF Call, CallOf, NULL, Grew
<1>6. /\ [p \in Objects |-> vector'[p].items]
           = [[p \in Objects |-> vector[p].items] EXCEPT ![o] = w.items]
      /\ [p \in Objects |-> vector[p].items][o] = vector[o].items
  BY <1>1, VectorBecomes
<1>7. ASSUME RoomToDouble PROVE VectorSequence!PushBack
  <2>1. call'.args[1] = x
    BY <1>5
  <2>2. CASE w.items = Append(vector[o].items, x) /\ Size(w) = Size(vector[o]) + 1
    <3>1. call'.ok = TRUE
      BY <1>5, <2>2
    <3> QED
      BY <1>5, <1>6, <2>1, <2>2, <3>1
       DEF VectorSequence!PushBack, VectorSequence!Is, VectorSequence!Arg, VectorSequence!Mine,
           VectorSequence!Done, VectorSequence!Becomes, VectorSequence!NULL
  <2>3. CASE w.items = vector[o].items /\ Size(w) = Size(vector[o]) /\ ~memory
    <3>1. call'.ok = FALSE /\ call'.memory = FALSE
      BY <1>2, <1>5, <2>3
    <3>2. /\ call'.op \in {"push_back", "emplace_back"} /\ call'.op \notin VectorSilent
          /\ call'.on = o /\ call'.result = <<>> /\ w.items = vector[o].items
      BY <1>5, <2>3 DEF VectorSilent
    <3>3. call'.ok = (call'.op \in VectorSilent)
      <4>1. call'.ok = FALSE /\ call'.op \notin VectorSilent
        BY <3>1, <3>2
      <4> QED
        BY ONLY <4>1, NotAMember
    <3> QED
      BY <1>6, <3>1, <3>2, <3>3
       DEF VectorSequence!PushBack, VectorSequence!Is, VectorSequence!Mine, VectorSilent,
           VectorSequence!OutOfMemory, VectorSequence!Refused, VectorSequence!Becomes,
           VectorSequence!NULL
  <2> QED
    BY <1>3, <1>7, <2>2, <2>3
<1> QED
  BY <1>4, <1>5, <1>7 DEF VectorSequence!Next, VectorSequence!NoCall

\* What InsertAt of the library does, for a position counted from 0.
LEMMA InsertsAfter ==
  ASSUME NEW s, NEW pos \in Nat, NEW x
  PROVE  InsertAt(s, pos + 1, x) = SubSeq(s, 1, pos) \o <<x>> \o SubSeq(s, pos + 1, Len(s))
<1>1. PICK i : i = pos + 1
  OBVIOUS
<1>2. i - 1 = pos
  BY <1>1
<1>3. InsertAt(s, i, x) = SubSeq(s, 1, pos) \o <<x>> \o SubSeq(s, i, Len(s))
  BY <1>2, Zenon DEF InsertAt
<1> QED
  BY <1>1, <1>3, Zenon

\* vector_insert and vector_emplace.
LEMMA VectorInsert ==
  ASSUME VectorInv, NEW o \in Objects, NEW op \in {"insert", "emplace"}, NEW pos \in Nat,
         NEW x \in Items, NEW memory \in BOOLEAN, CallInsert(o, op, pos, x, memory)
  PROVE  VectorInv' /\ (RoomToDouble => VectorSequence!Next)
<1>1. PICK w :
        /\ Becomes(o, w) /\ Size(vector[o]) < MaxLength
        /\ w = Insert(vector[o], pos, x, memory)
  BY DEF CallInsert
<1>2. Sound(vector[o], Items) /\ Len(vector[o].items) \in Nat
  BY VectorsSound, FieldsAre DEF Sound, Size
<1>3. /\ Sound(w, Items)
      /\ pos > Size(vector[o]) => w = vector[o]
      /\ pos <= Size(vector[o]) =>
           \/ w.items = InsertAt(vector[o].items, pos + 1, x)
           \/ w.items = vector[o].items /\ (RoomToDouble => ~memory)
  BY <1>1, <1>2, InsertIs
<1>4. VectorInv'
  BY <1>1, <1>3, VectorUpdate
<1>5. /\ call'.op = op /\ call'.on = o /\ call'.args = <<pos, x>> /\ call'.memory = memory
      /\ call'.ok = TRUE /\ call'.result = <<>> /\ call' # [op |-> "none"]
  BY DEF CallInsert, Call, CallOf, NULL
<1>6. /\ [p \in Objects |-> vector'[p].items]
           = [[p \in Objects |-> vector[p].items] EXCEPT ![o] = w.items]
      /\ [p \in Objects |-> vector[p].items][o] = vector[o].items
  BY <1>1, VectorBecomes
<1>7. ASSUME RoomToDouble PROVE VectorSequence!Insert
  <2>1. call'.args[1] = pos /\ call'.args[2] = x
    BY <1>5
  <2>2. CASE pos <= Len(vector[o].items) /\ w.items = InsertAt(vector[o].items, pos + 1, x)
    <3>1. /\ call'.op \in {"insert", "emplace"} /\ call'.on = o /\ call'.ok = TRUE
          /\ call'.result = <<>>
      BY <1>5
    <3>2. VectorSequence!Mine = vector[o].items
      BY <1>6, <3>1 DEF VectorSequence!Mine
    <3>4. w.items = SubSeq(vector[o].items, 1, pos) \o <<x>>
                      \o SubSeq(vector[o].items, pos + 1, Len(vector[o].items))
      BY <2>2, InsertsAfter, Zenon
    <3>5. /\ VectorSequence!Arg[1] = pos /\ VectorSequence!Arg[2] = x
          /\ VectorSequence!Becomes(w.items) /\ VectorSequence!Is({"insert", "emplace"})
          /\ call'.ok /\ call'.result = VectorSequence!NULL
      BY <1>5, <1>6, <3>1 DEF VectorSequence!Is, VectorSequence!Arg, VectorSequence!Becomes,
           VectorSequence!NULL
    <3> QED
      <4>1. /\ VectorSequence!Arg[1] <= Len(VectorSequence!Mine)
            /\ SubSeq(VectorSequence!Mine, 1, VectorSequence!Arg[1]) \o <<VectorSequence!Arg[2]>>
                  \o SubSeq(VectorSequence!Mine, VectorSequence!Arg[1] + 1,
                            Len(VectorSequence!Mine))
                 = w.items
        BY <2>2, <3>2, <3>4, <3>5
      <4> QED
        BY <3>5, <4>1 DEF VectorSequence!Insert, VectorSequence!Done, VectorSequence!Becomes
  <2>3. CASE pos <= Len(vector[o].items) /\ w.items = vector[o].items /\ ~memory
    <3>1. call'.memory = FALSE
      BY <1>5, <2>3
    <3> QED
      BY <1>5, <1>6, <2>1, <2>3, <3>1
       DEF VectorSequence!Insert, VectorSequence!Is, VectorSequence!Arg, VectorSequence!Mine,
           VectorSequence!OutOfMemory, VectorSequence!Refused, VectorSequence!Becomes,
           VectorSequence!NULL
  <2>4. CASE ~(pos <= Len(vector[o].items)) /\ w = vector[o]
    BY <1>5, <1>6, <2>1, <2>4
       DEF VectorSequence!Insert, VectorSequence!Is, VectorSequence!Arg, VectorSequence!Mine,
           VectorSequence!Refused, VectorSequence!Becomes, VectorSequence!NULL
  <2> QED
    BY <1>2, <1>3, <1>7, <2>2, <2>3, <2>4 DEF Size
<1> QED
  BY <1>4, <1>5, <1>7 DEF VectorSequence!Next, VectorSequence!NoCall

\* vector_erase.
LEMMA VectorErase ==
  ASSUME VectorInv, NEW o \in Objects, NEW pos \in Nat, NEW len \in Nat, CallErase(o, pos, len)
  PROVE  VectorInv' /\ VectorSequence!Next
<1>1. PICK w : Becomes(o, w) /\ pos + len <= SizeMax /\ w = Erase(vector[o], pos, len)
  BY DEF CallErase
<1>2. Sound(vector[o], Items)
  BY VectorsSound
<1>3. /\ Sound(w, Items)
      /\ w.items = IF pos < Len(vector[o].items) /\ pos + len <= Len(vector[o].items)
                   THEN SubSeq(vector[o].items, 1, pos)
                        \o SubSeq(vector[o].items, pos + len + 1, Len(vector[o].items))
                   ELSE vector[o].items
  <2>1. pos + len <= SizeMax /\ w = Erase(vector[o], pos, len)
    BY <1>1
  <2> QED
    BY <1>2, <2>1, EraseIs
<1>4. VectorInv'
  BY <1>1, <1>3, VectorUpdate
<1>5. /\ call'.op = "erase" /\ call'.on = o /\ call'.args = <<pos, len>>
      /\ call'.ok = TRUE /\ call'.result = <<>> /\ call' # [op |-> "none"]
  BY DEF CallErase, Call, CallOf, NULL
<1>6. /\ [p \in Objects |-> vector'[p].items]
           = [[p \in Objects |-> vector[p].items] EXCEPT ![o] = w.items]
      /\ [p \in Objects |-> vector[p].items][o] = vector[o].items
  BY <1>1, VectorBecomes
<1>7. VectorSequence!Erase
  <2>1. call'.args[1] = pos /\ call'.args[2] = len
    BY <1>5
  <2>2. CASE pos < Len(vector[o].items) /\ pos + len <= Len(vector[o].items)
    <3>1. w.items = SubSeq(vector[o].items, 1, pos)
                    \o SubSeq(vector[o].items, pos + len + 1, Len(vector[o].items))
      BY <1>3, <2>2
    <3> QED
      BY <1>5, <1>6, <2>1, <2>2, <3>1
       DEF VectorSequence!Erase, VectorSequence!Is, VectorSequence!Arg, VectorSequence!Mine,
           VectorSequence!Done, VectorSequence!Becomes, VectorSequence!NULL
  <2>3. CASE ~(pos < Len(vector[o].items) /\ pos + len <= Len(vector[o].items))
    <3>1. w.items = vector[o].items
      BY <1>3, <2>3
    <3> QED
      BY <1>5, <1>6, <2>1, <2>3, <3>1
       DEF VectorSequence!Erase, VectorSequence!Is, VectorSequence!Arg, VectorSequence!Mine,
           VectorSequence!Refused, VectorSequence!Becomes, VectorSequence!NULL
  <2> QED
    BY <2>2, <2>3
<1> QED
  BY <1>4, <1>5, <1>7 DEF VectorSequence!Next, VectorSequence!NoCall

\* vector_pop_back hands out the last item.
LEMMA VectorPopBack ==
  ASSUME VectorInv, NEW o \in Objects, CallPopBack(o)
  PROVE  VectorInv' /\ VectorSequence!Next
<1>1. PICK w : Becomes(o, w) /\ w = PopBack(vector[o])
  BY DEF CallPopBack
<1>2. Sound(vector[o], Items) /\ Size(vector[o]) \in Nat
  BY VectorsSound, FieldsAre DEF Sound
<1>3. /\ Sound(w, Items)
      /\ w.items = IF vector[o].items = <<>> THEN <<>> ELSE Front(vector[o].items)
      /\ Size(vector[o]) = 0 <=> vector[o].items = <<>>
  BY <1>1, <1>2, PopBackIs
<1>4. VectorInv'
  BY <1>1, <1>3, VectorUpdate
<1>5. /\ call'.op = "pop_back" /\ call'.on = o /\ call'.ok = (Size(vector[o]) > 0)
      /\ call'.result = (IF Size(vector[o]) = 0 THEN <<>>
                          ELSE <<vector[o].items[Size(vector[o])]>>)
      /\ call' # [op |-> "none"]
  BY DEF CallPopBack, Call, CallOf, BackItem, NULL
<1>6. /\ [p \in Objects |-> vector'[p].items]
           = [[p \in Objects |-> vector[p].items] EXCEPT ![o] = w.items]
      /\ [p \in Objects |-> vector[p].items][o] = vector[o].items
  BY <1>1, VectorBecomes
<1>7. VectorSequence!PopBack
  <2>1. CASE vector[o].items = <<>>
    <3>1. w.items = vector[o].items /\ Size(vector[o]) = 0
      BY <1>3, <2>1
    <3>2. (Size(vector[o]) > 0) = FALSE
      BY <3>1
    <3>3. call'.ok = FALSE
      BY ONLY <1>5, <3>2
    <3>4. /\ call'.op = "pop_back" /\ call'.op \notin VectorSilent /\ call'.on = o
          /\ call'.result = <<>>
      BY <1>5, <3>1 DEF VectorSilent
    <3>5. call'.ok = (call'.op \in VectorSilent)
      BY ONLY <3>3, <3>4, NotAMember
    <3> QED
      BY <1>6, <2>1, <3>1, <3>4, <3>5
       DEF VectorSequence!PopBack, VectorSequence!Is, VectorSequence!Mine, VectorSilent,
           VectorSequence!Refused, VectorSequence!Becomes, VectorSequence!NULL
  <2>2. CASE vector[o].items # <<>>
    <3>1. Size(vector[o]) > 0 /\ Size(vector[o]) # 0
      BY <1>2, <1>3, <2>2
    <3>2. call'.ok = TRUE
      BY <1>5, <3>1
    <3>3. call'.op = "pop_back" /\ call'.on = o /\ call'.result = <<Last(vector[o].items)>>
      BY <1>5, <3>1 DEF Last, Size
    <3>4. w.items = Front(vector[o].items)
      BY <1>3, <2>2
    <3>5. VectorSequence!Mine = vector[o].items
      BY <1>6, <3>3 DEF VectorSequence!Mine
    <3> QED
      BY <1>6, <2>2, <3>2, <3>3, <3>4, <3>5
       DEF VectorSequence!PopBack, VectorSequence!Is, VectorSequence!Becomes, VectorSequence!NULL,
           Last, Front
  <2> QED
    BY <2>1, <2>2
<1> QED
  BY <1>4, <1>5, <1>7 DEF VectorSequence!Next, VectorSequence!NoCall

\* vector_reserve, which is refused only where there is no memory to be addressed.
LEMMA VectorReserve ==
  ASSUME VectorInv, NEW o \in Objects, NEW size \in Nat, NEW memory \in BOOLEAN,
         CallReserve(o, size, memory)
  PROVE  VectorInv' /\ VectorSequence!Next
<1>1. PICK w : Becomes(o, w) /\ w = Reserve(vector[o], size, memory)
  BY DEF CallReserve
<1>2. Sound(vector[o], Items)
  BY VectorsSound
<1>3. /\ Sound(w, Items) /\ w.items = vector[o].items
      /\ memory /\ size <= SizeMax \div ItemSize => Reserved(w, size)
  BY <1>1, <1>2, ReserveIs
<1>4. VectorInv'
  BY <1>1, <1>3, VectorUpdate
<1>5. /\ call'.op = "reserve" /\ call'.on = o /\ call'.result = <<>>
      /\ call'.memory = (memory /\ size <= SizeMax \div ItemSize)
      /\ call'.ok = (w.capacity >= size) /\ call' # [op |-> "none"]
  BY <1>1 DEF CallReserve, Call, CallOf, NULL, Reserved
<1>6. /\ [p \in Objects |-> vector'[p].items]
           = [[p \in Objects |-> vector[p].items] EXCEPT ![o] = w.items]
      /\ [p \in Objects |-> vector[p].items][o] = vector[o].items
  BY <1>1, VectorBecomes
<1>7. VectorSequence!Keep
  <2>1. CASE w.capacity >= size
    <3>1. call'.ok = TRUE
      BY <1>5, <2>1
    <3> QED
      BY <1>3, <1>5, <1>6, <3>1
       DEF VectorSequence!Keep, VectorSequence!Is, VectorSequence!Arg, VectorSequence!Mine,
           VectorSequence!Done, VectorSequence!Becomes, VectorSequence!NULL
  <2>2. CASE ~(w.capacity >= size)
    <3>1. ~(memory /\ size <= SizeMax \div ItemSize)
      BY <1>3, <2>2 DEF Reserved
    <3>2. call'.memory = FALSE
      BY <1>5, <3>1
    <3>3. call'.ok = FALSE
      <4>1. w.capacity \in Nat
        BY <1>3, FieldsAre DEF Sound
      <4>2. (w.capacity >= size) = FALSE
        BY <2>2, <4>1
      <4> QED
        BY ONLY <1>5, <4>2
    <3>4. /\ call'.op = "reserve" /\ call'.op \notin VectorSilent /\ call'.on = o
          /\ call'.result = <<>> /\ w.items = vector[o].items
      BY <1>3, <1>5 DEF VectorSilent
    <3>5. call'.ok = (call'.op \in VectorSilent)
      BY ONLY <3>3, <3>4, NotAMember
    <3> QED
      BY <1>6, <3>2, <3>4, <3>5
       DEF VectorSequence!Keep, VectorSequence!Is, VectorSequence!Mine, VectorSilent,
           VectorSequence!OutOfMemory, VectorSequence!Refused, VectorSequence!Becomes,
           VectorSequence!NULL
  <2> QED
    BY <2>1, <2>2
<1> QED
  BY <1>4, <1>5, <1>7 DEF VectorSequence!Next, VectorSequence!NoCall

\* vector_resize.
LEMMA VectorResize ==
  ASSUME VectorInv, NEW o \in Objects, NEW size \in 0..MaxLength, NEW memory \in BOOLEAN,
         CallResize(o, size, memory)
  PROVE  VectorInv' /\ VectorSequence!Next
<1>1. PICK w : Becomes(o, w) /\ w = Resize(vector[o], size, memory)
  BY DEF CallResize
<1>2. Sound(vector[o], Items)
  BY VectorsSound
<1>3. /\ Sound(w, Items)
      /\ \/ w.items = [i \in 1..size |-> IF i <= Len(vector[o].items) THEN vector[o].items[i] ELSE Zero]
         \/ w.items = vector[o].items /\ ~memory
  <2>1. size \in Nat /\ size <= SizeMax \div ItemSize /\ Zero \in Items
    BY Addressable, VectorClientAssumption
  <2>2. /\ Sound(w, Items)
        /\ \/ w.items = [i \in 1..size |-> IF i <= Len(vector[o].items) THEN vector[o].items[i] ELSE Zero]
           \/ w.items = vector[o].items /\ (size <= SizeMax \div ItemSize => ~memory)
    BY <1>1, <1>2, <2>1, ResizeIs
  <2> QED
    BY <2>1, <2>2
<1>4. VectorInv'
  BY <1>1, <1>3, VectorUpdate
<1>5. /\ call'.op = "resize" /\ call'.on = o /\ call'.args = <<size>> /\ call'.memory = memory
      /\ call'.ok = TRUE /\ call'.result = <<>> /\ call' # [op |-> "none"]
  BY DEF CallResize, Call, CallOf, NULL
<1>6. /\ [p \in Objects |-> vector'[p].items]
           = [[p \in Objects |-> vector[p].items] EXCEPT ![o] = w.items]
      /\ [p \in Objects |-> vector[p].items][o] = vector[o].items
  BY <1>1, VectorBecomes
<1>7. VectorSequence!Resize
  <2>1. Len(call'.args) = 1 /\ call'.args[1] = size
    BY <1>5
  <2>2. CASE w.items = [i \in 1..size |-> IF i <= Len(vector[o].items) THEN vector[o].items[i] ELSE Zero]
    BY <1>5, <1>6, <2>1, <2>2
       DEF VectorSequence!Resize, VectorSequence!Is, VectorSequence!Arg, VectorSequence!Mine,
           VectorSequence!Done, VectorSequence!Becomes, VectorSequence!NULL
  <2>3. CASE w.items = vector[o].items /\ ~memory
    <3>1. call'.memory = FALSE
      BY <1>5, <2>3
    <3> QED
      BY <1>5, <1>6, <2>1, <2>3, <3>1
       DEF VectorSequence!Resize, VectorSequence!Is, VectorSequence!Arg, VectorSequence!Mine,
           VectorSequence!OutOfMemory, VectorSequence!Refused, VectorSequence!Becomes,
           VectorSequence!NULL
  <2> QED
    BY <1>3, <2>2, <2>3
<1> QED
  BY <1>4, <1>5, <1>7 DEF VectorSequence!Next, VectorSequence!NoCall

\* vector_shrink_to_fit.
LEMMA VectorShrink ==
  ASSUME VectorInv, NEW o \in Objects, NEW memory \in BOOLEAN, CallShrinkToFit(o, memory)
  PROVE  VectorInv' /\ VectorSequence!Next
<1>1. PICK w : Becomes(o, w) /\ w = ShrinkToFit(vector[o], memory)
  BY DEF CallShrinkToFit
<1>2. Sound(vector[o], Items)
  BY VectorsSound
<1>3. Sound(w, Items) /\ w.items = vector[o].items
  BY <1>1, <1>2, ShrinkIs
<1>4. VectorInv'
  BY <1>1, <1>3, VectorUpdate
<1>5. /\ call'.op = "shrink_to_fit" /\ call'.on = o /\ call'.ok = TRUE /\ call'.result = <<>>
      /\ call' # [op |-> "none"]
  BY DEF CallShrinkToFit, Call, CallOf, NULL
<1>6. /\ [p \in Objects |-> vector'[p].items]
           = [[p \in Objects |-> vector[p].items] EXCEPT ![o] = w.items]
      /\ [p \in Objects |-> vector[p].items][o] = vector[o].items
  BY <1>1, VectorBecomes
<1>7. VectorSequence!Keep
  BY <1>3, <1>5, <1>6
       DEF VectorSequence!Keep, VectorSequence!Is, VectorSequence!Arg, VectorSequence!Mine,
           VectorSequence!Done, VectorSequence!Becomes, VectorSequence!NULL
<1> QED
  BY <1>4, <1>5, <1>7 DEF VectorSequence!Next, VectorSequence!NoCall

\* vector_swap, also of a vector with itself.
LEMMA VectorSwap ==
  ASSUME VectorInv, NEW o \in Objects, NEW p \in Objects, CallSwap(o, p)
  PROVE  VectorInv' /\ VectorSequence!Next
<1>1. vector' = [vector EXCEPT ![o] = vector[p], ![p] = vector[o]]
  BY DEF CallSwap
<1>2. VectorInv'
  BY <1>1 DEF VectorInv, VectorFits
<1>3. /\ call'.op = "swap" /\ call'.on = o /\ call'.with = p /\ call'.ok = TRUE
      /\ call'.result = <<>> /\ call' # [op |-> "none"]
  BY DEF CallSwap, CallOf, NULL
<1>4. [q \in Objects |-> vector'[q].items]
        = [[q \in Objects |-> vector[q].items] EXCEPT ![o] = vector[p].items, ![p] = vector[o].items]
  BY <1>1 DEF VectorInv
<1>5. /\ [q \in Objects |-> vector[q].items][o] = vector[o].items
      /\ [q \in Objects |-> vector[q].items][p] = vector[p].items
  OBVIOUS
<1>6. VectorSequence!Swap
  BY <1>3, <1>4, <1>5 DEF VectorSequence!Swap, VectorSequence!Is, VectorSequence!Mine,
     VectorSequence!Other, VectorSequence!NULL
<1> QED
  BY <1>2, <1>3, <1>6 DEF VectorSequence!Next, VectorSequence!NoCall

\* Every call keeps what vectors rely on, and does to the sequence what its name says.
LEMMA VectorStep ==
  ASSUME VectorInv, Next
  PROVE  VectorInv' /\ (RoomToDouble => VectorSequence!Next)
<1>1. MaxLength \in Nat /\ SizeMax \in Nat
  BY Addressable, Sizes
<1>2. PICK o \in Objects, memory \in BOOLEAN :
        \/ \E x \in Items, op \in {"push_back", "emplace_back"} : CallPushBack(o, op, x, memory)
        \/ \E x \in Items, op \in {"insert", "emplace"}, pos \in 0..Size(vector[o]) + 1 :
             CallInsert(o, op, pos, x, memory)
        \/ \E pos, len \in 0..MaxLength : CallErase(o, pos, len)
        \/ \E x \in Items, pos \in 0..MaxLength : CallReplace(o, pos, x)
        \/ CallPopBack(o)
        \/ CallClear(o)
        \/ \E size \in 0..SizeMax : CallReserve(o, size, memory)
        \/ \E size \in 0..MaxLength : CallResize(o, size, memory)
        \/ CallShrinkToFit(o, memory)
        \/ \E p \in Objects : CallSwap(o, p)
  BY DEF Next
<1>3. ASSUME NEW x \in Items, NEW op \in {"push_back", "emplace_back"},
             CallPushBack(o, op, x, memory)
      PROVE  VectorInv' /\ (RoomToDouble => VectorSequence!Next)
  BY <1>3, VectorPushBack
<1>4. ASSUME NEW x \in Items, NEW op \in {"insert", "emplace"}, NEW pos \in 0..Size(vector[o]) + 1,
             CallInsert(o, op, pos, x, memory)
      PROVE  VectorInv' /\ (RoomToDouble => VectorSequence!Next)
  <2>1. pos \in Nat
    OBVIOUS
  <2> QED
    BY <1>4, <2>1, VectorInsert
<1>5. ASSUME NEW pos \in 0..MaxLength, NEW len \in 0..MaxLength, CallErase(o, pos, len)
      PROVE  VectorInv' /\ (RoomToDouble => VectorSequence!Next)
  <2>1. pos \in Nat /\ len \in Nat
    OBVIOUS
  <2> QED
    BY <1>5, <2>1, VectorErase
<1>6. ASSUME NEW x \in Items, NEW pos \in 0..MaxLength, CallReplace(o, pos, x)
      PROVE  VectorInv' /\ (RoomToDouble => VectorSequence!Next)
  <2>1. pos \in Nat
    OBVIOUS
  <2> QED
    BY <1>6, <2>1, VectorReplace
<1>7. ASSUME NEW size \in 0..SizeMax, CallReserve(o, size, memory)
      PROVE  VectorInv' /\ (RoomToDouble => VectorSequence!Next)
  <2>1. size \in Nat
    OBVIOUS
  <2> QED
    BY <1>7, <2>1, VectorReserve
<1>8. ASSUME NEW size \in 0..MaxLength, CallResize(o, size, memory)
      PROVE  VectorInv' /\ (RoomToDouble => VectorSequence!Next)
  BY <1>8, VectorResize
<1>9. ASSUME NEW p \in Objects, CallSwap(o, p)
      PROVE  VectorInv' /\ (RoomToDouble => VectorSequence!Next)
  BY <1>9, VectorSwap
<1> QED
  BY <1>2, <1>3, <1>4, <1>5, <1>6, <1>7, <1>8, <1>9, VectorPopBack, VectorClear, VectorShrink

\* New vectors are empty sequences.
LEMMA VectorInit ==
  ASSUME Init
  PROVE  VectorInv /\ VectorSequence!Init
<1>1. Sound(VectorCreate, Items) /\ VectorCreate.items = <<>>
  BY CreateSound
<1>2. VectorInv
  BY <1>1 DEF Init, VectorInv, VectorFits, Sound
<1>3. [o \in Objects |-> vector[o].items] = [o \in Objects |-> <<>>]
  BY <1>1 DEF Init
<1> QED
  BY <1>2, <1>3 DEF Init, VectorSequence!Init, NoCall, VectorSequence!NoCall

\* No vector ever has more items than slots, nor more slots than bytes can be counted, whatever
\* was refused for want of memory, wrapped as it doubled, or was shrunk.
THEOREM VectorKeepsFitting == Spec => []VectorFits
<1>1. Init => VectorInv
  BY VectorInit
<1>2. VectorInv /\ [Next]_vars => VectorInv'
  <2>1. ASSUME VectorInv, UNCHANGED vars PROVE VectorInv'
    BY <2>1 DEF vars, VectorInv, VectorFits
  <2> QED
    BY <2>1, VectorStep
<1>3. VectorInv => VectorFits
  BY DEF VectorInv
<1> QED
  BY <1>1, <1>2, <1>3, PTL DEF Spec

\* A vector is the sequence its calls say, as long as doubling a capacity asks for no more than can be
\* addressed: where it does, a push fails although there is memory for it.
THEOREM VectorImplementsSequence ==
  ASSUME RoomToDouble
  PROVE  Spec => VectorIsSequence
<1>1. Init => VectorInv /\ VectorSequence!Init
  BY VectorInit
<1>2. VectorInv /\ [Next]_vars => VectorInv' /\ [VectorSequence!Next]_VectorSequence!vars
  <2>1. ASSUME VectorInv, UNCHANGED vars PROVE VectorInv' /\ UNCHANGED VectorSequence!vars
    BY <2>1 DEF vars, VectorInv, VectorFits, VectorSequence!vars
  <2> QED
    BY <2>1, VectorStep
<1> QED
  BY <1>1, <1>2, PTL DEF Spec, VectorIsSequence, VectorSequence!Spec

-----------------------------------------------------------------------------
(* Comparisons                                                             *)

\* s and t agree on their first n items, and no further.
Agree(s, t, n) ==
  /\ n \in Nat /\ n <= Len(s) /\ n <= Len(t)
  /\ \A i \in 1..n : s[i] = t[i]
  /\ n < Len(s) /\ n < Len(t) => s[n + 1] # t[n + 1]

\* Any two sequences agree on some number of items and no further.
LEMMA SomeAgree ==
  ASSUME NEW s \in Seq(Nat), NEW t \in Seq(Nat)
  PROVE  \E n \in Nat : Agree(s, t, n)
<1> DEFINE D == {i \in Nat : i < Len(s) /\ i < Len(t) /\ s[i + 1] # t[i + 1]}
<1>1. Len(s) \in Nat /\ Len(t) \in Nat
  BY LenProperties
<1>2. CASE D = {}
  <2>1. PICK n \in Nat : n <= Len(s) /\ n <= Len(t) /\ (n = Len(s) \/ n = Len(t))
    BY <1>1
  <2>2. \A i \in 1..n : s[i] = t[i]
    <3> SUFFICES ASSUME NEW i \in 1..n PROVE s[i] = t[i]
      OBVIOUS
    <3>1. i - 1 \in Nat /\ i - 1 < Len(s) /\ i - 1 < Len(t) /\ (i - 1) + 1 = i
      BY <1>1, <2>1
    <3> QED
      BY <1>2, <3>1
  <2> QED
    BY <1>1, <2>1, <2>2 DEF Agree
<1>3. CASE D # {}
  <2>1. PICK n \in D : \A m \in D : n <= m
    <3>1. D \in SUBSET Nat
      OBVIOUS
    <3> HIDE DEF D
    <3> QED
      BY <1>3, <3>1, LeastNat
  <2>2. n \in Nat /\ n < Len(s) /\ n < Len(t) /\ s[n + 1] # t[n + 1]
    BY <2>1
  <2>3. \A i \in 1..n : s[i] = t[i]
    <3> SUFFICES ASSUME NEW i \in 1..n, s[i] # t[i] PROVE FALSE
      OBVIOUS
    <3>1. i - 1 \in Nat /\ i - 1 < Len(s) /\ i - 1 < Len(t) /\ (i - 1) + 1 = i /\ i - 1 < n
      BY <1>1, <2>2
    <3>2. i - 1 \in D
      BY <3>1
    <3>3. n <= i - 1
      BY <2>1, <3>2
    <3> QED
      BY <2>2, <3>1, <3>3
  <2>4. n <= Len(s) /\ n <= Len(t) /\ n < Len(s) /\ n < Len(t)
    BY <1>1, <2>2
  <2> QED
    BY <2>2, <2>3, <2>4 DEF Agree
<1> QED
  BY <1>2, <1>3

\* Either way around.
LEMMA AgreeBack ==
  ASSUME NEW s, NEW t, NEW n, Agree(s, t, n)
  PROVE  Agree(t, s, n)
BY DEF Agree

\* The order of sequences is decided where they no longer agree.
LEMMA LexIs ==
  ASSUME NEW s \in Seq(Nat), NEW t \in Seq(Nat), NEW n, Agree(s, t, n)
  PROVE  LexLess(s, t) <=> \/ n = Len(s) /\ n < Len(t)
                           \/ n < Len(s) /\ n < Len(t) /\ s[n + 1] < t[n + 1]
<1>1. Len(s) \in Nat /\ Len(t) \in Nat /\ n \in 0..Len(s)
  BY LenProperties DEF Agree
<1>2. ASSUME LexLess(s, t)
      PROVE  \/ n = Len(s) /\ n < Len(t)
             \/ n < Len(s) /\ n < Len(t) /\ s[n + 1] < t[n + 1]
  <2>1. PICK m \in 0..Len(s) :
          /\ m <= Len(t) /\ \A i \in 1..m : s[i] = t[i]
          /\ \/ m = Len(s) /\ m < Len(t)
             \/ m < Len(s) /\ m < Len(t) /\ s[m + 1] < t[m + 1]
    BY <1>2 DEF LexLess
  <2>2. m <= n
    <3> SUFFICES ASSUME n < m PROVE FALSE
      BY <1>1
    <3>1. n + 1 \in 1..m /\ n < Len(s) /\ n < Len(t)
      BY <1>1, <2>1
    <3> QED
      BY <2>1, <3>1 DEF Agree
  <2>3. CASE m < n
    <3>1. m + 1 \in 1..n /\ m < Len(s)
      BY <1>1, <2>3
    <3>2. s[m + 1] = t[m + 1] /\ s[m + 1] < t[m + 1]
      BY <2>1, <3>1 DEF Agree
    <3>3. m + 1 \in 1..Len(s)
      BY <1>1, <3>1
    <3>4. s[m + 1] \in Nat
      BY <3>3, ElementOfSeq
    <3> QED
      BY <3>2, <3>4
  <2> QED
    BY <1>1, <2>1, <2>2, <2>3
<1>3. ASSUME \/ n = Len(s) /\ n < Len(t)
             \/ n < Len(s) /\ n < Len(t) /\ s[n + 1] < t[n + 1]
      PROVE  LexLess(s, t)
  BY <1>1, <1>3 DEF Agree, LexLess
<1> QED
  BY <1>2, <1>3

\* Sequences that agree to the end of both are equal.
LEMMA EqualIs ==
  ASSUME NEW s \in Seq(Nat), NEW t \in Seq(Nat), NEW n, Agree(s, t, n)
  PROVE  s = t <=> n = Len(s) /\ n = Len(t)
<1>1. Len(s) \in Nat /\ Len(t) \in Nat /\ n \in Nat /\ n <= Len(s) /\ n <= Len(t)
  BY LenProperties DEF Agree
<1>2. n = Len(s) /\ n = Len(t) => s = t
  BY SeqEqual DEF Agree
<1>3. s = t => n = Len(s) /\ n = Len(t)
  BY <1>1 DEF Agree
<1> QED
  BY <1>2, <1>3

\* vector_compare is the difference of the items where the two no longer agree.
LEMMA CompareIs ==
  ASSUME NEW v, NEW w, v.items \in Seq(Nat), w.items \in Seq(Nat),
         NEW n, Agree(v.items, w.items, n)
  PROVE  Compare(v, w) = IF n < Size(v) /\ n < Size(w)
                         THEN v.items[n + 1] - w.items[n + 1] ELSE 0
<1> DEFINE least == IF Size(v) < Size(w) THEN Size(v) ELSE Size(w)
           D == {i \in 1..least : v.items[i] # w.items[i]}
           first == CHOOSE i \in D : \A j \in D : i <= j
<1>1. Compare(v, w) = IF D = {} THEN 0 ELSE v.items[first] - w.items[first]
  BY DEF Compare
<1>2. Size(v) \in Nat /\ Size(w) \in Nat /\ n \in Nat /\ n <= Size(v) /\ n <= Size(w)
  BY LenProperties DEF Agree, Size
<1>3. \A i \in 1..n : i \notin D
  BY DEF Agree
<1>4. CASE n < Size(v) /\ n < Size(w)
  <2>1. n + 1 \in D
    BY <1>2, <1>4 DEF Agree, Size
  <2>2. \A j \in D : n + 1 <= j
    BY <1>2, <1>3
  <2>3. \A i \in D : i \in Nat
    BY <1>2
  <2> HIDE DEF D
  <2>4. \E i \in D : \A j \in D : i <= j
    BY <2>1, <2>2
  <2>5. first \in D /\ \A j \in D : first <= j
    BY <2>4
  <2>6. first <= n + 1 /\ n + 1 <= first /\ first \in Nat
    BY <2>1, <2>2, <2>3, <2>5
  <2>7. first = n + 1
    BY <1>2, <2>6
  <2> QED
    BY <1>1, <1>4, <2>1, <2>7
<1>5. CASE ~(n < Size(v) /\ n < Size(w))
  <2>1. n = least
    BY <1>2, <1>5
  <2>2. D = {}
    BY <1>3, <2>1
  <2> QED
    BY <1>1, <1>5, <2>2
<1> QED
  BY <1>4, <1>5

\* The six comparisons of two vectors are those of the order of their sequences.
LEMMA ComparesIs ==
  ASSUME NEW v, NEW w, v.items \in Seq(Nat), w.items \in Seq(Nat)
  PROVE  ComparesAsOneOrder(v, w)
<1>1. PICK n : n \in Nat /\ Agree(v.items, w.items, n)
  BY SomeAgree
<1>2. Agree(w.items, v.items, n)
  BY <1>1, AgreeBack
<1>3. /\ Compare(v, w) = IF n < Size(v) /\ n < Size(w) THEN v.items[n + 1] - w.items[n + 1] ELSE 0
      /\ Compare(w, v) = IF n < Size(w) /\ n < Size(v) THEN w.items[n + 1] - v.items[n + 1] ELSE 0
  BY <1>1, <1>2, CompareIs
<1>4. LexLess(v.items, w.items) <=> \/ n = Size(v) /\ n < Size(w)
                                    \/ n < Size(v) /\ n < Size(w) /\ v.items[n + 1] < w.items[n + 1]
  BY <1>1, LexIs DEF Size
<1>5. v.items = w.items <=> n = Size(v) /\ n = Size(w)
  BY <1>1, EqualIs DEF Size
<1>6. /\ Size(v) \in Nat /\ Size(w) \in Nat /\ n \in Nat /\ n <= Size(v) /\ n <= Size(w)
      /\ n < Size(v) /\ n < Size(w) => v.items[n + 1] # w.items[n + 1]
  BY <1>1, LenProperties DEF Agree, Size
<1>7. n < Size(v) /\ n < Size(w) => v.items[n + 1] \in Nat /\ w.items[n + 1] \in Nat
  <2> SUFFICES ASSUME n < Size(v), n < Size(w)
               PROVE  v.items[n + 1] \in Nat /\ w.items[n + 1] \in Nat
    OBVIOUS
  <2>1. n + 1 \in 1..Len(v.items) /\ n + 1 \in 1..Len(w.items)
    BY <1>6 DEF Size
  <2> QED
    BY <2>1, ElementOfSeq
<1>8. PICK a, b, c, d, k, l :
        /\ a = v.items[n + 1] /\ b = w.items[n + 1]
        /\ c = Compare(v, w) /\ d = Compare(w, v) /\ k = Size(v) /\ l = Size(w)
  OBVIOUS
<1>9. /\ n \in Nat /\ k \in Nat /\ l \in Nat /\ n <= k /\ n <= l
      /\ n < k /\ n < l => a \in Nat /\ b \in Nat /\ a # b
      /\ c = (IF n < k /\ n < l THEN a - b ELSE 0)
      /\ d = (IF n < l /\ n < k THEN b - a ELSE 0)
  BY <1>3, <1>6, <1>7, <1>8
<1>10. /\ IsLess(v, w) <=> c < 0 \/ (c = 0 /\ k < l)
       /\ IsGreater(v, w) <=> c > 0 \/ (c = 0 /\ k > l)
       /\ IsLess(w, v) <=> d < 0 \/ (d = 0 /\ l < k)
       /\ IsEqual(v, w) <=> n = k /\ n = l
       /\ LexLess(v.items, w.items) <=> (n = k /\ n < l) \/ (n < k /\ n < l /\ a < b)
  BY <1>4, <1>5, <1>8 DEF IsLess, IsGreater, IsEqual
<1>11. IsLess(v, w) <=> LexLess(v.items, w.items)
  BY <1>9, <1>10
<1>12. IsGreater(v, w) <=> IsLess(w, v)
  BY <1>9, <1>10
<1>13. IsEqual(v, w) <=> ~IsLess(v, w) /\ ~IsGreater(v, w)
  BY <1>9, <1>10
<1>14. IsNotEqual(v, w) <=> ~IsEqual(v, w)
  BY <1>5 DEF IsNotEqual, IsEqual
<1>15. /\ IsLessOrEqual(v, w) <=> IsLess(v, w) \/ IsEqual(v, w)
       /\ IsGreaterOrEqual(v, w) <=> IsGreater(v, w) \/ IsEqual(v, w)
  <2>1. ~(IsLess(v, w) /\ IsGreater(v, w))
    BY <1>9, <1>10
  <2> QED
    BY <1>13, <2>1 DEF IsLessOrEqual, IsGreaterOrEqual
<1> QED
  BY <1>11, <1>12, <1>13, <1>14, <1>15 DEF ComparesAsOneOrder

\* Vectors compare as the sequences of their items do, whatever calls they have been through.
THEOREM VectorsCompare == Spec => []VectorOrder
<1>1. Init => VectorInv
  BY VectorInit
<1>2. VectorInv /\ [Next]_vars => VectorInv'
  <2>1. ASSUME VectorInv, UNCHANGED vars PROVE VectorInv'
    BY <2>1 DEF vars, VectorInv, VectorFits
  <2> QED
    BY <2>1, VectorStep
<1>3. VectorInv => VectorOrder
  <2> SUFFICES ASSUME VectorInv, NEW o \in Objects, NEW p \in Objects
               PROVE  ComparesAsOneOrder(vector[o], vector[p])
    BY DEF VectorOrder
  <2>1. vector[o].items \in Seq(Items) /\ vector[p].items \in Seq(Items)
    BY VectorsSound, FieldsAre DEF Sound
  <2>2. \A s \in Seq(Items) : s \in Seq(Nat)
    BY VectorClientAssumption, SeqMonotonic
  <2> QED
    BY <2>1, <2>2, ComparesIs
<1> QED
  BY <1>1, <1>2, <1>3, PTL DEF Spec

-----------------------------------------------------------------------------
(* The stack                                                               *)

\* What holds between two calls, as for vectors.
StackInv == /\ stack \in [Objects -> Struct(Items)]
            /\ \A o \in Objects : Fits(stack[o])

\* Each stack is a vector the functions are made for, and no longer than can be addressed.
LEMMA StacksSound ==
  ASSUME StackInv, NEW o \in Objects
  PROVE  /\ Sound(stack[o], Items)
         /\ stack[o].items \in Seq(Items) /\ Len(stack[o].items) \in Nat
         /\ Len(stack[o].items) <= SizeMax \div ItemSize
<1>1. Sound(stack[o], Items)
  BY DEF StackInv, Sound
<1>2. /\ stack[o].items \in Seq(Items) /\ Len(stack[o].items) \in Nat /\ stack[o].capacity \in Nat
      /\ Len(stack[o].items) <= stack[o].capacity /\ stack[o].capacity * ItemSize <= SizeMax
  BY <1>1, FieldsAre DEF Sound, Size, Fits
<1>3. stack[o].capacity <= SizeMax \div ItemSize /\ SizeMax \div ItemSize \in Nat
  BY <1>2, Addressable
<1> QED
  BY <1>1, <1>2, <1>3

\* A call that leaves one stack sound leaves all of them so.
LEMMA StackUpdate ==
  ASSUME StackInv, NEW o \in Objects, NEW w, Sound(w, Items), StackBecomes(o, w)
  PROVE  StackInv'
<1>1. stack' = [stack EXCEPT ![o] = w]
  BY DEF StackBecomes
<1>2. stack' \in [Objects -> Struct(Items)]
  BY <1>1 DEF StackInv, Sound
<1>3. \A p \in Objects : Fits(stack'[p])
  BY <1>1 DEF StackInv, Sound
<1> QED
  BY <1>2, <1>3 DEF StackInv

\* What a call on one stack does to the sequences.
LEMMA StackMaps ==
  ASSUME StackInv, NEW o \in Objects, NEW w, StackBecomes(o, w)
  PROVE  /\ [p \in Objects |-> stack'[p].items]
              = [[p \in Objects |-> stack[p].items] EXCEPT ![o] = w.items]
         /\ [p \in Objects |-> stack[p].items][o] = stack[o].items
BY DEF StackBecomes, StackInv

\* The stack's calls that do not report whether they went well.
StackSilent == {"clear", "swap"}

\* stack_push and stack_emplace append, or report that there is no memory.
LEMMA StackPushIs ==
  ASSUME StackInv, NEW o \in Objects, NEW x \in Items, NEW memory \in BOOLEAN,
         StackPush(o, x, memory)
  PROVE  StackInv' /\ (RoomToDouble => StackSequence!Next)
<1>1. PICK w :
        /\ StackBecomes(o, w) /\ Size(stack[o]) < MaxLength
        /\ \E op \in {"push_back", "emplace_back"} :
             stackCall' = Call(op, o, <<x>>, memory, Size(w) > Size(stack[o]), NULL)
        /\ w = PushBack(stack[o], x, memory)
  BY DEF StackPush
<1>2. Sound(stack[o], Items) /\ Size(stack[o]) \in Nat
  BY StacksSound DEF Size
<1>3. /\ Sound(w, Items)
      /\ \/ w.items = Append(stack[o].items, x) /\ Size(w) = Size(stack[o]) + 1
         \/ w.items = stack[o].items /\ Size(w) = Size(stack[o])
            /\ (RoomToDouble => ~memory)
  BY <1>1, <1>2, PushBackIs
<1>4. StackInv'
  BY <1>1, <1>3, StackUpdate
<1>5. PICK op \in {"push_back", "emplace_back"} :
        stackCall' = Call(op, o, <<x>>, memory, Size(w) > Size(stack[o]), NULL)
  BY <1>1
<1>6. /\ stackCall'.op = op /\ stackCall'.on = o /\ stackCall'.args = <<x>>
      /\ stackCall'.memory = memory /\ stackCall'.ok = (Size(w) > Size(stack[o]))
      /\ stackCall'.result = <<>> /\ stackCall' # [op |-> "none"]
  BY <1>5 DEF Call, CallOf, NULL
<1>7. /\ [p \in Objects |-> stack'[p].items]
           = [[p \in Objects |-> stack[p].items] EXCEPT ![o] = w.items]
      /\ [p \in Objects |-> stack[p].items][o] = stack[o].items
  BY <1>1, StackMaps
<1>8. ASSUME RoomToDouble PROVE StackSequence!PushBack
  <2>1. stackCall'.args[1] = x
    BY <1>6
  <2>2. CASE w.items = Append(stack[o].items, x) /\ Size(w) = Size(stack[o]) + 1
    <3>1. stackCall'.ok = TRUE
      <4>1. (Size(w) > Size(stack[o])) = TRUE
        BY <1>2, <2>2
      <4> QED
        BY ONLY <1>6, <4>1
    <3> QED
      BY <1>6, <1>7, <2>1, <2>2, <3>1
       DEF StackSequence!PushBack, StackSequence!Is, StackSequence!Arg, StackSequence!Mine,
           StackSequence!Other, StackSequence!Done, StackSequence!Becomes, StackSequence!NULL
  <2>3. CASE w.items = stack[o].items /\ Size(w) = Size(stack[o]) /\ ~memory
    <3>1. (Size(w) > Size(stack[o])) = FALSE
      BY <1>2, <2>3
    <3>2. stackCall'.ok = FALSE
      BY ONLY <1>6, <3>1
    <3>3. /\ stackCall'.op \in {"push_back", "emplace_back"} /\ stackCall'.op \notin StackSilent
          /\ stackCall'.on = o /\ stackCall'.memory = FALSE /\ stackCall'.result = <<>>
          /\ w.items = stack[o].items
      BY <1>6, <2>3 DEF StackSilent
    <3>4. stackCall'.ok = (stackCall'.op \in StackSilent)
      BY ONLY <3>2, <3>3, NotAMember
    <3> QED
      BY <1>7, <3>3, <3>4
       DEF StackSequence!PushBack, StackSequence!Is, StackSequence!Mine, StackSilent,
           StackSequence!OutOfMemory, StackSequence!Refused, StackSequence!Becomes,
           StackSequence!NULL
  <2> QED
    BY <1>3, <1>8, <2>2, <2>3
<1> QED
  BY <1>4, <1>6, <1>8 DEF StackSequence!Next, StackSequence!NoCall

\* stack_pop, stack_pop_value and stack_pop_void take what was pushed last.
LEMMA StackPopIs ==
  ASSUME StackInv, NEW o \in Objects, StackPop(o)
  PROVE  StackInv' /\ StackSequence!Next
<1>1. PICK w : StackBecomes(o, w) /\ w = PopBack(stack[o])
  BY DEF StackPop
<1>2. Sound(stack[o], Items) /\ Size(stack[o]) \in Nat
  BY StacksSound DEF Size
<1>3. /\ Sound(w, Items)
      /\ w.items = IF stack[o].items = <<>> THEN <<>> ELSE Front(stack[o].items)
      /\ Size(stack[o]) = 0 <=> stack[o].items = <<>>
  BY <1>1, <1>2, PopBackIs
<1>4. StackInv'
  BY <1>1, <1>3, StackUpdate
<1>5. /\ stackCall'.on = o /\ stackCall'.ok = (Size(stack[o]) > 0)
      /\ \/ stackCall'.op = "pop_back" /\ stackCall'.result = Top(stack[o])
         \/ stackCall'.op = "drop_back" /\ stackCall'.result = <<>>
      /\ stackCall' # [op |-> "none"]
  BY DEF StackPop, Call, CallOf, NULL
<1>6. /\ [p \in Objects |-> stack'[p].items]
           = [[p \in Objects |-> stack[p].items] EXCEPT ![o] = w.items]
      /\ [p \in Objects |-> stack[p].items][o] = stack[o].items
  BY <1>1, StackMaps
<1>7. StackSequence!PopBack
  <2>1. CASE stack[o].items = <<>>
    <3>1. w.items = stack[o].items /\ Size(stack[o]) = 0
      BY <1>3, <2>1
    <3>2. (Size(stack[o]) > 0) = FALSE
      BY <3>1
    <3>3. stackCall'.ok = FALSE
      BY ONLY <1>5, <3>2
    <3>4. Top(stack[o]) = <<>>
      BY <3>1 DEF Top, BackItem, NULL
    <3>5. /\ stackCall'.op \in {"pop_back", "drop_back"} /\ stackCall'.op \notin StackSilent
          /\ stackCall'.on = o /\ stackCall'.result = <<>>
      BY <1>5, <3>4 DEF StackSilent
    <3>6. stackCall'.ok = (stackCall'.op \in StackSilent)
      BY ONLY <3>3, <3>5, NotAMember
    <3> QED
      BY <1>6, <2>1, <3>1, <3>5, <3>6
       DEF StackSequence!PopBack, StackSequence!Is, StackSequence!Mine, StackSilent,
           StackSequence!Refused, StackSequence!Becomes, StackSequence!NULL
  <2>2. CASE stack[o].items # <<>>
    <3>1. Size(stack[o]) # 0 /\ (Size(stack[o]) > 0) = TRUE
      BY <1>2, <1>3, <2>2
    <3>2. stackCall'.ok = TRUE
      BY ONLY <1>5, <3>1
    <3>3. Top(stack[o]) = <<Last(stack[o].items)>>
      BY <3>1 DEF Top, BackItem, Last, Size
    <3>4. w.items = Front(stack[o].items) /\ stackCall'.on = o
      BY <1>3, <1>5, <2>2
    <3>5. StackSequence!Mine = stack[o].items
      BY <1>6, <3>4 DEF StackSequence!Mine
    <3>6. CASE stackCall'.op = "pop_back" /\ stackCall'.result = Top(stack[o])
      BY <1>6, <2>2, <3>2, <3>3, <3>4, <3>5, <3>6
       DEF StackSequence!PopBack, StackSequence!Is, StackSequence!Becomes, StackSequence!NULL,
           Last, Front
    <3>7. CASE stackCall'.op = "drop_back" /\ stackCall'.result = <<>>
      BY <1>6, <2>2, <3>2, <3>4, <3>5, <3>7
       DEF StackSequence!PopBack, StackSequence!Is, StackSequence!Becomes, StackSequence!NULL,
           Front
    <3> QED
      BY <1>5, <3>6, <3>7
  <2> QED
    BY <2>1, <2>2
<1> QED
  BY <1>4, <1>5, <1>7 DEF StackSequence!Next, StackSequence!NoCall

\* stack_clear.
LEMMA StackClearIs ==
  ASSUME StackInv, NEW o \in Objects, StackClear(o)
  PROVE  StackInv' /\ StackSequence!Next
<1>1. PICK w : StackBecomes(o, w) /\ w = Clear(stack[o])
  BY DEF StackClear
<1>2. Sound(stack[o], Items)
  BY StacksSound
<1>3. Sound(w, Items) /\ w.items = <<>>
  BY <1>1, <1>2, ClearIs
<1>4. StackInv'
  BY <1>1, <1>3, StackUpdate
<1>5. /\ stackCall'.op = "clear" /\ stackCall'.on = o /\ stackCall'.ok = TRUE
      /\ stackCall'.result = <<>> /\ stackCall' # [op |-> "none"]
  BY DEF StackClear, Call, CallOf, NULL
<1>6. /\ [p \in Objects |-> stack'[p].items]
           = [[p \in Objects |-> stack[p].items] EXCEPT ![o] = w.items]
      /\ [p \in Objects |-> stack[p].items][o] = stack[o].items
  BY <1>1, StackMaps
<1>7. StackSequence!Clear
  BY <1>3, <1>5, <1>6
       DEF StackSequence!Clear, StackSequence!Is, StackSequence!Arg, StackSequence!Mine,
           StackSequence!Other, StackSequence!Done, StackSequence!Becomes, StackSequence!NULL
<1> QED
  BY <1>4, <1>5, <1>7 DEF StackSequence!Next, StackSequence!NoCall

\* stack_reserve.
LEMMA StackReserveIs ==
  ASSUME StackInv, NEW o \in Objects, NEW n \in 0..MaxLength, NEW memory \in BOOLEAN,
         StackReserve(o, n, memory)
  PROVE  StackInv' /\ StackSequence!Next
<1>1. PICK w :
        /\ StackBecomes(o, w) /\ w = Reserve(stack[o], n, memory)
        /\ stackCall' = Call("reserve", o, <<n>>, memory, Reserved(w, n), NULL)
  BY DEF StackReserve
<1>2. Sound(stack[o], Items) /\ n \in Nat /\ n <= SizeMax \div ItemSize
  BY StacksSound, Addressable
<1>3. /\ Sound(w, Items) /\ w.items = stack[o].items
      /\ memory => w.capacity >= n
  BY <1>1, <1>2, ReserveIs DEF Reserved
<1>4. StackInv'
  BY <1>1, <1>3, StackUpdate
<1>5. /\ stackCall'.op = "reserve" /\ stackCall'.on = o /\ stackCall'.result = <<>>
      /\ stackCall'.memory = memory /\ stackCall'.ok = (w.capacity >= n)
      /\ stackCall' # [op |-> "none"]
  BY <1>1 DEF Call, CallOf, NULL, Reserved
<1>6. /\ [p \in Objects |-> stack'[p].items]
           = [[p \in Objects |-> stack[p].items] EXCEPT ![o] = w.items]
      /\ [p \in Objects |-> stack[p].items][o] = stack[o].items
  BY <1>1, StackMaps
<1>7. StackSequence!Keep
  <2>1. CASE w.capacity >= n
    <3>1. stackCall'.ok = TRUE
      BY <1>5, <2>1
    <3> QED
      BY <1>3, <1>5, <1>6, <3>1
       DEF StackSequence!Keep, StackSequence!Is, StackSequence!Arg, StackSequence!Mine,
           StackSequence!Other, StackSequence!Done, StackSequence!Becomes, StackSequence!NULL
  <2>2. CASE ~(w.capacity >= n)
    <3>1. stackCall'.ok = FALSE /\ stackCall'.memory = FALSE
      BY <1>3, <1>5, <2>2
    <3>2. /\ stackCall'.op = "reserve" /\ stackCall'.op \notin StackSilent
          /\ stackCall'.on = o /\ stackCall'.result = <<>> /\ w.items = stack[o].items
      BY <1>3, <1>5 DEF StackSilent
    <3>3. stackCall'.ok = (stackCall'.op \in StackSilent)
      BY ONLY <3>1, <3>2, NotAMember
    <3> QED
      BY <1>6, <3>1, <3>2, <3>3
       DEF StackSequence!Keep, StackSequence!Is, StackSequence!Mine, StackSilent,
           StackSequence!OutOfMemory, StackSequence!Refused, StackSequence!Becomes,
           StackSequence!NULL
  <2> QED
    BY <2>1, <2>2
<1> QED
  BY <1>4, <1>5, <1>7 DEF StackSequence!Next, StackSequence!NoCall

\* stack_swap, also of a stack with itself.
LEMMA StackSwapIs ==
  ASSUME StackInv, NEW o \in Objects, NEW p \in Objects, StackSwap(o, p)
  PROVE  StackInv' /\ StackSequence!Next
<1>1. stack' = [stack EXCEPT ![o] = stack[p], ![p] = stack[o]]
  BY DEF StackSwap
<1>2. StackInv'
  BY <1>1 DEF StackInv
<1>3. /\ stackCall'.op = "swap" /\ stackCall'.on = o /\ stackCall'.with = p
      /\ stackCall'.ok = TRUE /\ stackCall'.result = <<>> /\ stackCall' # [op |-> "none"]
  BY DEF StackSwap, CallOf, NULL
<1>4. [q \in Objects |-> stack'[q].items]
        = [[q \in Objects |-> stack[q].items] EXCEPT ![o] = stack[p].items, ![p] = stack[o].items]
  BY <1>1 DEF StackInv
<1>5. /\ [q \in Objects |-> stack[q].items][o] = stack[o].items
      /\ [q \in Objects |-> stack[q].items][p] = stack[p].items
  OBVIOUS
<1>6. StackSequence!Swap
  BY <1>3, <1>4, <1>5 DEF StackSequence!Swap, StackSequence!Is, StackSequence!Mine,
     StackSequence!Other, StackSequence!NULL
<1> QED
  BY <1>2, <1>3, <1>6 DEF StackSequence!Next, StackSequence!NoCall

\* stack_assign: a failed one leaves the destination empty.
LEMMA StackAssignIs ==
  ASSUME StackInv, NEW o \in Objects, NEW src \in Objects, NEW memory \in BOOLEAN,
         StackAssign(o, src, memory)
  PROVE  StackInv' /\ StackSequence!Next
<1>1. PICK v :
        /\ v = AssignItems(stack[o], stack[src].items, memory)
        /\ IF o = src THEN UNCHANGED stack ELSE StackBecomes(o, v)
        /\ stackCall' = CallOf("assign", o, src, <<>>, memory,
                               o = src \/ Size(v) = Size(stack[src]), NULL)
  BY DEF StackAssign
<1>2. PICK w : w = IF o = src THEN stack[o] ELSE v
  OBVIOUS
<1>3. /\ Sound(stack[o], Items) /\ stack[src].items \in Seq(Items)
      /\ Len(stack[src].items) <= SizeMax \div ItemSize
      /\ (Len(stack[src].items) = 0 <=> stack[src].items = <<>>)
  BY StacksSound, EmptySeq
<1>4. /\ Sound(v, Items)
      /\ v.items = stack[src].items \/ (v.items = <<>> /\ stack[src].items # <<>> /\ ~memory)
  BY <1>1, <1>3, AssignItemsIs
<1>5. StackBecomes(o, w) /\ Sound(w, Items)
  BY <1>1, <1>2, <1>3, <1>4 DEF StackBecomes, StackInv
<1>6. StackInv'
  BY <1>5, StackUpdate
<1>7. /\ stackCall'.op = "assign" /\ stackCall'.on = o /\ stackCall'.with = src
      /\ stackCall'.memory = memory /\ stackCall'.result = <<>> /\ stackCall' # [op |-> "none"]
      /\ stackCall'.ok = (o = src \/ Size(v) = Size(stack[src]))
  BY <1>1 DEF CallOf, NULL
<1>8. /\ [p \in Objects |-> stack'[p].items]
           = [[p \in Objects |-> stack[p].items] EXCEPT ![o] = w.items]
      /\ [p \in Objects |-> stack[p].items][o] = stack[o].items
      /\ [p \in Objects |-> stack[p].items][src] = stack[src].items
  BY <1>5, StackMaps
<1>9. StackSequence!Assign
  <2>1. CASE w.items = stack[src].items /\ (o = src \/ v.items = stack[src].items)
    <3>1. stackCall'.ok = TRUE
      BY <1>7, <2>1 DEF Size
    <3> QED
      BY <1>7, <1>8, <2>1, <3>1
       DEF StackSequence!Assign, StackSequence!Is, StackSequence!Arg, StackSequence!Mine,
           StackSequence!Other, StackSequence!Done, StackSequence!Becomes, StackSequence!NULL
  <2>2. CASE o # src /\ w.items = <<>> /\ v.items = <<>> /\ stack[src].items # <<>> /\ ~memory
    <3>1. stackCall'.ok = FALSE /\ stackCall'.memory = FALSE
      BY <1>3, <1>7, <2>2 DEF Size
    <3>2. /\ stackCall'.op = "assign" /\ stackCall'.op \notin StackSilent
          /\ stackCall'.on = o /\ stackCall'.result = <<>> /\ w.items = <<>>
      BY <1>7, <2>2 DEF StackSilent
    <3>3. stackCall'.ok = (stackCall'.op \in StackSilent)
      BY ONLY <3>1, <3>2, NotAMember
    <3> QED
      BY <1>8, <3>1, <3>2, <3>3
       DEF StackSequence!Assign, StackSequence!Is, StackSilent,
           StackSequence!Refused, StackSequence!Becomes, StackSequence!NULL
  <2> QED
    BY <1>2, <1>4, <2>1, <2>2
<1> QED
  BY <1>6, <1>7, <1>9 DEF StackSequence!Next, StackSequence!NoCall

\* stack_copy: a failed one leaves the destination alone.
LEMMA StackCopyIs ==
  ASSUME StackInv, NEW o \in Objects, NEW src \in Objects, NEW memory \in BOOLEAN,
         StackCopy(o, src, memory)
  PROVE  StackInv' /\ StackSequence!Next
<1>1. PICK v :
        /\ v = AssignItems(VectorCreate, stack[src].items, memory)
        /\ IF memory /\ Size(v) = Size(stack[src]) THEN StackBecomes(o, v) ELSE UNCHANGED stack
        /\ stackCall' = CallOf("copy", o, src, <<>>, memory,
                               memory /\ Size(v) = Size(stack[src]), NULL)
  BY DEF StackCopy
<1>2. PICK w : w = IF memory /\ Size(v) = Size(stack[src]) THEN v ELSE stack[o]
  OBVIOUS
<1>3. /\ Sound(stack[o], Items) /\ stack[src].items \in Seq(Items)
      /\ Len(stack[src].items) <= SizeMax \div ItemSize
      /\ Sound(VectorCreate, Items)
  BY StacksSound, CreateSound
<1>4. /\ Sound(v, Items)
      /\ v.items = stack[src].items \/ ~memory
  BY <1>1, <1>3, AssignItemsIs
<1>5. StackBecomes(o, w) /\ Sound(w, Items)
  BY <1>1, <1>2, <1>3, <1>4 DEF StackBecomes, StackInv
<1>6. StackInv'
  BY <1>5, StackUpdate
<1>7. /\ stackCall'.op = "copy" /\ stackCall'.on = o /\ stackCall'.with = src
      /\ stackCall'.memory = memory /\ stackCall'.result = <<>> /\ stackCall' # [op |-> "none"]
      /\ stackCall'.ok = (memory /\ Size(v) = Size(stack[src]))
  BY <1>1 DEF CallOf, NULL
<1>8. /\ [p \in Objects |-> stack'[p].items]
           = [[p \in Objects |-> stack[p].items] EXCEPT ![o] = w.items]
      /\ [p \in Objects |-> stack[p].items][o] = stack[o].items
      /\ [p \in Objects |-> stack[p].items][src] = stack[src].items
  BY <1>5, StackMaps
<1>9. StackSequence!Copy
  <2>1. CASE memory
    <3>1. w.items = stack[src].items /\ stackCall'.ok = TRUE
      BY <1>2, <1>4, <1>7, <2>1 DEF Size
    <3> QED
      BY <1>7, <1>8, <3>1
       DEF StackSequence!Copy, StackSequence!Is, StackSequence!Arg, StackSequence!Mine,
           StackSequence!Other, StackSequence!Done, StackSequence!Becomes, StackSequence!NULL
  <2>2. CASE ~memory
    <3>1. w = stack[o] /\ stackCall'.ok = FALSE /\ stackCall'.memory = FALSE
      BY <1>2, <1>7, <2>2
    <3> QED
      BY <1>7, <1>8, <3>1
       DEF StackSequence!Copy, StackSequence!Is, StackSequence!Arg, StackSequence!Mine,
           StackSequence!Other, StackSequence!OutOfMemory, StackSequence!Refused,
           StackSequence!Becomes, StackSequence!NULL
  <2> QED
    BY <2>1, <2>2
<1> QED
  BY <1>6, <1>7, <1>9 DEF StackSequence!Next, StackSequence!NoCall

\* Every call keeps what stacks rely on, and does to the sequence what its name says.
LEMMA StackStep ==
  ASSUME StackInv, StackNext
  PROVE  StackInv' /\ (RoomToDouble => StackSequence!Next)
<1>1. PICK o \in Objects, memory \in BOOLEAN :
        \/ \E x \in Items : StackPush(o, x, memory)
        \/ StackPop(o)
        \/ StackClear(o)
        \/ \E n \in 0..MaxLength : StackReserve(o, n, memory)
        \/ \E p \in Objects : StackSwap(o, p) \/ StackAssign(o, p, memory) \/ StackCopy(o, p, memory)
  BY DEF StackNext
<1> QED
  BY <1>1, StackPushIs, StackPopIs, StackClearIs, StackReserveIs, StackSwapIs, StackAssignIs,
     StackCopyIs

\* A stack is the sequence its calls say: what is popped is what was pushed last, also after the
\* capacity was doubled, and through swaps, assignments and copies that may fail.
THEOREM StackImplementsSequence ==
  ASSUME RoomToDouble
  PROVE  StackSpec => StackIsSequence
<1>1. StackInit => StackInv /\ StackSequence!Init
  <2> SUFFICES ASSUME StackInit PROVE StackInv /\ StackSequence!Init
    OBVIOUS
  <2>1. Sound(VectorCreate, Items) /\ VectorCreate.items = <<>>
    BY CreateSound
  <2>2. StackInv
    BY <2>1 DEF StackInit, StackInv, Sound
  <2>3. [o \in Objects |-> stack[o].items] = [o \in Objects |-> <<>>]
    BY <2>1 DEF StackInit
  <2> QED
    BY <2>2, <2>3 DEF StackInit, StackSequence!Init, NoCall, StackSequence!NoCall
<1>2. StackInv /\ [StackNext]_stackVars => StackInv' /\ [StackSequence!Next]_StackSequence!vars
  <2>1. ASSUME StackInv, UNCHANGED stackVars PROVE StackInv' /\ UNCHANGED StackSequence!vars
    BY <2>1 DEF stackVars, StackInv, StackSequence!vars
  <2> QED
    BY <2>1, StackStep
<1> QED
  BY <1>1, <1>2, PTL DEF StackSpec, StackIsSequence, StackSequence!Spec

-----------------------------------------------------------------------------
(* One queue                                                               *)

Slots == Items \union {Nothing}

\* What holds of a queue between two calls: it fits its buffer, its dead slots are in front of
\* live ones, and the live ones hold items.
Good(q) ==
  /\ q \in [vec : Struct(Slots), frontIndex : Nat]
  /\ Fits(q.vec)
  /\ q.frontIndex < Size(q.vec) \/ (q.frontIndex = 0 /\ Size(q.vec) = 0)
  /\ Live(q) \in Seq(Items)

\* What a good queue is made of.
LEMMA GoodIs ==
  ASSUME NEW q, Good(q)
  PROVE  /\ q = [vec |-> q.vec, frontIndex |-> q.frontIndex]
         /\ Sound(q.vec, Slots) /\ q.vec.items \in Seq(Slots)
         /\ q.frontIndex \in Nat /\ Size(q.vec) \in Nat /\ q.frontIndex <= Size(q.vec)
         /\ Live(q) \in Seq(Items) /\ Length(q) \in Nat /\ Len(Live(q)) = Length(q)
         /\ Len(Live(q)) <= SizeMax \div ItemSize
         /\ \A i \in 1..Length(q) : Live(q)[i] = q.vec.items[q.frontIndex + i]
<1>1. /\ q = [vec |-> q.vec, frontIndex |-> q.frontIndex]
      /\ q.vec \in Struct(Slots) /\ q.frontIndex \in Nat
  BY DEF Good
<1>2. Sound(q.vec, Slots)
  BY <1>1 DEF Good, Sound
<1>3. /\ q.vec.items \in Seq(Slots) /\ Size(q.vec) \in Nat /\ q.vec.capacity \in Nat
      /\ Size(q.vec) = Len(q.vec.items)
  BY <1>1, FieldsAre DEF Size
<1>4. q.frontIndex <= Size(q.vec)
  BY <1>1, <1>3 DEF Good
<1>5. /\ Len(Live(q)) = Length(q)
      /\ \A i \in 1..Length(q) : Live(q)[i] = q.vec.items[q.frontIndex + i]
  <2>1. Len(q.vec.items) \in q.frontIndex..Len(q.vec.items)
    BY <1>1, <1>3, <1>4
  <2>2. PICK s, f : s = q.vec.items /\ f = q.frontIndex
    OBVIOUS
  <2>3. s \in Seq(Slots) /\ f \in Nat /\ Len(s) \in f..Len(s)
    BY <1>1, <1>3, <2>1, <2>2
  <2>4. /\ Len(SubSeq(s, f + 1, Len(s))) = Len(s) - f
        /\ \A i \in 1..Len(s) - f : SubSeq(s, f + 1, Len(s))[i] = s[f + i]
    BY <2>3, PartIs
  <2> QED
    BY <2>2, <2>4 DEF Live, Length, Size
<1>6. Length(q) \in Nat /\ Length(q) <= Size(q.vec)
  BY <1>1, <1>3, <1>4 DEF Length
<1>7. Len(Live(q)) <= SizeMax \div ItemSize
  <2>1. Size(q.vec) <= q.vec.capacity /\ q.vec.capacity * ItemSize <= SizeMax
    BY DEF Good, Fits
  <2>2. q.vec.capacity <= SizeMax \div ItemSize /\ SizeMax \div ItemSize \in Nat
    BY <1>3, <2>1, Addressable
  <2> QED
    BY <1>3, <1>5, <1>6, <2>1, <2>2
<1> QED
  BY <1>1, <1>2, <1>3, <1>4, <1>5, <1>6, <1>7 DEF Good

\* A queue without dead slots holds what its vector does.
LEMMA FreshIs ==
  ASSUME NEW v, Sound(v, Slots), v.items \in Seq(Items),
         NEW q, q = [vec |-> v, frontIndex |-> 0]
  PROVE  Good(q) /\ Live(q) = v.items /\ q.vec = v /\ q.frontIndex = 0
<1>1. q.vec = v /\ q.frontIndex = 0
  OBVIOUS
<1>2. Size(v) \in Nat /\ Size(v) = Len(v.items)
  BY FieldsAre DEF Sound, Size
<1>3. Live(q) = v.items
  <2>1. Live(q) = SubSeq(v.items, 1, Len(v.items))
    BY <1>1 DEF Live, Size
  <2> QED
    BY <2>1, SubSeqFull
<1>4. q \in [vec : Struct(Slots), frontIndex : Nat] /\ Fits(q.vec)
  BY <1>1 DEF Sound
<1> QED
  BY <1>1, <1>2, <1>3, <1>4 DEF Good

\* A slot holds an item or, when it is dead, Nothing.
LEMMA ItemsInSlots ==
  /\ Items \subseteq Slots /\ Nothing \in Slots
  /\ \A s \in Seq(Items) : s \in Seq(Slots)
BY SeqMonotonic DEF Slots

\* Compaction keeps what is queued.
LEMMA CompactIs ==
  ASSUME NEW q, Good(q), NEW c, c = Compact(q)
  PROVE  /\ Good(c) /\ Live(c) = Live(q) /\ c.frontIndex = 0
         /\ c.vec.items = Live(q) /\ c.vec.capacity = q.vec.capacity
<1>1. /\ Sound(q.vec, Slots) /\ Live(q) \in Seq(Items) /\ Live(q) \in Seq(Slots)
      /\ Len(Live(q)) <= q.vec.capacity
  <2>1. q.vec.capacity \in Nat /\ Size(q.vec) <= q.vec.capacity /\ Size(q.vec) \in Nat
    BY GoodIs, FieldsAre DEF Sound, Fits
  <2>2. Len(Live(q)) = Size(q.vec) - q.frontIndex /\ q.frontIndex \in Nat
    BY GoodIs DEF Length
  <2> QED
    BY <2>1, <2>2, GoodIs, ItemsInSlots
<1>2. PICK v : v = [q.vec EXCEPT !.items = Live(q)]
  OBVIOUS
<1>3. Sound(v, Slots) /\ v.items = Live(q) /\ v.capacity = q.vec.capacity
  BY <1>1, <1>2, StillFits
<1>4. c = [vec |-> v, frontIndex |-> 0]
  <2>1. PICK u, f, l : u = q.vec /\ f = q.frontIndex /\ l = Live(q)
    OBVIOUS
  <2>2. q = [vec |-> u, frontIndex |-> f]
    BY <2>1, GoodIs
  <2>3. c = [q EXCEPT !.vec = [u EXCEPT !.items = l], !.frontIndex = 0]
    BY <2>1, <2>2 DEF Compact
  <2> QED
    BY ONLY <1>2, <2>1, <2>2, <2>3
<1>5. Good(c) /\ Live(c) = v.items /\ c.vec = v /\ c.frontIndex = 0
  BY <1>1, <1>3, <1>4, FreshIs
<1> QED
  BY <1>3, <1>5

\* Making room keeps what is queued; there is room then, or no dead slot to be had.
LEMMA MakeRoomIs ==
  ASSUME NEW q, Good(q), NEW m, m = MakeRoom(q)
  PROVE  /\ Good(m) /\ Live(m) = Live(q)
         /\ HasRoom(m.vec) \/ m.frontIndex = 0
<1>1. CASE ~HasRoom(q.vec) /\ q.frontIndex > 0
  BY <1>1, CompactIs DEF MakeRoom
<1>2. CASE ~(~HasRoom(q.vec) /\ q.frontIndex > 0)
  <2>1. m = q
    BY <1>2 DEF MakeRoom
  <2>2. HasRoom(q.vec) \/ q.frontIndex = 0
    BY <1>2, GoodIs
  <2> QED
    BY <2>1, <2>2
<1> QED
  BY <1>1, <1>2

\* A part up to the end of a sequence grows with it.
LEMMA PartAppend ==
  ASSUME NEW X, NEW s \in Seq(X), NEW x \in X, NEW f \in 0..Len(s)
  PROVE  SubSeq(Append(s, x), f + 1, Len(s) + 1) = Append(SubSeq(s, f + 1, Len(s)), x)
<1>1. Len(s) \in Nat /\ f \in Nat /\ f <= Len(s)
  BY LenProperties
<1>2. PICK t : t = Append(s, x)
  OBVIOUS
<1>3. t \in Seq(X) /\ Len(t) = Len(s) + 1 /\ (\A i \in 1..Len(s) : t[i] = s[i]) /\ t[Len(s) + 1] = x
  BY <1>2, AppendProperties
<1>4. PICK a : a = SubSeq(t, f + 1, Len(t))
  OBVIOUS
<1>5. a \in Seq(X) /\ Len(a) = Len(s) + 1 - f /\ \A i \in 1..Len(s) + 1 - f : a[i] = t[f + i]
  <2>1. Len(t) \in f..Len(t)
    BY <1>1, <1>3
  <2>2. a \in Seq(X) /\ Len(a) = Len(t) - f /\ \A i \in 1..Len(t) - f : a[i] = t[f + i]
    BY <1>1, <1>3, <1>4, <2>1, PartIs
  <2> QED
    BY <1>3, <2>2
<1>6. PICK b : b = SubSeq(s, f + 1, Len(s))
  OBVIOUS
<1>7. b \in Seq(X) /\ Len(b) = Len(s) - f /\ \A i \in 1..Len(s) - f : b[i] = s[f + i]
  <2>1. Len(s) \in f..Len(s)
    BY <1>1
  <2> QED
    BY <1>1, <1>6, <2>1, PartIs
<1>8. PICK c : c = Append(b, x)
  OBVIOUS
<1>9. c \in Seq(X) /\ Len(c) = Len(b) + 1 /\ (\A i \in 1..Len(b) : c[i] = b[i]) /\ c[Len(b) + 1] = x
  BY <1>7, <1>8, AppendProperties
<1>10. Len(a) = Len(c)
  BY <1>1, <1>5, <1>7, <1>9
<1>11. \A i \in 1..Len(a) : a[i] = c[i]
  <2> SUFFICES ASSUME NEW i \in 1..Len(a) PROVE a[i] = c[i]
    OBVIOUS
  <2>1. a[i] = t[f + i]
    BY <1>5
  <2>2. CASE i <= Len(s) - f
    <3>1. f + i \in 1..Len(s) /\ i \in 1..Len(s) - f
      BY <1>1, <1>5, <2>2
    <3> QED
      BY <1>3, <1>7, <1>9, <2>1, <3>1
  <2>3. CASE i > Len(s) - f
    <3>1. i = Len(b) + 1 /\ f + i = Len(s) + 1
      BY <1>1, <1>5, <1>7, <2>3
    <3> QED
      BY <1>3, <1>9, <2>1, <3>1
  <2> QED
    BY <1>1, <1>5, <2>2, <2>3
<1>12. a = c
  BY <1>5, <1>9, <1>10, <1>11, SeqEqual
<1> QED
  BY <1>2, <1>3, <1>4, <1>6, <1>8, <1>12

\* A push puts the item at the back of what is queued, or, without memory, nothing.
LEMMA PushedIs ==
  ASSUME NEW q, Good(q), NEW x \in Items, NEW memory \in BOOLEAN, Length(q) < MaxLength,
         NEW made, made = MakeRoom(q), NEW v, v = PushBack(made.vec, x, memory),
         NEW w, w = [made EXCEPT !.vec = v]
  PROVE  /\ Good(w)
         /\ \/ Live(w) = Append(Live(q), x) /\ Size(v) > Size(made.vec)
            \/ Live(w) = Live(q) /\ ~(Size(v) > Size(made.vec)) /\ (RoomToDouble => ~memory)
<1>1. /\ Good(made) /\ Live(made) = Live(q)
      /\ HasRoom(made.vec) \/ made.frontIndex = 0
  BY MakeRoomIs
<1>2. PICK u, f : u = made.vec /\ f = made.frontIndex
  OBVIOUS
<1>3. /\ made = [vec |-> u, frontIndex |-> f] /\ Sound(u, Slots) /\ u.items \in Seq(Slots)
      /\ f \in Nat /\ Size(u) \in Nat /\ f <= Size(u)
      /\ Len(Live(made)) = Length(made) /\ Length(made) = Size(u) - f
      /\ f < Size(u) \/ (f = 0 /\ Size(u) = 0)
  BY <1>1, <1>2, GoodIs DEF Length, Good
<1>4. x \in Slots
  BY ItemsInSlots
<1>5. /\ Sound(v, Slots)
      /\ \/ v.items = Append(u.items, x) /\ Size(v) = Size(u) + 1
         \/ v.items = u.items /\ Size(v) = Size(u) /\ ~HasRoom(u)
            /\ (RoomToDouble /\ Size(u) < MaxLength => ~memory)
  <2>1. v = PushBack(u, x, memory)
    BY <1>2
  <2>2. Sound(u, Slots) /\ Size(u) \in Nat /\ x \in Slots
    BY <1>3, <1>4
  <2> QED
    BY ONLY <2>1, <2>2, PushBackIs, memory \in BOOLEAN
<1>6. w = [vec |-> v, frontIndex |-> f]
  BY <1>3
<1>7. w.vec = v /\ w.frontIndex = f
  BY <1>6
<1>8. Len(Live(q)) = Length(q)
  BY GoodIs
<1>9. CASE v.items = Append(u.items, x) /\ Size(v) = Size(u) + 1
  <2>1. f \in 0..Len(u.items)
    BY <1>3 DEF Size
  <2>2. SubSeq(Append(u.items, x), f + 1, Len(u.items) + 1) = Append(SubSeq(u.items, f + 1, Len(u.items)), x)
    BY <1>3, <1>4, <2>1, PartAppend
  <2>3. Live(w) = Append(Live(made), x)
    BY <1>2, <1>7, <1>9, <2>2 DEF Live, Size
  <2>4. Live(w) \in Seq(Items)
    <3>1. Live(made) \in Seq(Items)
      BY <1>1, GoodIs
    <3> QED
      BY <2>3, <3>1, AppendProperties
  <2>5. f < Size(v)
    BY <1>3, <1>9
  <2>6. w \in [vec : Struct(Slots), frontIndex : Nat] /\ Fits(w.vec)
    BY <1>3, <1>5, <1>6, <1>7 DEF Sound
  <2>7. Good(w)
    BY <1>7, <2>4, <2>5, <2>6 DEF Good
  <2> QED
    BY <1>1, <1>2, <1>3, <1>9, <2>3, <2>7
<1>10. CASE v.items = u.items /\ Size(v) = Size(u) /\ ~HasRoom(u)
            /\ (RoomToDouble /\ Size(u) < MaxLength => ~memory)
  <2>1. Live(w) = Live(made)
    BY <1>2, <1>7, <1>10 DEF Live
  <2>2. w \in [vec : Struct(Slots), frontIndex : Nat] /\ Fits(w.vec)
    BY <1>3, <1>5, <1>6, <1>7 DEF Sound
  <2>3. Good(w)
    BY <1>1, <1>2, <1>3, <1>7, <1>10, <2>1, <2>2, GoodIs DEF Good
  <2>4. Size(u) < MaxLength
    BY <1>1, <1>2, <1>3, <1>8, <1>10
  <2> QED
    BY <1>1, <1>2, <1>3, <1>10, <2>1, <2>3, <2>4
<1> QED
  BY <1>5, <1>9, <1>10

\* What queue_pop leaves of a queue.
Popped(q) == CASE Length(q) = 0 -> q
               [] Length(q) = 1 -> [q EXCEPT !.vec.items = <<>>, !.frontIndex = 0]
               [] OTHER -> [q EXCEPT !.frontIndex = @ + 1,
                                     !.vec.items[q.frontIndex + 1] = Nothing]

\* A pop takes the first item, and a queue that it empties starts its buffer anew.
LEMMA PoppedIs ==
  ASSUME NEW q, Good(q), NEW w, w = Popped(q)
  PROVE  /\ Good(w)
         /\ Live(q) = <<>> => Live(w) = Live(q)
         /\ Live(q) # <<>> => Live(w) = Tail(Live(q))
<1>1. PICK u, f, s : u = q.vec /\ f = q.frontIndex /\ s = u.items
  OBVIOUS
<1>2. /\ q = [vec |-> u, frontIndex |-> f] /\ Sound(u, Slots) /\ s \in Seq(Slots)
      /\ f \in Nat /\ Len(s) \in Nat /\ f <= Len(s) /\ Size(u) = Len(s)
      /\ Live(q) \in Seq(Items) /\ Length(q) \in Nat /\ Len(Live(q)) = Length(q)
      /\ Length(q) = Len(s) - f
      /\ \A i \in 1..Length(q) : Live(q)[i] = s[f + i]
  BY <1>1, GoodIs DEF Length, Size
<1>3. Live(q) = <<>> <=> Length(q) = 0
  BY <1>2, EmptySeq
<1>4. CASE Length(q) = 0
  <2>1. w = q
    BY <1>4 DEF Popped
  <2> QED
    BY <1>3, <1>4, <2>1
<1>5. CASE Length(q) = 1
  <2>1. PICK v : v = [u EXCEPT !.items = <<>>]
    OBVIOUS
  <2>2. w = [vec |-> v, frontIndex |-> 0]
    <3>1. w = [q EXCEPT !.vec.items = <<>>, !.frontIndex = 0]
      BY <1>5 DEF Popped
    <3> QED
      BY ONLY <1>2, <2>1, <3>1
  <2>3. <<>> \in Seq(Items) /\ <<>> \in Seq(Slots) /\ Len(<<>>) <= u.capacity
    <3>1. u.capacity \in Nat
      BY <1>2, FieldsAre DEF Sound
    <3> QED
      BY <3>1
  <2>4. PICK e : e = <<>> /\ e \in Seq(Slots) /\ Len(e) <= u.capacity /\ v = [u EXCEPT !.items = e]
    BY <2>1, <2>3
  <2>5. Sound(v, Slots) /\ v.items = e
    <3>1. e \in Seq(Slots) /\ Len(e) <= u.capacity /\ v = [u EXCEPT !.items = e]
      BY <2>4
    <3> QED
      BY <1>2, <3>1, StillFits
  <2>6. Good(w) /\ Live(w) = <<>>
    BY <2>2, <2>3, <2>4, <2>5, FreshIs
  <2>7. Tail(Live(q)) = <<>>
    <3>1. Live(q) # <<>>
      BY <1>3, <1>5
    <3>2. Tail(Live(q)) \in Seq(Items) /\ Len(Tail(Live(q))) = Len(Live(q)) - 1
      BY <1>2, <3>1, HeadTailProperties
    <3> QED
      BY <1>2, <1>5, <3>2, EmptySeq
  <2> QED
    BY <1>3, <1>5, <2>6, <2>7
<1>6. CASE Length(q) # 0 /\ Length(q) # 1
  <2>1. PICK t : t = [s EXCEPT ![f + 1] = Nothing]
    OBVIOUS
  <2>2. f + 1 \in 1..Len(s) /\ Nothing \in Slots
    BY <1>2, <1>6, ItemsInSlots
  <2>3. /\ t \in Seq(Slots) /\ Len(t) = Len(s)
        /\ \A j \in 1..Len(s) : t[j] = IF j = f + 1 THEN Nothing ELSE s[j]
    BY <1>2, <2>1, <2>2, ExceptSeq
  <2>4. PICK v : v = [u EXCEPT !.items = t]
    OBVIOUS
  <2>5. Sound(v, Slots) /\ v.items = t
    <3>1. Len(t) <= u.capacity
      BY <1>2, <2>3 DEF Sound, Fits
    <3> QED
      BY <1>2, <2>3, <2>4, <3>1, StillFits
  <2>6. w = [vec |-> v, frontIndex |-> f + 1]
    <3>1. w = [q EXCEPT !.frontIndex = @ + 1, !.vec.items[q.frontIndex + 1] = Nothing]
      BY <1>6 DEF Popped
    <3> QED
      BY ONLY <1>2, <1>1, <2>1, <2>4, <3>1
  <2>7. w.vec = v /\ w.frontIndex = f + 1
    BY <2>6
  <2>8. PICK a : a = Live(w)
    OBVIOUS
  <2>9. a = SubSeq(t, (f + 1) + 1, Len(t))
    BY <2>5, <2>7, <2>8 DEF Live, Size
  <2>10. /\ a \in Seq(Slots) /\ Len(a) = Len(s) - (f + 1)
         /\ \A i \in 1..Len(s) - (f + 1) : a[i] = t[(f + 1) + i]
    <3>1. f + 1 \in Nat /\ Len(t) \in (f + 1)..Len(t)
      BY <1>2, <2>2, <2>3
    <3>2. /\ a \in Seq(Slots) /\ Len(a) = Len(t) - (f + 1)
          /\ \A i \in 1..Len(t) - (f + 1) : a[i] = t[(f + 1) + i]
      BY <2>3, <2>9, <3>1, PartIs
    <3> QED
      BY <2>3, <3>2
  <2>11. Live(q) # <<>>
    BY <1>3, <1>6
  <2>12. PICK b : b = Tail(Live(q)) /\ b \in Seq(Items) /\ Len(b) = Len(Live(q)) - 1
                  /\ \A i \in 1..Len(b) : b[i] = Live(q)[i + 1]
    <3>1. PICK l : l = Live(q)
      OBVIOUS
    <3>2. /\ Tail(l) \in Seq(Items) /\ Len(Tail(l)) = Len(l) - 1
          /\ \A i \in 1..Len(Tail(l)) : Tail(l)[i] = l[i + 1]
      BY <1>2, <2>11, <3>1, HeadTailProperties
    <3> QED
      BY <3>1, <3>2
  <2>13. Len(a) = Len(b)
    BY <1>2, <2>10, <2>12
  <2>14. \A i \in 1..Len(a) : a[i] = b[i]
    <3> SUFFICES ASSUME NEW i \in 1..Len(a) PROVE a[i] = b[i]
      OBVIOUS
    <3>1. i \in 1..Len(s) - (f + 1) /\ i \in 1..Len(b) /\ i + 1 \in 1..Length(q)
      BY <1>2, <2>10, <2>12
    <3>2. (f + 1) + i \in 1..Len(s) /\ (f + 1) + i # f + 1 /\ f + (i + 1) = (f + 1) + i
      <4>1. f \in Nat /\ Len(s) \in Nat /\ i \in 1..Len(s) - (f + 1)
        BY <1>2, <3>1
      <4> QED
        BY <4>1
    <3>3. a[i] = s[(f + 1) + i]
      BY <2>3, <2>10, <3>1, <3>2
    <3>4. b[i] = s[f + (i + 1)]
      BY <1>2, <2>12, <3>1
    <3> QED
      BY <3>2, <3>3, <3>4
  <2>15. a = b
    <3>1. b \in Seq(Slots)
      BY <2>12, ItemsInSlots
    <3> QED
      BY <2>10, <2>13, <2>14, <3>1, SeqEqual
  <2>16. f + 1 < Size(v)
    BY <1>2, <1>6, <2>3, <2>5 DEF Size
  <2>17. w \in [vec : Struct(Slots), frontIndex : Nat] /\ Fits(w.vec)
    BY <1>2, <2>5, <2>6, <2>7 DEF Sound
  <2>18. Good(w)
    BY <2>7, <2>8, <2>12, <2>15, <2>16, <2>17 DEF Good
  <2> QED
    BY <2>8, <2>11, <2>12, <2>15, <2>18
<1> QED
  BY <1>4, <1>5, <1>6

-----------------------------------------------------------------------------
(* The queues                                                              *)

\* The calls that do not report whether they went well.
QueueSilent == {"pop_front", "swap", "sort"}

QueueInv == DOMAIN queue = Objects /\ queue = [o \in Objects |-> queue[o]]
            /\ \A o \in Objects : Good(queue[o])

\* A call that leaves one queue good leaves all of them so; only its sequence changes.
LEMMA QueueUpdate ==
  ASSUME QueueInv, NEW o \in Objects, NEW w, Good(w), QueueBecomes(o, w)
  PROVE  /\ QueueInv'
         /\ [p \in Objects |-> Live(queue'[p])]
              = [[p \in Objects |-> Live(queue[p])] EXCEPT ![o] = Live(w)]
         /\ [p \in Objects |-> Live(queue[p])][o] = Live(queue[o])
<1>1. queue' = [queue EXCEPT ![o] = w]
  BY DEF QueueBecomes
<1>2. DOMAIN queue' = Objects /\ queue' = [p \in Objects |-> queue'[p]]
  BY <1>1 DEF QueueInv
<1>3. \A p \in Objects : queue'[p] = IF p = o THEN w ELSE queue[p]
  BY <1>1 DEF QueueInv
<1>4. \A p \in Objects : Good(queue'[p])
  BY <1>3 DEF QueueInv
<1>5. [p \in Objects |-> Live(queue'[p])]
        = [[p \in Objects |-> Live(queue[p])] EXCEPT ![o] = Live(w)]
  BY <1>3
<1> QED
  BY <1>2, <1>4, <1>5 DEF QueueInv

\* queue_push and queue_emplace append, or report that there is no memory.
LEMMA QueuePushIs ==
  ASSUME QueueInv, NEW o \in Objects, NEW x \in Items, NEW memory \in BOOLEAN,
         QueuePush(o, x, memory)
  PROVE  QueueInv' /\ (RoomToDouble => QueueSequence!Next)
<1>1. PICK made, v :
        /\ made = MakeRoom(queue[o]) /\ v = PushBack(made.vec, x, memory)
        /\ Length(queue[o]) < MaxLength
        /\ QueueBecomes(o, [made EXCEPT !.vec = v])
        /\ \E op \in {"push_back", "emplace_back"} :
             queueCall' = Call(op, o, <<x>>, memory, Size(v) > Size(made.vec), NULL)
  BY DEF QueuePush
<1>2. PICK w : w = [made EXCEPT !.vec = v] /\ QueueBecomes(o, w)
  BY <1>1
<1>3. Good(queue[o])
  BY DEF QueueInv
<1>4. /\ Good(w)
      /\ \/ Live(w) = Append(Live(queue[o]), x) /\ Size(v) > Size(made.vec)
         \/ Live(w) = Live(queue[o]) /\ ~(Size(v) > Size(made.vec)) /\ (RoomToDouble => ~memory)
  BY <1>1, <1>2, <1>3, PushedIs
<1>5. /\ QueueInv'
      /\ [p \in Objects |-> Live(queue'[p])]
           = [[p \in Objects |-> Live(queue[p])] EXCEPT ![o] = Live(w)]
      /\ [p \in Objects |-> Live(queue[p])][o] = Live(queue[o])
  BY <1>2, <1>4, QueueUpdate
<1>6. PICK op \in {"push_back", "emplace_back"} :
        queueCall' = Call(op, o, <<x>>, memory, Size(v) > Size(made.vec), NULL)
  BY <1>1
<1>7. /\ queueCall'.op = op /\ queueCall'.on = o /\ queueCall'.args = <<x>>
      /\ queueCall'.memory = memory /\ queueCall'.ok = (Size(v) > Size(made.vec))
      /\ queueCall'.result = <<>> /\ queueCall' # [op |-> "none"]
  BY <1>6 DEF Call, CallOf, NULL
<1>8. ASSUME RoomToDouble PROVE QueueSequence!PushBack
  <2>1. queueCall'.args[1] = x
    BY <1>7
  <2>2. CASE Live(w) = Append(Live(queue[o]), x) /\ Size(v) > Size(made.vec)
    <3>1. queueCall'.ok = TRUE
      BY <1>7, <2>2
    <3> QED
      BY <1>5, <1>7, <2>1, <2>2, <3>1
       DEF QueueSequence!PushBack, QueueSequence!Is, QueueSequence!Arg, QueueSequence!Mine,
           QueueSequence!Other, QueueSequence!Done, QueueSequence!Becomes, QueueSequence!NULL
  <2>3. CASE Live(w) = Live(queue[o]) /\ ~(Size(v) > Size(made.vec)) /\ ~memory
    <3>1. queueCall'.ok = FALSE /\ queueCall'.memory = FALSE
      BY <1>7, <2>3
    <3> QED
      BY <1>5, <1>7, <2>1, <2>3, <3>1
       DEF QueueSequence!PushBack, QueueSequence!Is, QueueSequence!Arg, QueueSequence!Mine,
           QueueSequence!Other, QueueSequence!OutOfMemory, QueueSequence!Refused,
           QueueSequence!Becomes, QueueSequence!NULL
  <2> QED
    BY <1>4, <1>8, <2>2, <2>3
<1> QED
  BY <1>5, <1>7, <1>8 DEF QueueSequence!Next, QueueSequence!NoCall

\* queue_pop takes what was pushed first.
LEMMA QueuePopIs ==
  ASSUME QueueInv, NEW o \in Objects, QueuePop(o)
  PROVE  QueueInv' /\ QueueSequence!Next
<1>1. PICK q : q = queue[o] /\ Good(q)
  BY DEF QueueInv
<1>2. PICK w :
        /\ QueueBecomes(o, w)
        /\ w = Popped(q)
  BY <1>1 DEF QueuePop, Popped
<1>3. /\ Good(w)
      /\ Live(q) = <<>> => Live(w) = Live(q)
      /\ Live(q) # <<>> => Live(w) = Tail(Live(q))
  BY <1>2, <1>1, PoppedIs
<1>4. /\ QueueInv'
      /\ [p \in Objects |-> Live(queue'[p])]
           = [[p \in Objects |-> Live(queue[p])] EXCEPT ![o] = Live(w)]
      /\ [p \in Objects |-> Live(queue[p])][o] = Live(queue[o])
  BY <1>2, <1>3, QueueUpdate
<1>5. /\ queueCall'.op = "pop_front" /\ queueCall'.on = o /\ queueCall'.ok = TRUE
      /\ queueCall'.result = <<>> /\ queueCall' # [op |-> "none"]
  BY DEF QueuePop, Call, CallOf, NULL
<1>6. QueueSequence!PopFront
  <2>1. CASE Live(q) = <<>>
    <3>1. Live(queue[o]) = <<>> /\ Live(w) = Live(queue[o])
      BY <1>1, <1>3, <2>1
    <3> QED
      BY <1>4, <1>5, <3>1
       DEF QueueSequence!PopFront, QueueSequence!Is, QueueSequence!Arg, QueueSequence!Mine,
           QueueSequence!Other, QueueSequence!Refused, QueueSequence!Becomes, QueueSequence!NULL
  <2>2. CASE Live(q) # <<>>
    <3>1. Live(queue[o]) # <<>> /\ Live(w) = Tail(Live(queue[o]))
      BY <1>1, <1>3, <2>2
    <3> QED
      BY <1>4, <1>5, <3>1
       DEF QueueSequence!PopFront, QueueSequence!Is, QueueSequence!Arg, QueueSequence!Mine,
           QueueSequence!Other, QueueSequence!Done, QueueSequence!Becomes, QueueSequence!NULL
  <2> QED
    BY <2>1, <2>2
<1> QED
  BY <1>4, <1>5, <1>6 DEF QueueSequence!Next, QueueSequence!NoCall

\* queue_reserve.
LEMMA QueueReserveIs ==
  ASSUME QueueInv, NEW o \in Objects, NEW n \in 0..MaxLength, NEW memory \in BOOLEAN,
         QueueReserve(o, n, memory)
  PROVE  QueueInv' /\ QueueSequence!Next
<1>1. PICK v :
        /\ v = Reserve(queue[o].vec, n, memory)
        /\ QueueBecomes(o, [queue[o] EXCEPT !.vec = v])
        /\ queueCall' = Call("reserve", o, <<n>>, memory, Reserved(v, n), NULL)
  BY DEF QueueReserve
<1>2. PICK w : w = [queue[o] EXCEPT !.vec = v] /\ QueueBecomes(o, w)
  BY <1>1
<1>3. Good(queue[o]) /\ n \in Nat /\ n <= SizeMax \div ItemSize
  BY Addressable DEF QueueInv
<1>4. PICK u, f : u = queue[o].vec /\ f = queue[o].frontIndex
  OBVIOUS
<1>5. queue[o] = [vec |-> u, frontIndex |-> f] /\ Sound(u, Slots) /\ f \in Nat
  BY <1>3, <1>4, GoodIs
<1>6. Sound(v, Slots) /\ v.items = u.items /\ (memory => v.capacity >= n)
  BY <1>1, <1>3, <1>4, <1>5, ReserveIs DEF Reserved
<1>7. Good(w) /\ Live(w) = Live(queue[o])
  <2>1. w = [vec |-> v, frontIndex |-> f]
    BY <1>2, <1>5
  <2>2. w.vec = v /\ w.frontIndex = f
    BY <2>1
  <2>3. Live(w) = Live(queue[o]) /\ Size(v) = Size(u)
    BY <1>6, <1>4, <2>2 DEF Live, Size
  <2>4. w \in [vec : Struct(Slots), frontIndex : Nat] /\ Fits(w.vec)
    BY <1>6, <1>5, <2>1, <2>2 DEF Sound
  <2> QED
    BY <1>3, <1>4, <2>2, <2>3, <2>4 DEF Good
<1>8. /\ QueueInv'
      /\ [p \in Objects |-> Live(queue'[p])]
           = [[p \in Objects |-> Live(queue[p])] EXCEPT ![o] = Live(w)]
      /\ [p \in Objects |-> Live(queue[p])][o] = Live(queue[o])
  BY <1>2, <1>7, QueueUpdate
<1>9. /\ queueCall'.op = "reserve" /\ queueCall'.on = o /\ queueCall'.result = <<>>
      /\ queueCall'.memory = memory /\ queueCall'.ok = (v.capacity >= n)
      /\ queueCall' # [op |-> "none"]
  BY <1>1 DEF Call, CallOf, NULL, Reserved
<1>10. QueueSequence!Keep
  <2>1. CASE v.capacity >= n
    <3>1. queueCall'.ok = TRUE
      BY <1>9, <2>1
    <3> QED
      BY <1>7, <1>8, <1>9, <3>1
       DEF QueueSequence!Keep, QueueSequence!Is, QueueSequence!Arg, QueueSequence!Mine,
           QueueSequence!Other, QueueSequence!Done, QueueSequence!Becomes, QueueSequence!NULL
  <2>2. CASE ~(v.capacity >= n)
    <3>1. queueCall'.ok = FALSE /\ queueCall'.memory = FALSE
      BY <1>9, <1>6, <2>2
    <3>2. /\ queueCall'.op = "reserve" /\ queueCall'.op \notin QueueSilent
          /\ queueCall'.on = o /\ queueCall'.result = <<>>
      BY <1>9 DEF QueueSilent
    <3>3. queueCall'.ok = (queueCall'.op \in QueueSilent)
      BY ONLY <3>1, <3>2, NotAMember
    <3> QED
      BY <1>7, <1>8, <3>1, <3>2, <3>3
       DEF QueueSequence!Keep, QueueSequence!Is, QueueSequence!Mine, QueueSilent,
           QueueSequence!OutOfMemory, QueueSequence!Refused, QueueSequence!Becomes,
           QueueSequence!NULL
  <2> QED
    BY <2>1, <2>2
<1> QED
  BY <1>8, <1>9, <1>10 DEF QueueSequence!Next, QueueSequence!NoCall

\* queue_swap, also of a queue with itself.
LEMMA QueueSwapIs ==
  ASSUME QueueInv, NEW o \in Objects, NEW p \in Objects, QueueSwap(o, p)
  PROVE  QueueInv' /\ QueueSequence!Next
<1>1. queue' = [queue EXCEPT ![o] = queue[p], ![p] = queue[o]]
  BY DEF QueueSwap
<1>2. /\ DOMAIN queue' = Objects /\ queue' = [q \in Objects |-> queue'[q]]
      /\ \A q \in Objects : queue'[q] = IF q = p THEN queue[o] ELSE IF q = o THEN queue[p] ELSE queue[q]
  BY <1>1 DEF QueueInv
<1>3. QueueInv'
  BY <1>2 DEF QueueInv
<1>4. /\ queueCall'.op = "swap" /\ queueCall'.on = o /\ queueCall'.with = p
      /\ queueCall'.ok = TRUE /\ queueCall'.result = <<>> /\ queueCall' # [op |-> "none"]
  BY DEF QueueSwap, CallOf, NULL
<1>5. [q \in Objects |-> Live(queue'[q])]
        = [[q \in Objects |-> Live(queue[q])] EXCEPT ![o] = Live(queue[p]), ![p] = Live(queue[o])]
  BY <1>2
<1>6. /\ [q \in Objects |-> Live(queue[q])][o] = Live(queue[o])
      /\ [q \in Objects |-> Live(queue[q])][p] = Live(queue[p])
  OBVIOUS
<1>7. QueueSequence!Swap
  BY <1>4, <1>5, <1>6 DEF QueueSequence!Swap, QueueSequence!Is, QueueSequence!Mine,
     QueueSequence!Other, QueueSequence!NULL
<1> QED
  BY <1>3, <1>4, <1>7 DEF QueueSequence!Next, QueueSequence!NoCall

\* queue_assign: a failed one leaves the destination empty.
LEMMA QueueAssignIs ==
  ASSUME QueueInv, NEW o \in Objects, NEW src \in Objects, NEW memory \in BOOLEAN,
         QueueAssign(o, src, memory)
  PROVE  QueueInv' /\ QueueSequence!Next
<1>1. PICK v :
        /\ v = AssignItems(queue[o].vec, Live(queue[src]), memory)
        /\ IF o = src THEN UNCHANGED queue ELSE QueueBecomes(o, [vec |-> v, frontIndex |-> 0])
        /\ queueCall' = CallOf("assign", o, src, <<>>, memory,
                               o = src \/ Size(v) = Length(queue[src]), NULL)
  BY DEF QueueAssign
<1>2. /\ Good(queue[o]) /\ Sound(queue[o].vec, Slots)
      /\ Live(queue[src]) \in Seq(Items) /\ Live(queue[src]) \in Seq(Slots)
      /\ Len(Live(queue[src])) = Length(queue[src])
      /\ Len(Live(queue[src])) <= SizeMax \div ItemSize
      /\ (Len(Live(queue[src])) = 0 <=> Live(queue[src]) = <<>>)
  BY GoodIs, ItemsInSlots, EmptySeq DEF QueueInv
<1>3. /\ Sound(v, Slots)
      /\ v.items = Live(queue[src]) \/ (v.items = <<>> /\ Live(queue[src]) # <<>> /\ ~memory)
  BY <1>1, <1>2, AssignItemsIs
<1>4. PICK fresh : fresh = [vec |-> v, frontIndex |-> 0]
  OBVIOUS
<1>5. Good(fresh) /\ Live(fresh) = v.items
  <2>1. <<>> \in Seq(Items)
    OBVIOUS
  <2>2. v.items \in Seq(Items)
    BY <1>2, <1>3, <2>1
  <2> QED
    BY <1>3, <1>4, <2>2, FreshIs
<1>6. PICK w : w = (IF o = src THEN queue[o] ELSE fresh) /\ QueueBecomes(o, w)
  <2>1. CASE o = src
    <3>1. [queue EXCEPT ![o] = queue[o]] = queue
      BY DEF QueueInv
    <3> QED
      BY <1>1, <2>1, <3>1 DEF QueueBecomes
  <2>2. CASE o # src
    BY <1>1, <1>4, <2>2
  <2> QED
    BY <2>1, <2>2
<1>7. Good(w)
  BY <1>6, <1>2, <1>5
<1>8. /\ QueueInv'
      /\ [p \in Objects |-> Live(queue'[p])]
           = [[p \in Objects |-> Live(queue[p])] EXCEPT ![o] = Live(w)]
      /\ [p \in Objects |-> Live(queue[p])][o] = Live(queue[o])
  BY <1>6, <1>7, QueueUpdate
<1>9. [p \in Objects |-> Live(queue[p])][src] = Live(queue[src])
  OBVIOUS
<1>10. /\ queueCall'.op = "assign" /\ queueCall'.on = o /\ queueCall'.with = src
      /\ queueCall'.memory = memory /\ queueCall'.result = <<>> /\ queueCall' # [op |-> "none"]
      /\ queueCall'.ok = (o = src \/ Size(v) = Length(queue[src]))
  BY <1>1 DEF CallOf, NULL
<1>11. QueueSequence!Assign
  <2>1. CASE o = src \/ v.items = Live(queue[src])
    <3>1. queueCall'.ok = TRUE /\ Live(w) = Live(queue[src])
      BY <1>6, <1>2, <1>10, <1>5, <2>1 DEF Size
    <3> QED
      BY <1>8, <1>10, <1>9, <3>1
       DEF QueueSequence!Assign, QueueSequence!Is, QueueSequence!Arg, QueueSequence!Mine,
           QueueSequence!Other, QueueSequence!Done, QueueSequence!Becomes, QueueSequence!NULL
  <2>2. CASE o # src /\ v.items = <<>> /\ Live(queue[src]) # <<>> /\ ~memory
    <3>1. queueCall'.ok = FALSE /\ queueCall'.memory = FALSE /\ Live(w) = <<>>
      BY <1>6, <1>2, <1>10, <1>5, <2>2 DEF Size
    <3>2. /\ queueCall'.op = "assign" /\ queueCall'.op \notin QueueSilent
          /\ queueCall'.on = o /\ queueCall'.result = <<>>
      BY <1>10 DEF QueueSilent
    <3>3. queueCall'.ok = (queueCall'.op \in QueueSilent)
      BY ONLY <3>1, <3>2, NotAMember
    <3> QED
      BY <1>8, <3>1, <3>2, <3>3
       DEF QueueSequence!Assign, QueueSequence!Is, QueueSilent,
           QueueSequence!Refused, QueueSequence!Becomes, QueueSequence!NULL
  <2> QED
    BY <1>3, <2>1, <2>2
<1> QED
  BY <1>8, <1>10, <1>11 DEF QueueSequence!Next, QueueSequence!NoCall

\* queue_copy: a failed one leaves the destination alone.
LEMMA QueueCopyIs ==
  ASSUME QueueInv, NEW o \in Objects, NEW src \in Objects, NEW memory \in BOOLEAN,
         QueueCopy(o, src, memory)
  PROVE  QueueInv' /\ QueueSequence!Next
<1>1. PICK v :
        /\ v = AssignItems(VectorCreate, Live(queue[src]), memory)
        /\ IF memory /\ Size(v) = Length(queue[src])
           THEN QueueBecomes(o, [vec |-> v, frontIndex |-> 0]) ELSE UNCHANGED queue
        /\ queueCall' = CallOf("copy", o, src, <<>>, memory,
                               memory /\ Size(v) = Length(queue[src]), NULL)
  BY DEF QueueCopy
<1>2. /\ Good(queue[o]) /\ Sound(VectorCreate, Slots)
      /\ Live(queue[src]) \in Seq(Items) /\ Live(queue[src]) \in Seq(Slots)
      /\ Len(Live(queue[src])) = Length(queue[src])
      /\ Len(Live(queue[src])) <= SizeMax \div ItemSize
  BY GoodIs, ItemsInSlots, CreateSound DEF QueueInv
<1>3. Sound(v, Slots) /\ (v.items = Live(queue[src]) \/ ~memory)
  BY <1>1, <1>2, AssignItemsIs
<1>4. PICK fresh : fresh = [vec |-> v, frontIndex |-> 0]
  OBVIOUS
<1>5. PICK w :
        /\ w = IF memory /\ Size(v) = Length(queue[src]) THEN fresh ELSE queue[o]
        /\ QueueBecomes(o, w)
  <2>1. CASE memory /\ Size(v) = Length(queue[src])
    BY <1>1, <1>4, <2>1
  <2>2. CASE ~(memory /\ Size(v) = Length(queue[src]))
    <3>1. [queue EXCEPT ![o] = queue[o]] = queue
      BY DEF QueueInv
    <3> QED
      BY <1>1, <2>2, <3>1 DEF QueueBecomes
  <2> QED
    BY <2>1, <2>2
<1>6. /\ Good(w)
      /\ memory => Live(w) = Live(queue[src]) /\ Size(v) = Length(queue[src])
      /\ ~memory => w = queue[o]
  <2>1. CASE memory
    <3>1. v.items = Live(queue[src]) /\ Size(v) = Length(queue[src])
      BY <1>2, <1>3, <2>1 DEF Size
    <3>2. Good(fresh) /\ Live(fresh) = v.items
      BY <1>2, <1>3, <1>4, <3>1, FreshIs
    <3> QED
      BY <1>5, <2>1, <3>1, <3>2
  <2>2. CASE ~memory
    BY <1>5, <1>2, <2>2
  <2> QED
    BY <2>1, <2>2
<1>7. /\ QueueInv'
      /\ [p \in Objects |-> Live(queue'[p])]
           = [[p \in Objects |-> Live(queue[p])] EXCEPT ![o] = Live(w)]
      /\ [p \in Objects |-> Live(queue[p])][o] = Live(queue[o])
  BY <1>5, <1>6, QueueUpdate
<1>8. [p \in Objects |-> Live(queue[p])][src] = Live(queue[src])
  OBVIOUS
<1>9. /\ queueCall'.op = "copy" /\ queueCall'.on = o /\ queueCall'.with = src
      /\ queueCall'.memory = memory /\ queueCall'.result = <<>> /\ queueCall' # [op |-> "none"]
      /\ queueCall'.ok = (memory /\ Size(v) = Length(queue[src]))
  BY <1>1 DEF CallOf, NULL
<1>10. QueueSequence!Copy
  <2>1. CASE memory
    <3>1. Live(w) = Live(queue[src]) /\ queueCall'.ok = TRUE
      BY <1>6, <1>9, <2>1
    <3> QED
      BY <1>7, <1>9, <1>8, <3>1
       DEF QueueSequence!Copy, QueueSequence!Is, QueueSequence!Arg, QueueSequence!Mine,
           QueueSequence!Other, QueueSequence!Done, QueueSequence!Becomes, QueueSequence!NULL
  <2>2. CASE ~memory
    <3>1. w = queue[o] /\ queueCall'.ok = FALSE /\ queueCall'.memory = FALSE
      BY <1>6, <1>9, <2>2
    <3> QED
      BY <1>7, <1>9, <1>8, <3>1
       DEF QueueSequence!Copy, QueueSequence!Is, QueueSequence!Arg, QueueSequence!Mine,
           QueueSequence!Other, QueueSequence!OutOfMemory, QueueSequence!Refused,
           QueueSequence!Becomes, QueueSequence!NULL
  <2> QED
    BY <2>1, <2>2
<1> QED
  BY <1>7, <1>9, <1>10 DEF QueueSequence!Next, QueueSequence!NoCall

\* A sort leaves as many items as there were, and nothing in front of them.
LEMMA QueueSortIs ==
  ASSUME QueueInv, NEW o \in Objects, QueueSort(o)
  PROVE  QueueInv'
<1>1. PICK s \in [1..Length(queue[o]) -> Items] :
        QueueBecomes(o, [Compact(queue[o]) EXCEPT !.vec.items = s])
  BY DEF QueueSort
<1>2. Good(queue[o])
  BY DEF QueueInv
<1>3. PICK c : c = Compact(queue[o])
  OBVIOUS
<1>4. Good(c) /\ Live(c) = Live(queue[o]) /\ c.frontIndex = 0 /\ c.vec.items = Live(queue[o])
  BY <1>2, <1>3, CompactIs
<1>5. s \in Seq(Items) /\ s \in Seq(Slots) /\ Len(s) = Length(queue[o])
  <2>1. Length(queue[o]) \in Nat
    BY <1>2, GoodIs
  <2>2. s \in Seq(Items) /\ Len(s) = Length(queue[o])
    BY <2>1
  <2> QED
    BY <2>2, ItemsInSlots
<1>6. c = [vec |-> c.vec, frontIndex |-> 0] /\ Sound(c.vec, Slots)
  BY <1>4, GoodIs
<1>7. Len(s) <= c.vec.capacity
  BY <1>2, <1>4, <1>5, <1>6, GoodIs DEF Sound, Fits, Size
<1>8. PICK v : v = [c.vec EXCEPT !.items = s]
  OBVIOUS
<1>9. Sound(v, Slots) /\ v.items = s
  BY <1>5, <1>6, <1>7, <1>8, StillFits
<1>10. PICK w : w = [vec |-> v, frontIndex |-> 0]
  OBVIOUS
<1>11. Good(w)
  BY <1>5, <1>9, <1>10, FreshIs
<1>12. QueueBecomes(o, w)
  BY <1>1, <1>3, <1>6, <1>8, <1>10
<1> QED
  BY <1>11, <1>12, QueueUpdate

\* Every call keeps what queues rely on, and but for a sort does what its name says.
LEMMA QueueStep ==
  ASSUME QueueInv, QueueNext
  PROVE  /\ QueueInv'
         /\ RoomToDouble => QueueSequence!Next \/ \E o \in Objects : QueueSort(o)
<1>1. PICK o \in Objects, memory \in BOOLEAN :
        \/ \E x \in Items : QueuePush(o, x, memory)
        \/ QueuePop(o)
        \/ \E n \in 0..MaxLength : QueueReserve(o, n, memory)
        \/ \E p \in Objects : QueueSwap(o, p) \/ QueueAssign(o, p, memory) \/ QueueCopy(o, p, memory)
        \/ QueueSort(o)
  BY DEF QueueNext
<1> QED
  BY <1>1, QueuePushIs, QueuePopIs, QueueReserveIs, QueueSwapIs, QueueAssignIs, QueueCopyIs,
     QueueSortIs

\* New queues are empty sequences.
LEMMA QueueStart ==
  ASSUME QueueInit
  PROVE  QueueInv /\ QueueSequence!Init
<1>1. Sound(VectorCreate, Slots) /\ VectorCreate.items = <<>> /\ <<>> \in Seq(Items)
  BY CreateSound
<1>2. Good(QueueCreate) /\ Live(QueueCreate) = <<>>
  BY <1>1, FreshIs DEF QueueCreate
<1>3. QueueInv
  BY <1>2 DEF QueueInit, QueueInv
<1>4. [o \in Objects |-> Live(queue[o])] = [o \in Objects |-> <<>>]
  BY <1>2 DEF QueueInit
<1> QED
  BY <1>3, <1>4 DEF QueueInit, QueueSequence!Init, NoCall, QueueSequence!NoCall

\* What queues rely on holds after any number of calls.
LEMMA QueueKeeps == QueueSpec => []QueueInv
<1>1. QueueInit => QueueInv
  BY QueueStart
<1>2. QueueInv /\ [QueueNext]_queueVars => QueueInv'
  <2>1. ASSUME QueueInv, UNCHANGED queueVars PROVE QueueInv'
    BY <2>1 DEF queueVars, QueueInv
  <2> QED
    BY <2>1, QueueStep
<1> QED
  BY <1>1, <1>2, PTL DEF QueueSpec

\* What can be looked at by index is what is queued.
LEMMA QueueAtIs ==
  ASSUME NEW q, Good(q), NEW i \in Nat
  PROVE  QueueAt(q, i) = IF i < Length(q) THEN <<Live(q)[i + 1]>> ELSE NULL
<1>1. /\ q.frontIndex \in Nat /\ Size(q.vec) \in Nat /\ Length(q) \in Nat
      /\ Length(q) = Size(q.vec) - q.frontIndex
      /\ \A j \in 1..Length(q) : Live(q)[j] = q.vec.items[q.frontIndex + j]
  BY GoodIs DEF Length
<1>2. CASE i < Length(q)
  <2>1. i + 1 \in 1..Length(q) /\ q.frontIndex + i < Size(q.vec) /\ ~(i >= Length(q))
        /\ q.frontIndex + (i + 1) = (q.frontIndex + i) + 1
    BY <1>1, <1>2
  <2>2. Live(q)[i + 1] = q.vec.items[(q.frontIndex + i) + 1]
    BY <1>1, <2>1
  <2> QED
    BY <1>2, <2>1, <2>2 DEF QueueAt, At
<1>3. CASE ~(i < Length(q))
  BY <1>1, <1>3 DEF QueueAt
<1> QED
  BY <1>2, <1>3

\* Whatever was pushed, popped, compacted, sorted, assigned or copied, with or without memory, a
\* queue fits its buffer, has dead slots only in front of live ones, and shows what is queued.
THEOREM QueueStaysWellFormed == QueueSpec => []QueueWellFormed
<1>1. QueueInv => QueueWellFormed
  <2> SUFFICES ASSUME QueueInv, NEW o \in Objects, NEW q, q = queue[o]
               PROVE  /\ Fits(q.vec)
                      /\ q.frontIndex < Size(q.vec) \/ (q.frontIndex = 0 /\ Size(q.vec) = 0)
                      /\ \A i \in 0..MaxLength :
                           QueueAt(q, i) = IF i < Length(q) THEN <<Live(q)[i + 1]>> ELSE NULL
                      /\ QueueFront(q) = QueueAt(q, 0)
                      /\ Length(q) > 0 => QueueBack(q) = QueueAt(q, Length(q) - 1)
    BY DEF QueueWellFormed
  <2>1. Good(q)
    BY DEF QueueInv
  <2>2. /\ q.frontIndex \in Nat /\ Size(q.vec) \in Nat /\ Length(q) \in Nat
        /\ Length(q) = Size(q.vec) - q.frontIndex
    BY <2>1, GoodIs DEF Length
  <2>3. \A i \in 0..MaxLength :
          QueueAt(q, i) = IF i < Length(q) THEN <<Live(q)[i + 1]>> ELSE NULL
    <3>1. \A i \in 0..MaxLength : i \in Nat
      OBVIOUS
    <3> QED
      BY <2>1, <3>1, QueueAtIs
  <2>4. QueueFront(q) = QueueAt(q, 0)
    BY <2>2 DEF QueueFront, QueueAt
  <2>5. Length(q) > 0 => QueueBack(q) = QueueAt(q, Length(q) - 1)
    <3> SUFFICES ASSUME Length(q) > 0 PROVE QueueBack(q) = QueueAt(q, Length(q) - 1)
      OBVIOUS
    <3>1. Length(q) # 0 /\ ~(Length(q) - 1 >= Length(q))
          /\ q.frontIndex + (Length(q) - 1) = Size(q.vec) - 1
      BY <2>2
    <3> QED
      BY <3>1 DEF QueueBack, QueueAt
  <2> QED
    BY <2>1, <2>3, <2>4, <2>5 DEF Good
<1> QED
  BY <1>1, QueueKeeps, PTL

\* The comparison is decided where the two queues no longer agree, or by how many items they have.
LEMMA QueueCompareIs ==
  ASSUME NEW q, Good(q), NEW r, Good(r), NEW n, Agree(Live(q), Live(r), n)
  PROVE  QueueCompare(q, r) = IF n < Length(q) /\ n < Length(r)
                              THEN Live(q)[n + 1] - Live(r)[n + 1]
                              ELSE Length(q) - Length(r)
<1> DEFINE least == IF Length(q) < Length(r) THEN Length(q) ELSE Length(r)
           D == {i \in 0..least - 1 : QueueAt(q, i) # QueueAt(r, i)}
           first == CHOOSE i \in D : \A j \in D : i <= j
<1>1. QueueCompare(q, r) = IF D = {} THEN Length(q) - Length(r)
                           ELSE QueueAt(q, first)[1] - QueueAt(r, first)[1]
  BY DEF QueueCompare
<1>2. /\ Length(q) \in Nat /\ Length(r) \in Nat
      /\ Len(Live(q)) = Length(q) /\ Len(Live(r)) = Length(r)
  BY GoodIs
<1>3. n \in Nat /\ n <= Length(q) /\ n <= Length(r)
  BY <1>2 DEF Agree
<1>4. \A i \in Nat : i < Length(q) => QueueAt(q, i) = <<Live(q)[i + 1]>>
  BY QueueAtIs
<1>5. \A i \in Nat : i < Length(r) => QueueAt(r, i) = <<Live(r)[i + 1]>>
  BY QueueAtIs
<1>6. \A i \in D : i \in Nat /\ i >= n
  <2> SUFFICES ASSUME NEW i \in D, i < n PROVE FALSE
    BY <1>2, <1>3
  <2>1. i \in Nat /\ i < Length(q) /\ i < Length(r) /\ i + 1 \in 1..n
    BY <1>2, <1>3
  <2>2. Live(q)[i + 1] = Live(r)[i + 1]
    BY <2>1 DEF Agree
  <2>3. QueueAt(q, i) = QueueAt(r, i)
    BY <1>4, <1>5, <2>1, <2>2
  <2> QED
    BY <2>3
<1>7. CASE n < Length(q) /\ n < Length(r)
  <2>1. Live(q)[n + 1] # Live(r)[n + 1]
    BY <1>2, <1>7 DEF Agree
  <2>2. QueueAt(q, n) = <<Live(q)[n + 1]>> /\ QueueAt(r, n) = <<Live(r)[n + 1]>>
    BY <1>3, <1>4, <1>5, <1>7
  <2>3. QueueAt(q, n) # QueueAt(r, n)
    BY <2>1, <2>2
  <2>4. n \in D
    BY <1>2, <1>3, <1>7, <2>3
  <2> HIDE DEF D
  <2>5. \E i \in D : \A j \in D : i <= j
    BY <1>6, <2>4
  <2>6. first \in D /\ \A j \in D : first <= j
    BY <2>5
  <2>7. first <= n /\ first >= n /\ first \in Nat
    BY <1>6, <2>4, <2>6
  <2>8. first = n
    BY <1>3, <2>7
  <2> HIDE DEF first
  <2> QED
    BY <1>1, <1>7, <2>2, <2>4, <2>8
<1>8. CASE ~(n < Length(q) /\ n < Length(r))
  <2>1. n = least
    BY <1>2, <1>3, <1>8
  <2>2. D = {}
    <3>1. \A i \in D : i <= least - 1
      BY <1>2
    <3> HIDE DEF D, least
    <3> QED
      BY <1>3, <1>6, <2>1, <3>1
  <2> QED
    BY <1>1, <1>8, <2>2
<1> QED
  BY <1>7, <1>8

\* Queues compare as the sequences they hold, wherever these begin in their buffers.
THEOREM QueuesCompare == QueueSpec => []QueueOrder
<1>1. QueueInv => QueueOrder
  <2> SUFFICES ASSUME QueueInv, NEW o \in Objects, NEW p \in Objects,
                      NEW q, q = queue[o], NEW r, r = queue[p]
               PROVE  /\ QueueIsLess(q, r) <=> LexLess(Live(q), Live(r))
                      /\ QueueIsGreater(q, r) <=> LexLess(Live(r), Live(q))
                      /\ QueueIsEqual(q, r) <=> Live(q) = Live(r)
    BY DEF QueueOrder
  <2>1. Good(q) /\ Good(r)
    BY DEF QueueInv
  <2>2. /\ Live(q) \in Seq(Nat) /\ Live(r) \in Seq(Nat)
        /\ Len(Live(q)) = Length(q) /\ Len(Live(r)) = Length(r)
        /\ Length(q) \in Nat /\ Length(r) \in Nat
    BY <2>1, GoodIs, VectorClientAssumption, SeqMonotonic
  <2>3. PICK s, t, k, l : s = Live(q) /\ t = Live(r) /\ k = Length(q) /\ l = Length(r)
    OBVIOUS
  <2>4. s \in Seq(Nat) /\ t \in Seq(Nat) /\ Len(s) = k /\ Len(t) = l /\ k \in Nat /\ l \in Nat
    BY <2>2, <2>3
  <2>5. PICK n : n \in Nat /\ Agree(s, t, n)
    BY <2>4, SomeAgree
  <2>6. Agree(t, s, n)
    BY <2>5, AgreeBack
  <2>7. QueueCompare(q, r) = IF n < k /\ n < l THEN s[n + 1] - t[n + 1] ELSE k - l
    BY <2>1, <2>3, <2>5, QueueCompareIs
  <2>8. LexLess(s, t) <=> \/ n = k /\ n < l
                          \/ n < k /\ n < l /\ s[n + 1] < t[n + 1]
    BY <2>4, <2>5, LexIs
  <2>9. LexLess(t, s) <=> \/ n = l /\ n < k
                          \/ n < l /\ n < k /\ t[n + 1] < s[n + 1]
    BY <2>4, <2>6, LexIs
  <2>10. s = t <=> n = k /\ n = l
    BY <2>4, <2>5, EqualIs
  <2>11. n \in Nat /\ n <= k /\ n <= l /\ (n < k /\ n < l => s[n + 1] # t[n + 1])
    BY <2>4, <2>5 DEF Agree
  <2>12. n < k /\ n < l => s[n + 1] \in Nat /\ t[n + 1] \in Nat
    <3> SUFFICES ASSUME n < k, n < l PROVE s[n + 1] \in Nat /\ t[n + 1] \in Nat
      OBVIOUS
    <3>1. n + 1 \in 1..Len(s) /\ n + 1 \in 1..Len(t)
      BY <2>4, <2>11
    <3> QED
      BY <2>4, <3>1, ElementOfSeq
  <2>13. PICK a, b : a = s[n + 1] /\ b = t[n + 1]
    OBVIOUS
  <2>14. QueueIsLess(q, r) <=> LexLess(s, t)
    BY <2>4, <2>7, <2>8, <2>11, <2>12, <2>13 DEF QueueIsLess
  <2>15. QueueIsGreater(q, r) <=> LexLess(t, s)
    BY <2>4, <2>7, <2>9, <2>11, <2>12, <2>13 DEF QueueIsGreater
  <2>16. QueueIsEqual(q, r) <=> s = t
    BY <2>3, <2>4, <2>7, <2>10, <2>11, <2>12, <2>13 DEF QueueIsEqual
  <2> QED
    BY <2>3, <2>14, <2>15, <2>16
<1> QED
  BY <1>1, QueueKeeps, PTL

\* A queue is first in, first out: every step but a sort does to the sequence what the call says,
\* past compactions, and through swaps, assignments and copies that may fail.
THEOREM QueueCallsImplementSequence ==
  ASSUME RoomToDouble
  PROVE  QueueSpec => /\ QueueSequence!Init
                      /\ [][QueueSequence!Next \/ \E o \in Objects : QueueSort(o)]_QueueSequence!vars
<1>1. QueueInit => QueueInv /\ QueueSequence!Init
  BY QueueStart
<1>2. QueueInv /\ [QueueNext]_queueVars =>
        /\ QueueInv'
        /\ [QueueSequence!Next \/ \E o \in Objects : QueueSort(o)]_QueueSequence!vars
  <2>1. ASSUME QueueInv, UNCHANGED queueVars PROVE QueueInv' /\ UNCHANGED QueueSequence!vars
    BY <2>1 DEF queueVars, QueueInv, QueueSequence!vars
  <2> QED
    BY <2>1, QueueStep
<1> QED
  BY <1>1, <1>2, PTL DEF QueueSpec

-----------------------------------------------------------------------------
(* Loops                                                                   *)

\* A number below a limit, and the next.
LEMMA BelowLimit ==
  ASSUME NEW N \in Nat, NEW n \in Nat, n + 1 <= N
  PROVE  n \in 0..N /\ n + 1 \in 1..N /\ n + 1 - 1 = n
OBVIOUS

\* f is what a loop goes through whose n-th turn makes g[<<s, n>>] of s.
IsRun(f, D, x, N, g) ==
  f \in [0..N -> D] /\ f[0] = x /\ \A n \in 1..N : f[n] = g[<<f[n - 1], n>>]

\* What a loop goes through exists: each turn starts from what the last one has made.
LEMMA Recursion ==
  ASSUME NEW D, NEW x \in D, NEW N \in Nat, NEW g \in [D \X (1..N) -> D]
  PROVE  \E f : IsRun(f, D, x, N, g)
<1> DEFINE Runs(m) == {f \in [0..m -> D] : f[0] = x /\ \A n \in 1..m : f[n] = g[<<f[n - 1], n>>]}
           S == {m \in Nat : m <= N => Runs(m) # {}}
<1>1. 0 \in S
  <2>1. [n \in 0..0 |-> x] \in Runs(0)
    OBVIOUS
  <2> QED
    BY <2>1
<1>2. ASSUME NEW m \in Nat, m \in S PROVE m + 1 \in S
  <2> SUFFICES ASSUME m + 1 <= N PROVE Runs(m + 1) # {}
    OBVIOUS
  <2>1. PICK f \in [0..m -> D] : f[0] = x /\ \A n \in 1..m : f[n] = g[<<f[n - 1], n>>]
    BY <1>2
  <2> DEFINE h == [n \in 0..(m + 1) |-> IF n = m + 1 THEN g[<<f[m], m + 1>>] ELSE f[n]]
  <2>2. g[<<f[m], m + 1>>] \in D
    <3>1. f[m] \in D /\ m + 1 \in 1..N
      OBVIOUS
    <3>2. <<f[m], m + 1>> \in D \X (1..N)
      BY <3>1
    <3> QED
      BY <3>2
  <2>3. h \in [0..(m + 1) -> D] /\ h[0] = x
    BY <2>1, <2>2
  <2>4. \A n \in 1..(m + 1) : h[n] = g[<<h[n - 1], n>>]
    <3>1. \A n \in 0..m : h[n] = f[n]
      OBVIOUS
    <3>2. h[m + 1] = g[<<f[m], m + 1>>]
      OBVIOUS
    <3> HIDE DEF h
    <3>3. \A n \in 1..m : h[n] = g[<<h[n - 1], n>>]
      BY <2>1, <3>1
    <3>4. h[m + 1] = g[<<h[m + 1 - 1], m + 1>>]
      BY <3>1, <3>2
    <3> QED
      BY <3>3, <3>4
  <2> QED
    BY <2>3, <2>4
<1> HIDE DEF S
<1>3. N \in S
  BY <1>1, <1>2, Induction
<1> QED
  BY <1>3 DEF S, IsRun

\* Every turn of the loop either changes nothing or brings a number down.
Closes(g, D, m, N) ==
  /\ g \in [D -> D] /\ m \in [D -> 0..N]
  /\ \A p \in D : g[p] = p \/ m[g[p]] < m[p]

\* t is defined by the turns of the loop.
Follows(t, q, g, D, N) ==
  t[0] = q /\ \A n \in 1..N : t[n - 1] \in D => t[n] = g[t[n - 1]]

\* Such a loop is over after as many turns as that number can be.
LEMMA LoopEnds ==
  ASSUME NEW D, NEW N \in Nat, NEW g, NEW m, Closes(g, D, m, N),
         NEW f \in [0..N -> D], \A n \in 1..N : f[n] = g[f[n - 1]]
  PROVE  f[N] \in D /\ g[f[N]] = f[N]
<1> USE DEF Closes
<1> DEFINE Near(n) == g[f[n]] = f[n] \/ m[f[n]] + n <= N
           S == {n \in Nat : n <= N => Near(n)}
<1>1. 0 \in S
  <2>1. f[0] \in D
    OBVIOUS
  <2>2. m[f[0]] \in 0..N
    BY <2>1
  <2> QED
    BY <2>2
<1> HIDE DEF Near
<1>2. ASSUME NEW n \in Nat, n \in S PROVE n + 1 \in S
  <2> SUFFICES ASSUME n + 1 <= N PROVE Near(n + 1)
    OBVIOUS
  <2>1. n \in 0..N /\ n + 1 \in 1..N /\ n + 1 - 1 = n
    BY BelowLimit
  <2>2. f[n + 1] = g[f[n]] /\ f[n] \in D /\ f[n + 1] \in D
    BY <2>1
  <2>3. m[f[n]] \in 0..N /\ m[f[n + 1]] \in 0..N
    BY <2>2
  <2>4. g[f[n]] = f[n] \/ m[f[n]] + n <= N
    BY <1>2, <2>1 DEF Near
  <2>5. g[f[n]] = f[n] \/ m[g[f[n]]] < m[f[n]]
    BY <2>2
  <2>6. CASE g[f[n]] = f[n]
    BY <2>2, <2>6 DEF Near
  <2>7. CASE g[f[n]] # f[n]
    BY <2>2, <2>3, <2>4, <2>5, <2>7 DEF Near
  <2> QED
    BY <2>6, <2>7
<1> HIDE DEF S
<1>3. N \in S
  BY <1>1, <1>2, Induction
<1>4. f[N] \in D
  OBVIOUS
<1>5. m[f[N]] \in 0..N /\ (g[f[N]] = f[N] \/ m[g[f[N]]] < m[f[N]]) /\ g[f[N]] \in D
  BY <1>4
<1>6. m[g[f[N]]] \in 0..N
  BY <1>5
<1>7. g[f[N]] = f[N] \/ m[f[N]] + N <= N
  BY <1>3 DEF S, Near
<1> QED
  BY <1>4, <1>5, <1>6, <1>7

Loops(f, q, g, D, N) == f \in [0..N -> D] /\ Follows(f, q, g, D, N)

\* The turns of the loop exist.
LEMMA LoopExists ==
  ASSUME NEW D, NEW N \in Nat, NEW g, NEW m, Closes(g, D, m, N), NEW q \in D
  PROVE  \E f : Loops(f, q, g, D, N)
<1>1. PICK e : e = [w \in D \X (1..N) |-> g[w[1]]]
  OBVIOUS
<1>2. e \in [D \X (1..N) -> D] /\ \A p \in D : \A n \in 1..N : e[<<p, n>>] = g[p]
  BY <1>1 DEF Closes
<1>3. PICK f : IsRun(f, D, q, N, e)
  BY <1>2, Recursion
<1> USE <1>3 DEF IsRun
<1>4. \A n \in 1..N : f[n] = g[f[n - 1]]
  <2> SUFFICES ASSUME NEW n \in 1..N PROVE f[n] = g[f[n - 1]]
    OBVIOUS
  <2>1. f[n - 1] \in D
    OBVIOUS
  <2> QED
    BY <1>2, <1>3, <2>1
<1> QED
  BY <1>3, <1>4 DEF Loops, Follows

\* Whatever is defined by the turns ends where the loop is over.
LEMMA LoopIs ==
  ASSUME NEW D, NEW N \in Nat, NEW g, NEW m, Closes(g, D, m, N), NEW q \in D,
         NEW t, Follows(t, q, g, D, N)
  PROVE  t[N] \in D /\ g[t[N]] = t[N]
<1>1. PICK f : Loops(f, q, g, D, N)
  BY LoopExists
<1>2. f \in [0..N -> D] /\ f[0] = q /\ \A n \in 1..N : f[n] = g[f[n - 1]]
  <2>1. f \in [0..N -> D] /\ f[0] = q
    BY <1>1 DEF Loops, Follows
  <2>2. \A n \in 1..N : n - 1 \in 0..N
    OBVIOUS
  <2> QED
    BY <1>1, <2>1, <2>2 DEF Loops, Follows
<1>3. f[N] \in D /\ g[f[N]] = f[N]
  BY <1>2, LoopEnds
<1>4. t[N] = f[N]
  <2> DEFINE S == {n \in Nat : n <= N => t[n] = f[n]}
  <2>1. 0 \in S
    BY <1>2 DEF Follows
  <2>2. ASSUME NEW n \in Nat, n \in S PROVE n + 1 \in S
    <3> SUFFICES ASSUME n + 1 <= N PROVE t[n + 1] = f[n + 1]
      OBVIOUS
    <3>1. n + 1 \in 1..N /\ n \in 0..N /\ n + 1 - 1 = n
      BY BelowLimit
    <3>2. t[n] = f[n] /\ f[n] \in D
      BY <1>2, <2>2, <3>1
    <3>3. t[n + 1] = g[t[n]]
      BY <3>1, <3>2 DEF Follows
    <3>4. f[n + 1] = g[f[n]]
      BY <1>2, <3>1
    <3> QED
      BY <3>2, <3>3, <3>4
  <2> HIDE DEF S
  <2>3. N \in S
    BY <2>1, <2>2, Induction
  <2> QED
    BY <2>3 DEF S
<1> QED
  BY <1>3, <1>4

CONSTANTS Orders, Compare3(_, _, _)   \* of priority queues
VARIABLES pq, pqCall

P == INSTANCE PriorityQueue WITH call <- pqCall

-----------------------------------------------------------------------------
(* Slots and items                                                         *)

Below(c, x, y) == Compare3(c, x, y) <= 0

\* Of two items one is below the other, or they are equal in the order.
LEMMA BelowIs ==
  ASSUME P!Ordering, NEW c \in Orders
  PROVE  /\ \A x, y \in Items : Below(c, x, y) \/ Below(c, y, x)
         /\ \A x, y \in Items : Compare3(c, x, y) > 0 <=> ~Below(c, x, y)
         /\ \A x, y, z \in Items : Below(c, x, y) /\ Below(c, y, z) => Below(c, x, z)
<1>1. \A x, y \in Items : /\ Compare3(c, x, y) \in Int
                          /\ Compare3(c, x, y) > 0 <=> Compare3(c, y, x) < 0
  BY DEF P!Ordering
<1>2. \A x, y \in Items : Below(c, x, y) \/ Below(c, y, x)
  <2> SUFFICES ASSUME NEW x \in Items, NEW y \in Items PROVE Below(c, x, y) \/ Below(c, y, x)
    OBVIOUS
  <2> PICK a, b : a = Compare3(c, x, y) /\ b = Compare3(c, y, x)
    OBVIOUS
  <2>1. a \in Int /\ b \in Int /\ (a > 0 <=> b < 0)
    BY <1>1
  <2> QED
    BY <2>1 DEF Below
<1>3. \A x, y \in Items : Compare3(c, x, y) > 0 <=> ~Below(c, x, y)
  <2> SUFFICES ASSUME NEW x \in Items, NEW y \in Items
               PROVE  Compare3(c, x, y) > 0 <=> ~(Compare3(c, x, y) <= 0)
    BY DEF Below
  <2> PICK a : a = Compare3(c, x, y)
    OBVIOUS
  <2>1. a \in Int
    BY <1>1
  <2> QED
    BY <2>1
<1> QED
  BY <1>2, <1>3, Zenon DEF Below, P!Ordering

\* The children of a slot are two that follow each other, further down.
LEMMA ParentIs ==
  ASSUME NEW h \in Nat, 0 < h, NEW p, p = P!Parent(h)
  PROVE  p \in Nat /\ p < h /\ (h = 2 * p + 1 \/ h = 2 * p + 2)
BY DEF P!Parent

LEMMA ChildrenAre ==
  ASSUME NEW p \in Nat
  PROVE  P!Parent(2 * p + 1) = p /\ P!Parent(2 * p + 2) = p
BY DEF P!Parent

\* n items, one of them in a slot that is a hole
Rows(n) == {s \in Seq(Items) : Len(s) = n}
Holes(n) == [items : Rows(n), hole : 0..(n - 1)]

Count(s, y) == Cardinality({i \in 1..Len(s) : s[i] = y})
SameBag(s, t) == \A y \in Items : Count(s, y) = Count(t, y)

\* Two items that change their places are still there.
LEMMA SwapBag ==
  ASSUME NEW n \in Nat, NEW s \in Rows(n), NEW t \in Rows(n), NEW i \in 1..n, NEW j \in 1..n,
         t[i] = s[j], t[j] = s[i], \A k \in 1..n : k \notin {i, j} => t[k] = s[k]
  PROVE  SameBag(s, t)
<1> SUFFICES ASSUME NEW y \in Items PROVE Count(s, y) = Count(t, y)
  BY DEF SameBag
<1>1. Len(s) = n /\ Len(t) = n
  BY DEF Rows
<1> DEFINE A == {k \in 1..n : s[k] = y}
           B == {k \in 1..n : t[k] = y}
           f == [k \in A |-> IF k = i THEN j ELSE IF k = j THEN i ELSE k]
<1>2. IsFiniteSet(A)
  <2>1. IsFiniteSet(1..n) /\ A \in SUBSET (1..n)
    BY FS_Interval
  <2> QED
    BY <2>1, FS_Subset
<1>3. f \in Bijection(A, B)
  <2>1. f \in [A -> B]
    OBVIOUS
  <2>2. \A a, b \in A : f[a] = f[b] => a = b
    OBVIOUS
  <2>3. \A b \in B : \E a \in A : f[a] = b
    <3> SUFFICES ASSUME NEW b \in B PROVE \E a \in A : f[a] = b
      OBVIOUS
    <3>1. CASE b = i
      <4>1. j \in A /\ f[j] = b
        BY <3>1
      <4> QED
        BY <4>1
    <3>2. CASE b = j
      <4>1. i \in A /\ f[i] = b
        BY <3>2
      <4> QED
        BY <4>1
    <3>3. CASE b # i /\ b # j
      <4>1. b \in A /\ f[b] = b
        BY <3>3
      <4> QED
        BY <4>1
    <3> QED
      BY <3>1, <3>2, <3>3
  <2> HIDE DEF A, B, f
  <2> QED
    BY <2>1, <2>2, <2>3, Zenon DEF Bijection, Injection, Surjection, IsInjective
<1>4. ExistsBijection(A, B)
  BY <1>3 DEF ExistsBijection
<1>5. Cardinality(B) = Cardinality(A)
  BY <1>2, <1>4, FS_Bijection
<1> QED
  BY <1>1, <1>5 DEF Count

\* What fills the hole.
LEMMA FilledIs ==
  ASSUME NEW n \in Nat, NEW q \in Holes(n), NEW x \in Items, NEW t, t = P!Filled(q, x)
  PROVE  /\ t \in Rows(n)
         /\ \A i \in 0..(n - 1) : t[i + 1] = IF i = q.hole THEN x ELSE q.items[i + 1]
<1>1. q.items \in Seq(Items) /\ Len(q.items) = n /\ q.hole \in 0..(n - 1)
  BY DEF Holes, Rows
<1>2. q.items \in [1..n -> Items]
  BY <1>1, LenProperties
<1>3. t = [q.items EXCEPT ![q.hole + 1] = x]
  BY DEF P!Filled
<1>4. t \in [1..n -> Items]
  BY <1>1, <1>2, <1>3
<1>5. t \in Seq(Items) /\ Len(t) = n
  BY <1>4, IsASeq, LenProperties
<1>6. \A i \in 0..(n - 1) : t[i + 1] = IF i = q.hole THEN x ELSE q.items[i + 1]
  BY <1>1, <1>2, <1>3
<1> QED
  BY <1>5, <1>6 DEF Rows

\* An item that moves into the hole changes places with the one held aside.
LEMMA MovedIs ==
  ASSUME NEW n \in Nat, NEW q \in Holes(n), NEW h \in 0..(n - 1), h # q.hole,
         NEW x \in Items, NEW r, r = P!Moved(q, h)
  PROVE  /\ r \in Holes(n) /\ r.hole = h
         /\ \A i \in 0..(n - 1) :
              r.items[i + 1] = IF i = q.hole THEN q.items[h + 1] ELSE q.items[i + 1]
         /\ SameBag(P!Filled(q, x), P!Filled(r, x))
<1>1. q.items \in Seq(Items) /\ Len(q.items) = n /\ q.hole \in 0..(n - 1)
  BY DEF Holes, Rows
<1>2. q.items[h + 1] \in Items
  BY <1>1, ElementOfSeq
<1>3. r.items = P!Filled(q, q.items[h + 1]) /\ r.hole = h
  BY DEF P!Moved, P!Filled
<1>4. r = [items |-> r.items, hole |-> r.hole]
  BY DEF P!Moved
<1>5. /\ r.items \in Rows(n)
      /\ \A i \in 0..(n - 1) :
           r.items[i + 1] = IF i = q.hole THEN q.items[h + 1] ELSE q.items[i + 1]
  <2>0. PICK y, u : y = q.items[h + 1] /\ u = P!Filled(q, y)
    OBVIOUS
  <2>1. y \in Items /\ u = r.items /\ u = P!Filled(q, y)
    BY <1>2, <1>3, <2>0
  <2>2. u \in Rows(n)
    BY <2>1, FilledIs
  <2>3. \A i \in 0..(n - 1) : u[i + 1] = IF i = q.hole THEN y ELSE q.items[i + 1]
    BY <2>1, FilledIs
  <2> QED
    BY <2>0, <2>1, <2>2, <2>3
<1>6. r \in Holes(n)
  BY <1>3, <1>4, <1>5 DEF Holes
<1>7. PICK s, t : s = P!Filled(q, x) /\ t = P!Filled(r, x)
  OBVIOUS
<1>8. /\ s \in Rows(n) /\ t \in Rows(n)
      /\ \A i \in 0..(n - 1) : s[i + 1] = IF i = q.hole THEN x ELSE q.items[i + 1]
      /\ \A i \in 0..(n - 1) : t[i + 1] = IF i = h THEN x ELSE r.items[i + 1]
  BY <1>3, <1>6, <1>7, FilledIs
<1>9. t[q.hole + 1] = s[h + 1] /\ t[h + 1] = s[q.hole + 1]
  BY <1>1, <1>5, <1>8
<1>10. \A i \in 0..(n - 1) : i \notin {q.hole, h} => t[i + 1] = s[i + 1]
  BY <1>1, <1>5, <1>8
<1>11. \A k \in 1..n : k \notin {q.hole + 1, h + 1} => t[k] = s[k]
  <2> SUFFICES ASSUME NEW k \in 1..n, k \notin {q.hole + 1, h + 1} PROVE t[k] = s[k]
    OBVIOUS
  <2>1. k - 1 \in 0..(n - 1) /\ k - 1 \notin {q.hole, h} /\ k - 1 + 1 = k
    BY <1>1
  <2> QED
    BY <1>10, <2>1
<1>12. SameBag(s, t)
  <2>1. q.hole + 1 \in 1..n /\ h + 1 \in 1..n
    BY <1>1
  <2>2. PICK i, j : i = q.hole + 1 /\ j = h + 1
    OBVIOUS
  <2> QED
    BY <1>8, <1>9, <1>11, <2>1, <2>2, SwapBag
<1> QED
  BY <1>3, <1>5, <1>6, <1>7, <1>12

-----------------------------------------------------------------------------
(* The way up                                                              *)

\* The way up is over when the item goes no further; what every turn keeps, holds then.
LEMMA GoneUpIs ==
  ASSUME NEW n \in Nat, NEW D \in SUBSET Holes(n), NEW q \in D, NEW x, NEW top \in Nat, NEW c,
         \A p \in D : P!Up(p, x, top, c) \in D,
         NEW r, r = P!GoneUp(q, x, top, c)
  PROVE  r \in D /\ P!Up(r, x, top, c) = r
<1>1. \A p \in D : p.hole \in 0..(n - 1) /\ Len(p.items) = n
  BY DEF Holes, Rows
<1>2. PICK g : g = [p \in D |-> P!Up(p, x, top, c)]
  OBVIOUS
<1>3. g \in [D -> D] /\ \A p \in D : g[p] = P!Up(p, x, top, c)
  BY <1>2
<1>4. PICK m : m = [p \in D |-> p.hole]
  OBVIOUS
<1>5. m \in [D -> 0..n] /\ \A p \in D : m[p] = p.hole
  BY <1>1, <1>4
<1>6. \A p \in D : g[p] = p \/ m[g[p]] < m[p]
  <2> SUFFICES ASSUME NEW p \in D, g[p] # p PROVE m[g[p]] < m[p]
    OBVIOUS
  <2>1. p.hole > top /\ P!Up(p, x, top, c) = P!Moved(p, P!Parent(p.hole))
    BY <1>3 DEF P!Up
  <2>2. g[p].hole = P!Parent(p.hole)
    BY <1>3, <2>1 DEF P!Moved
  <2>3. p.hole \in Nat /\ 0 < p.hole
    BY <1>1, <2>1
  <2> QED
    BY <1>3, <1>5, <2>2, <2>3, ParentIs
<1>7. Closes(g, D, m, n)
  BY <1>3, <1>5, <1>6 DEF Closes
<1> DEFINE turn[k \in 0..Len(q.items)] ==
             IF k = 0 THEN q ELSE P!Up(turn[k - 1], x, top, c)
<1>8. r = turn[n]
  BY <1>1 DEF P!GoneUp
<1>9. turn = [k \in 0..Len(q.items) |-> IF k = 0 THEN q ELSE P!Up(turn[k - 1], x, top, c)]
  <2>0. PICK f : Loops(f, q, g, D, n)
    BY <1>7, LoopExists
  <2>1. \A k \in 0..n : f[k] = IF k = 0 THEN q ELSE P!Up(f[k - 1], x, top, c)
    <3> SUFFICES ASSUME NEW k \in 0..n, k # 0 PROVE f[k] = P!Up(f[k - 1], x, top, c)
      BY <2>0 DEF Loops, Follows
    <3>1. k \in 1..n /\ f[k - 1] \in D
      BY <2>0 DEF Loops
    <3> QED
      BY <1>3, <2>0, <3>1 DEF Loops, Follows
  <2>2. f = [k \in 0..n |-> f[k]]
    BY <2>0 DEF Loops
  <2>3. f = [k \in 0..Len(q.items) |-> IF k = 0 THEN q ELSE P!Up(f[k - 1], x, top, c)]
    BY <1>1, <2>1, <2>2
  <2> QED
    BY <2>3, Zenon
<1> HIDE DEF turn
<1>10. \A k \in 0..n : turn[k] = IF k = 0 THEN q ELSE P!Up(turn[k - 1], x, top, c)
  <2>1. Len(q.items) = n
    BY <1>1
  <2> QED
    BY <1>9, <2>1, Zenon
<1>11. Follows(turn, q, g, D, n)
  BY <1>3, <1>10 DEF Follows
<1>12. turn[n] \in D /\ g[turn[n]] = turn[n]
  BY <1>7, <1>11, LoopIs
<1> QED
  BY <1>3, <1>8, <1>12

\* No item in a slot from top on comes before its parent.
Heap(s, top, c) ==
  \A h \in 1..(Len(s) - 1) : P!Parent(h) >= top => Below(c, s[h + 1], s[P!Parent(h) + 1])

\* T has, with a slot below top, its parent.
OnPath(T, top, n) ==
  T \subseteq 0..(n - 1) /\ top \in T /\ \A h \in T : h # top => h > top /\ P!Parent(h) \in T

\* The slots are a heap but for the one, a leaf, that the hole comes from; the item would
\* be above the children of the hole.
Rising(p, x, from, top, c, T, n) ==
  /\ p \in Holes(n) /\ p.hole \in T
  /\ \A h \in 1..(n - 1) :
       /\ P!Parent(h) >= top /\ (h # from \/ p.hole # from)
            => Below(c, p.items[h + 1], p.items[P!Parent(h) + 1])
       /\ P!Parent(h) = p.hole => Below(c, p.items[h + 1], x)

\* Each slot has an item.
LEMMA ItemsAre ==
  ASSUME NEW n \in Nat, NEW p \in Holes(n)
  PROVE  p.hole \in 0..(n - 1) /\ Len(p.items) = n /\ \A i \in 0..(n - 1) : p.items[i + 1] \in Items
<1>1. p.items \in Seq(Items) /\ Len(p.items) = n /\ p.hole \in 0..(n - 1)
  BY DEF Holes, Rows
<1>2. \A i \in 0..(n - 1) : i + 1 \in 1..n
  OBVIOUS
<1> QED
  BY <1>1, <1>2, ElementOfSeq

\* A parent of a slot is a slot.
LEMMA ParentsAre ==
  ASSUME NEW n \in Nat
  PROVE  \A h \in 1..(n - 1) :
           /\ P!Parent(h) \in 0..(n - 1) /\ P!Parent(h) < h
           /\ h \in 0..(n - 1)
<1> SUFFICES ASSUME NEW h \in 1..(n - 1)
             PROVE  P!Parent(h) \in 0..(n - 1) /\ P!Parent(h) < h /\ h \in 0..(n - 1)
  OBVIOUS
<1>1. P!Parent(h) \in Nat /\ P!Parent(h) < h
  BY ParentIs
<1> QED
  BY <1>1

\* A turn of the way up keeps that.
LEMMA RisingOn ==
  ASSUME P!Ordering, NEW c \in Orders, NEW n \in Nat, NEW x \in Items, NEW top \in Nat,
         NEW T, OnPath(T, top, n), NEW from, \A h \in 1..(n - 1) : P!Parent(h) # from,
         NEW p, Rising(p, x, from, top, c, T, n), NEW r, r = P!Up(p, x, top, c)
  PROVE  /\ Rising(r, x, from, top, c, T, n)
         /\ SameBag(P!Filled(p, x), P!Filled(r, x))
<1>1. CASE r = p
  BY <1>1 DEF SameBag
<1>2. CASE r # p
  <2>1. /\ p \in Holes(n) /\ p.hole \in T
        /\ \A h \in 1..(n - 1) :
             /\ P!Parent(h) >= top /\ (h # from \/ p.hole # from)
                  => Below(c, p.items[h + 1], p.items[P!Parent(h) + 1])
             /\ P!Parent(h) = p.hole => Below(c, p.items[h + 1], x)
    BY DEF Rising
  <2>2. PICK d, e : d = p.hole /\ e = P!Parent(d)
    OBVIOUS
  <2>3. d > top /\ Compare3(c, x, p.items[e + 1]) > 0 /\ r = P!Moved(p, e)
    BY <1>2, <2>2 DEF P!Up
  <2>4. d \in 1..(n - 1) /\ \A i \in 0..(n - 1) : p.items[i + 1] \in Items
    BY <2>1, <2>2, <2>3, ItemsAre
  <2>5. e \in 0..(n - 1) /\ e < d
    BY <2>2, <2>4, ParentsAre
  <2>6. e \in T /\ e >= top /\ e # from
    BY <2>1, <2>2, <2>3, <2>4, <2>5 DEF OnPath
  <2>7. /\ r \in Holes(n) /\ r.hole = e
        /\ \A i \in 0..(n - 1) :
             r.items[i + 1] = IF i = d THEN p.items[e + 1] ELSE p.items[i + 1]
        /\ SameBag(P!Filled(p, x), P!Filled(r, x))
    <3>1. e # p.hole /\ p \in Holes(n)
      BY <2>1, <2>2, <2>5
    <3> QED
      BY <2>2, <2>3, <2>5, <3>1, MovedIs
  <2>8. p.items[e + 1] \in Items
    BY <2>4, <2>5
  <2>9. /\ Below(c, p.items[e + 1], p.items[e + 1])
        /\ Below(c, p.items[e + 1], x)
    BY <2>3, <2>8, BelowIs
  <2>10. ASSUME NEW h \in 1..(n - 1), P!Parent(h) >= top
         PROVE  Below(c, r.items[h + 1], r.items[P!Parent(h) + 1])
    <3> PICK g : g = P!Parent(h)
      OBVIOUS
    <3>1. g \in 0..(n - 1) /\ g < h /\ h \in 0..(n - 1)
      BY ParentsAre
    <3>2. p.items[h + 1] \in Items /\ p.items[g + 1] \in Items
      BY <2>4, <3>1
    <3>3. CASE h = d
      BY <2>2, <2>5, <2>7, <2>9, <3>1, <3>3
    <3>4. CASE g = d
      <4>1. d # from
        BY <3>4
      <4>2. Below(c, p.items[h + 1], p.items[d + 1])
        BY <2>1, <2>2, <2>10, <3>4, <4>1
      <4>3. Below(c, p.items[d + 1], p.items[e + 1])
        BY <2>1, <2>2, <2>4, <2>6, <4>1
      <4>4. Below(c, p.items[h + 1], p.items[e + 1])
        BY <2>8, <3>2, <3>4, <4>2, <4>3, BelowIs
      <4> QED
        BY <2>7, <3>1, <3>4, <4>4
    <3>5. CASE h # d /\ g # d
      <4>1. h # from \/ p.hole # from
        BY <2>2, <3>5
      <4>2. Below(c, p.items[h + 1], p.items[g + 1])
        BY <2>1, <2>10, <4>1
      <4> QED
        BY <2>7, <3>1, <3>5, <4>2
    <3> QED
      BY <3>3, <3>4, <3>5
  <2>11. ASSUME NEW h \in 1..(n - 1), P!Parent(h) = e
         PROVE  Below(c, r.items[h + 1], x)
    <3>1. h \in 0..(n - 1) /\ p.items[h + 1] \in Items
      BY <2>4, ParentsAre
    <3>2. CASE h = d
      BY <2>7, <2>9, <3>1, <3>2
    <3>3. CASE h # d
      <4>1. Below(c, p.items[h + 1], p.items[e + 1])
        BY <2>1, <2>2, <2>6, <2>11, <3>3
      <4>2. Below(c, p.items[h + 1], x)
        BY <2>8, <2>9, <3>1, <4>1, BelowIs
      <4> QED
        BY <2>7, <3>1, <3>3, <4>2
    <3> QED
      BY <3>2, <3>3
  <2> QED
    BY <2>6, <2>7, <2>10, <2>11 DEF Rising
<1> QED
  BY <1>1, <1>2

\* Where the way up is over, the item completes the heap.
LEMMA RisenIs ==
  ASSUME P!Ordering, NEW c \in Orders, NEW n \in Nat, NEW x \in Items, NEW top \in Nat,
         NEW T, OnPath(T, top, n), NEW from,
         NEW p, Rising(p, x, from, top, c, T, n), P!Up(p, x, top, c) = p,
         NEW t, t = P!Filled(p, x)
  PROVE  t \in Rows(n) /\ Heap(t, top, c)
<1>1. /\ p \in Holes(n) /\ p.hole \in T
      /\ \A h \in 1..(n - 1) :
           /\ P!Parent(h) >= top /\ (h # from \/ p.hole # from)
                => Below(c, p.items[h + 1], p.items[P!Parent(h) + 1])
           /\ P!Parent(h) = p.hole => Below(c, p.items[h + 1], x)
  BY DEF Rising
<1>2. t \in Rows(n) /\ \A i \in 0..(n - 1) : t[i + 1] = IF i = p.hole THEN x ELSE p.items[i + 1]
  BY <1>1, FilledIs
<1>3. Len(t) = n
  BY <1>2 DEF Rows
<1>4. p.hole \in 0..(n - 1) /\ \A i \in 0..(n - 1) : p.items[i + 1] \in Items
  BY <1>1, ItemsAre
<1>5. ASSUME NEW h \in 1..(n - 1), P!Parent(h) >= top
      PROVE  Below(c, t[h + 1], t[P!Parent(h) + 1])
  <2> PICK g : g = P!Parent(h)
    OBVIOUS
  <2>1. g \in 0..(n - 1) /\ g < h /\ h \in 0..(n - 1)
    BY ParentsAre
  <2>2. CASE h = p.hole
    <3>1. ~(Compare3(c, x, p.items[g + 1]) > 0)
      <4> SUFFICES ASSUME Compare3(c, x, p.items[g + 1]) > 0 PROVE FALSE
        OBVIOUS
      <4>1. p.hole > top
        BY <1>5, <2>1, <2>2
      <4>2. P!Up(p, x, top, c) = P!Moved(p, g)
        BY <2>2, <4>1 DEF P!Up
      <4>3. P!Moved(p, g).hole = g
        BY DEF P!Moved
      <4>4. p.hole = g
        BY <4>2, <4>3
      <4> QED
        BY <2>1, <2>2, <4>4
    <3>2. p.items[g + 1] \in Items
      BY <1>4, <2>1
    <3>3. Below(c, x, p.items[g + 1])
      BY <3>1, <3>2, BelowIs
    <3>4. t[h + 1] = x /\ t[g + 1] = p.items[g + 1]
      BY <1>2, <2>1, <2>2
    <3> QED
      BY <3>3, <3>4
  <2>3. CASE g = p.hole
    <3>1. Below(c, p.items[h + 1], x)
      BY <1>1, <2>3
    <3>2. t[h + 1] = p.items[h + 1] /\ t[g + 1] = x
      BY <1>2, <2>1, <2>3
    <3> QED
      BY <3>1, <3>2
  <2>4. CASE h # p.hole /\ g # p.hole
    <3>1. h # from \/ p.hole # from
      BY <2>4
    <3>2. Below(c, p.items[h + 1], p.items[g + 1])
      BY <1>1, <1>5, <3>1
    <3>3. t[h + 1] = p.items[h + 1] /\ t[g + 1] = p.items[g + 1]
      BY <1>2, <2>1, <2>4
    <3> QED
      BY <3>2, <3>3
  <2> QED
    BY <2>2, <2>3, <2>4
<1> QED
  BY <1>2, <1>3, <1>5 DEF Heap

\* The whole way up.
LEMMA RaisedIs ==
  ASSUME P!Ordering, NEW c \in Orders, NEW n \in Nat, NEW x \in Items, NEW top \in Nat,
         NEW T, OnPath(T, top, n), NEW from, \A h \in 1..(n - 1) : P!Parent(h) # from,
         NEW q, Rising(q, x, from, top, c, T, n),
         NEW t, t = P!Filled(P!GoneUp(q, x, top, c), x)
  PROVE  t \in Rows(n) /\ Heap(t, top, c) /\ SameBag(P!Filled(q, x), t)
<1>1. PICK D : D = {p \in Holes(n) : /\ Rising(p, x, from, top, c, T, n)
                                     /\ SameBag(P!Filled(q, x), P!Filled(p, x))}
  OBVIOUS
<1>2. D \in SUBSET Holes(n) /\ q \in D
  BY <1>1 DEF Rising, SameBag
<1>3. \A p \in D : P!Up(p, x, top, c) \in D
  <2> SUFFICES ASSUME NEW p \in D PROVE P!Up(p, x, top, c) \in D
    OBVIOUS
  <2>1. PICK r : r = P!Up(p, x, top, c)
    OBVIOUS
  <2>2. Rising(p, x, from, top, c, T, n) /\ SameBag(P!Filled(q, x), P!Filled(p, x))
    BY <1>1
  <2>3. Rising(r, x, from, top, c, T, n) /\ SameBag(P!Filled(p, x), P!Filled(r, x))
    BY <2>1, <2>2, RisingOn
  <2>4. SameBag(P!Filled(q, x), P!Filled(r, x)) /\ r \in Holes(n)
    BY <2>2, <2>3 DEF SameBag, Rising
  <2> QED
    BY <1>1, <2>1, <2>3, <2>4
<1>4. PICK r : r = P!GoneUp(q, x, top, c)
  OBVIOUS
<1>5. r \in D /\ P!Up(r, x, top, c) = r
  BY <1>2, <1>3, <1>4, GoneUpIs
<1>6. Rising(r, x, from, top, c, T, n) /\ SameBag(P!Filled(q, x), t) /\ t = P!Filled(r, x)
  BY <1>1, <1>4, <1>5
<1> QED
  BY <1>5, <1>6, RisenIs

\* The last slot has no children.
LEMMA LastIsLeaf ==
  ASSUME NEW n \in Nat, NEW d, d = n - 1
  PROVE  \A h \in 1..(n - 1) : P!Parent(h) # d
BY ParentsAre

\* A heap to which an item is appended is one again when that has risen.
LEMMA SiftUpIs ==
  ASSUME P!Ordering, NEW c \in Orders, NEW s \in Seq(Items), Heap(s, 0, c), NEW x \in Items,
         NEW u, u = Append(s, x), NEW t, t = P!SiftUp(u, Len(s), c)
  PROVE  t \in Rows(Len(u)) /\ Heap(t, 0, c) /\ SameBag(u, t)
<1>1. PICK n, d : d = Len(s) /\ n = d + 1
  OBVIOUS
<1>2. d \in Nat /\ n \in Nat /\ d \in 0..(n - 1) /\ d = n - 1
  BY <1>1, LenProperties
<1>3. /\ u \in Rows(n) /\ u[d + 1] = x
      /\ \A i \in 0..(d - 1) : u[i + 1] = s[i + 1]
  BY <1>1, <1>2, AppendProperties DEF Rows
<1>4. PICK q : q = P!Hole(u, d)
  OBVIOUS
<1>5. q \in Holes(n) /\ q.items = u /\ q.hole = d
  BY <1>2, <1>3, <1>4 DEF P!Hole, Holes
<1>6. PICK T : T = 0..(n - 1)
  OBVIOUS
<1>7. OnPath(T, 0, n) /\ d \in T
  <2>1. \A h \in T : h # 0 => h > 0 /\ P!Parent(h) \in T
    BY <1>2, <1>6, ParentsAre
  <2> QED
    BY <1>2, <1>6, <2>1 DEF OnPath
<1>8. \A h \in 1..(n - 1) : P!Parent(h) # d
  BY <1>2, LastIsLeaf
<1>9. Rising(q, x, d, 0, c, T, n)
  <2> SUFFICES ASSUME NEW h \in 1..(n - 1), h # d, P!Parent(h) >= 0
               PROVE  Below(c, q.items[h + 1], q.items[P!Parent(h) + 1])
    BY <1>5, <1>7, <1>8 DEF Rising
  <2>1. h \in 1..(d - 1) /\ P!Parent(h) \in 0..(d - 1) /\ h \in 0..(d - 1)
    <3>1. P!Parent(h) \in 0..(n - 1) /\ P!Parent(h) < h /\ h \in 0..(n - 1)
      BY <1>2, ParentsAre
    <3> QED
      BY <1>2, <3>1
  <2>2. Below(c, s[h + 1], s[P!Parent(h) + 1])
    BY <1>1, <2>1 DEF Heap
  <2> QED
    BY <1>3, <1>5, <2>1, <2>2
<1>10. t = P!Filled(P!GoneUp(q, x, 0, c), x)
  BY <1>1, <1>3, <1>4 DEF P!SiftUp
<1>11. P!Filled(q, x) = u
  <2>1. u \in [1..n -> Items] /\ d + 1 \in 1..n
    <3>1. u \in Seq(Items) /\ Len(u) = n
      BY <1>3 DEF Rows
    <3>2. u \in [1..n -> Items]
      BY <3>1, LenProperties
    <3> QED
      BY <1>2, <3>2
  <2>2. [u EXCEPT ![d + 1] = x] = u
    BY <1>3, <2>1
  <2> QED
    BY <1>5, <2>2 DEF P!Filled
<1>12. t \in Rows(n) /\ Heap(t, 0, c) /\ SameBag(P!Filled(q, x), t)
  BY <1>2, <1>7, <1>8, <1>9, <1>10, RaisedIs
<1>13. Len(u) = n
  BY <1>3 DEF Rows
<1> QED
  BY <1>11, <1>12, <1>13

-----------------------------------------------------------------------------
(* The way down                                                            *)

\* The way down is over when the hole goes no further; what every turn keeps, holds then.
LEMMA GoneDownIs ==
  ASSUME NEW n \in Nat, NEW D \in SUBSET Holes(n), NEW q \in D, NEW x, NEW c, NEW memory,
         \A p \in D : P!Down(p, x, c, memory) \in D,
         NEW r, r = P!GoneDown(q, x, c, memory)
  PROVE  r \in D /\ P!Down(r, x, c, memory) = r
<1>1. \A p \in D : p.hole \in 0..(n - 1) /\ Len(p.items) = n
  BY DEF Holes, Rows
<1>2. PICK g : g = [p \in D |-> P!Down(p, x, c, memory)]
  OBVIOUS
<1>3. g \in [D -> D] /\ \A p \in D : g[p] = P!Down(p, x, c, memory)
  BY <1>2
<1>4. PICK m : m = [p \in D |-> n - 1 - p.hole]
  OBVIOUS
<1>5. m \in [D -> 0..n] /\ \A p \in D : m[p] = n - 1 - p.hole
  BY <1>1, <1>4
<1>6. \A p \in D : g[p] = p \/ m[g[p]] < m[p]
  <2> SUFFICES ASSUME NEW p \in D, g[p] # p PROVE m[g[p]] < m[p]
    OBVIOUS
  <2> PICK d, k : d = p.hole /\ k = P!LargerChild(p.items, d, c)
    OBVIOUS
  <2>1. P!Down(p, x, c, memory) = P!Moved(p, k)
    BY <1>3 DEF P!Down
  <2>2. g[p].hole = k
    BY <1>3, <2>1 DEF P!Moved
  <2>3. d \in Nat
    BY <1>1
  <2>4. k \in Nat /\ k > d
    BY <2>3 DEF P!LargerChild
  <2>5. g[p] \in D
    BY <1>3
  <2>6. m[g[p]] = n - 1 - k /\ m[p] = n - 1 - d
    BY <1>5, <2>2, <2>5
  <2> QED
    BY <2>3, <2>4, <2>6
<1>7. Closes(g, D, m, n)
  BY <1>3, <1>5, <1>6 DEF Closes
<1> DEFINE turn[k \in 0..Len(q.items)] ==
             IF k = 0 THEN q ELSE P!Down(turn[k - 1], x, c, memory)
<1>8. r = turn[n]
  BY <1>1 DEF P!GoneDown
<1>9. turn = [k \in 0..Len(q.items) |-> IF k = 0 THEN q ELSE P!Down(turn[k - 1], x, c, memory)]
  <2>0. PICK f : Loops(f, q, g, D, n)
    BY <1>7, LoopExists
  <2>1. \A k \in 0..n : f[k] = IF k = 0 THEN q ELSE P!Down(f[k - 1], x, c, memory)
    <3> SUFFICES ASSUME NEW k \in 0..n, k # 0 PROVE f[k] = P!Down(f[k - 1], x, c, memory)
      BY <2>0 DEF Loops, Follows
    <3>1. k \in 1..n /\ f[k - 1] \in D
      BY <2>0 DEF Loops
    <3> QED
      BY <1>3, <2>0, <3>1 DEF Loops, Follows
  <2>2. f = [k \in 0..n |-> f[k]]
    BY <2>0 DEF Loops
  <2>3. f = [k \in 0..Len(q.items) |-> IF k = 0 THEN q ELSE P!Down(f[k - 1], x, c, memory)]
    BY <1>1, <2>1, <2>2
  <2> QED
    BY <2>3, Zenon
<1> HIDE DEF turn
<1>10. \A k \in 0..n : turn[k] = IF k = 0 THEN q ELSE P!Down(turn[k - 1], x, c, memory)
  <2>1. Len(q.items) = n
    BY <1>1
  <2> QED
    BY <1>9, <2>1, Zenon
<1>11. Follows(turn, q, g, D, n)
  BY <1>3, <1>10 DEF Follows
<1>12. turn[n] \in D /\ g[turn[n]] = turn[n]
  BY <1>7, <1>11, LoopIs
<1> QED
  BY <1>3, <1>8, <1>12

\* Of the children of a slot neither comes before the one that is chosen.
LEMMA ChildIs ==
  ASSUME P!Ordering, NEW c \in Orders, NEW n \in Nat, NEW p \in Holes(n), NEW d, d = p.hole,
         2 * d + 1 < n, NEW k, k = P!LargerChild(p.items, d, c)
  PROVE  /\ k \in 0..(n - 1) /\ d < k /\ P!Parent(k) = d
         /\ \A h \in 1..(n - 1) : P!Parent(h) = d => Below(c, p.items[h + 1], p.items[k + 1])
<1>1. d \in 0..(n - 1) /\ Len(p.items) = n /\ \A i \in 0..(n - 1) : p.items[i + 1] \in Items
  BY ItemsAre
<1>0. PICK l : l = 2 * d + 1
  OBVIOUS
<1>2. l \in 0..(n - 1) /\ d < l /\ P!Parent(l) = d /\ P!Parent(l + 1) = d /\ l + 2 = (l + 1) + 1
  <2>1. d \in Nat
    BY <1>1
  <2>2. P!Parent(2 * d + 1) = d /\ P!Parent(2 * d + 2) = d
    BY <2>1, ChildrenAre
  <2>3. 2 * d + 2 = l + 1 /\ l + 2 = (l + 1) + 1 /\ l \in 0..(n - 1) /\ d < l
    BY <1>0, <2>1
  <2> QED
    BY <1>0, <2>2, <2>3
<1>3. p.items[l + 1] \in Items /\ (l + 1 < n => p.items[l + 2] \in Items)
  <2>1. l + 1 < n => l + 1 \in 0..(n - 1)
    BY <1>2
  <2> QED
    BY <1>1, <1>2, <2>1
<1>4. k = IF l + 1 < n /\ Compare3(c, p.items[l + 2], p.items[l + 1]) > 0 THEN l + 1 ELSE l
  BY <1>0, <1>1 DEF P!LargerChild
<1>5. k \in 0..(n - 1) /\ d < k /\ P!Parent(k) = d
  BY <1>1, <1>2, <1>4
<1>6. Below(c, p.items[l + 1], p.items[k + 1]) /\ (l + 1 < n => Below(c, p.items[l + 2], p.items[k + 1]))
  <2>1. CASE l + 1 < n /\ Compare3(c, p.items[l + 2], p.items[l + 1]) > 0
    <3>1. k + 1 = l + 2
      BY <1>2, <1>4, <2>1
    <3>2. Below(c, p.items[l + 1], p.items[l + 2]) /\ Below(c, p.items[l + 2], p.items[l + 2])
      BY <1>3, <2>1, BelowIs
    <3> QED
      BY <3>1, <3>2
  <2>2. CASE ~(l + 1 < n /\ Compare3(c, p.items[l + 2], p.items[l + 1]) > 0)
    <3>1. k = l
      BY <1>4, <2>2
    <3>2. Below(c, p.items[l + 1], p.items[l + 1])
      BY <1>3, BelowIs
    <3>3. l + 1 < n => Below(c, p.items[l + 2], p.items[l + 1])
      BY <1>3, <2>2, BelowIs
    <3> QED
      BY <3>1, <3>2, <3>3
  <2> QED
    BY <2>1, <2>2
<1>7. ASSUME NEW h \in 1..(n - 1), P!Parent(h) = d
      PROVE  Below(c, p.items[h + 1], p.items[k + 1])
  <2>1. h = 2 * d + 1 \/ h = 2 * d + 2
    <3>1. h \in Nat /\ 0 < h
      OBVIOUS
    <3> QED
      BY <1>7, <3>1, ParentIs
  <2>2. h = l \/ (h = l + 1 /\ l + 1 < n)
    <3>1. d \in Nat /\ h \in Nat /\ h < n
      BY <1>1
    <3>2. 2 * d + 2 = l + 1
      BY <1>0, <3>1
    <3>3. h = l \/ h = l + 1
      BY <1>0, <2>1, <3>2
    <3> QED
      BY <3>1, <3>3
  <2> QED
    BY <1>2, <1>6, <2>2
<1> QED
  BY <1>5, <1>7

\* The slots are a heap but for the children of top, as long as the hole is there; an
\* item that sinks by swaps is below what has gone up past it.
Sinking(p, x, top, c, n, memory) ==
  /\ p \in Holes(n) /\ \E T : OnPath(T, top, n) /\ p.hole \in T
  /\ \A h \in 1..(n - 1) :
       P!Parent(h) >= top /\ (P!Parent(h) # top \/ p.hole # top)
         => Below(c, p.items[h + 1], p.items[P!Parent(h) + 1])
  /\ ~memory /\ p.hole # top => Below(c, x, p.items[P!Parent(p.hole) + 1])

\* A turn of the way down keeps that.
LEMMA SinkingOn ==
  ASSUME P!Ordering, NEW c \in Orders, NEW n \in Nat, NEW x \in Items, NEW top \in Nat,
         NEW memory \in BOOLEAN, NEW p, Sinking(p, x, top, c, n, memory),
         NEW r, r = P!Down(p, x, c, memory)
  PROVE  /\ Sinking(r, x, top, c, n, memory)
         /\ SameBag(P!Filled(p, x), P!Filled(r, x))
<1>1. CASE r = p
  BY <1>1 DEF SameBag
<1>2. CASE r # p
  <2>1. /\ p \in Holes(n)
        /\ \A h \in 1..(n - 1) :
             P!Parent(h) >= top /\ (P!Parent(h) # top \/ p.hole # top)
               => Below(c, p.items[h + 1], p.items[P!Parent(h) + 1])
    BY DEF Sinking
  <2>2. PICK T : OnPath(T, top, n) /\ p.hole \in T
    BY DEF Sinking
  <2>3. PICK d, k : d = p.hole /\ k = P!LargerChild(p.items, d, c)
    OBVIOUS
  <2>4. d \in 0..(n - 1) /\ Len(p.items) = n /\ \A i \in 0..(n - 1) : p.items[i + 1] \in Items
    BY <2>1, <2>3, ItemsAre
  <2>5. /\ 2 * d + 1 < n /\ r = P!Moved(p, k)
        /\ memory \/ Compare3(c, p.items[k + 1], x) > 0
    BY <1>2, <2>3, <2>4 DEF P!Down
  <2>6. /\ k \in 0..(n - 1) /\ d < k /\ P!Parent(k) = d
        /\ \A h \in 1..(n - 1) : P!Parent(h) = d => Below(c, p.items[h + 1], p.items[k + 1])
    BY <2>1, <2>3, <2>5, ChildIs
  <2>7. d >= top /\ d \in T
    BY <2>2, <2>3, <2>4 DEF OnPath
  <2>8. k # top /\ k > top /\ k \in 1..(n - 1)
    BY <2>4, <2>6, <2>7
  <2>9. /\ r \in Holes(n) /\ r.hole = k
        /\ \A i \in 0..(n - 1) :
             r.items[i + 1] = IF i = d THEN p.items[k + 1] ELSE p.items[i + 1]
        /\ SameBag(P!Filled(p, x), P!Filled(r, x))
    <3>1. k # p.hole /\ p \in Holes(n)
      BY <2>1, <2>3, <2>4, <2>6
    <3> QED
      BY <2>3, <2>5, <2>6, <3>1, MovedIs
  <2>10. p.items[k + 1] \in Items
    BY <2>4, <2>6
  <2>11. \E U : OnPath(U, top, n) /\ r.hole \in U
    <3>1. PICK U : U = T \cup {k}
      OBVIOUS
    <3>2. OnPath(U, top, n)
      BY <2>2, <2>6, <2>7, <2>8, <3>1 DEF OnPath
    <3> QED
      BY <2>9, <3>1, <3>2
  <2>12. ASSUME NEW h \in 1..(n - 1), P!Parent(h) >= top
         PROVE  Below(c, r.items[h + 1], r.items[P!Parent(h) + 1])
    <3>1. PICK g : g = P!Parent(h)
      OBVIOUS
    <3>2. g \in 0..(n - 1) /\ g < h /\ h \in 0..(n - 1)
      BY <3>1, ParentsAre
    <3>3. p.items[h + 1] \in Items /\ p.items[g + 1] \in Items
      BY <2>4, <3>2
    <3>4. CASE h = d
      <4>1. d # top /\ p.items[d + 1] \in Items
        BY <2>4, <2>12, <3>1, <3>2, <3>4
      <4>2. Below(c, p.items[k + 1], p.items[d + 1])
        BY <2>1, <2>6, <2>7, <2>8, <4>1
      <4>3. Below(c, p.items[d + 1], p.items[g + 1])
        BY <2>1, <2>3, <2>12, <3>1, <3>4, <4>1
      <4>4. Below(c, p.items[k + 1], p.items[g + 1])
        BY <2>10, <3>3, <4>1, <4>2, <4>3, BelowIs
      <4> QED
        BY <2>9, <3>1, <3>2, <3>4, <4>4
    <3>5. CASE g = d
      <4>1. Below(c, p.items[h + 1], p.items[k + 1])
        BY <2>6, <3>1, <3>5
      <4> QED
        BY <2>9, <3>1, <3>2, <3>5, <4>1
    <3>6. CASE h # d /\ g # d
      <4>1. g # top \/ p.hole # top
        BY <2>3, <3>6
      <4>2. Below(c, p.items[h + 1], p.items[g + 1])
        BY <2>1, <2>12, <3>1, <4>1
      <4> QED
        BY <2>9, <3>1, <3>2, <3>6, <4>2
    <3> QED
      BY <3>4, <3>5, <3>6
  <2>13. ~memory => Below(c, x, r.items[P!Parent(r.hole) + 1])
    <3> SUFFICES ASSUME ~memory PROVE Below(c, x, p.items[k + 1])
      BY <2>4, <2>6, <2>9
    <3>1. ~Below(c, p.items[k + 1], x)
      BY <2>5, <2>10, BelowIs
    <3> QED
      BY <2>10, <3>1, BelowIs
  <2> QED
    BY <2>9, <2>11, <2>12, <2>13 DEF Sinking
<1> QED
  BY <1>1, <1>2
\* Where the way down is over, the hole is at a leaf, or the item held aside is not below
\* the children of the hole.
LEMMA SunkIs ==
  ASSUME P!Ordering, NEW c \in Orders, NEW n \in Nat, NEW x \in Items, NEW top \in Nat,
         NEW memory \in BOOLEAN, NEW p, Sinking(p, x, top, c, n, memory),
         P!Down(p, x, c, memory) = p
  PROVE  /\ memory => \A h \in 1..(n - 1) : P!Parent(h) # p.hole
         /\ \A h \in 1..(n - 1) : P!Parent(h) = p.hole => Below(c, p.items[h + 1], x)
<1> PICK d, k : d = p.hole /\ k = P!LargerChild(p.items, d, c)
  OBVIOUS
<1>1. p \in Holes(n) /\ d = p.hole /\ k = P!LargerChild(p.items, d, c)
  BY DEF Sinking
<1>2. d \in 0..(n - 1) /\ Len(p.items) = n /\ \A i \in 0..(n - 1) : p.items[i + 1] \in Items
  BY <1>1, ItemsAre
<1>3. 2 * d + 1 < n => k # d
  BY <1>1, <1>2, ChildIs
<1>4. ~(2 * d + 1 < n /\ (memory \/ Compare3(c, p.items[k + 1], x) > 0))
  <2> SUFFICES ASSUME 2 * d + 1 < n /\ (memory \/ Compare3(c, p.items[k + 1], x) > 0) PROVE FALSE
    OBVIOUS
  <2>1. P!Down(p, x, c, memory) = P!Moved(p, k)
    BY <1>1, <1>2 DEF P!Down
  <2>2. P!Moved(p, k).hole = k
    BY DEF P!Moved
  <2>3. p.hole = k
    BY <2>1, <2>2
  <2> QED
    BY <1>1, <1>3, <2>3
<1>5. ASSUME NEW h \in 1..(n - 1), P!Parent(h) = d
      PROVE  ~memory /\ Below(c, p.items[h + 1], x)
  <2>1. h = 2 * d + 1 \/ h = 2 * d + 2
    <3>1. h \in Nat /\ 0 < h
      OBVIOUS
    <3> QED
      BY <1>5, <3>1, ParentIs
  <2>2. 2 * d + 1 < n
    BY <1>2, <2>1
  <2>3. k \in 0..(n - 1) /\ Below(c, p.items[h + 1], p.items[k + 1])
    BY <1>1, <1>5, <2>2, ChildIs
  <2>4. p.items[k + 1] \in Items /\ p.items[h + 1] \in Items
    BY <1>2, <2>3
  <2>5. ~memory /\ ~(Compare3(c, p.items[k + 1], x) > 0)
    BY <1>4, <2>2
  <2>6. Below(c, p.items[k + 1], x)
    BY <2>4, <2>5, BelowIs
  <2> QED
    BY <2>3, <2>4, <2>5, <2>6, BelowIs
<1> QED
  BY <1>1, <1>5

\* The whole way down.
LEMMA SankIs ==
  ASSUME P!Ordering, NEW c \in Orders, NEW n \in Nat, NEW x \in Items, NEW top \in Nat,
         NEW memory \in BOOLEAN, NEW q, Sinking(q, x, top, c, n, memory),
         NEW r, r = P!GoneDown(q, x, c, memory)
  PROVE  /\ Sinking(r, x, top, c, n, memory) /\ P!Down(r, x, c, memory) = r
         /\ SameBag(P!Filled(q, x), P!Filled(r, x))
<1>1. PICK D : D = {p \in Holes(n) : /\ Sinking(p, x, top, c, n, memory)
                                     /\ SameBag(P!Filled(q, x), P!Filled(p, x))}
  OBVIOUS
<1>2. D \in SUBSET Holes(n) /\ q \in D
  BY <1>1 DEF Sinking, SameBag
<1>3. \A p \in D : P!Down(p, x, c, memory) \in D
  <2> SUFFICES ASSUME NEW p \in D PROVE P!Down(p, x, c, memory) \in D
    OBVIOUS
  <2>1. PICK u : u = P!Down(p, x, c, memory)
    OBVIOUS
  <2>2. Sinking(p, x, top, c, n, memory) /\ SameBag(P!Filled(q, x), P!Filled(p, x))
    BY <1>1
  <2>3. Sinking(u, x, top, c, n, memory) /\ SameBag(P!Filled(p, x), P!Filled(u, x))
    BY <2>1, <2>2, SinkingOn
  <2>4. SameBag(P!Filled(q, x), P!Filled(u, x)) /\ u \in Holes(n)
    BY <2>2, <2>3 DEF SameBag, Sinking
  <2> QED
    BY <1>1, <2>1, <2>3, <2>4
<1>4. r \in D /\ P!Down(r, x, c, memory) = r
  BY <1>2, <1>3, GoneDownIs
<1> QED
  BY <1>1, <1>4
\* What is a heap below a slot is one from that slot on when its item has sunk.
LEMMA SiftDownIs ==
  ASSUME P!Ordering, NEW c \in Orders, NEW n \in Nat, NEW s \in Rows(n), NEW top \in 0..(n - 1),
         Heap(s, top + 1, c), NEW memory \in BOOLEAN, NEW t, t = P!SiftDown(s, top, c, memory)
  PROVE  t \in Rows(n) /\ Heap(t, top, c) /\ SameBag(s, t)
<1>1. s \in Seq(Items) /\ Len(s) = n /\ top \in Nat /\ 0 < n /\ top + 1 \in 1..n
  BY DEF Rows
<1>2. s \in [1..n -> Items]
  BY <1>1, LenProperties
<1>3. PICK x, q : x = s[top + 1] /\ q = P!Hole(s, top)
  OBVIOUS
<1>4. x \in Items /\ q \in Holes(n) /\ q.items = s /\ q.hole = top
  BY <1>1, <1>2, <1>3 DEF P!Hole, Holes
<1>5. P!Filled(q, x) = s
  <2>1. [s EXCEPT ![top + 1] = x] = s
    BY <1>1, <1>2, <1>3
  <2> QED
    BY <1>4, <2>1 DEF P!Filled
<1>6. Sinking(q, x, top, c, n, memory)
  <2>1. \E T : OnPath(T, top, n) /\ q.hole \in T
    <3>1. PICK T : T = {top}
      OBVIOUS
    <3>2. OnPath(T, top, n)
      BY <1>1, <3>1 DEF OnPath
    <3> QED
      BY <1>4, <3>1, <3>2
  <2>2. ASSUME NEW h \in 1..(n - 1), P!Parent(h) >= top, P!Parent(h) # top
        PROVE  Below(c, q.items[h + 1], q.items[P!Parent(h) + 1])
    <3>1. P!Parent(h) \in 0..(n - 1)
      BY <1>1, ParentsAre
    <3>2. P!Parent(h) >= top + 1
      BY <1>1, <2>2, <3>1
    <3> QED
      BY <1>1, <1>4, <3>2 DEF Heap
  <2> QED
    BY <1>4, <2>1, <2>2 DEF Sinking
<1>7. PICK p : p = P!GoneDown(q, x, c, memory)
  OBVIOUS
<1>8. /\ Sinking(p, x, top, c, n, memory) /\ P!Down(p, x, c, memory) = p
      /\ SameBag(s, P!Filled(p, x))
  BY <1>1, <1>4, <1>5, <1>6, <1>7, SankIs
<1>9. /\ memory => \A h \in 1..(n - 1) : P!Parent(h) # p.hole
      /\ \A h \in 1..(n - 1) : P!Parent(h) = p.hole => Below(c, p.items[h + 1], x)
  BY <1>1, <1>4, <1>8, SunkIs
<1>10. /\ p \in Holes(n)
       /\ \A h \in 1..(n - 1) :
            P!Parent(h) >= top /\ (P!Parent(h) # top \/ p.hole # top)
              => Below(c, p.items[h + 1], p.items[P!Parent(h) + 1])
       /\ ~memory /\ p.hole # top => Below(c, x, p.items[P!Parent(p.hole) + 1])
  BY <1>8 DEF Sinking
<1>11. t = P!Filled(IF memory THEN P!GoneUp(p, x, top, c) ELSE p, x)
  <2>1. s # <<>>
    BY <1>1
  <2> QED
    BY <1>3, <1>7, <2>1 DEF P!SiftDown
<1>12. CASE memory
  <2>1. PICK T : OnPath(T, top, n) /\ p.hole \in T
    BY <1>8 DEF Sinking
  <2>2. Rising(p, x, p.hole, top, c, T, n)
    <3>1. ASSUME NEW h \in 1..(n - 1), P!Parent(h) >= top, h # p.hole
          PROVE  Below(c, p.items[h + 1], p.items[P!Parent(h) + 1])
      <4>1. P!Parent(h) # p.hole
        BY <1>9, <1>12
      <4> QED
        BY <1>10, <3>1, <4>1
    <3> QED
      BY <1>9, <1>10, <2>1, <3>1 DEF Rising
  <2>3. t = P!Filled(P!GoneUp(p, x, top, c), x)
    BY <1>11, <1>12
  <2>4. t \in Rows(n) /\ Heap(t, top, c) /\ SameBag(P!Filled(p, x), t)
    <3>1. \A h \in 1..(n - 1) : P!Parent(h) # p.hole
      BY <1>9, <1>12
    <3>2. PICK from : from = p.hole
      OBVIOUS
    <3> QED
      BY <1>1, <1>4, <2>1, <2>2, <2>3, <3>1, <3>2, RaisedIs
  <2> QED
    BY <1>8, <2>4 DEF SameBag
<1>13. CASE ~memory
  <2>1. t = P!Filled(p, x)
    BY <1>11, <1>13
  <2>2. t \in Rows(n) /\ \A i \in 0..(n - 1) : t[i + 1] = IF i = p.hole THEN x ELSE p.items[i + 1]
    BY <1>4, <1>10, <2>1, FilledIs
  <2>3. ASSUME NEW h \in 1..(n - 1), P!Parent(h) >= top
        PROVE  Below(c, t[h + 1], t[P!Parent(h) + 1])
    <3>1. PICK g : g = P!Parent(h)
      OBVIOUS
    <3>2. g \in 0..(n - 1) /\ g < h /\ h \in 0..(n - 1)
      BY <1>1, <3>1, ParentsAre
    <3>3. CASE h = p.hole
      <4>1. p.hole # top
        BY <1>1, <2>3, <3>1, <3>2, <3>3
      <4>2. Below(c, x, p.items[g + 1])
        BY <1>10, <1>13, <3>1, <3>3, <4>1
      <4> QED
        BY <2>2, <3>1, <3>2, <3>3, <4>2
    <3>4. CASE g = p.hole
      <4>1. Below(c, p.items[h + 1], x)
        BY <1>9, <3>1, <3>4
      <4> QED
        BY <2>2, <3>1, <3>2, <3>4, <4>1
    <3>5. CASE h # p.hole /\ g # p.hole
      <4>1. Below(c, p.items[h + 1], p.items[g + 1])
        BY <1>10, <2>3, <3>1, <3>5
      <4> QED
        BY <2>2, <3>1, <3>2, <3>5, <4>1
    <3> QED
      BY <3>3, <3>4, <3>5
  <2>4. Len(t) = n
    BY <2>2 DEF Rows
  <2>5. Heap(t, top, c)
    BY <2>3, <2>4 DEF Heap
  <2> QED
    BY <1>8, <2>1, <2>2, <2>5
<1> QED
  BY <1>12, <1>13
\* From the last parent down to the root, any row becomes a heap.
LEMMA HeapifyIs ==
  ASSUME P!Ordering, NEW c \in Orders, NEW n \in Nat, NEW s \in Rows(n),
         NEW held \in [1..(n \div 2) -> BOOLEAN], NEW t, t = P!Heapify(s, c, held)
  PROVE  t \in Rows(n) /\ Heap(t, 0, c) /\ SameBag(s, t)
<1>0. PICK N : N = n \div 2
  OBVIOUS
<1>1. Len(s) = n /\ N \in Nat /\ 2 * N <= n /\ n <= 2 * N + 1
  BY <1>0 DEF Rows
<1>2. Heap(s, N, c)
  <2> SUFFICES ASSUME NEW h \in 1..(n - 1), P!Parent(h) >= N PROVE FALSE
    BY <1>1 DEF Heap
  <2>1. PICK g : g = P!Parent(h)
    OBVIOUS
  <2>2. h \in Nat /\ 0 < h /\ h < n
    OBVIOUS
  <2>3. g \in Nat /\ (h = 2 * g + 1 \/ h = 2 * g + 2)
    BY <2>1, <2>2, ParentIs
  <2> QED
    BY <1>1, <2>1, <2>2, <2>3
<1>3. \A u \in Rows(n) : \A k \in 1..N : Heap(u, N - k + 1, c) =>
        /\ P!SiftDown(u, N - k, c, held[k]) \in Rows(n)
        /\ Heap(P!SiftDown(u, N - k, c, held[k]), N - k, c)
        /\ SameBag(u, P!SiftDown(u, N - k, c, held[k]))
  <2> SUFFICES ASSUME NEW u \in Rows(n), NEW k \in 1..N, Heap(u, N - k + 1, c)
               PROVE  /\ P!SiftDown(u, N - k, c, held[k]) \in Rows(n)
                      /\ Heap(P!SiftDown(u, N - k, c, held[k]), N - k, c)
                      /\ SameBag(u, P!SiftDown(u, N - k, c, held[k]))
    OBVIOUS
  <2>1. PICK top, v : top = N - k /\ v = P!SiftDown(u, top, c, held[k])
    OBVIOUS
  <2>2. top \in 0..(n - 1) /\ Heap(u, top + 1, c) /\ held[k] \in BOOLEAN
    BY <1>0, <1>1, <2>1
  <2>3. v \in Rows(n) /\ Heap(v, top, c) /\ SameBag(u, v)
    BY <2>1, <2>2, SiftDownIs
  <2> QED
    BY <2>1, <2>3
<1>4. PICK e : e = [w \in Rows(n) \X (1..N) |->
                     IF Heap(w[1], N - w[2] + 1, c) THEN P!SiftDown(w[1], N - w[2], c, held[w[2]])
                     ELSE w[1]]
  OBVIOUS
<1>5. /\ e \in [Rows(n) \X (1..N) -> Rows(n)]
      /\ \A u \in Rows(n) : \A k \in 1..N :
           Heap(u, N - k + 1, c) => e[<<u, k>>] = P!SiftDown(u, N - k, c, held[k])
  <2>1. \A w \in Rows(n) \X (1..N) : w[1] \in Rows(n) /\ w[2] \in 1..N
    OBVIOUS
  <2> QED
    BY <1>3, <1>4, <2>1
<1>6. PICK f : IsRun(f, Rows(n), s, N, e)
  BY <1>1, <1>5, Recursion
<1>7. f \in [0..N -> Rows(n)] /\ f[0] = s /\ \A k \in 1..N : f[k] = e[<<f[k - 1], k>>]
  BY <1>6 DEF IsRun
<1> DEFINE S == {k \in Nat : k <= N => Heap(f[k], N - k, c) /\ SameBag(s, f[k])}
<1>8. 0 \in S
  BY <1>1, <1>2, <1>7 DEF SameBag
<1>9. ASSUME NEW k \in Nat, k \in S PROVE k + 1 \in S
  <2> SUFFICES ASSUME k + 1 <= N
               PROVE  Heap(f[k + 1], N - (k + 1), c) /\ SameBag(s, f[k + 1])
    OBVIOUS
  <2>1. PICK i, u : i = k + 1 /\ u = f[k]
    OBVIOUS
  <2>2. i \in 1..N /\ k \in 0..N /\ i - 1 = k /\ N - i + 1 = N - k
    BY <1>1, <2>1
  <2>3. u \in Rows(n) /\ Heap(u, N - k, c) /\ SameBag(s, u)
    BY <1>7, <1>9, <2>1, <2>2
  <2>4. f[i] = P!SiftDown(u, N - i, c, held[i])
    <3>1. f[i] = e[<<f[i - 1], i>>]
      BY <1>7, <2>2
    <3>2. f[i - 1] = u
      BY <2>1, <2>2
    <3>3. Heap(u, N - i + 1, c)
      BY <2>2, <2>3
    <3>4. e[<<u, i>>] = P!SiftDown(u, N - i, c, held[i])
      BY <1>5, <2>2, <2>3, <3>3
    <3> QED
      BY <3>1, <3>2, <3>4
  <2>5. Heap(f[i], N - i, c) /\ SameBag(u, f[i])
    BY <1>3, <2>2, <2>3, <2>4
  <2> QED
    BY <2>1, <2>3, <2>5 DEF SameBag
<1> HIDE DEF S
<1>10. \A k \in 0..N : f[k] \in Rows(n) /\ Heap(f[k], N - k, c) /\ SameBag(s, f[k])
  <2>1. \A k \in Nat : k \in S
    BY <1>8, <1>9, Induction
  <2> QED
    BY <1>7, <2>1 DEF S
<1>11. \A k \in 1..N : f[k] = P!SiftDown(f[k - 1], N - k, c, held[k])
  <2> SUFFICES ASSUME NEW k \in 1..N PROVE f[k] = P!SiftDown(f[k - 1], N - k, c, held[k])
    OBVIOUS
  <2>1. k - 1 \in 0..N /\ N - (k - 1) = N - k + 1
    BY <1>1
  <2>2. f[k - 1] \in Rows(n) /\ Heap(f[k - 1], N - k + 1, c)
    BY <1>10, <2>1
  <2> QED
    BY <1>5, <1>7, <2>2
<1> DEFINE heap[k \in 0..Len(s) \div 2] ==
             IF k = 0 THEN s ELSE P!SiftDown(heap[k - 1], Len(s) \div 2 - k, c, held[k])
<1>12. t = heap[N]
  BY <1>0, <1>1 DEF P!Heapify
<1>13. heap = [k \in 0..Len(s) \div 2 |->
                IF k = 0 THEN s ELSE P!SiftDown(heap[k - 1], Len(s) \div 2 - k, c, held[k])]
  <2>1. \A k \in 0..N : f[k] = IF k = 0 THEN s ELSE P!SiftDown(f[k - 1], N - k, c, held[k])
    BY <1>1, <1>7, <1>11
  <2>2. f = [k \in 0..N |-> f[k]]
    BY <1>7
  <2>3. f = [k \in 0..N |-> IF k = 0 THEN s ELSE P!SiftDown(f[k - 1], N - k, c, held[k])]
    BY <2>1, <2>2
  <2>4. Len(s) \div 2 = N
    BY <1>0, <1>1
  <2>5. f = [k \in 0..Len(s) \div 2 |->
              IF k = 0 THEN s ELSE P!SiftDown(f[k - 1], Len(s) \div 2 - k, c, held[k])]
    BY <2>3, <2>4, Zenon
  <2> QED
    BY <2>5, Zenon
<1> HIDE DEF heap
<1>14. \A k \in 0..N : heap[k] = IF k = 0 THEN s ELSE P!SiftDown(heap[k - 1], N - k, c, held[k])
  <2>1. Len(s) \div 2 = N
    BY <1>0, <1>1
  <2> QED
    BY <1>13, <2>1, Zenon
<1> DEFINE H == {k \in Nat : k <= N => heap[k] = f[k]}
<1>15. 0 \in H
  BY <1>1, <1>7, <1>14
<1>16. ASSUME NEW k \in Nat, k \in H PROVE k + 1 \in H
  <2> SUFFICES ASSUME k + 1 <= N PROVE heap[k + 1] = f[k + 1]
    OBVIOUS
  <2>1. PICK i : i = k + 1
    OBVIOUS
  <2>2. i \in 1..N /\ i \in 0..N /\ i # 0 /\ i - 1 = k /\ k <= N
    BY <1>1, <2>1
  <2>3. heap[i] = P!SiftDown(heap[k], N - i, c, held[i])
    BY <1>14, <2>2
  <2>4. f[i] = P!SiftDown(f[k], N - i, c, held[i])
    BY <1>11, <2>2
  <2>5. heap[k] = f[k]
    BY <1>16, <2>2
  <2> QED
    BY <2>1, <2>3, <2>4, <2>5
<1> HIDE DEF H
<1>17. N \in H
  BY <1>1, <1>15, <1>16, Induction
<1>18. t = f[N]
  BY <1>1, <1>12, <1>17 DEF H
<1>19. N \in 0..N /\ N - N = 0
  BY <1>1
<1> QED
  BY <1>10, <1>18, <1>19

-----------------------------------------------------------------------------
(* The bag                                                                 *)

Bag(s) == [y \in Items |-> Count(s, y)]

\* How often an item occurs is a number, and more than none where it occurs.
LEMMA CountIs ==
  ASSUME NEW n \in Nat, NEW s \in Rows(n), NEW y
  PROVE  /\ IsFiniteSet({i \in 1..Len(s) : s[i] = y})
         /\ Count(s, y) \in Nat
         /\ Count(s, y) > 0 <=> \E i \in 1..n : s[i] = y
<1>1. PICK A : A = {i \in 1..n : s[i] = y}
  OBVIOUS
<1>2. Len(s) = n /\ Count(s, y) = Cardinality(A)
  BY <1>1 DEF Rows, Count
<1>3. IsFiniteSet(A)
  <2>1. IsFiniteSet(1..n) /\ A \in SUBSET (1..n)
    BY <1>1, FS_Interval
  <2> QED
    BY <2>1, FS_Subset
<1>4. Cardinality(A) \in Nat /\ (Cardinality(A) = 0 <=> A = {})
  BY <1>3, FS_CardinalityType, FS_EmptySet
<1> QED
  BY <1>1, <1>2, <1>3, <1>4

\* An empty row has none.
LEMMA BagOfNone ==
  ASSUME NEW e, e = <<>>
  PROVE  Bag(e) = [y \in Items |-> 0]
<1>1. \A y \in Items : Count(e, y) = 0
  <2> SUFFICES ASSUME NEW y \in Items PROVE Count(e, y) = 0
    OBVIOUS
  <2>1. {i \in 1..Len(e) : e[i] = y} = {}
    OBVIOUS
  <2> QED
    BY <2>1, FS_EmptySet DEF Count
<1> QED
  BY <1>1 DEF Bag

\* Rows that differ in an item at the end differ by that one.
LEMMA OneMore ==
  ASSUME NEW n \in Nat, NEW s \in Rows(n), NEW u \in Rows(n + 1),
         \A i \in 1..n : u[i] = s[i], NEW y \in Items
  PROVE  Count(u, y) = Count(s, y) + (IF y = u[n + 1] THEN 1 ELSE 0)
<1>1. PICK A, B : A = {i \in 1..n : s[i] = y} /\ B = {i \in 1..(n + 1) : u[i] = y}
  OBVIOUS
<1>2. Count(s, y) = Cardinality(A) /\ Count(u, y) = Cardinality(B) /\ IsFiniteSet(A)
  <2>1. Len(s) = n /\ Len(u) = n + 1
    BY DEF Rows
  <2>2. IsFiniteSet({i \in 1..Len(s) : s[i] = y})
    BY CountIs
  <2> QED
    BY <1>1, <2>1, <2>2 DEF Count
<1>3. Cardinality(A) \in Nat
  BY <1>2, FS_CardinalityType
<1>4. CASE y = u[n + 1]
  <2>1. B = A \cup {n + 1} /\ n + 1 \notin A
    BY <1>1, <1>4
  <2>2. Cardinality(B) = Cardinality(A) + 1
    BY <1>2, <2>1, FS_AddElement
  <2> QED
    BY <1>2, <1>4, <2>2
<1>5. CASE y # u[n + 1]
  <2>1. B = A
    BY <1>1, <1>5
  <2> QED
    BY <1>2, <1>3, <1>5, <2>1
<1> QED
  BY <1>4, <1>5

\* The item at the root comes after no other.
LEMMA RootIsFirst ==
  ASSUME P!Ordering, NEW c \in Orders, NEW n \in Nat, 0 < n, NEW s \in Rows(n), Heap(s, 0, c)
  PROVE  s[1] \in Items /\ \A i \in 1..n : Below(c, s[i], s[1])
<1>1. Len(s) = n /\ \A i \in 1..n : s[i] \in Items
  BY ElementOfSeq DEF Rows
<1>2. s[1] \in Items /\ Below(c, s[1], s[1])
  <2>1. s[1] \in Items
    BY <1>1
  <2> QED
    BY <2>1, BelowIs
<1> DEFINE W == {h \in Nat : h < n /\ ~Below(c, s[h + 1], s[1])}
<1>3. W = {}
  <2> SUFFICES ASSUME W # {} PROVE FALSE
    OBVIOUS
  <2>1. PICK h \in W : \A m \in W : h <= m
    BY LeastNat
  <2>2. h \in Nat /\ h < n /\ ~Below(c, s[h + 1], s[1])
    BY <2>1
  <2>3. h # 0
    BY <1>2, <2>2
  <2>4. h \in 1..(n - 1)
    BY <2>2, <2>3
  <2>5. PICK g : g = P!Parent(h)
    OBVIOUS
  <2>6. g \in 0..(n - 1) /\ g < h
    BY <2>4, <2>5, ParentsAre
  <2>7. Below(c, s[h + 1], s[g + 1])
    BY <1>1, <2>4, <2>5, <2>6 DEF Heap
  <2>8. g \notin W
    BY <2>1, <2>2, <2>6
  <2>9. Below(c, s[g + 1], s[1])
    BY <2>6, <2>8
  <2>10. s[g + 1] \in Items /\ s[h + 1] \in Items
    BY <1>1, <2>4, <2>6
  <2> QED
    BY <1>2, <2>2, <2>7, <2>9, <2>10, BelowIs
<1>4. ASSUME NEW i \in 1..n PROVE Below(c, s[i], s[1])
  <2>1. i - 1 \in Nat /\ i - 1 < n /\ i - 1 + 1 = i
    OBVIOUS
  <2> QED
    BY <1>3, <2>1
<1> QED
  BY <1>2, <1>4

\* What is left when the last item takes the place of the first.
RootTaken(s) == P!Front([s EXCEPT ![1] = P!Last(s)])

LEMMA RootTakenOut ==
  ASSUME NEW n \in Nat, NEW m, m = n + 1, NEW s \in Rows(m), NEW t, t = RootTaken(s)
  PROVE  /\ t \in Rows(n)
         /\ \A i \in 2..n : t[i] = s[i]
         /\ \A y \in Items : Count(s, y) = Count(t, y) + (IF y = s[1] THEN 1 ELSE 0)
<1>0. s \in Rows(n + 1)
  OBVIOUS
<1>1. s \in Seq(Items) /\ Len(s) = n + 1 /\ s[n + 1] \in Items /\ s[1] \in Items
  BY ElementOfSeq DEF Rows
<1>2. PICK u : u = [s EXCEPT ![1] = s[n + 1]]
  OBVIOUS
<1>3. s \in [1..(n + 1) -> Items]
  BY <1>1, LenProperties
<1>4. u \in [1..(n + 1) -> Items] /\ \A i \in 1..(n + 1) : u[i] = IF i = 1 THEN s[n + 1] ELSE s[i]
  BY <1>1, <1>2, <1>3
<1>5. u \in Seq(Items) /\ Len(u) = n + 1
  BY <1>4, IsASeq, LenProperties
<1>6. t = SubSeq(u, 1, n)
  BY <1>1, <1>2, <1>5 DEF RootTaken, P!Front, P!Last
<1>7. n \in 0..Len(u)
  BY <1>5
<1>8. /\ t \in Seq(Items) /\ Len(t) = n
      /\ \A i \in 1..n : t[i] = u[i]
  BY <1>5, <1>6, <1>7, PrefixIs
<1>9. t \in Rows(n) /\ \A i \in 1..n : t[i] = IF i = 1 THEN s[n + 1] ELSE s[i]
  <2>1. t \in Rows(n)
    BY <1>8 DEF Rows
  <2>2. ASSUME NEW i \in 1..n PROVE t[i] = IF i = 1 THEN s[n + 1] ELSE s[i]
    <3>1. i \in 1..(n + 1)
      OBVIOUS
    <3>2. t[i] = u[i]
      BY <1>8
    <3>3. u[i] = IF i = 1 THEN s[n + 1] ELSE s[i]
      BY <1>4, <3>1
    <3> QED
      BY <3>2, <3>3
  <2> QED
    BY <2>1, <2>2
<1>10. PICK v : v = [u EXCEPT ![n + 1] = s[1]]
  OBVIOUS
<1>11. /\ v \in [1..(n + 1) -> Items]
       /\ \A i \in 1..(n + 1) : v[i] = IF i = n + 1 THEN s[1] ELSE u[i]
  BY <1>1, <1>4, <1>10
<1>12. v \in Rows(n + 1)
  BY <1>11, IsASeq, LenProperties DEF Rows
<1>13. SameBag(s, v)
  <2>2. m \in Nat /\ 1 \in 1..m /\ m \in 1..m /\ s \in Rows(m) /\ v \in Rows(m)
    BY <1>12
  <2>3. v[1] = s[m] /\ v[m] = s[1] /\ \A k \in 1..m : k \notin {1, m} => v[k] = s[k]
    BY <1>4, <1>11
  <2> QED
    BY <2>2, <2>3, SwapBag
<1>14. ASSUME NEW y \in Items
       PROVE  Count(s, y) = Count(t, y) + (IF y = s[1] THEN 1 ELSE 0)
  <2>1. Count(s, y) = Count(v, y)
    BY <1>13 DEF SameBag
  <2>2. ASSUME NEW i \in 1..n PROVE v[i] = t[i]
    <3>1. i \in 1..(n + 1) /\ i # n + 1
      OBVIOUS
    <3>2. t[i] = u[i]
      BY <1>8
    <3> QED
      BY <1>11, <3>1, <3>2
  <2>3. Count(v, y) = Count(t, y) + (IF y = v[n + 1] THEN 1 ELSE 0)
    BY <1>9, <1>12, <2>2, OneMore
  <2>4. v[n + 1] = s[1]
    BY <1>11
  <2> QED
    BY <2>1, <2>3, <2>4
<1> QED
  BY <1>9, <1>14

-----------------------------------------------------------------------------
(* The priority queue                                                      *)

\* A priority queue is made of the functions of a vector.
LEMMA SameFunctions ==
  ASSUME NEW v, NEW x, NEW s, NEW n, NEW memory
  PROVE  /\ P!VectorCreate = VectorCreate /\ P!Size(v) = Size(v)
         /\ P!PushBack(v, x, memory) = PushBack(v, x, memory)
         /\ P!Reserve(v, n, memory) = Reserve(v, n, memory) /\ P!Reserved(v, n) = Reserved(v, n)
         /\ P!Clear(v) = Clear(v)
         /\ P!AssignItems(v, s, memory) = AssignItems(v, s, memory)
<1> USE DEF P!Size, Size, P!HasRoom, HasRoom, P!NextCapacity, NextCapacity, P!Realloc, Realloc,
            P!EnsureOneMore, EnsureOneMore, P!PushBack, PushBack, P!Reserve, Reserve,
            P!Reserved, Reserved, P!Clear, Clear, P!VectorCreate, VectorCreate
<1>1. P!VectorCreate = VectorCreate /\ P!Size(v) = Size(v) /\ P!Reserved(v, n) = Reserved(v, n)
  OBVIOUS
<1>2. P!PushBack(v, x, memory) = PushBack(v, x, memory)
  OBVIOUS
<1>3. P!Reserve(v, n, memory) = Reserve(v, n, memory)
  OBVIOUS
<1>4. P!Clear(v) = Clear(v)
  OBVIOUS
<1>5. P!AssignItems(v, s, memory) = AssignItems(v, s, memory)
  BY Zenon DEF P!AssignItems, AssignItems, P!PushAll, PushAll
<1> QED
  BY <1>1, <1>2, <1>3, <1>4, <1>5

\* How many of each item each queue has, and the order of each.
Counts ==
  [o \in Objects |-> [x \in Items |->
     P!Cardinality({i \in 1..P!Size(pq[o].vec) : pq[o].vec.items[i] = x})]]
Bags == [o \in Objects |-> Bag(pq[o].vec.items)]

LEMMA CountsAre == Counts = Bags /\ Counts' = Bags'
BY Zenon DEF Counts, Bags, Bag, Count, P!Cardinality, Cardinality, P!Size


Comparisons == [o \in Objects |-> pq[o].compare]

-----------------------------------------------------------------------------
(* The calls                                                               *)

\* What holds of a priority queue between two calls: it fits its buffer and is a heap.
Heaped(q) ==
  /\ q \in [vec : Struct(Items), compare : Orders]
  /\ Fits(q.vec)
  /\ Heap(q.vec.items, 0, q.compare)

PqInv == /\ pq \in [Objects -> [vec : Struct(Items), compare : Orders]]
         /\ \A o \in Objects : Heaped(pq[o])

\* What a queue of the invariant is made of.
LEMMA HeapedIs ==
  ASSUME NEW q, Heaped(q)
  PROVE  /\ Sound(q.vec, Items) /\ q.vec.items \in Seq(Items) /\ q.compare \in Orders
         /\ Len(q.vec.items) \in Nat /\ Len(q.vec.items) <= SizeMax \div ItemSize
         /\ q.vec.items \in Rows(Len(q.vec.items)) /\ Heap(q.vec.items, 0, q.compare)
<1>1. Sound(q.vec, Items) /\ q.compare \in Orders /\ Heap(q.vec.items, 0, q.compare)
  BY DEF Heaped, Sound
<1>2. /\ q.vec.items \in Seq(Items) /\ Len(q.vec.items) \in Nat /\ q.vec.capacity \in Nat
      /\ Len(q.vec.items) <= q.vec.capacity /\ q.vec.capacity * ItemSize <= SizeMax
  BY <1>1, FieldsAre DEF Sound, Size, Fits
<1>3. q.vec.capacity <= SizeMax \div ItemSize /\ SizeMax \div ItemSize \in Nat
  BY <1>2, Addressable
<1> QED
  BY <1>1, <1>2, <1>3 DEF Rows

\* A vector whose items are put in the order of a heap.
LEMMA HeapedAgain ==
  ASSUME NEW c \in Orders, NEW v, Sound(v, Items), NEW s \in Rows(Size(v)), Heap(s, 0, c),
         NEW w, w = [v EXCEPT !.items = s], NEW q, q = [vec |-> w, compare |-> c]
  PROVE  Heaped(q) /\ q.vec.items = s /\ q.compare = c
<1>1. s \in Seq(Items) /\ Len(s) <= v.capacity
  BY DEF Rows, Sound, Fits, Size
<1>2. Sound(w, Items) /\ w.items = s
  BY <1>1, StillFits
<1> QED
  BY <1>2 DEF Heaped, Sound

\* A call on one queue.
LEMMA PqUpdate ==
  ASSUME PqInv, NEW o \in Objects, NEW q, Heaped(q), P!Becomes(o, q)
  PROVE  PqInv' /\ Bags' = [Bags EXCEPT ![o] = Bag(q.vec.items)]
         /\ Comparisons' = [Comparisons EXCEPT ![o] = q.compare]
         /\ Bags[o] = Bag(pq[o].vec.items) /\ Comparisons[o] = pq[o].compare
<1>1. pq' = [pq EXCEPT ![o] = q] /\ pq \in [Objects -> [vec : Struct(Items), compare : Orders]]
  BY DEF P!Becomes, PqInv
<1>2. pq' \in [Objects -> [vec : Struct(Items), compare : Orders]]
  BY <1>1 DEF Heaped
<1>3. \A p \in Objects : pq'[p] = IF p = o THEN q ELSE pq[p]
  BY <1>1
<1>4. PqInv'
  BY <1>2, <1>3 DEF PqInv
<1>5. Bags' = [Bags EXCEPT ![o] = Bag(q.vec.items)]
  BY <1>3 DEF Bags
<1>6. Comparisons' = [Comparisons EXCEPT ![o] = q.compare]
  BY <1>3 DEF Comparisons
<1> QED
  BY <1>4, <1>5, <1>6 DEF Bags, Comparisons

\* A call that keeps the order of the queue.
LEMMA SameOrder ==
  ASSUME PqInv, NEW o \in Objects, Comparisons' = [Comparisons EXCEPT ![o] = pq[o].compare]
  PROVE  Comparisons' = Comparisons
BY DEF Comparisons

\* Of what a queue has, a slot has one.
LEMMA InBag ==
  ASSUME NEW s \in Seq(Items), NEW y \in Items
  PROVE  /\ Bag(s)[y] = Count(s, y) /\ Count(s, y) \in Nat
         /\ Bag(s)[y] > 0 <=> \E i \in 1..Len(s) : s[i] = y
<1>1. PICK n : n = Len(s)
  OBVIOUS
<1>2. n \in Nat /\ s \in Rows(n)
  BY <1>1, LenProperties DEF Rows
<1>3. /\ Count(s, y) \in Nat
      /\ Count(s, y) > 0 <=> \E i \in 1..n : s[i] = y
  BY <1>2, CountIs
<1> QED
  BY <1>1, <1>3 DEF Bag

\* Rows of the same bag.
LEMMA BagsAgree ==
  ASSUME NEW s, NEW t, SameBag(s, t)
  PROVE  Bag(s) = Bag(t)
BY Zenon DEF SameBag, Bag

-----------------------------------------------------------------------------

\* priority_queue_push and priority_queue_emplace: one more of the item, or no memory.
LEMMA PqPushIs ==
  ASSUME P!Ordering, PqInv, NEW o \in Objects, NEW x \in Items, NEW memory \in BOOLEAN,
         P!CallPush(o, x, memory)
  PROVE  PqInv' /\ (RoomToDouble => P!PriorityQueueBag!Next)
<1>1. PICK q, v : q = pq[o] /\ v = PushBack(q.vec, x, memory)
  OBVIOUS
<1>2. Heaped(q) /\ Sound(q.vec, Items) /\ q.vec.items \in Seq(Items) /\ Size(q.vec) \in Nat
  BY <1>1, HeapedIs DEF PqInv, Size
<1>3. /\ Sound(v, Items)
      /\ \/ v.items = Append(q.vec.items, x) /\ Size(v) = Size(q.vec) + 1
         \/ v.items = q.vec.items /\ Size(v) = Size(q.vec) /\ ~HasRoom(q.vec)
            /\ (RoomToDouble /\ Size(q.vec) < MaxLength => ~memory)
  <2>1. PICK vec : vec = q.vec
    OBVIOUS
  <2>2. Sound(vec, Items) /\ v = PushBack(vec, x, memory)
    BY <1>1, <1>2, <2>1
  <2>3. /\ Sound(v, Items)
        /\ \/ v.items = Append(vec.items, x) /\ Size(v) = Size(vec) + 1
           \/ v.items = vec.items /\ Size(v) = Size(vec) /\ ~HasRoom(vec)
              /\ (RoomToDouble /\ Size(vec) < MaxLength => ~memory)
    BY <2>2, PushBackIs
  <2> QED
    BY <2>1, <2>3
<1>4. PICK pushed : pushed = (Size(v) > Size(q.vec))
  OBVIOUS
<1>5. PICK w : w = IF pushed THEN [v EXCEPT !.items = P!SiftUp(v.items, Size(v) - 1, q.compare)]
                   ELSE v
  OBVIOUS
<1>6. PICK r : r = [q EXCEPT !.vec = w]
  OBVIOUS
<1>7. /\ Size(q.vec) < MaxLength
      /\ P!Becomes(o, r)
      /\ \E op \in {"push_back", "emplace_back"} :
           pqCall' = Call(op, o, <<x>>, memory, pushed, NULL)
  <2>1. P!PushBack(pq[o].vec, x, memory) = v /\ P!Size(v) = Size(v) /\ P!Size(q.vec) = Size(q.vec)
    BY <1>1, SameFunctions
  <2>2. /\ P!Size(q.vec) < MaxLength
        /\ P!Becomes(o, [q EXCEPT !.vec =
             IF P!Size(v) > P!Size(q.vec)
             THEN [v EXCEPT !.items = P!SiftUp(v.items, P!Size(v) - 1, q.compare)] ELSE v])
        /\ \E op \in {"push_back", "emplace_back"} :
             pqCall' = P!Call(op, o, <<x>>, memory, P!Size(v) > P!Size(q.vec), P!NULL)
    BY <1>1, <2>1 DEF P!CallPush
  <2>3. \A op : P!Call(op, o, <<x>>, memory, pushed, P!NULL) = Call(op, o, <<x>>, memory, pushed, NULL)
    BY DEF P!Call, P!CallOf, P!NULL, Call, CallOf, NULL
  <2> QED
    BY <1>4, <1>5, <1>6, <2>1, <2>2, <2>3
<1>8. PICK op \in {"push_back", "emplace_back"} : pqCall' = Call(op, o, <<x>>, memory, pushed, NULL)
  BY <1>7
<1>9. /\ pqCall'.op = op /\ pqCall'.on = o /\ pqCall'.args[1] = x
      /\ pqCall'.memory = memory /\ pqCall'.ok = pushed /\ pqCall' # [op |-> "none"]
  BY <1>8 DEF Call, CallOf
<1>10. q = [vec |-> q.vec, compare |-> q.compare] /\ q.compare \in Orders /\ Heap(q.vec.items, 0, q.compare)
  BY <1>2 DEF Heaped
<1>11. r = [vec |-> w, compare |-> q.compare]
  BY <1>6, <1>10
<1>12. CASE v.items = Append(q.vec.items, x) /\ Size(v) = Size(q.vec) + 1
  <2>1. PICK s : s = P!SiftUp(v.items, Len(q.vec.items), q.compare)
    OBVIOUS
  <2>2. s \in Rows(Len(v.items)) /\ Heap(s, 0, q.compare) /\ SameBag(v.items, s)
    BY <1>2, <1>10, <1>12, <2>1, SiftUpIs
  <2>3. pushed = TRUE /\ Size(v) - 1 = Len(q.vec.items) /\ Len(v.items) = Size(v)
    <3>1. Size(v) > Size(q.vec) /\ Size(v) - 1 = Size(q.vec)
      BY <1>2, <1>12
    <3>2. pushed
      BY <1>4, <3>1
    <3>3. pushed = TRUE
      BY ONLY <1>4, <3>2
    <3> QED
      BY <3>1, <3>3 DEF Size
  <2>4. w = [v EXCEPT !.items = s]
    BY <1>5, <2>1, <2>3
  <2>5. Heaped(r) /\ r.vec.items = s /\ r.compare = q.compare
    BY <1>3, <1>10, <1>11, <2>2, <2>3, <2>4, HeapedAgain
  <2>6. /\ PqInv' /\ Bags' = [Bags EXCEPT ![o] = Bag(s)] /\ Bags[o] = Bag(q.vec.items)
        /\ Comparisons' = Comparisons
    BY <1>1, <1>7, <2>5, PqUpdate, SameOrder
  <2>7. Bag(s) = [Bag(q.vec.items) EXCEPT ![x] = @ + 1]
    <3>1. PICK n : n = Len(q.vec.items)
      OBVIOUS
    <3>2. n \in Nat /\ q.vec.items \in Rows(n) /\ v.items \in Rows(n + 1) /\ v.items[n + 1] = x
          /\ \A i \in 1..n : v.items[i] = q.vec.items[i]
      BY <1>2, <1>12, <3>1, AppendProperties DEF Rows, Size
    <3>3. \A y \in Items : Count(v.items, y) = Count(q.vec.items, y) + (IF y = x THEN 1 ELSE 0)
      BY <3>2, OneMore
    <3>4. \A y \in Items : Count(q.vec.items, y) \in Nat
      BY <1>2, InBag
    <3>5. \A y \in Items : Count(s, y) = IF y = x THEN Count(q.vec.items, y) + 1 ELSE Count(q.vec.items, y)
      BY <2>2, <3>3, <3>4 DEF SameBag
    <3> QED
      BY <3>5 DEF Bag
  <2>8. Bags' = [Bags EXCEPT ![o] = [Bags[o] EXCEPT ![x] = @ + 1]]
    BY <2>6, <2>7
  <2>9. P!PriorityQueueBag!Push
    <3>1. Counts' = [Counts EXCEPT ![o] = [Counts[o] EXCEPT ![x] = @ + 1]]
      BY <2>8, CountsAre
    <3>2. pqCall'.op \in {"push_back", "emplace_back"} /\ pqCall'.ok = TRUE
      BY <1>9, <2>3
    <3> QED
      BY <1>9, <2>6, <3>1, <3>2
       DEF Counts, Comparisons, P!PriorityQueueBag!Push, P!PriorityQueueBag!Is,
           P!PriorityQueueBag!Mine, P!PriorityQueueBag!Becomes
  <2> QED
    BY <1>9, <2>6, <2>9 DEF P!PriorityQueueBag!Next
<1>13. CASE v.items = q.vec.items /\ Size(v) = Size(q.vec) /\ (RoomToDouble => ~memory)
  <2>1. pushed = FALSE
    <3>1. ~(Size(v) > Size(q.vec))
      BY <1>2, <1>13
    <3>2. ~pushed
      BY <1>4, <3>1
    <3> QED
      BY ONLY <1>4, <3>2
  <2>2. w = v
    BY <1>5, <2>1
  <2>3. Heaped(r) /\ r.vec.items = q.vec.items /\ r.compare = q.compare
    BY <1>3, <1>10, <1>11, <1>13, <2>2 DEF Heaped, Sound
  <2>4. /\ PqInv' /\ Bags' = [Bags EXCEPT ![o] = Bag(q.vec.items)] /\ Bags[o] = Bag(q.vec.items)
        /\ Comparisons' = Comparisons
    BY <1>1, <1>7, <2>3, PqUpdate, SameOrder
  <2>5. ASSUME RoomToDouble PROVE P!PriorityQueueBag!Push
    <3>1. Counts' = [Counts EXCEPT ![o] = Counts[o]]
      BY <2>4, CountsAre
    <3>2. pqCall'.op \in {"push_back", "emplace_back"} /\ pqCall'.ok = FALSE /\ pqCall'.memory = FALSE
      BY <1>9, <1>13, <2>1, <2>5
    <3> QED
      BY <1>9, <2>4, <3>1, <3>2
       DEF Counts, Comparisons, P!PriorityQueueBag!Push, P!PriorityQueueBag!Is,
           P!PriorityQueueBag!Mine, P!PriorityQueueBag!Becomes
  <2> QED
    BY <1>9, <2>4, <2>5 DEF P!PriorityQueueBag!Next
<1> QED
  BY <1>3, <1>7, <1>12, <1>13

\* What a pop leaves of a heap.
LEMMA PoppedHeap ==
  ASSUME P!Ordering, NEW c \in Orders, NEW s \in Seq(Items), s # <<>>, Heap(s, 0, c),
         NEW memory \in BOOLEAN,
         NEW t, t = P!SiftDown(RootTaken(s), 0, c, memory)
  PROVE  /\ t \in Seq(Items) /\ Len(t) + 1 = Len(s) /\ Heap(t, 0, c) /\ s[1] \in Items
         /\ \A y \in Items : Count(s, y) = Count(t, y) + (IF y = s[1] THEN 1 ELSE 0)
         /\ \A y \in Items : Count(s, y) > 0 => Below(c, y, s[1])
<1>1. PICK n, moved : n = Len(s) - 1 /\ moved = RootTaken(s)
  OBVIOUS
<1>2. n \in Nat /\ Len(s) = n + 1 /\ s \in Rows(n + 1)
  <2>1. Len(s) \in Nat /\ Len(s) # 0
    BY LenProperties, EmptySeq
  <2> QED
    BY <1>1, <2>1 DEF Rows
<1>3. /\ moved \in Rows(n)
      /\ \A i \in 2..n : moved[i] = s[i]
      /\ \A y \in Items : Count(s, y) = Count(moved, y) + (IF y = s[1] THEN 1 ELSE 0)
  <2>1. PICK m : m = n + 1
    OBVIOUS
  <2>2. n \in Nat /\ m = n + 1 /\ s \in Rows(m) /\ moved = RootTaken(s)
    BY <1>1, <1>2, <2>1
  <2> QED
    BY <2>2, RootTakenOut
<1>4. t \in Rows(n) /\ Heap(t, 0, c) /\ SameBag(moved, t)
  <2>1. CASE n = 0
    <3>1. moved \in Seq(Items) /\ Len(moved) = 0
      BY <1>3, <2>1 DEF Rows
    <3>2. moved = <<>>
      BY <3>1, EmptySeq
    <3>3. t = moved
      BY <1>1, <3>2 DEF P!SiftDown
    <3>4. Heap(t, 0, c)
      BY <3>1, <3>3 DEF Heap
    <3> QED
      BY <1>3, <3>3, <3>4 DEF SameBag
  <2>2. CASE n # 0
    <3>1. 0 \in 0..(n - 1) /\ Len(moved) = n
      BY <1>2, <1>3, <2>2 DEF Rows
    <3>2. Heap(moved, 0 + 1, c)
      <4> SUFFICES ASSUME NEW h \in 1..(n - 1), P!Parent(h) >= 1
                   PROVE  Below(c, moved[h + 1], moved[P!Parent(h) + 1])
        BY <3>1 DEF Heap
      <4>1. PICK g : g = P!Parent(h)
        OBVIOUS
      <4>2. g \in Nat /\ g < h /\ 1 <= g /\ h \in 1..(n + 1 - 1)
        BY <1>2, <4>1, ParentIs
      <4>3. Below(c, s[h + 1], s[g + 1])
        BY <1>2, <4>1, <4>2 DEF Heap
      <4>4. h + 1 \in 1..n /\ g + 1 \in 1..n /\ h + 1 # 1 /\ g + 1 # 1
        BY <1>2, <4>2
      <4>5. moved[h + 1] = s[h + 1] /\ moved[g + 1] = s[g + 1]
        <5>1. h + 1 \in 2..n /\ g + 1 \in 2..n
          BY <4>4
        <5> QED
          BY <1>3, <5>1
      <4> QED
        BY <4>1, <4>3, <4>5
    <3> QED
      BY <1>1, <1>2, <1>3, <3>1, <3>2, SiftDownIs
  <2> QED
    BY <2>1, <2>2
<1>5. \A y \in Items : Count(s, y) = Count(t, y) + (IF y = s[1] THEN 1 ELSE 0)
  BY <1>3, <1>4 DEF SameBag
<1>6. s[1] \in Items /\ \A i \in 1..(n + 1) : Below(c, s[i], s[1])
  <2>1. PICK m : m = n + 1
    OBVIOUS
  <2>2. m \in Nat /\ 0 < m /\ s \in Rows(m)
    BY <1>2, <2>1
  <2>3. s[1] \in Items /\ \A i \in 1..m : Below(c, s[i], s[1])
    BY <2>2, RootIsFirst
  <2> QED
    BY <2>1, <2>3
<1>7. ASSUME NEW y \in Items, Count(s, y) > 0 PROVE Below(c, y, s[1])
  <2>1. Bag(s)[y] > 0
    BY <1>7, InBag
  <2>2. PICK i \in 1..Len(s) : s[i] = y
    BY <2>1, InBag
  <2> QED
    BY <1>2, <1>6, <2>2
<1> QED
  BY <1>2, <1>4, <1>5, <1>6, <1>7 DEF Rows

\* priority_queue_pop takes out one of those that come before no other.
LEMMA PqPopIs ==
  ASSUME P!Ordering, PqInv, NEW o \in Objects, NEW memory \in BOOLEAN, P!CallPop(o, memory)
  PROVE  PqInv' /\ P!PriorityQueueBag!Next
<1>1. PICK q, s, c : q = pq[o] /\ s = q.vec.items /\ c = q.compare
  OBVIOUS
<1>2. /\ Heaped(q) /\ Sound(q.vec, Items) /\ s \in Seq(Items) /\ c \in Orders /\ Heap(s, 0, c)
      /\ pq \in [Objects -> [vec : Struct(Items), compare : Orders]]
  BY <1>1, HeapedIs DEF PqInv
<1>3. PICK t : t = P!SiftDown(RootTaken(s), 0, c, memory)
  OBVIOUS
<1>4. /\ IF s = <<>> THEN UNCHANGED pq ELSE P!Becomes(o, [q EXCEPT !.vec.items = t])
      /\ pqCall'.op = "pop_front" /\ pqCall'.on = o /\ pqCall' # [op |-> "none"]
  BY <1>1, <1>3 DEF P!CallPop, P!Call, P!CallOf, RootTaken
<1>5. CASE s = <<>>
  <2>1. P!Becomes(o, q) /\ pq' = pq
    BY <1>1, <1>2, <1>4, <1>5 DEF P!Becomes
  <2>2. /\ PqInv' /\ Bags' = [Bags EXCEPT ![o] = Bag(s)] /\ Bags[o] = Bag(s)
        /\ Comparisons' = Comparisons
    BY <1>1, <1>2, <2>1, PqUpdate, SameOrder
  <2>3. Bag(s) = [y \in Items |-> 0]
    BY <1>5, BagOfNone
  <2>4. Counts' = [Counts EXCEPT ![o] = Counts[o]] /\ Counts[o] = [y \in Items |-> 0]
    BY <2>2, <2>3, CountsAre
  <2>5. P!PriorityQueueBag!Pop
    BY <1>4, <2>2, <2>4
     DEF Counts, Comparisons, P!PriorityQueueBag!Pop, P!PriorityQueueBag!Is,
         P!PriorityQueueBag!Mine, P!PriorityQueueBag!Becomes, P!PriorityQueueBag!NoItems
  <2> QED
    BY <2>2, <2>5 DEF P!PriorityQueueBag!Next
<1>6. CASE s # <<>>
  <2>1. /\ t \in Seq(Items) /\ Len(t) + 1 = Len(s) /\ Heap(t, 0, c) /\ s[1] \in Items
        /\ \A y \in Items : Count(s, y) = Count(t, y) + (IF y = s[1] THEN 1 ELSE 0)
        /\ \A y \in Items : Count(s, y) > 0 => Below(c, y, s[1])
    BY <1>2, <1>3, <1>6, PoppedHeap
  <2>2. PICK r : r = [q EXCEPT !.vec.items = t]
    OBVIOUS
  <2>3. P!Becomes(o, r)
    BY <1>4, <1>6, <2>2
  <2>4. Heaped(r) /\ r.vec.items = t /\ r.compare = c
    <3>1. Len(t) <= q.vec.capacity
      <4>1. q.vec.capacity \in Nat /\ Len(s) \in Nat /\ Len(s) <= q.vec.capacity
        BY <1>1, <1>2, FieldsAre DEF Sound, Fits, Size
      <4>2. Len(t) \in Nat
        BY <2>1, LenProperties
      <4> QED
        BY <2>1, <4>1, <4>2
    <3>2. PICK w : w = [q.vec EXCEPT !.items = t]
      OBVIOUS
    <3>3. Sound(w, Items) /\ w.items = t
      BY <1>2, <2>1, <3>1, <3>2, StillFits
    <3>4. r = [vec |-> w, compare |-> c]
      BY <1>1, <1>2, <2>2, <3>2 DEF Heaped
    <3> QED
      BY <1>2, <2>1, <3>3, <3>4 DEF Heaped, Sound
  <2>5. /\ PqInv' /\ Bags' = [Bags EXCEPT ![o] = Bag(t)] /\ Bags[o] = Bag(s)
        /\ Comparisons' = Comparisons
    BY <1>1, <2>3, <2>4, PqUpdate, SameOrder
  <2>6. \A y \in Items : Bag(s)[y] = Count(s, y) /\ Bag(t)[y] = Count(t, y)
                         /\ Count(s, y) \in Nat /\ Count(t, y) \in Nat
    BY <1>2, <2>1, InBag
  <2>7. Bag(t) = [Bag(s) EXCEPT ![s[1]] = @ - 1]
    <3>1. \A y \in Items : Count(t, y) = IF y = s[1] THEN Count(s, y) - 1 ELSE Count(s, y)
      BY <2>1, <2>6
    <3> QED
      BY <3>1 DEF Bag
  <2>8. PICK x : x = s[1]
    OBVIOUS
  <2>9. Counts' = [Counts EXCEPT ![o] = [Counts[o] EXCEPT ![x] = @ - 1]]
    BY <2>5, <2>7, <2>8, CountsAre
  <2>10. x \in Items /\ Counts[o][x] > 0
    BY <2>1, <2>5, <2>6, <2>8, CountsAre
  <2>11. \A y \in Items : Counts[o][y] > 0 => ~(Compare3(Comparisons[o], y, x) > 0)
    <3> SUFFICES ASSUME NEW y \in Items, Counts[o][y] > 0
                 PROVE  ~(Compare3(Comparisons[o], y, x) > 0)
      OBVIOUS
    <3>1. Below(c, y, x)
      BY <2>1, <2>5, <2>6, <2>8, CountsAre
    <3>2. Comparisons[o] = c
      BY <1>1 DEF Comparisons
    <3> QED
      BY <1>2, <2>10, <3>1, <3>2, BelowIs
  <2>12. P!PriorityQueueBag!Pop
    BY <1>4, <2>5, <2>9, <2>10, <2>11
     DEF Counts, Comparisons, P!PriorityQueueBag!Pop, P!PriorityQueueBag!Is,
         P!PriorityQueueBag!Mine, P!PriorityQueueBag!Becomes, P!PriorityQueueBag!NoItems
  <2> QED
    BY <2>5, <2>12 DEF P!PriorityQueueBag!Next
<1> QED
  BY <1>5, <1>6

\* priority_queue_reserve keeps the items, and reports what it could not reserve.
LEMMA PqReserveIs ==
  ASSUME PqInv, NEW o \in Objects, NEW n \in {0, MaxLength}, NEW memory \in BOOLEAN,
         P!CallReserve(o, n, memory)
  PROVE  PqInv' /\ P!PriorityQueueBag!Next
<1>1. PICK q, v : q = pq[o] /\ v = Reserve(q.vec, n, memory)
  OBVIOUS
<1>2. Heaped(q) /\ Sound(q.vec, Items) /\ n \in Nat /\ n <= SizeMax \div ItemSize
  BY <1>1, HeapedIs, Addressable DEF PqInv
<1>3. Sound(v, Items) /\ v.items = q.vec.items /\ (memory => Reserved(v, n))
  BY <1>1, <1>2, ReserveIs
<1>4. PICK r : r = [q EXCEPT !.vec = v]
  OBVIOUS
<1>5. /\ P!Becomes(o, r)
      /\ pqCall' = P!Call("reserve", o, <<n>>, memory, Reserved(v, n), P!NULL)
  BY <1>1, <1>4, SameFunctions DEF P!CallReserve
<1>6. /\ pqCall'.op = "reserve" /\ pqCall'.on = o /\ pqCall'.memory = memory
      /\ pqCall'.ok = Reserved(v, n)
  BY <1>5 DEF P!Call, P!CallOf
<1>7. Heaped(r) /\ r.vec.items = q.vec.items /\ r.compare = q.compare
  BY <1>2, <1>3, <1>4 DEF Heaped, Sound
<1>8. /\ PqInv' /\ Bags' = [Bags EXCEPT ![o] = Bag(q.vec.items)] /\ Bags[o] = Bag(q.vec.items)
      /\ Comparisons' = Comparisons
  BY <1>1, <1>5, <1>7, PqUpdate, SameOrder
<1>9. Counts' = [Counts EXCEPT ![o] = Counts[o]]
  BY <1>8, CountsAre
<1>10. pqCall'.ok \/ ~pqCall'.memory
  BY <1>3, <1>6
<1>11. P!PriorityQueueBag!Keep
  BY <1>6, <1>8, <1>9, <1>10
   DEF Counts, Comparisons, P!PriorityQueueBag!Keep, P!PriorityQueueBag!Is,
       P!PriorityQueueBag!Mine, P!PriorityQueueBag!Becomes
<1> QED
  BY <1>8, <1>11 DEF P!PriorityQueueBag!Next

\* priority_queue_clear
LEMMA PqClearIs ==
  ASSUME PqInv, NEW o \in Objects, P!CallClear(o)
  PROVE  PqInv' /\ P!PriorityQueueBag!Next
<1>1. PICK q, v : q = pq[o] /\ v = Clear(q.vec)
  OBVIOUS
<1>2. Heaped(q) /\ Sound(q.vec, Items) /\ pq \in [Objects -> [vec : Struct(Items), compare : Orders]]
  BY <1>1, HeapedIs DEF PqInv
<1>3. Sound(v, Items) /\ v.items = <<>>
  BY <1>1, <1>2, ClearIs
<1>4. PICK r : r = [q EXCEPT !.vec = v]
  OBVIOUS
<1>5. P!Becomes(o, r) /\ pqCall'.op = "clear" /\ pqCall'.on = o
  BY <1>1, <1>2, <1>4, SameFunctions DEF P!CallClear, P!Becomes, P!Call, P!CallOf
<1>6. Heap(v.items, 0, q.compare)
  BY <1>3 DEF Heap
<1>7. Heaped(r) /\ r.vec.items = <<>> /\ r.compare = q.compare
  BY <1>2, <1>3, <1>4, <1>6 DEF Heaped, Sound
<1>8. /\ PqInv' /\ Bags' = [Bags EXCEPT ![o] = Bag(r.vec.items)]
      /\ Comparisons' = Comparisons
  BY <1>1, <1>5, <1>7, PqUpdate, SameOrder
<1>9. Counts' = [Counts EXCEPT ![o] = [y \in Items |-> 0]]
  BY <1>7, <1>8, BagOfNone, CountsAre
<1>10. P!PriorityQueueBag!Clear
  BY <1>5, <1>8, <1>9
   DEF Counts, Comparisons, P!PriorityQueueBag!Clear, P!PriorityQueueBag!Is,
       P!PriorityQueueBag!NoItems, P!PriorityQueueBag!Becomes
<1> QED
  BY <1>8, <1>10 DEF P!PriorityQueueBag!Next

\* priority_queue_swap: the orders are swapped with the items.
LEMMA PqSwapIs ==
  ASSUME PqInv, NEW o \in Objects, NEW p \in Objects, P!CallSwap(o, p)
  PROVE  PqInv' /\ P!PriorityQueueBag!Next
<1>1. /\ pq' = [pq EXCEPT ![o] = pq[p], ![p] = pq[o]]
      /\ pqCall'.op = "swap" /\ pqCall'.on = o /\ pqCall'.with = p
  BY DEF P!CallSwap, P!CallOf
<1>2. pq \in [Objects -> [vec : Struct(Items), compare : Orders]]
  BY DEF PqInv
<1>3. /\ pq' \in [Objects -> [vec : Struct(Items), compare : Orders]]
      /\ \A r \in Objects : pq'[r] = IF r = p THEN pq[o] ELSE IF r = o THEN pq[p] ELSE pq[r]
  BY <1>1, <1>2
<1>4. PqInv'
  BY <1>3 DEF PqInv
<1>5. Bags' = [Bags EXCEPT ![o] = Bags[p], ![p] = Bags[o]]
  BY <1>3 DEF Bags
<1>6. Comparisons' = [Comparisons EXCEPT ![o] = Comparisons[p], ![p] = Comparisons[o]]
  BY <1>3 DEF Comparisons
<1>7. Counts' = [Counts EXCEPT ![o] = Counts[p], ![p] = Counts[o]]
  BY <1>5, CountsAre
<1>8. P!PriorityQueueBag!Swap
  BY <1>1, <1>6, <1>7
   DEF Counts, Comparisons, P!PriorityQueueBag!Swap, P!PriorityQueueBag!Is,
       P!PriorityQueueBag!Mine, P!PriorityQueueBag!Other
<1> QED
  BY <1>4, <1>8 DEF P!PriorityQueueBag!Next

\* priority_queue_assign makes the heap anew in the order of the destination.
LEMMA PqAssignIs ==
  ASSUME P!Ordering, PqInv, NEW o \in Objects, NEW src \in Objects, NEW memory \in BOOLEAN,
         P!CallAssign(o, src, memory)
  PROVE  PqInv' /\ P!PriorityQueueBag!Next
<1>1. PICK q, s, c, v : /\ q = pq[o] /\ s = pq[src].vec.items /\ c = q.compare
                        /\ v = AssignItems(q.vec, s, memory)
  OBVIOUS
<1>2. /\ Heaped(q) /\ Sound(q.vec, Items) /\ s \in Seq(Items) /\ c \in Orders
      /\ Len(s) \in Nat /\ Len(s) <= SizeMax \div ItemSize /\ (Len(s) = 0 <=> s = <<>>)
      /\ pq \in [Objects -> [vec : Struct(Items), compare : Orders]]
  BY <1>1, HeapedIs, EmptySeq DEF PqInv
<1>3. /\ Sound(v, Items)
      /\ v.items = s \/ (v.items = <<>> /\ s # <<>> /\ ~memory)
  BY <1>1, <1>2, AssignItemsIs
<1>4. PICK ok : ok = (Size(v) = Len(s))
  OBVIOUS
<1>5. PICK held \in [1..Size(v) \div 2 -> BOOLEAN] :
        IF o = src THEN UNCHANGED pq
        ELSE P!Becomes(o, [q EXCEPT !.vec =
               IF ok THEN [v EXCEPT !.items = P!Heapify(v.items, c, held)] ELSE v])
  <2>1. P!Size(v) = Size(v) /\ P!Size(pq[src].vec) = Len(s)
        /\ P!AssignItems(pq[o].vec, pq[src].vec.items, memory) = v
    BY <1>1, SameFunctions DEF Size
  <2>2. [k \in 1..Size(v) \div 2 |-> TRUE] \in [1..Size(v) \div 2 -> BOOLEAN]
    OBVIOUS
  <2>3. o # src => \E held \in [1..P!Size(v) \div 2 -> BOOLEAN] :
          P!Becomes(o, [q EXCEPT !.vec =
            IF P!Size(v) = P!Size(pq[src].vec)
            THEN [v EXCEPT !.items = P!Heapify(v.items, c, held)] ELSE v])
    BY <1>1, <2>1 DEF P!CallAssign
  <2>4. o = src => UNCHANGED pq
    BY DEF P!CallAssign
  <2>5. o # src => \E held \in [1..Size(v) \div 2 -> BOOLEAN] :
          P!Becomes(o, [q EXCEPT !.vec =
            IF ok THEN [v EXCEPT !.items = P!Heapify(v.items, c, held)] ELSE v])
    BY <1>4, <2>1, <2>3
  <2> QED
    BY <2>2, <2>4, <2>5
<1>6. /\ pqCall'.op = "assign" /\ pqCall'.on = o /\ pqCall'.with = src
      /\ pqCall'.memory = memory /\ pqCall'.ok = (o = src \/ ok)
  <2>1. P!Size(v) = Size(v) /\ P!Size(pq[src].vec) = Len(s)
        /\ P!AssignItems(pq[o].vec, pq[src].vec.items, memory) = v
    BY <1>1, SameFunctions DEF Size
  <2> QED
    BY <1>1, <1>4, <2>1 DEF P!CallAssign, P!CallOf
<1>7. CASE o = src
  <2>1. P!Becomes(o, q)
    BY <1>1, <1>2, <1>5, <1>7 DEF P!Becomes
  <2>2. /\ PqInv' /\ Bags' = [Bags EXCEPT ![o] = Bag(q.vec.items)] /\ Bags[o] = Bag(q.vec.items)
        /\ Comparisons' = Comparisons
    BY <1>1, <1>2, <2>1, PqUpdate, SameOrder
  <2>3. Counts' = [Counts EXCEPT ![o] = Counts[src]]
    BY <1>7, <2>2, CountsAre
  <2>4. pqCall'.ok
    BY <1>6, <1>7
  <2>5. P!PriorityQueueBag!Assign
    BY <1>6, <2>2, <2>3, <2>4
     DEF Counts, Comparisons, P!PriorityQueueBag!Assign, P!PriorityQueueBag!Is,
         P!PriorityQueueBag!Other, P!PriorityQueueBag!Becomes
  <2> QED
    BY <2>2, <2>5 DEF P!PriorityQueueBag!Next
<1>8. CASE o # src /\ v.items = s
  <2>1. ok
    BY <1>4, <1>8 DEF Size
  <2>2. PICK t : t = P!Heapify(v.items, c, held)
    OBVIOUS
  <2>3. t \in Rows(Len(s)) /\ Heap(t, 0, c) /\ SameBag(s, t)
    <3>1. s \in Rows(Len(s))
      BY <1>2 DEF Rows
    <3>2. held \in [1..(Len(s) \div 2) -> BOOLEAN]
      BY <1>8 DEF Size
    <3> QED
      BY <1>2, <1>8, <2>2, <3>1, <3>2, HeapifyIs
  <2>4. PICK w, r : w = [v EXCEPT !.items = t] /\ r = [q EXCEPT !.vec = w]
    OBVIOUS
  <2>5. P!Becomes(o, r)
    BY <1>5, <1>8, <2>1, <2>2, <2>4
  <2>6. r = [vec |-> w, compare |-> c]
    BY <1>1, <1>2, <2>4 DEF Heaped
  <2>7. Heaped(r) /\ r.vec.items = t /\ r.compare = c
    <3>1. t \in Rows(Size(v))
      BY <1>8, <2>3 DEF Size
    <3>2. c \in Orders /\ Sound(v, Items) /\ Heap(t, 0, c)
      BY <1>2, <1>3, <2>3
    <3>3. w = [v EXCEPT !.items = t]
      BY <2>4
    <3> QED
      BY <2>6, <3>1, <3>2, <3>3, HeapedAgain
  <2>8. /\ PqInv' /\ Bags' = [Bags EXCEPT ![o] = Bag(t)] /\ Comparisons' = Comparisons
    BY <1>1, <2>5, <2>7, PqUpdate, SameOrder
  <2>9. Bag(t) = Bags[src]
    BY <1>1, <2>3, BagsAgree DEF Bags
  <2>10. Counts' = [Counts EXCEPT ![o] = Counts[src]]
    BY <2>8, <2>9, CountsAre
  <2>11. pqCall'.ok
    BY <1>6, <2>1
  <2>12. P!PriorityQueueBag!Assign
    BY <1>6, <2>8, <2>10, <2>11
     DEF Counts, Comparisons, P!PriorityQueueBag!Assign, P!PriorityQueueBag!Is,
         P!PriorityQueueBag!Other, P!PriorityQueueBag!Becomes
  <2> QED
    BY <2>8, <2>12 DEF P!PriorityQueueBag!Next
<1>9. CASE o # src /\ v.items = <<>> /\ s # <<>> /\ ~memory
  <2>1. ~ok
    <3>1. Len(v.items) = 0
      BY <1>9
    <3> QED
      BY <1>2, <1>4, <1>9, <3>1 DEF Size
  <2>2. PICK r : r = [q EXCEPT !.vec = v]
    OBVIOUS
  <2>3. P!Becomes(o, r)
    BY <1>5, <1>9, <2>1, <2>2
  <2>4. Heap(v.items, 0, c)
    BY <1>9 DEF Heap
  <2>5. Heaped(r) /\ r.vec.items = <<>> /\ r.compare = c
    BY <1>1, <1>2, <1>3, <1>9, <2>2, <2>4 DEF Heaped, Sound
  <2>6. /\ PqInv' /\ Bags' = [Bags EXCEPT ![o] = Bag(r.vec.items)] /\ Comparisons' = Comparisons
    BY <1>1, <2>3, <2>5, PqUpdate, SameOrder
  <2>7. Counts' = [Counts EXCEPT ![o] = [y \in Items |-> 0]]
    BY <2>5, <2>6, BagOfNone, CountsAre
  <2>8. ~pqCall'.ok /\ ~pqCall'.memory
    BY <1>6, <1>9, <2>1
  <2>9. P!PriorityQueueBag!Assign
    BY <1>6, <2>6, <2>7, <2>8
     DEF Counts, Comparisons, P!PriorityQueueBag!Assign, P!PriorityQueueBag!Is,
         P!PriorityQueueBag!NoItems, P!PriorityQueueBag!Becomes
  <2> QED
    BY <2>6, <2>9 DEF P!PriorityQueueBag!Next
<1> QED
  BY <1>3, <1>7, <1>8, <1>9

\* priority_queue_copy: slot by slot, in the order of the source.
LEMMA PqCopyIs ==
  ASSUME PqInv, NEW o \in Objects, NEW src \in Objects, NEW memory \in BOOLEAN,
         P!CallCopy(o, src, memory)
  PROVE  PqInv' /\ P!PriorityQueueBag!Next
<1>1. PICK q, p, s, v : /\ q = pq[o] /\ p = pq[src] /\ s = p.vec.items
                        /\ v = AssignItems(VectorCreate, s, memory)
  OBVIOUS
<1>2. /\ Heaped(q) /\ Heaped(p) /\ s \in Seq(Items) /\ Heap(s, 0, p.compare)
      /\ Len(s) \in Nat /\ Len(s) <= SizeMax \div ItemSize
      /\ Sound(VectorCreate, Items) /\ pq \in [Objects -> [vec : Struct(Items), compare : Orders]]
  BY <1>1, HeapedIs, CreateSound DEF PqInv
<1>3. Sound(v, Items) /\ (v.items = s \/ ~memory)
  BY <1>1, <1>2, AssignItemsIs
<1>4. PICK ok : ok = (memory /\ Size(v) = Len(s))
  OBVIOUS
<1>5. /\ IF ok THEN P!Becomes(o, [p EXCEPT !.vec = v]) ELSE UNCHANGED pq
      /\ pqCall'.op = "copy" /\ pqCall'.on = o /\ pqCall'.with = src
      /\ pqCall'.memory = memory /\ pqCall'.ok = ok
  <2>1. P!Size(v) = Size(v) /\ P!Size(p.vec) = Len(s)
        /\ P!AssignItems(P!VectorCreate, pq[src].vec.items, memory) = v
    BY <1>1, SameFunctions DEF Size
  <2> QED
    BY <1>1, <1>4, <2>1 DEF P!CallCopy, P!CallOf
<1>6. CASE memory
  <2>1. v.items = s /\ ok
    BY <1>3, <1>4, <1>6 DEF Size
  <2>2. PICK r : r = [p EXCEPT !.vec = v]
    OBVIOUS
  <2>3. P!Becomes(o, r)
    BY <1>5, <2>1, <2>2
  <2>4. Heaped(r) /\ r.vec.items = s /\ r.compare = p.compare
    BY <1>2, <1>3, <2>1, <2>2 DEF Heaped, Sound
  <2>5. /\ PqInv' /\ Bags' = [Bags EXCEPT ![o] = Bag(s)]
        /\ Comparisons' = [Comparisons EXCEPT ![o] = p.compare]
    BY <2>3, <2>4, PqUpdate
  <2>6. Counts' = [Counts EXCEPT ![o] = Counts[src]]
    <3>1. Bags[src] = Bag(s)
      BY <1>1 DEF Bags
    <3> QED
      BY <2>5, <3>1, CountsAre
  <2>7. Comparisons' = [Comparisons EXCEPT ![o] = Comparisons[src]]
    BY <1>1, <2>5 DEF Comparisons
  <2>8. pqCall'.ok
    BY <1>5, <2>1
  <2>9. P!PriorityQueueBag!Copy
    BY <1>5, <2>6, <2>7, <2>8
     DEF Counts, Comparisons, P!PriorityQueueBag!Copy, P!PriorityQueueBag!Is,
         P!PriorityQueueBag!Other
  <2> QED
    BY <2>5, <2>9 DEF P!PriorityQueueBag!Next
<1>7. CASE ~memory
  <2>1. ~ok
    BY <1>4, <1>7
  <2>2. P!Becomes(o, q)
    BY <1>1, <1>2, <1>5, <2>1 DEF P!Becomes
  <2>3. /\ PqInv' /\ Bags' = [Bags EXCEPT ![o] = Bag(q.vec.items)] /\ Bags[o] = Bag(q.vec.items)
        /\ Comparisons' = Comparisons
    BY <1>1, <1>2, <2>2, PqUpdate, SameOrder
  <2>4. Counts' = [Counts EXCEPT ![o] = Counts[o]]
    BY <2>3, CountsAre
  <2>5. ~pqCall'.ok /\ ~pqCall'.memory
    BY <1>5, <1>7, <2>1
  <2>6. P!PriorityQueueBag!Copy
    BY <1>5, <2>3, <2>4, <2>5
     DEF Counts, Comparisons, P!PriorityQueueBag!Copy, P!PriorityQueueBag!Is,
         P!PriorityQueueBag!Mine, P!PriorityQueueBag!Becomes
  <2> QED
    BY <2>3, <2>6 DEF P!PriorityQueueBag!Next
<1> QED
  BY <1>6, <1>7

\* Every call keeps the heaps, and does to the bags what its name says.
LEMMA PqStep ==
  ASSUME P!Ordering, PqInv, P!Next
  PROVE  PqInv' /\ (RoomToDouble => P!PriorityQueueBag!Next)
<1>1. PICK o \in Objects, memory \in BOOLEAN :
        \/ \E x \in Items : P!CallPush(o, x, memory)
        \/ P!CallPop(o, memory)
        \/ P!CallClear(o)
        \/ \E n \in {0, MaxLength} : P!CallReserve(o, n, memory)
        \/ \E p \in Objects :
             P!CallSwap(o, p) \/ P!CallAssign(o, p, memory) \/ P!CallCopy(o, p, memory)
  BY DEF P!Next
<1> QED
  BY <1>1, PqPushIs, PqPopIs, PqClearIs, PqReserveIs, PqSwapIs, PqAssignIs, PqCopyIs

\* The queues as they are made: empty, each in some order.
LEMMA PqStart ==
  ASSUME P!Init
  PROVE  PqInv /\ P!PriorityQueueBag!Init
<1>1. Sound(VectorCreate, Items) /\ VectorCreate.items = <<>> /\ P!VectorCreate = VectorCreate
  BY CreateSound, SameFunctions
<1>2. pq \in [Objects -> {[vec |-> VectorCreate, compare |-> c] : c \in Orders}]
  BY <1>1 DEF P!Init
<1>3. ASSUME NEW o \in Objects
      PROVE  Heaped(pq[o]) /\ pq[o] \in [vec : Struct(Items), compare : Orders]
             /\ pq[o].vec.items = <<>>
  <2>1. PICK c \in Orders : pq[o] = [vec |-> VectorCreate, compare |-> c]
    BY <1>2
  <2>2. Heap(VectorCreate.items, 0, c)
    BY <1>1 DEF Heap
  <2> QED
    BY <1>1, <2>1, <2>2 DEF Heaped, Sound
<1>4. PqInv
  BY <1>2, <1>3 DEF PqInv
<1>5. Counts = [o \in Objects |-> [y \in Items |-> 0]]
  BY <1>3, BagOfNone, CountsAre DEF Bags
<1>6. P!PriorityQueueBag!Init
  BY <1>5 DEF Counts, P!Init, P!NoCall, P!PriorityQueueBag!Init, P!PriorityQueueBag!NoItems,
              P!PriorityQueueBag!NoCall
<1> QED
  BY <1>4, <1>6

\* A step keeps the heaps, and is one of the bags.
LEMMA PqSteps ==
  ASSUME P!Ordering, PqInv, [P!Next]_P!vars
  PROVE  PqInv' /\ (RoomToDouble => [P!PriorityQueueBag!Next]_P!PriorityQueueBag!vars)
<1>1. CASE P!Next
  BY <1>1, PqStep
<1>2. CASE UNCHANGED P!vars
  <2>1. pq' = pq /\ pqCall' = pqCall
    BY <1>2 DEF P!vars
  <2>2. PqInv'
    BY <2>1 DEF PqInv
  <2>3. UNCHANGED P!PriorityQueueBag!vars
    BY <2>1 DEF P!PriorityQueueBag!vars
  <2> QED
    BY <2>2, <2>3
<1> QED
  BY <1>1, <1>2

\* Whatever items compare equal, no item comes before its parent: sifting up, sifting down with
\* memory for the item held aside or by swaps, and heapifying anew all leave a heap, so
\* priority_queue_top hands out an item that no other comes before.
THEOREM HeapStaysOrdered ==
  ASSUME P!Ordering
  PROVE  P!Spec => []P!HeapOrder
<1>1. P!Init => PqInv
  BY PqStart
<1>2. PqInv /\ [P!Next]_P!vars => PqInv'
  BY PqSteps
<1>3. PqInv => P!HeapOrder
  <2> SUFFICES ASSUME PqInv, NEW o \in Objects, NEW h \in 1..(Len(pq[o].vec.items) - 1)
               PROVE  Compare3(pq[o].compare, pq[o].vec.items[h + 1],
                               pq[o].vec.items[P!Parent(h) + 1]) <= 0
    BY Zenon DEF P!HeapOrder
  <2>1. PICK s, c : s = pq[o].vec.items /\ c = pq[o].compare
    OBVIOUS
  <2>2. Heap(s, 0, c)
    BY <2>1 DEF PqInv, Heaped
  <2>3. h \in 1..(Len(s) - 1) /\ P!Parent(h) >= 0
    <3>1. Len(s) \in Nat
      BY <2>1, HeapedIs DEF PqInv
    <3>2. h \in Nat /\ 0 < h
      BY <3>1
    <3> QED
      BY <2>1, <3>2, ParentIs
  <2> QED
    BY <2>1, <2>2, <2>3 DEF Heap, Below
<1> QED
  BY <1>1, <1>2, <1>3, PTL DEF P!Spec

\* A priority queue is the bag its calls say: a pop takes out one of the items that no other
\* comes before, an assignment keeps the order of the destination, a copy takes that of the
\* source and a swap exchanges them, through doublings and calls that fail for want of memory.
THEOREM PriorityQueueImplementsBag ==
  ASSUME P!Ordering, RoomToDouble
  PROVE  P!Spec => P!PriorityQueueIsBag
<1>1. P!Init => PqInv /\ P!PriorityQueueBag!Init
  BY PqStart
<1>2. PqInv /\ [P!Next]_P!vars => PqInv' /\ [P!PriorityQueueBag!Next]_P!PriorityQueueBag!vars
  BY PqSteps
<1> QED
  BY <1>1, <1>2, PTL DEF P!Spec, P!PriorityQueueIsBag, P!PriorityQueueBag!Spec
===============================================================================
