------------------------------ MODULE Matrix ------------------------------
(***************************************************************************)
(* matrix/matrix.c: matrices of doubles, row after row in one array.  The  *)
(* entries here are the doubles that are small whole numbers; NULL is what *)
(* a function returns for shapes it refuses.                               *)
(*                                                                         *)
(* In this order: rearranging and entries, algebra, special matrices,      *)
(* statistics, and the laws of all.                                        *)
(***************************************************************************)
EXTENDS Values, Integers, Sequences, FiniteSets, TLC

Ext == INSTANCE SequencesExt

NULL == [rows |-> 0, cols |-> 0, data |-> <<>>]

\* matrix_create, and the loops over all places that give each its value
Filled(rows, cols, value(_, _)) ==
  IF rows = 0 \/ cols = 0 THEN NULL
  ELSE [rows |-> rows, cols |-> cols,
        data |-> [n \in 1..rows * cols |-> value((n - 1) \div cols, (n - 1) % cols)]]

Each(m, value(_)) == [m EXCEPT !.data = [n \in DOMAIN m.data |-> value(m.data[n])]]
SameShape(m, n) == m.rows = n.rows /\ m.cols = n.cols
Both(m, n, value(_, _)) ==
  IF SameShape(m, n) THEN [m EXCEPT !.data = [i \in DOMAIN @ |-> value(m.data[i], n.data[i])]] ELSE NULL

Size(m) == m.rows * m.cols
Rows(m) == 0..m.rows - 1
Cols(m) == 0..m.cols - 1
At(m, i, j) == m.data[i * m.cols + j + 1]
Flag(b) == IF b THEN 1 ELSE 0
Smaller(x, y) == IF x < y THEN x ELSE y
Larger(x, y) == IF x > y THEN x ELSE y
Abs1(x) == IF x < 0 THEN -x ELSE x

Get(m, i, j) == IF i \in Rows(m) /\ j \in Cols(m) THEN At(m, i, j) ELSE 0
Set(m, i, j, value) ==
  IF i \in Rows(m) /\ j \in Cols(m) THEN [m EXCEPT !.data[i * m.cols + j + 1] = value] ELSE m

Fill(m, value) == Each(m, LAMBDA x : value)
Zeros(rows, cols) == Filled(rows, cols, LAMBDA i, j : 0)
Ones(rows, cols) == Filled(rows, cols, LAMBDA i, j : 1)
Eye(rows, cols, k) == Filled(rows, cols, LAMBDA i, j : Flag(j - i = k))
CreateIdentity(n) == Eye(n, n, 0)
Copy(m) == Filled(m.rows, m.cols, LAMBDA i, j : At(m, i, j))
FromArray(data, rows, cols) == Filled(rows, cols, LAMBDA i, j : data[i * cols + j + 1])
ToArray(m) == m.data

-----------------------------------------------------------------------------
(* Entry by entry                                                          *)

Add(m, n) == Both(m, n, LAMBDA x, y : x + y)
Subtract(m, n) == Both(m, n, LAMBDA x, y : x - y)
HadamardProduct(m, n) == Both(m, n, LAMBDA x, y : x * y)
Floored(x, y) == IF y > 0 THEN x \div y ELSE (-x) \div (-y)
FloorDivide(m, n) == Both(m, n, Floored)
Mod(m, n) == Both(m, n, LAMBDA x, y : x - y * Floored(x, y))
Divmod(m, n) == <<FloorDivide(m, n), Mod(m, n)>>
Fmod(m, n) ==
  Both(m, n, LAMBDA x, y :
    LET whole == Abs1(x) \div Abs1(y) IN IF (x < 0) = (y < 0) THEN x - y * whole ELSE x + y * whole)
Greater(m, n) == Both(m, n, LAMBDA x, y : Flag(x > y))
GreaterEqual(m, n) == Both(m, n, LAMBDA x, y : Flag(x >= y))
Less(m, n) == Both(m, n, LAMBDA x, y : Flag(x < y))
LessEqual(m, n) == Both(m, n, LAMBDA x, y : Flag(x <= y))
NotEqual(m, n) == Both(m, n, LAMBDA x, y : Flag(x # y))
EqualElementwise(m, n) == Both(m, n, LAMBDA x, y : Flag(x = y))
LogicalAnd(m, n) == Both(m, n, LAMBDA x, y : Flag(x # 0 /\ y # 0))
LogicalOr(m, n) == Both(m, n, LAMBDA x, y : Flag(x # 0 \/ y # 0))
LogicalXor(m, n) == Both(m, n, LAMBDA x, y : Flag((x # 0) # (y # 0)))
Maximum(m, n) == Both(m, n, LAMBDA x, y : IF x > y THEN x ELSE y)
Minimum(m, n) == Both(m, n, LAMBDA x, y : IF x < y THEN x ELSE y)
Where(c, a, b) ==
  IF SameShape(c, a) /\ SameShape(a, b)
  THEN Filled(c.rows, c.cols, LAMBDA i, j : IF At(c, i, j) # 0 THEN At(a, i, j) ELSE At(b, i, j))
  ELSE NULL

ScalarMultiply(m, s) == Each(m, LAMBDA x : x * s)
ScalarAdd(m, s) == Each(m, LAMBDA x : x + s)
Abs(m) == Each(m, Abs1)
Heaviside(m, n) == Both(m, n, LAMBDA x, y : IF x = 0 THEN y ELSE Flag(x > 0))
Negate(m) == Each(m, LAMBDA x : -x)
Square(m) == Each(m, LAMBDA x : x * x)
Sign(m) == Each(m, LAMBDA x : Flag(x > 0) - Flag(x < 0))
LogicalNot(m) == Each(m, LAMBDA x : Flag(x = 0))
Clip(m, min, max) == Each(m, LAMBDA x : Smaller(max, Larger(x, min)))

\* Greatest common divisors by Euclid's steps, least common multiples from them
RECURSIVE GcdLl(_, _)
GcdLl(a, b) == IF b = 0 THEN a ELSE GcdLl(b, a % b)

Gcd(m, n) == Both(m, n, LAMBDA x, y : GcdLl(Abs1(x), Abs1(y)))
Lcm(m, n) ==
  Both(m, n, LAMBDA x, y :
    IF x = 0 \/ y = 0 THEN 0 ELSE (Abs1(x) \div GcdLl(Abs1(x), Abs1(y))) * Abs1(y))

-----------------------------------------------------------------------------
(* Rearranging                                                             *)

Transpose(m) == Filled(m.cols, m.rows, LAMBDA i, j : At(m, j, i))
Reshape(m, rows, cols) == IF rows * cols = Size(m) /\ rows > 0 THEN FromArray(m.data, rows, cols) ELSE NULL
Ravel(m) == Reshape(m, 1, Size(m))
Flipud(m) == Filled(m.rows, m.cols, LAMBDA i, j : At(m, m.rows - 1 - i, j))
Fliplr(m) == Filled(m.rows, m.cols, LAMBDA i, j : At(m, i, m.cols - 1 - j))

\* Mutant: a quarter turn clockwise is taken for one the other way.
Rot90Mirrored(m, k) ==
  CASE k % 4 = 0 -> Copy(m)
    [] k % 4 = 1 -> Filled(m.cols, m.rows, LAMBDA i, j : At(m, j, i))
    [] k % 4 = 2 -> Filled(m.rows, m.cols, LAMBDA i, j : At(m, m.rows - 1 - i, m.cols - 1 - j))
    [] OTHER -> Filled(m.cols, m.rows, LAMBDA i, j : At(m, m.rows - 1 - j, i))

Rot90(m, k) ==
  CASE k % 4 = 0 -> Copy(m)
    [] k % 4 = 1 -> Filled(m.cols, m.rows, LAMBDA i, j : At(m, j, m.cols - 1 - i))
    [] k % 4 = 2 -> Filled(m.rows, m.cols, LAMBDA i, j : At(m, m.rows - 1 - i, m.cols - 1 - j))
    [] OTHER -> Filled(m.cols, m.rows, LAMBDA i, j : At(m, m.rows - 1 - j, i))

Roll(m, shift) == [m EXCEPT !.data = [n \in DOMAIN @ |-> @[((n - 1 - shift) % Size(m)) + 1]]]
RollAxis(m, shift, axis) ==
  Filled(m.rows, m.cols, LAMBDA i, j :
    IF axis = 0 THEN At(m, (i - shift) % m.rows, j) ELSE At(m, i, (j - shift) % m.cols))

Shift(m, periods, axis, value) ==
  Filled(m.rows, m.cols, LAMBDA i, j :
    LET from == IF axis = 0 THEN <<i - periods, j>> ELSE <<i, j - periods>>
    IN  IF from[1] \in Rows(m) /\ from[2] \in Cols(m) THEN At(m, from[1], from[2]) ELSE value)

Flip(m, axis) == IF axis = 0 THEN Flipud(m) ELSE Fliplr(m)
Resize(m, rows, cols) == Filled(rows, cols, LAMBDA i, j : m.data[((i * cols + j) % Size(m)) + 1])
Atleast2d(m) == IF m.rows > 1 /\ m.cols > 1 THEN m ELSE Ravel(m)

Tril(m, k) == Filled(m.rows, m.cols, LAMBDA i, j : IF j <= i + k THEN At(m, i, j) ELSE 0)
Triu(m, k) == Filled(m.rows, m.cols, LAMBDA i, j : IF j >= i + k THEN At(m, i, j) ELSE 0)

Hstack(m, n) ==
  IF m.rows # n.rows THEN NULL
  ELSE Filled(m.rows, m.cols + n.cols, LAMBDA i, j : IF j < m.cols THEN At(m, i, j) ELSE At(n, i, j - m.cols))

Vstack(m, n) ==
  IF m.cols # n.cols THEN NULL
  ELSE [rows |-> m.rows + n.rows, cols |-> m.cols, data |-> m.data \o n.data]

AppendTo(m, n, axis) == IF axis = 0 THEN Vstack(m, n) ELSE Hstack(m, n)
ColumnStack(m, n) ==
  IF Size(m) # Size(n) THEN NULL
  ELSE Filled(Size(m), 2, LAMBDA i, j : IF j = 0 THEN m.data[i + 1] ELSE n.data[i + 1])
Meshgrid(x, y) ==
  <<Filled(Size(y), Size(x), LAMBDA i, j : x.data[j + 1]), Filled(Size(y), Size(x), LAMBDA i, j : y.data[i + 1])>>

\* One row or column left out, or one more put in before the given place
Delete(m, index, axis) ==
  LET from(k) == IF k < index THEN k ELSE k + 1
      along == IF axis = 0 THEN m.rows ELSE m.cols
  IN  IF index >= along \/ along = 1 THEN NULL
      ELSE IF axis = 0 THEN Filled(m.rows - 1, m.cols, LAMBDA i, j : At(m, from(i), j))
      ELSE Filled(m.rows, m.cols - 1, LAMBDA i, j : At(m, i, from(j)))

Insert(m, index, values, axis) ==
  LET from(k) == IF k < index THEN k ELSE k - 1
  IN  IF axis = 0
      THEN IF index > m.rows \/ Size(values) # m.cols THEN NULL
           ELSE Filled(m.rows + 1, m.cols, LAMBDA i, j : IF i = index THEN values.data[j + 1] ELSE At(m, from(i), j))
      ELSE IF index > m.cols \/ Size(values) # m.rows THEN NULL
           ELSE Filled(m.rows, m.cols + 1, LAMBDA i, j : IF j = index THEN values.data[i + 1] ELSE At(m, i, from(j)))

\* matrix_block_diag of two matrices
BlockDiag(m, n) ==
  Filled(m.rows + n.rows, m.cols + n.cols, LAMBDA i, j :
    IF i < m.rows THEN Get(m, i, j) ELSE Get(n, i - m.rows, j - m.cols))

Tile(m, down, across) ==
  Filled(m.rows * down, m.cols * across, LAMBDA i, j : At(m, i % m.rows, j % m.cols))
Repeat(m, times) == Filled(1, Size(m) * times, LAMBDA i, j : m.data[(j \div times) + 1])
RepeatAxis(m, times, axis) ==
  IF axis = 0 THEN Filled(m.rows * times, m.cols, LAMBDA i, j : At(m, i \div times, j))
  ELSE Filled(m.rows, m.cols * times, LAMBDA i, j : At(m, i, j \div times))

Pad(m, pad, value) ==
  Filled(m.rows + 2 * pad, m.cols + 2 * pad, LAMBDA i, j :
    IF i - pad \in Rows(m) /\ j - pad \in Cols(m) THEN At(m, i - pad, j - pad) ELSE value)

\* The parts of matrix_split, or none where these are not of one size
Split(m, sections, axis) ==
  LET along == IF axis = 0 THEN m.rows ELSE m.cols
      block == along \div sections
  IN  IF along % sections # 0 THEN <<>>
      ELSE [s \in 1..sections |->
             IF axis = 0 THEN Filled(block, m.cols, LAMBDA i, j : At(m, (s - 1) * block + i, j))
             ELSE Filled(m.rows, block, LAMBDA i, j : At(m, i, (s - 1) * block + j))]

GetRow(m, row) == IF row \in Rows(m) THEN Filled(1, m.cols, LAMBDA i, j : At(m, row, j)) ELSE NULL
GetCol(m, col) == IF col \in Cols(m) THEN Filled(m.rows, 1, LAMBDA i, j : At(m, i, col)) ELSE NULL

CreateSubmatrix(m, row, col) ==
  Filled(m.rows - 1, m.cols - 1, LAMBDA i, j :
    At(m, IF i < row THEN i ELSE i + 1, IF j < col THEN j ELSE j + 1))

\* Swapped, divided and added rows and columns
SwapRows(m, r, s) ==
  Filled(m.rows, m.cols, LAMBDA i, j : At(m, IF i = r THEN s ELSE IF i = s THEN r ELSE i, j))
SwapCols(m, c, d) ==
  Filled(m.rows, m.cols, LAMBDA i, j : At(m, i, IF j = c THEN d ELSE IF j = d THEN c ELSE j))
RowAddition(m, to, from, scale) ==
  Filled(m.rows, m.cols, LAMBDA i, j : At(m, i, j) + (IF i = to THEN scale * At(m, from, j) ELSE 0))
ColAddition(m, to, from, scale) ==
  Filled(m.rows, m.cols, LAMBDA i, j : At(m, i, j) + (IF j = to THEN scale * At(m, i, from) ELSE 0))

\* The k-th diagonal, its length counted down from the first row that it has
Diagonal(m, k) ==
  LET first == IF k < 0 THEN -k ELSE 0
      on == {r \in Rows(m) : r >= first /\ r + k \in Cols(m)}
  IN  Filled(1, Cardinality(on), LAMBDA i, j : At(m, first + j, first + j + k))

Diag(v) == IF v.rows # 1 /\ v.cols # 1 THEN NULL
           ELSE Filled(Size(v), Size(v), LAMBDA i, j : IF i = j THEN v.data[i + 1] ELSE 0)
FillDiagonal(m, value) == Filled(m.rows, m.cols, LAMBDA i, j : IF i = j THEN value ELSE At(m, i, j))
IsSquare(m) == m.rows = m.cols
GetMainDiagonalAsRow(m) == IF IsSquare(m) THEN Filled(1, m.cols, LAMBDA i, j : At(m, j, j)) ELSE NULL
GetMainDiagonalAsColumn(m) == IF IsSquare(m) THEN Filled(m.rows, 1, LAMBDA i, j : At(m, i, i)) ELSE NULL
GetMinorDiagonalAsRow(m) ==
  IF IsSquare(m) THEN Filled(1, m.cols, LAMBDA i, j : At(m, j, m.cols - 1 - j)) ELSE NULL
GetMinorDiagonalAsColumn(m) ==
  IF IsSquare(m) THEN Filled(m.rows, 1, LAMBDA i, j : At(m, i, m.cols - 1 - i)) ELSE NULL

------------------------------------------------------------------------------
(***************************************************************************)
(* matrix/matrix.c: products, determinants, inverses, elimination, the     *)
(* special matrices and the tests for them.  What divides is computed with *)
(* exact fractions <<numerator, denominator>> in place of the doubles, so  *)
(* is_effectively_zero is zero.                                            *)
(***************************************************************************)

SumOver(from, to, value(_)) ==
  LET sum[k \in from - 1..to] == IF k < from THEN 0 ELSE sum[k - 1] + value(k) IN sum[IF to < from THEN from - 1 ELSE to]
ProductOver(from, to, value(_)) ==
  LET prod[k \in from - 1..to] == IF k < from THEN 1 ELSE prod[k - 1] * value(k) IN prod[IF to < from THEN from - 1 ELSE to]

Multiply(m, n) ==
  IF m.cols # n.rows THEN NULL
  ELSE Filled(m.rows, n.cols, LAMBDA i, j : SumOver(0, m.cols - 1, LAMBDA k : At(m, i, k) * At(n, k, j)))

\* Laplace's expansion along the first row
RECURSIVE Determinant(_)
Determinant(m) ==
  CASE ~IsSquare(m) \/ m.rows = 0 -> 0
    [] m.rows = 1 -> m.data[1]
    [] m.rows = 2 -> m.data[1] * m.data[4] - m.data[2] * m.data[3]
    [] OTHER -> SumOver(0, m.cols - 1, LAMBDA j :
                  (IF j % 2 = 0 THEN 1 ELSE -1) * m.data[j + 1] * Determinant(CreateSubmatrix(m, 0, j)))

Trace(m) == IF IsSquare(m) THEN SumOver(0, m.rows - 1, LAMBDA i : At(m, i, i)) ELSE 0
TraceOffset(m, k) == SumOver(0, m.rows - 1, LAMBDA i : IF i + k \in Cols(m) THEN At(m, i, i + k) ELSE 0)

\* A cofactor's sign.  matrix_cofactor refuses a 1 x 1 matrix, whose submatrix
\* cannot be made; matrix_adjugate takes that submatrix's determinant, 0.
SignedMinor(m, i, j) == (IF (i + j) % 2 = 0 THEN 1 ELSE -1) * Determinant(CreateSubmatrix(m, i, j))
Cofactor(m) == IF ~IsSquare(m) \/ m.rows = 1 THEN NULL ELSE Filled(m.rows, m.cols, LAMBDA i, j : SignedMinor(m, i, j))
Adjugate(m) == IF IsSquare(m) THEN Filled(m.rows, m.cols, LAMBDA i, j : SignedMinor(m, j, i)) ELSE NULL

\* matrix_power: by squaring, bit after bit of the exponent
RECURSIVE Squaring(_, _, _)
Squaring(acc, base, p) ==
  IF p = 0 THEN acc
  ELSE Squaring(IF p % 2 = 1 THEN Multiply(acc, base) ELSE acc, Multiply(base, base), p \div 2)
Power(m, power) == IF ~IsSquare(m) \/ power < 0 THEN NULL ELSE Squaring(CreateIdentity(m.rows), m, power)

KroneckerProduct(m, n) ==
  Filled(m.rows * n.rows, m.cols * n.cols, LAMBDA i, j :
    At(m, i \div n.rows, j \div n.cols) * At(n, i % n.rows, j % n.cols))
Outer(a, b) == Filled(Size(a), Size(b), LAMBDA i, j : a.data[i + 1] * b.data[j + 1])
Dot(a, b) ==
  IF Size(a) # Size(b) THEN NULL
  ELSE Filled(1, 1, LAMBDA i, j : SumOver(1, Size(a), LAMBDA k : a.data[k] * b.data[k]))
Vdot(a, b) == Dot(a, b)
Cross(a, b) ==
  IF Size(a) # 3 \/ Size(b) # 3 THEN NULL
  ELSE Filled(1, 3, LAMBDA i, j : a.data[((j + 1) % 3) + 1] * b.data[((j + 2) % 3) + 1]
                                  - a.data[((j + 2) % 3) + 1] * b.data[((j + 1) % 3) + 1])

\* Each output of the convolution sums over where both signals have a value.
Convolve(a, v) ==
  Filled(1, Size(a) + Size(v) - 1, LAMBDA i, n :
    SumOver(Larger(0, n - (Size(v) - 1)), Smaller(n, Size(a) - 1),
            LAMBDA k : a.data[k + 1] * v.data[n - k + 1]))

L1Norm(m) ==
  LET sums == {SumOver(0, m.rows - 1, LAMBDA i : Abs1(At(m, i, j))) : j \in Cols(m)} IN CHOOSE x \in sums : \A y \in sums : x >= y
InfinityNorm(m) ==
  LET sums == {SumOver(0, m.cols - 1, LAMBDA j : Abs1(At(m, i, j))) : i \in Rows(m)} IN CHOOSE x \in sums : \A y \in sums : x >= y

-----------------------------------------------------------------------------
(* Elimination, with fractions                                             *)

Fractions(m) == Each(m, LAMBDA x : <<x, 1>>)
Inverse(m) ==
  LET det == Determinant(m)
  IN  IF ~IsSquare(m) \/ det = 0 THEN NULL ELSE Each(Adjugate(m), LAMBDA x : Q(x, det))

RowDivide(m, row, scalar) ==
  IF row \notin Rows(m) \/ scalar = Q0 THEN m
  ELSE Filled(m.rows, m.cols, LAMBDA i, j : IF i = row THEN Quot(At(m, i, j), scalar) ELSE At(m, i, j))
RowSubtract(m, target, row, scalar) ==
  Filled(m.rows, m.cols, LAMBDA i, j :
    IF i = target THEN MinusTimes(At(m, i, j), scalar, At(m, row, j)) ELSE At(m, i, j))

\* matrix_inverse_gauss_jordan: one column of the augmented matrix cleared,
\* after the first row that can clear it is swapped in
ClearColumn(aug, col) ==
  LET able == {r \in Rows(aug) : r >= col /\ At(aug, r, col) # Q0}
  IN  IF aug = NULL \/ able = {} THEN NULL
      ELSE LET row == CHOOSE r \in able : \A s \in able : r <= s
               swapped == SwapRows(aug, col, row)
               divided == RowDivide(swapped, col, At(swapped, col, col))
           IN  Filled(aug.rows, aug.cols, LAMBDA i, j :
                 IF i = col THEN At(divided, i, j)
                 ELSE MinusTimes(At(divided, i, j), At(divided, i, col), At(divided, col, j)))

InverseGaussJordan(m) ==
  LET augmented == Hstack(Fractions(m), Fractions(CreateIdentity(m.rows)))
      cleared == Ext!FoldLeft(ClearColumn, augmented, [c \in 1..m.rows |-> c - 1])
  IN  IF ~IsSquare(m) \/ cleared = NULL THEN NULL
      ELSE Filled(m.rows, m.rows, LAMBDA i, j : At(cleared, i, j + m.rows))

\* matrix_solve: the largest entry of the column is the pivot, the rows below
\* are cleared, then the unknowns are taken from the last up
Bigger(a, b) == Abs1(a[1]) * b[2] > Abs1(b[1]) * a[2]
ClearBelow(aug, col) ==
  LET able == {r \in Rows(aug) : r >= col}
      pivot == CHOOSE r \in able : \A s \in able : IF s < r THEN Bigger(At(aug, r, col), At(aug, s, col))
                                                   ELSE ~Bigger(At(aug, s, col), At(aug, r, col))
      swapped == SwapRows(aug, col, pivot)
      factor(i) == Quot(At(swapped, i, col), At(swapped, col, col))
  IN  IF aug = NULL \/ At(aug, pivot, col) = Q0 THEN NULL
      ELSE Filled(aug.rows, aug.cols, LAMBDA i, j :
             IF i <= col THEN At(swapped, i, j) ELSE MinusTimes(At(swapped, i, j), factor(i), At(swapped, col, j)))

Solve(m, b) ==
  LET n == m.rows
      cleared == Ext!FoldLeft(LAMBDA a, c : IF a = NULL THEN NULL ELSE ClearBelow(a, c),
                            Hstack(Fractions(m), Fractions(b)), [c \in 1..n |-> c - 1])
      unknown[i \in 0..n - 1] ==
        [rhs \in 0..b.cols - 1 |->
           LET sum[c \in i..n - 1] == IF c = i THEN At(cleared, i, n + rhs)
                                      ELSE MinusTimes(sum[c - 1], At(cleared, i, c), unknown[c][rhs])
           IN  Quot(sum[n - 1], At(cleared, i, i))]
  IN  IF ~IsSquare(m) \/ b.rows # n \/ cleared = NULL THEN NULL
      ELSE Filled(n, b.cols, LAMBDA i, j : unknown[i][j])

\* matrix_lu_decomposition, without pivots: NULL stands for the infinities and
\* NaNs it fills in when one is zero.
LuDecomposition(m) ==
  LET n == m.rows
      Step(a, col) ==
        IF a = NULL THEN NULL
        ELSE IF At(a, col, col) = Q0 /\ col < n - 1 THEN NULL
        ELSE Filled(n, n, LAMBDA i, j :
               LET factor == Quot(At(a, i, col), At(a, col, col))
               IN  IF i <= col \/ j < col THEN At(a, i, j)
                   ELSE IF j = col THEN factor ELSE MinusTimes(At(a, i, j), factor, At(a, col, j)))
      both == Ext!FoldLeft(Step, Fractions(m), [c \in 1..n |-> c - 1])
  IN  IF ~IsSquare(m) \/ both = NULL THEN <<NULL, NULL>>
      ELSE <<Filled(n, n, LAMBDA i, j : IF i = j THEN <<1, 1>> ELSE IF j < i THEN At(both, i, j) ELSE Q0),
             Filled(n, n, LAMBDA i, j : IF j >= i THEN At(both, i, j) ELSE Q0)>>

\* matrix_rank: a column with no entry to clear with is overwritten by the last
\* one that counts.  Only for matrices at least as high as wide: the others are
\* read past their last row.
RECURSIVE RankFrom(_, _, _)
RankFrom(m, row, rank) ==
  LET able == {r \in Rows(m) : r > row /\ At(m, r, row) # Q0}
      swapped == SwapRows(m, row, CHOOSE r \in able : \A s \in able : r <= s)
      factor(i) == Quot(At(m, i, row), At(m, row, row))
  IN  CASE row >= rank -> rank
        [] row < rank /\ At(m, row, row) # Q0 ->
             RankFrom(Filled(m.rows, m.cols, LAMBDA i, j :
                        IF i <= row \/ j < row THEN At(m, i, j)
                        ELSE MinusTimes(At(m, i, j), factor(i), At(m, row, j))), row + 1, rank)
        \* the swapped rows are left as they are: the next row is taken
        [] row < rank /\ At(m, row, row) = Q0 /\ able # {} -> RankFrom(swapped, row + 1, rank)
        [] OTHER -> RankFrom(Filled(m.rows, m.cols, LAMBDA i, j :
                               IF j = row THEN At(m, i, rank - 1) ELSE At(m, i, j)), row, rank - 1)
Rank(m) == RankFrom(Fractions(m), 0, m.cols)

------------------------------------------------------------------------------
(***************************************************************************)
(* matrix/matrix.c: the matrices with names, made from a row, a column or  *)
(* a size, and the tests that recognise a kind of matrix.                  *)
(***************************************************************************)

Hankel(row, col) ==
  IF row.rows # 1 \/ col.cols # 1 \/ col.rows # row.cols THEN NULL
  ELSE Filled(row.cols, row.cols, LAMBDA i, j :
         IF i + j < row.cols THEN Get(row, 0, i + j) ELSE Get(col, i + j - row.cols + 1, 0))

Toeplitz(row, col) ==
  IF row.rows # 1 \/ col.cols # 1 THEN NULL
  ELSE Filled(col.rows, row.cols, LAMBDA i, j : IF j >= i THEN Get(row, 0, j - i) ELSE Get(col, i - j, 0))

\* Each row is the one before, turned by one place to the left.
Circulant(row) ==
  IF row.rows # 1 THEN NULL ELSE Filled(row.cols, row.cols, LAMBDA i, j : Get(row, 0, (j + i) % row.cols))

RECURSIVE PowerOf(_, _)
PowerOf(x, n) == IF n = 0 THEN 1 ELSE x * PowerOf(x, n - 1)

Vandermonde(m, n) == Filled(n, n, LAMBDA i, j : PowerOf(m.data[i + 1], j))

\* Of the polynomial with these coefficients, the last of which is 1 or -1 here
Companion(c, degree) ==
  LET n == degree - 1
  IN  Filled(n, n, LAMBDA i, j :
        IF j = n - 1 THEN -(c.data[n - i] * c.data[degree]) ELSE Flag(i = j + 1))

\* binomial_coefficient: Pascal's triangle in one row, the last place first
BinomialCoefficient(n, k) ==
  LET row[i \in 0..n] ==
        IF i = 0 THEN [j \in 0..k |-> Flag(j = 0)]
        ELSE [j \in 0..k |-> IF j \in 1..Smaller(i, k) THEN row[i - 1][j] + row[i - 1][j - 1] ELSE row[i - 1][j]]
  IN  row[n][k]
Pascal(n) == Filled(n, n, LAMBDA i, j : BinomialCoefficient(i + j, Larger(i, j)))

Factorial(n) == ProductOver(2, n, LAMBDA i : i)
BinomialFactorial(n, k) ==
  CASE k > n -> 0
    [] k = 0 \/ k = n -> 1
    [] OTHER -> Factorial(n) \div (Factorial(k) * Factorial(n - k))

Hilbert(n) == Filled(n, n, LAMBDA i, j : <<1, i + j + 1>>)
InverseHilbert(n) ==
  Filled(n, n, LAMBDA i, j :
    (IF (i + j) % 2 = 0 THEN 1 ELSE -1) * (i + j + 1) * BinomialFactorial(n + i, n - j - 1)
    * BinomialFactorial(n + j, n - i - 1) * BinomialFactorial(i + j, i) * BinomialFactorial(i + j, j))

\* Four quarters of half the order, the last of them negated; refused unless
\* the order is a power of two
RECURSIVE WalshFrom(_, _)
WalshFrom(order, val) ==
  IF order = 1 THEN Filled(1, 1, LAMBDA i, j : val)
  ELSE LET q == WalshFrom(order \div 2, val) IN Vstack(Hstack(q, q), Hstack(q, WalshFrom(order \div 2, -val)))
Walsh(n) == IF \E k \in 0..4 : n = 2 ^ k THEN WalshFrom(n, 1) ELSE NULL

Leslie(f, s) ==
  IF Size(f) # Size(s) + 1 THEN NULL
  ELSE Filled(Size(f), Size(f), LAMBDA i, j :
         IF i = 0 THEN f.data[j + 1] ELSE IF j = i - 1 THEN s.data[i] ELSE 0)

Fiedler(m) ==
  LET n == Larger(m.rows, m.cols) IN Filled(n, n, LAMBDA i, j : Abs1(m.data[i + 1] - m.data[j + 1]))

\* matrix_projection onto the columns of a matrix, where they are independent
Projection(m) ==
  LET t == Transpose(m)
      gram == Multiply(t, m)
      det == Determinant(gram)
  IN  IF det = 0 THEN NULL
      ELSE Each(Multiply(Multiply(m, Adjugate(gram)), t), LAMBDA x : Q(x, det))

-----------------------------------------------------------------------------
(* Kinds of matrices                                                       *)

IsEqual(m, n) == SameShape(m, n) /\ \A i \in DOMAIN m.data : m.data[i] = n.data[i]
ArrayEqual(m, n) == IsEqual(m, n)
IsIdentity(m) == IsSquare(m) /\ \A i \in Rows(m), j \in Cols(m) : At(m, i, j) = Flag(i = j)
IsIdempotent(m) == IsSquare(m) /\ IsEqual(Multiply(m, m), m)
IsRow(m) == m.rows = 1
IsColumnar(m) == m.cols = 1
IsDiagonal(m) == IsSquare(m) /\ \A i \in Rows(m), j \in Cols(m) : i # j => At(m, i, j) = 0
IsSymmetric(m) == IsSquare(m) /\ \A i \in Rows(m) : \A j \in i + 1..m.cols - 1 : At(m, i, j) = At(m, j, i)
IsUpperTriangular(m) == IsSquare(m) /\ \A i \in Rows(m) : \A j \in 0..i - 1 : At(m, i, j) = 0
IsLowerTriangular(m) == IsSquare(m) /\ \A i \in Rows(m) : \A j \in i + 1..m.cols - 1 : At(m, i, j) = 0
IsSkewSymmetric(m) ==
  /\ IsSquare(m)
  /\ \A i \in Rows(m) : At(m, i, i) = 0 /\ \A j \in i + 1..m.cols - 1 : At(m, i, j) = -At(m, j, i)
IsOrthogonal(m) == IsSquare(m) /\ IsIdentity(Multiply(m, Transpose(m)))
IsSparse(m) == 10 * Cardinality({i \in DOMAIN m.data : m.data[i] # 0}) < 3 * Size(m)

\* mat_check_diagonal: down from a place of the first row or column
CheckDiagonal(m, i, j) ==
  \A k \in 1..Smaller(m.rows - i, m.cols - j) - 1 : At(m, i + k, j + k) = At(m, i, j)
IsToeplitz(m) ==
  /\ \A j \in Cols(m) : CheckDiagonal(m, 0, j)
  /\ \A i \in 1..m.rows - 1 : CheckDiagonal(m, i, 0)

\* Only the neighbours above the main ascending diagonal are compared, and the
\* last column with none.
IsHankel(m) ==
  \A i \in 0..m.rows - 2, j \in 1..m.cols - 2 :
    i + j < m.rows - 1 => At(m, i, j) = At(m, i + 1, j - 1)

------------------------------------------------------------------------------
(***************************************************************************)
(* matrix/matrix.c: what NumPy and Pandas do with the entries of a matrix: *)
(* sums, extremes, running results, sorting, searching, counting and       *)
(* selecting, of the whole matrix or along an axis.  A mean or a variance  *)
(* is the fraction <<numerator, denominator>>.                             *)
(***************************************************************************)

RowOf(data) == [rows |-> 1, cols |-> Len(data), data |-> data]
SumSeq(s) == SumOver(1, Len(s), LAMBDA i : s[i])
ProdSeq(s) == ProductOver(1, Len(s), LAMBDA i : s[i])

\* The lines an axis runs along: columns for 0, rows for 1; what a function of
\* each line gives is a row of results for 0 and a column for 1.
Line(m, axis, k) ==
  IF axis = 0 THEN [i \in 1..m.rows |-> At(m, i - 1, k)] ELSE [j \in 1..m.cols |-> At(m, k, j - 1)]
PerLine(m, axis, f(_)) ==
  IF axis = 0 THEN Filled(1, m.cols, LAMBDA i, j : f(Line(m, 0, j)))
  ELSE Filled(m.rows, 1, LAMBDA i, j : f(Line(m, 1, i)))
AlongLines(m, axis, f(_)) ==
  LET lines == [k \in 0..(IF axis = 0 THEN m.cols ELSE m.rows) - 1 |-> f(Line(m, axis, k))]
  IN  Filled(m.rows, m.cols, LAMBDA i, j : IF axis = 0 THEN lines[j][i + 1] ELSE lines[i][j + 1])

Sum(m) == SumSeq(m.data)
Prod(m) == ProdSeq(m.data)
Mean(m) == Q(Sum(m), Size(m))
SumAxis(m, axis) == PerLine(m, axis, SumSeq)
ProdAxis(m, axis) == PerLine(m, axis, ProdSeq)
MeanAxis(m, axis) == PerLine(m, axis, LAMBDA s : Q(SumSeq(s), Len(s)))

\* The first place with the least or the greatest value
FirstBest(s, better(_, _)) ==
  LET best[i \in 1..Len(s)] == IF i = 1 THEN 1 ELSE IF better(s[i], s[best[i - 1]]) THEN i ELSE best[i - 1]
  IN  best[Len(s)]
FirstLeast(s) == FirstBest(s, LAMBDA x, y : x < y)
FirstGreatest(s) == FirstBest(s, LAMBDA x, y : x > y)

MinElement(m) == m.data[FirstLeast(m.data)]
MaxElement(m) == m.data[FirstGreatest(m.data)]
Ptp(m) == MaxElement(m) - MinElement(m)
Argmin(m) == FirstLeast(m.data) - 1
Argmax(m) == FirstGreatest(m.data) - 1
MinAxis(m, axis) == PerLine(m, axis, LAMBDA s : s[FirstLeast(s)])
MaxAxis(m, axis) == PerLine(m, axis, LAMBDA s : s[FirstGreatest(s)])
PtpAxis(m, axis) == PerLine(m, axis, LAMBDA s : s[FirstGreatest(s)] - s[FirstLeast(s)])
ArgminAxis(m, axis) == PerLine(m, axis, LAMBDA s : FirstLeast(s) - 1)
ArgmaxAxis(m, axis) == PerLine(m, axis, LAMBDA s : FirstGreatest(s) - 1)

\* The squared differences from the mean, over the count
VarSeq(s) ==
  Q(SumOver(1, Len(s), LAMBDA i : (Len(s) * s[i] - SumSeq(s)) * (Len(s) * s[i] - SumSeq(s))), Len(s) * Len(s) * Len(s))
Var(m) == VarSeq(m.data)
VarAxis(m, axis) == PerLine(m, axis, VarSeq)
Average(m, weights) == Q(SumOver(1, Size(m), LAMBDA i : m.data[i] * weights.data[i]), Sum(weights))

AnyTrue(m) == \E i \in DOMAIN m.data : m.data[i] # 0
AllTrue(m) == \A i \in DOMAIN m.data : m.data[i] # 0
NonzerosOf(s) == Cardinality({i \in DOMAIN s : s[i] # 0})
CountNonzero(m) == NonzerosOf(m.data)
CountNonzeroAxis(m, axis) == PerLine(m, axis, NonzerosOf)

-----------------------------------------------------------------------------
(* Running results                                                         *)

Running(s, op(_, _)) ==
  LET run[i \in 1..Len(s)] == IF i = 1 THEN s[1] ELSE op(run[i - 1], s[i]) IN [i \in 1..Len(s) |-> run[i]]
RunningSum(s) == Running(s, LAMBDA x, y : x + y)
RunningProduct(s) == Running(s, LAMBDA x, y : x * y)
RunningMax(s) == Running(s, Larger)
RunningMin(s) == Running(s, Smaller)

Cumsum(m) == RowOf(RunningSum(m.data))
Cumprod(m) == RowOf(RunningProduct(m.data))
Cummax(m) == RowOf(RunningMax(m.data))
Cummin(m) == RowOf(RunningMin(m.data))
CumsumAxis(m, axis) == AlongLines(m, axis, RunningSum)
CumprodAxis(m, axis) == AlongLines(m, axis, RunningProduct)
CummaxAxis(m, axis) == AlongLines(m, axis, RunningMax)
CumminAxis(m, axis) == AlongLines(m, axis, RunningMin)

Diff(m, axis) ==
  IF axis = 1 THEN Filled(m.rows, m.cols - 1, LAMBDA i, j : At(m, i, j + 1) - At(m, i, j))
  ELSE Filled(m.rows - 1, m.cols, LAMBDA i, j : At(m, i + 1, j) - At(m, i, j))
Ediff1d(m) == Diff(Ravel(m), 1)

\* NaN, a change from nothing or of 0 by 0
NaN == <<0, 0>>
PctChange(m, axis) ==
  AlongLines(m, axis, LAMBDA s : [i \in 1..Len(s) |->
    IF i = 1 THEN NaN ELSE IF s[i - 1] = 0 THEN <<s[i], 0>> ELSE Q(s[i] - s[i - 1], s[i - 1])])
RollingMean(m, window, axis) ==
  IF window > (IF axis = 0 THEN m.rows ELSE m.cols) THEN NULL
  ELSE AlongLines(m, axis, LAMBDA s : [i \in 1..Len(s) |->
         IF i < window THEN NaN ELSE Q(SumOver(0, window - 1, LAMBDA w : s[i - w]), window)])

\* Horner's rule
Polyval(p, x) ==
  Each(x, LAMBDA xi :
    LET acc[k \in 1..Size(p)] == IF k = 1 THEN p.data[1] ELSE acc[k - 1] * xi + p.data[k] IN acc[Size(p)])

-----------------------------------------------------------------------------
(* Sorting and what needs sorted entries                                   *)

SortSeq1(s) == SortSeq(s, LAMBDA x, y : x < y)
Sort(m, axis) == AlongLines(m, axis, SortSeq1)
\* mat_cmp_vi: by value, then by place, which makes qsort stable
ArgsortOf(s) ==
  LET pairs == SortSeq([i \in 1..Len(s) |-> <<s[i], i>>], LAMBDA x, y : x[1] < y[1] \/ (x[1] = y[1] /\ x[2] < y[2]))
  IN  [i \in 1..Len(s) |-> pairs[i][2] - 1]
Argsort(m, axis) == AlongLines(m, axis, ArgsortOf)

\* The p-th percentile of sorted values, between two of them in proportion
PctSorted(s, p) ==
  LET n == Len(s)
      rank == p * (n - 1)
      lo == rank \div 100
  IN  IF n = 1 \/ rank % 100 = 0 THEN Q(s[lo + 1], 1)
      ELSE Q(100 * s[lo + 1] + (rank % 100) * (s[lo + 2] - s[lo + 1]), 100)
MedianSorted(s) ==
  LET n == Len(s) IN IF n % 2 = 1 THEN Q(s[(n \div 2) + 1], 1) ELSE Q(s[n \div 2] + s[(n \div 2) + 1], 2)
Percentile(m, p) == PctSorted(SortSeq1(m.data), p)
Median(m) == MedianSorted(SortSeq1(m.data))
MedianAxis(m, axis) == PerLine(m, axis, LAMBDA s : PctSorted(SortSeq1(s), 50))

\* Equal neighbours of the sorted entries are kept once.
Distinct(s) ==
  Ext!FoldLeft(LAMBDA acc, x : IF acc # <<>> /\ Ext!Last(acc) = x THEN acc ELSE acc \o <<x>>, <<>>, SortSeq1(s))
Unique(m) == RowOf(Distinct(m.data))
Nunique(m) == Len(Distinct(m.data))

\* Binary search in entries s for the first place that is not before the key
RECURSIVE Bisect(_, _, _, _, _)
Bisect(s, lo, hi, key, equalIsBefore) ==
  LET mid == lo + ((hi - lo) \div 2)
      before == s[mid + 1] < key \/ (equalIsBefore /\ s[mid + 1] = key)
  IN  IF lo = hi THEN lo
      ELSE Bisect(s, IF before THEN mid + 1 ELSE lo, IF before THEN hi ELSE mid, key, equalIsBefore)
Searchsorted(a, v) == Each(v, LAMBDA key : Bisect(a.data, 0, Size(a), key, FALSE))
Digitize(x, bins) == Each(x, LAMBDA v : Bisect(bins.data, 0, Size(bins), v, TRUE))

Bincount(x) ==
  IF \E i \in DOMAIN x.data : x.data[i] < 0 THEN NULL
  ELSE Filled(1, MaxElement(x) + 1, LAMBDA i, v : Cardinality({k \in DOMAIN x.data : x.data[k] = v}))

\* The bin of each value; the greatest belongs to the last one, and equal
\* values to one bin around them.
HistogramBin(v, mn, mx, bins) ==
  IF mn = mx THEN bins \div 2 ELSE Smaller(bins - 1, (bins * (v - mn)) \div (mx - mn))
Histogram(x, bins) ==
  Filled(1, bins, LAMBDA i, b :
    Cardinality({k \in DOMAIN x.data : HistogramBin(x.data[k], MinElement(x), MaxElement(x), bins) = b}))

-----------------------------------------------------------------------------
(* Selecting                                                               *)

Kept(s, keep(_)) == SelectSeq(s, keep)
Places(m) == [n \in 1..Size(m) |-> n - 1]
Flatnonzero(m) == RowOf(Kept(Places(m), LAMBDA n : m.data[n + 1] # 0))
Extract(c, m) ==
  LET kept == Kept(Places(m), LAMBDA n : c.data[n + 1] # 0)
  IN  IF ~SameShape(c, m) \/ kept = <<>> THEN NULL ELSE RowOf([i \in DOMAIN kept |-> m.data[kept[i] + 1]])
Nonzero(m) ==
  LET kept == Flatnonzero(m).data
  IN  Filled(Len(kept), 2, LAMBDA i, j : IF j = 0 THEN kept[i + 1] \div m.cols ELSE kept[i + 1] % m.cols)
UnravelIndex(indices, rows, cols) ==
  IF \E i \in DOMAIN indices.data : indices.data[i] \notin 0..rows * cols - 1 THEN NULL
  ELSE Filled(Size(indices), 2, LAMBDA i, j :
         IF j = 0 THEN indices.data[i + 1] \div cols ELSE indices.data[i + 1] % cols)

TrimZeros(m) ==
  LET on == {i \in DOMAIN m.data : m.data[i] # 0}
      lo == CHOOSE i \in on : \A k \in on : i <= k
      hi == CHOOSE i \in on : \A k \in on : k <= i
  IN  IF on = {} THEN NULL ELSE RowOf(SubSeq(m.data, lo, hi))

\* Negative indices count from the end.
Take(m, indices) ==
  IF \E i \in DOMAIN indices.data : indices.data[i] \notin -Size(m)..Size(m) - 1 THEN NULL
  ELSE Each(indices, LAMBDA n : m.data[(IF n < 0 THEN n + Size(m) ELSE n) + 1])

Arange(start, stop, step) ==
  LET n == IF step > 0 THEN (stop - start + step - 1) \div step ELSE (start - stop - step - 1) \div (-step)
  IN  IF n <= 0 THEN NULL ELSE RowOf([i \in 1..n |-> start + (i - 1) * step])

------------------------------------------------------------------------------
(***************************************************************************)
(* What the functions of matrix/matrix.c promise, said without their loops: *)
(* by other definitions, by the laws that tie them to each other.          *)
(***************************************************************************)

Axes == {0, 1}
Places2(m) == Rows(m) \X Cols(m)
Places0(m) == 0..Size(m) - 1
Equal(q, m) == q = Fractions(m)

\* Transposing, turning, flipping, rolling, cutting and joining undo each other.
RearrangingLaws(m) ==
  LET t == Transpose(m) IN
  /\ Transpose(t) = m
  /\ Rot90(m, 1) = Flipud(t) /\ Rot90(m, -1) = Fliplr(t) /\ Rot90(Rot90(m, 3), 5) = m
  /\ Rot90(m, 2) = Flip(Flip(m, 0), 1)
  /\ \A k \in -2..2 :
       /\ Roll(Roll(m, k), -k) = m
       /\ Add(Tril(m, k), Triu(m, k + 1)) = m
       /\ Tril(m, k) = Transpose(Triu(t, -k))
       /\ Diagonal(m, k) = Diagonal(t, -k)
       /\ TraceOffset(m, k) = (IF Diagonal(m, k) = NULL THEN 0 ELSE Sum(Diagonal(m, k)))
       /\ \A axis \in Axes : RollAxis(RollAxis(m, k, axis), -k, axis) = m
       /\ \A axis \in Axes : Shift(m, k, axis, 7) = Transpose(Shift(t, k, 1 - axis, 7))
  /\ Reshape(Ravel(m), m.rows, m.cols) = m /\ FromArray(ToArray(m), m.rows, m.cols) = Copy(m)
  /\ Hstack(m, m) = Transpose(Vstack(t, t)) /\ Tile(m, 1, 2) = Hstack(m, m) /\ Tile(m, 2, 1) = Vstack(m, m)
  /\ \A axis \in Axes, n \in {2, 3} :
       LET parts == Split(m, n, axis)
       IN  parts = <<>> \/ Ext!FoldRight(LAMBDA p, acc : IF acc = NULL THEN p ELSE AppendTo(p, acc, axis), parts, NULL) = m
  /\ \A k \in Rows(m) : Insert(Delete(m, k, 0), k, GetRow(m, k), 0) \in {m, NULL}
  /\ \A k \in Cols(m) : Insert(Delete(m, k, 1), k, GetCol(m, k), 1) \in {m, NULL}
  /\ RepeatAxis(m, 2, 0) = Transpose(RepeatAxis(t, 2, 1))
  /\ Repeat(m, 2) = Ravel(RepeatAxis(Ravel(m), 2, 1)) /\ Resize(m, m.rows, m.cols) = m
  /\ \A p \in Places2(m) : At(Pad(m, 1, 9), p[1] + 1, p[2] + 1) = At(m, p[1], p[2])
  /\ Sum(Pad(m, 1, 1)) = Sum(m) + 2 * (m.rows + m.cols) + 4
  /\ Sum(BlockDiag(m, t)) = 2 * Sum(m)
  /\ IsSquare(m) => /\ GetMainDiagonalAsRow(m) = Diagonal(m, 0)
                    /\ GetMainDiagonalAsColumn(m) = Transpose(Diagonal(m, 0))
                    /\ GetMinorDiagonalAsRow(m) = Diagonal(Fliplr(m), 0)
                    /\ GetMinorDiagonalAsColumn(m) = Transpose(GetMinorDiagonalAsRow(m))
                    /\ Diagonal(Diag(Diagonal(m, 0)), 0) = Diagonal(m, 0)
                    /\ Diagonal(FillDiagonal(m, 5), 0) = Fill(Diagonal(m, 0), 5)

\* What is done entry by entry obeys the laws of numbers and of truth values.
EntryLaws(m) ==
  LET n == Flip(m, 1)
      ones == Ones(m.rows, m.cols)
      not(x) == LogicalNot(x)
  IN
  /\ Add(m, n) = Subtract(m, Negate(n)) /\ Add(m, m) = ScalarMultiply(m, 2)
  /\ Square(m) = HadamardProduct(m, m) /\ HadamardProduct(Sign(m), Abs(m)) = m
  /\ Add(Maximum(m, n), Minimum(m, n)) = Add(m, n)
  /\ Clip(m, -1, 1) = Maximum(Fill(m, -1), Minimum(Fill(m, 1), m))
  /\ Where(Greater(m, n), m, n) = Maximum(m, n)
  /\ Less(m, n) = Greater(n, m) /\ LessEqual(m, n) = not(Greater(m, n)) /\ GreaterEqual(m, n) = not(Less(m, n))
  /\ NotEqual(m, n) = not(EqualElementwise(m, n))
  /\ LogicalOr(m, n) = not(LogicalAnd(not(m), not(n)))
  /\ LogicalXor(m, n) = NotEqual(not(m), not(n))
  /\ Heaviside(m, ones) = GreaterEqual(m, Zeros(m.rows, m.cols))
  /\ \A d \in {-3, 2} :
       LET by == Fill(m, d) IN
       /\ Add(HadamardProduct(FloorDivide(m, by), by), Mod(m, by)) = m
       /\ Divmod(m, by) = <<FloorDivide(m, by), Mod(m, by)>>
       /\ EqualElementwise(Sign(Fmod(m, by)), HadamardProduct(Sign(m), Abs(Sign(Fmod(m, by))))) = ones
       /\ Mod(Fmod(m, by), by) = Mod(m, by)
       /\ HadamardProduct(Gcd(m, by), Lcm(m, by)) = Abs(HadamardProduct(m, by))
  /\ \A i \in DOMAIN m.data : m.data[i] % Larger(1, Gcd(m, n).data[i]) = 0

Orderings(n) == {f \in [1..n -> 1..n] : \A i, j \in 1..n : i # j => f[i] # f[j]}
Parity(f) == Cardinality({p \in (DOMAIN f) \X (DOMAIN f) : p[1] < p[2] /\ f[p[1]] > f[p[2]]}) % 2
RECURSIVE Leibniz(_, _)
Leibniz(m, fs) ==
  IF fs = {} THEN 0
  ELSE LET f == CHOOSE f \in fs : TRUE
       IN  (IF Parity(f) = 0 THEN 1 ELSE -1) * ProductOver(1, m.rows, LAMBDA i : At(m, i - 1, f[i] - 1)) + Leibniz(m, fs \ {f})

\* The size of the largest square part with a determinant
TrueRank(m) ==
  LET minor(is, js) == [rows |-> Len(is), cols |-> Len(js),
        data |-> [n \in 1..Len(is) * Len(js) |-> At(m, is[((n - 1) \div Len(js)) + 1], js[((n - 1) % Len(js)) + 1])]]
      asc(set) == Ext!SetToSortSeq(set, LAMBDA x, y : x < y)
  IN  CHOOSE r \in 0..Smaller(m.rows, m.cols) :
        /\ r = 0 \/ \E is \in SUBSET Rows(m), js \in SUBSET Cols(m) :
             Cardinality(is) = r /\ Cardinality(js) = r /\ Determinant(minor(asc(is), asc(js))) # 0
        /\ ~\E is \in SUBSET Rows(m), js \in SUBSET Cols(m) :
             Cardinality(is) = r + 1 /\ Cardinality(js) = r + 1 /\ Determinant(minor(asc(is), asc(js))) # 0

QMultiply(a, b) ==
  Filled(a.rows, b.cols, LAMBDA i, j :
    LET sum[k \in 0..a.cols] == IF k = 0 THEN Q0 ELSE MinusTimes(sum[k - 1], Quot(At(a, i, k - 1), <<-1, 1>>), At(b, k - 1, j))
    IN  sum[a.cols])

\* Products, determinants, the two inverses, solutions and factors fit together. The
\* inverse of one entry, and the rank where rows are exchanged, are among the Claims of MCLibrary.
AlgebraLaws(m) ==
  LET t == Transpose(m)
      det == Determinant(m)
      n == m.rows
      id == CreateIdentity(n)
  IN
  /\ Multiply(id, m) = m /\ Transpose(Multiply(m, t)) = Multiply(m, t)
  /\ Trace(Multiply(m, t)) = Sum(Square(m)) /\ Dot(m, m) = RowOf(<<Sum(Square(m))>>)
  /\ Sum(Outer(m, t)) = Sum(m) * Sum(m) /\ Sum(KroneckerProduct(m, t)) = Sum(m) * Sum(m)
  /\ L1Norm(m) = InfinityNorm(t)
  /\ IsSquare(m) =>
     /\ det = Leibniz(m, Orderings(n)) /\ Determinant(t) = det
     /\ Power(m, 0) = id /\ Power(m, 3) = Multiply(m, Multiply(m, m)) /\ Power(m, 4) = Multiply(Power(m, 3), m)
     /\ n >= 2 => /\ Multiply(m, Adjugate(m)) = ScalarMultiply(id, det) /\ Transpose(Cofactor(m)) = Adjugate(m)
                  /\ InverseGaussJordan(m) = Inverse(m)
     /\ det # 0 => /\ Equal(QMultiply(Fractions(m), InverseGaussJordan(m)), id)
                   /\ Equal(QMultiply(Fractions(m), Solve(m, m)), m)
     /\ (det = 0) = (Solve(m, id) = NULL)
     /\ LET lu == LuDecomposition(m) IN
        lu[1] # NULL => /\ Equal(QMultiply(lu[1], lu[2]), m)
                        /\ Rank(m) = TrueRank(m)
  /\ Size(m) = 3 => /\ Dot(Cross(m, Flip(m, 1)), m) = Dot(Cross(m, Flip(m, 1)), Flip(m, 1))
                    /\ Sum(Abs(Cross(m, m))) = 0
  /\ \A x \in {-1, 2} :
       LET at == RowOf(<<x>>) IN
       Polyval(Convolve(m, t), at) = HadamardProduct(Polyval(m, at), Polyval(t, at))

\* The matrices with names have the properties they are named for. Circulant rows turn one
\* way or the other; which way, and the companion matrix, are among the Claims of MCLibrary.
SpecialLaws(m) ==
  LET row == Ravel(m) n == Size(m) square == IsSquare(m) col == Transpose(row) IN
  /\ IsToeplitz(Toeplitz(row, col)) /\ GetRow(Toeplitz(row, col), 0) = row
  /\ \E step \in {-1, 1} : \A i \in 1..n - 1 : GetRow(Circulant(row), i) = Roll(GetRow(Circulant(row), i - 1), step)
  /\ \A i, j \in 0..n - 2 : At(Hankel(row, col), i, j + 1) = At(Hankel(row, col), i + 1, j)
  /\ IsHankel(Hankel(row, col))
  /\ IsToeplitz(m) => IsToeplitz(Rot90(m, 2))
  /\ IsSymmetric(Fiedler(row)) /\ Trace(Fiedler(row)) = 0
  /\ Trace(Leslie(row, RowOf(Tail(row.data)))) = row.data[1]
  /\ n <= 4 => Determinant(Vandermonde(row, n)) =
                 ProductOver(1, n, LAMBDA j : ProductOver(1, j - 1, LAMBDA i : row.data[j] - row.data[i]))
  /\ square =>
       /\ IsUpperTriangular(m) = IsLowerTriangular(Transpose(m)) /\ IsUpperTriangular(Triu(m, 0))
       /\ IsDiagonal(m) = (IsUpperTriangular(m) /\ IsLowerTriangular(m))
       /\ IsSymmetric(m) = (m = Transpose(m)) /\ IsSkewSymmetric(m) = (Negate(m) = Transpose(m))
       /\ IsSymmetric(Add(m, Transpose(m))) /\ IsSkewSymmetric(Subtract(m, Transpose(m)))
       /\ IsOrthogonal(m) => Equal(Inverse(m), Transpose(m)) \/ m.rows = 1
       /\ IsIdempotent(m) => Determinant(m) \in {0, 1}
       /\ IsIdentity(m) = IsEqual(m, Eye(m.rows, m.cols, 0))
  /\ LET p == Projection(m) IN p = NULL \/ (QMultiply(p, p) = p /\ Equal(QMultiply(p, Fractions(m)), m))

\* The named matrices that only a size determines
SizeLaws(n) ==
  /\ Equal(QMultiply(Hilbert(n), Fractions(InverseHilbert(n))), CreateIdentity(n))
  /\ Determinant(Pascal(n)) = 1 /\ \A i, j \in 0..n - 1 : At(Pascal(n), i, j) = BinomialFactorial(i + j, i)
  /\ LET w == Walsh(n) IN w = NULL \/ Multiply(w, w) = ScalarMultiply(CreateIdentity(n), n)
  /\ (Walsh(n) = NULL) = (n = 3)

\* What is computed of all entries, of a line or running along a line agrees.
StatisticsLaws(m) ==
  LET row == Ravel(m) n == Size(m) sorted == Sort(row, 1).data IN
  /\ Sum(m) = Sum(SumAxis(m, 0)) /\ Prod(m) = Prod(ProdAxis(m, 1))
  /\ Ext!Last(Cumsum(m).data) = Sum(m) /\ Ext!Last(Cumprod(m).data) = Prod(m)
  /\ Ext!Last(Cummax(m).data) = MaxElement(m) /\ Ext!Last(Cummin(m).data) = MinElement(m)
  /\ Mean(m) = Average(m, Ones(m.rows, m.cols)) /\ Var(m)[1] = 0 <=> MinElement(m) = MaxElement(m)
  /\ m.data[Argmin(m) + 1] = MinElement(m) /\ \A i \in DOMAIN m.data : m.data[i] <= m.data[Argmax(m) + 1]
  /\ Ptp(m) = MaxElement(PtpAxis(row, 1)) /\ AnyTrue(m) = (CountNonzero(m) > 0) /\ AllTrue(m) = ~AnyTrue(LogicalNot(m))
  /\ Sum(CountNonzeroAxis(m, 0)) = CountNonzero(m) /\ Sum(CountNonzeroAxis(m, 1)) = CountNonzero(m)
  /\ \A axis \in Axes :
       /\ SumAxis(m, axis) = Transpose(SumAxis(Transpose(m), 1 - axis))
       /\ Diff(CumsumAxis(m, axis), axis) = Delete(m, 0, axis)
       /\ \A k \in 0..(IF axis = 0 THEN m.cols ELSE m.rows) - 1 :
            /\ Line(m, axis, k)[ArgmaxAxis(m, axis).data[k + 1] + 1] = MaxAxis(m, axis).data[k + 1]
            /\ Line(m, axis, k)[ArgminAxis(m, axis).data[k + 1] + 1] = MinAxis(m, axis).data[k + 1]
       /\ PtpAxis(m, axis) = Subtract(MaxAxis(m, axis), MinAxis(m, axis))
       /\ CumsumAxis(m, axis) = Transpose(CumsumAxis(Transpose(m), 1 - axis))
       /\ CummaxAxis(m, axis) = Negate(CumminAxis(Negate(m), axis))
       /\ RollingMean(m, 1, axis) = Fractions(m) /\ MeanAxis(m, axis) = MeanAxis(Sort(m, axis), axis)
       /\ \A i \in DOMAIN m.data : CumprodAxis(m, axis).data[i] = 0 \/ m.data[i] # 0
       /\ Var(row) = VarAxis(row, 1).data[1] /\ MedianAxis(row, 1).data[1] = Median(m)
  /\ Percentile(m, 50) = Median(m) /\ Percentile(m, 0) = <<MinElement(m), 1>> /\ Percentile(m, 100) = <<MaxElement(m), 1>>
  /\ \A i \in 1..n - 1 : sorted[i] <= sorted[i + 1]
  /\ Take(m, Argsort(row, 1)).data = sorted
  /\ Ext!ToSet(Unique(m).data) = Ext!ToSet(m.data) /\ Nunique(m) = Cardinality(Ext!ToSet(m.data))
  /\ Searchsorted(RowOf(sorted), m) = Each(m, LAMBDA x : Cardinality({i \in 1..n : sorted[i] < x}))
  /\ Digitize(m, RowOf(sorted)) = Each(m, LAMBDA x : Cardinality({i \in 1..n : sorted[i] <= x}))
  /\ Sum(Histogram(m, 3)) = n /\ Histogram(m, 3) = Histogram(RowOf(sorted), 3)
  /\ MinElement(m) >= 0 => Sum(Bincount(m)) = n
  /\ AnyTrue(m) => /\ Take(m, Flatnonzero(m)) = Extract(m, m) /\ Sum(Extract(m, m)) = Sum(m)
               /\ UnravelIndex(Flatnonzero(m), m.rows, m.cols) = Nonzero(m)
               /\ Sum(TrimZeros(m)) = Sum(m) /\ TrimZeros(m).data[1] # 0
  /\ Len(Ediff1d(m).data) = n - 1 /\ m.data[1] + Sum(Ediff1d(m)) = m.data[n]
==============================================================================
