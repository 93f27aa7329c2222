------------------------------ MODULE Values ------------------------------
(***************************************************************************)
(* Exact fractions <<numerator, denominator>> in lowest terms, for what    *)
(* the code computes with doubles.                                         *)
(***************************************************************************)
EXTENDS Integers, Sequences, FiniteSets

Magnitude(x) == IF x < 0 THEN -x ELSE x
RECURSIVE CommonDivisor(_, _)
CommonDivisor(a, b) == IF b = 0 THEN a ELSE CommonDivisor(b, a % b)

Q(n, d) ==
  LET g == CommonDivisor(Magnitude(n), Magnitude(d)) s == IF d < 0 THEN -1 ELSE 1 IN <<s * (n \div g), s * (d \div g)>>
Q0 == <<0, 1>>
Plus(a, b) == Q(a[1] * b[2] + b[1] * a[2], a[2] * b[2])
Times(a, b) == Q(a[1] * b[1], a[2] * b[2])
Quot(a, b) == Q(a[1] * b[2], a[2] * b[1])
MinusTimes(a, f, b) == Q(a[1] * f[2] * b[2] - f[1] * b[1] * a[2], a[2] * f[2] * b[2])
Minus(a, b) == MinusTimes(a, <<1, 1>>, b)
AtMost(a, b) == a[1] * b[2] <= b[1] * a[2]

\* The sum of value(i) for i in 1..n
Total(n, value(_)) == LET sum[k \in 0..n] == IF k = 0 THEN Q0 ELSE Plus(sum[k - 1], value(k)) IN sum[n]

------------------------------------------------------------------------------
(***************************************************************************)
(* malloc and free as the modules of the library use them: live is what    *)
(* each block in use holds, bad says that a block not in use was freed or  *)
(* read. The address 0 is NULL; a freed address may be given out again.    *)
(***************************************************************************)

EmptyHeap == [live |-> <<>>, bad |-> FALSE]
FreshBlock(heap) == CHOOSE b \in 1..100 : b \notin DOMAIN heap.live /\ \A c \in 1..b - 1 : c \in DOMAIN heap.live
Malloc(heap, content) ==
  [heap EXCEPT !.live = [b \in DOMAIN heap.live \union {FreshBlock(heap)} |-> IF b = FreshBlock(heap) THEN content ELSE heap.live[b]]]
Free(heap, b) ==
  IF b = 0 THEN heap
  ELSE [live |-> [c \in DOMAIN heap.live \ {b} |-> heap.live[c]], bad |-> heap.bad \/ b \notin DOMAIN heap.live]
==============================================================================
