------------------------------ MODULE Numbers ------------------------------
(***************************************************************************)
(* bigint/bigint.c: integers of any size, kept by GMP (mpz_t), which this  *)
(* module takes for the integers themselves. A call that makes a number    *)
(* returns <<it>>, or <<>> for NULL; CRASH is GMP's division by zero. An   *)
(* unsigned long goes up to ULONG_MAX. Texts are sequences of characters.  *)
(*                                                                         *)
(* In this order: bigint.c and its laws; date.c, std_time.c and theirs;     *)
(* random.c, secrets.c, the digests and the rest of uuid.c, and theirs.    *)
(***************************************************************************)
EXTENDS Integers, Sequences, FiniteSets

Ext == INSTANCE SequencesExt
J == INSTANCE Json

CONSTANT ULONG_MAX

CRASH == <<"division by zero">>
Abs(a) == <<IF a < 0 THEN -a ELSE a>>
Size(a) == Abs(a)[1]
Negate(a) == <<-a>>
Sign(a) == IF a < 0 THEN -1 ELSE IF a > 0 THEN 1 ELSE 0
IsZero(a) == a = 0
IsEven(a) == a % 2 = 0
BigIntCompare(a, b) == Sign(a - b)
CmpAbs(a, b) == Sign(Size(a) - Size(b))
BigIntCreate == <<0>>
Copy(a) == <<a>>
FromInt(n) == <<n>>
ToLong(a) == IF a > ULONG_MAX \div 2 \/ a < -(ULONG_MAX \div 2) - 1 THEN <<>> ELSE <<a>>
Add(a, b) == <<a + b>>
Subtract(a, b) == <<a - b>>
Multiply(a, b) == <<a * b>>
Inc(a) == Add(a, 1)
Dec(a) == Subtract(a, 1)

\* ---------------------------------------------------------------- division --
\* the quotient towards zero, and the remainder
Divide(a, b) ==
  LET q == Sign(a) * Sign(b) * (Size(a) \div Size(b)) IN IF IsZero(b) THEN <<>> ELSE <<q, a - q * b>>
\* never negative, unlike the remainder
Mod(a, b) == IF IsZero(b) THEN <<>> ELSE <<a % Size(b)>>
Divides(d, a) == IF d = 0 THEN a = 0 ELSE a % Size(d) = 0
Gcd(a, b) ==
  IF a = 0 \/ b = 0 THEN <<Size(a) + Size(b)>>
  ELSE <<CHOOSE d \in 1..Size(a) : Divides(d, a) /\ Divides(d, b) /\ \A e \in d + 1..Size(a) : ~(Divides(e, a) /\ Divides(e, b))>>
Lcm(a, b) == IF a = 0 \/ b = 0 THEN <<0>> ELSE <<Size(a * b) \div Gcd(a, b)[1]>>
\* of moduli other than 1 and -1
ModInv(a, modulus) ==
  IF IsZero(modulus) \/ Gcd(a, modulus) # <<1>> THEN <<>>
  ELSE <<CHOOSE x \in 0..Size(modulus) - 1 : (a * x) % Size(modulus) = 1 % Size(modulus)>>

\* ------------------------------------------------------------ powers, roots --
Power(base, exponent) == IF exponent = 0 THEN 1 ELSE base ^ exponent
Pow(base, exponent) == IF exponent < 0 \/ exponent > ULONG_MAX THEN <<>> ELSE <<Power(base, exponent)>>
\* a negative exponent is that of the inverse: GMP divides by zero without one
Powmod(base, exponent, modulus) ==
  IF IsZero(modulus) THEN <<>>
  ELSE IF exponent >= 0 THEN <<Power(base, exponent) % Size(modulus)>>
  ELSE IF ModInv(base, modulus) = <<>> THEN CRASH
  ELSE <<(ModInv(base, modulus)[1] ^ (-exponent)) % Size(modulus)>>
\* the root and what is left; GMP divides by zero on a negative number
Sqrt(a) ==
  IF a < 0 THEN CRASH
  ELSE LET root == CHOOSE r \in 0..a : r * r <= a /\ (r + 1) * (r + 1) > a IN <<root, a - root * root>>
SqrtExact(a) == IF a < 0 \/ (a >= 0 /\ Sqrt(a)[2] # 0) THEN <<>> ELSE <<Sqrt(a)[1]>>
Factorial(n) == LET f[i \in 0..n] == IF i < 2 THEN 1 ELSE i * f[i - 1] IN <<f[n]>>
IsPrime(a) == IF Size(a) > 1 /\ \A d \in 2..Size(a) - 1 : Size(a) % d # 0 THEN 2 ELSE 0
NextPrime(a) ==
  LET from == IF a < 2 THEN 2 ELSE a + 1
  IN  <<CHOOSE p \in from..2 * from : IsPrime(p) # 0 /\ \A q \in from..p - 1 : IsPrime(q) = 0>>
Random(bits) == {<<a>> : a \in 0..2 ^ bits - 1}

\* -------------------------------------------------------------------- bits --
\* the number of digits of |a| in a base, 1 for 0
SizeInBase(a, base) == CHOOSE n \in 1..Size(a) + 1 : Size(a) < base ^ n /\ (n = 1 \/ Size(a) >= base ^ (n - 1))
BitLength(a) == IF a = 0 THEN 0 ELSE SizeInBase(a, 2)
Log2(a) == IF IsZero(a) THEN 0 ELSE SizeInBase(a, 2) - 1
\* by bits of the two's complement, which go on for ever
RECURSIVE AndBits(_, _)
AndBits(a, b) ==
  IF a \in {0, -1} /\ b \in {0, -1} THEN IF a = 0 \/ b = 0 THEN 0 ELSE -1
  ELSE 2 * AndBits(a \div 2, b \div 2) + (a % 2) * (b % 2)
And(a, b) == <<AndBits(a, b)>>
Or(a, b) == <<-1 - AndBits(-1 - a, -1 - b)>>
Xor(a, b) == <<Or(a, b)[1] - AndBits(a, b)>>
ShiftLeft(a, bits) == <<a * 2 ^ bits>>
ShiftRight(a, bits) == <<a \div 2 ^ bits>>

\* ------------------------------------------------------------------- texts --
DigitsIn(a, base) ==
  LET n == SizeInBase(a, base)
  IN  [i \in 1..n |-> LET d == (Size(a) \div base ^ (n - i)) % base IN IF d < 10 THEN 48 + d ELSE 87 + d]
Signed(a, base) == (IF a < 0 THEN <<45>> ELSE <<>>) \o DigitsIn(a, base)
BigIntToString(a) == Signed(a, 10)
ToHex(a) == Signed(a, 16)
NumDigits(a) == Len(DigitsIn(a, 10))
SumDigits(a) == LET digits == DigitsIn(a, 10)
                    f[i \in 0..Len(digits)] == IF i = 0 THEN 0 ELSE f[i - 1] + digits[i] - 48 IN f[Len(digits)]
\* mpz_set_str: no plus, spaces before the sign and after the first digit
BigIntFromString(text) ==
  LET start == J!RunEnd(text, 1, J!Spaces)
      digits == IF J!At(text, start) = 45 THEN start + 1 ELSE start
      n == J!Natural(SelectSeq(SubSeq(text, digits, Len(text)), LAMBDA c : c \in J!Digits))
  IN  IF J!At(text, digits) \notin J!Digits \/ J!RunEnd(text, digits, J!Digits \union J!Spaces) # Len(text) + 1 THEN <<>>
      ELSE <<IF digits > start THEN -n ELSE n>>

------------------------------------------------------------------------------
(***************************************************************************)
(* What bigint.c promises of two numbers and of a third, the laws of       *)
(* arithmetic: what it divides is put together again, and so on.           *)
(***************************************************************************)

Numbers == -13..13

\* Quotients, remainders, inverses and powers agree with the product.
Divided(a, b) ==
  /\ b # 0 => LET d == Divide(a, b)
              IN  /\ d[1] * b + d[2] = a /\ CmpAbs(d[2], b) < 0 /\ Sign(d[2]) \in {0, Sign(a)}
                  /\ Mod(a, b)[1] >= 0 /\ IsZero(Mod(a - Mod(a, b)[1], b)[1])
                  /\ (d[2] = 0) = (Mod(a, b) = <<0>>)
  /\ b = 0 => Divide(a, b) = <<>> /\ Mod(a, b) = <<>> /\ Powmod(a, 2, b) = <<>> /\ ModInv(a, b) = <<>>
  /\ LET g == Gcd(a, b)[1]
     IN  /\ g * Lcm(a, b)[1] = Size(a * b)
         /\ \A d \in 1..13 : Divides(d, a) /\ Divides(d, b) => Divides(d, g)
  /\ Size(b) > 1 =>
       /\ ModInv(a, b) # <<>> => Mod(a * ModInv(a, b)[1], b) = <<1>>
       /\ \A e \in -2..3 : Powmod(a, e, b) = IF e >= 0 THEN Mod(Pow(a, e)[1], b)
                                               ELSE IF ModInv(a, b) = <<>> THEN CRASH
                                               ELSE Mod(Pow(ModInv(a, b)[1], -e)[1], b)
  /\ BigIntCompare(a, b) = -BigIntCompare(b, a) /\ (BigIntCompare(a, b) = 0) = (a = b)
  /\ BigIntCompare(a, b) = Sign(Subtract(a, b)[1]) /\ Add(Subtract(a, b)[1], b) = Copy(a)

\* Bits are those of the two's complement.
Bitwise(a, b) ==
  /\ And(a, b)[1] + Or(a, b)[1] = a + b /\ Xor(Xor(a, b)[1], b) = <<a>> /\ And(a, -1) = <<a>>
  /\ IsEven(a) = (And(a, 1) = <<0>>)
  /\ \A n \in 0..4 : /\ ShiftRight(ShiftLeft(a, n)[1], n) = <<a>>
                     /\ ShiftLeft(ShiftRight(a, n)[1], n)[1] + And(a, 2 ^ n - 1)[1] = a
                     /\ a >= 0 => ShiftRight(a, n)[1] = Divide(a, 2 ^ n)[1]
  /\ a # 0 => /\ 2 ^ Log2(a) <= Size(a) /\ Size(a) < 2 ^ BitLength(a)
              /\ BitLength(ShiftLeft(a, 3)[1]) = BitLength(a) + 3

\* A text is that of its number, and no other.
Written(a, b) ==
  LET n == 100 * a + b
  IN  /\ BigIntFromString(BigIntToString(n)) = <<n>> /\ BigIntFromString(<<32>> \o BigIntToString(n) \o <<10>>) = <<n>>
      /\ BigIntFromString(<<43>> \o BigIntToString(n)) = <<>> /\ BigIntFromString(<<>>) = <<>> /\ BigIntFromString(<<45, 32, 49>>) = <<>>
      /\ Len(BigIntToString(n)) = NumDigits(n) + (IF n < 0 THEN 1 ELSE 0)
      /\ (SumDigits(n) - n * Sign(n)) % 9 = 0 /\ (SumDigits(n) = 0) = (n = 0)
      /\ (ToHex(n) = ToHex(b)) = (n = b)
      /\ ToLong(a) = IF a \in -8..7 THEN FromInt(a) ELSE <<>>

\* Roots, factorials and primes
Multiplied(a, b) ==
  /\ a >= 0 => /\ Sqrt(a)[2] <= 2 * Sqrt(a)[1] /\ (SqrtExact(a) # <<>>) = (\E r \in 0..a : r * r = a)
               /\ SqrtExact(Multiply(a, a)[1]) = Abs(a)
               /\ a < 12 => Divides(Factorial(a)[1], Factorial(Inc(a)[1])[1])
  /\ a < 0 => Sqrt(a) = CRASH /\ SqrtExact(a) = <<>> /\ Pow(b, a) = <<>>
  /\ NextPrime(a)[1] > a /\ IsPrime(NextPrime(a)[1]) = 2
  /\ a < b /\ b < NextPrime(a)[1] => IsPrime(b) = 0 \/ b < 0
  /\ IsPrime(a) # 0 /\ IsPrime(b) # 0 => IsPrime(a * b) = 0 /\ Gcd(a, b) \in {<<1>>, Abs(a)}
  /\ Dec(Inc(a)[1]) = <<a>> /\ Negate(Negate(a)[1]) = <<a>> /\ \A r \in Random(3) : BitLength(r[1]) <= 3

------------------------------------------------------------------------------
(***************************************************************************)
(* date/date.c: days of the Gregorian and the Persian calendar. A date is  *)
(* [year, month, day, cal]; NONE is a NULL result. Years are positive, so  *)
(* C's division rounds as \div does, except in AddMonths.                  *)
(***************************************************************************)

DATE_NONE == [cal |-> "none"]
DateOf(y, m, d, type) == [year |-> y, month |-> m, day |-> d, cal |-> type]

GregorianLeap(y) == y % 4 = 0 /\ (y % 100 # 0 \/ y % 400 = 0)
\* (y + 2346) times 0.24219858156, a shade less than 683/2820, has a fraction
\* below 0.24219858156
IsPersianLeapYear(y) == y > 0 /\ ((y + 2346) * 683) % 2820 \in 1..683
LeapYearY(y, type) == IF type = "Gregorian" THEN GregorianLeap(y) ELSE IsPersianLeapYear(y)

PersianDaysInMonth(y, m) ==
  IF y <= 0 \/ m \notin 1..12 THEN -1 ELSE IF m <= 6 THEN 31 ELSE IF m <= 11 \/ IsPersianLeapYear(y) THEN 30 ELSE 29
GregorianDaysInMonth(y, m) ==
  IF m = 2 /\ GregorianLeap(y) THEN 29 ELSE <<31, 28, 31, 30, 31, 30, 31, 31, 30, 31, 30, 31>>[m]
DaysInMonthOf(y, m, type) ==
  IF m \notin 1..12 THEN 0 ELSE IF type = "Gregorian" THEN GregorianDaysInMonth(y, m) ELSE PersianDaysInMonth(y, m)

IsValidYmd(y, m, d, type) == y # 0 /\ m \in 1..12 /\ d > 0 /\ d <= DaysInMonthOf(y, m, type)
DateIsValid(date) == IsValidYmd(date.year, date.month, date.day, date.cal)
CreateYmd(y, m, d, type) == IF IsValidYmd(y, m, d, type) THEN DateOf(y, m, d, type) ELSE DATE_NONE
SetDate(date, y, m, d, type) ==
  IF y <= 0 \/ m \notin 1..12 \/ d <= 0 \/ d > DaysInMonthOf(y, m, type) THEN date ELSE DateOf(y, m, d, type)

\* A month at a time until the days left fit into the month reached
RECURSIVE MovedDays(_, _)
MovedDays(date, ndays) ==
  LET here == DaysInMonthOf(date.year, date.month, date.cal)
      up == [date EXCEPT !.day = 1, !.month = IF @ = 12 THEN 1 ELSE @ + 1, !.year = IF date.month = 12 THEN @ + 1 ELSE @]
      down == [date EXCEPT !.month = IF @ = 1 THEN 12 ELSE @ - 1, !.year = IF date.month = 1 THEN @ - 1 ELSE @]
  IN  IF ndays > 0 /\ date.day + ndays > here THEN MovedDays(up, ndays - (here - date.day + 1))
      ELSE IF ndays < 0 /\ date.day + ndays < 1
           THEN MovedDays([down EXCEPT !.day = DaysInMonthOf(down.year, down.month, date.cal)], ndays + date.day)
      ELSE [date EXCEPT !.day = @ + ndays]
AddDays(date, ndays) == IF DateIsValid(date) THEN MovedDays(date, ndays) ELSE DATE_NONE

Clamped(date) ==
  LET last == DaysInMonthOf(date.year, date.month, date.cal) IN [date EXCEPT !.day = IF @ > last THEN last ELSE @]
AddMonths(date, nmonths) ==
  LET years == IF nmonths < 0 THEN -((-nmonths) \div 12) ELSE nmonths \div 12
      month == date.month + (nmonths - 12 * years)
      turn == IF month > 12 THEN 1 ELSE IF month < 1 THEN -1 ELSE 0
  IN  IF DateIsValid(date) THEN Clamped([date EXCEPT !.year = @ + years + turn, !.month = month - 12 * turn]) ELSE DATE_NONE
AddYears(date, nyears) ==
  LET moved == [date EXCEPT !.year = @ + nyears]
      fallsBack == IF date.cal = "Gregorian" THEN date.month = 2 /\ date.day = 29 ELSE date.month = 12 /\ date.day = 30
  IN  IF ~DateIsValid(date) THEN DATE_NONE
      ELSE IF fallsBack /\ ~LeapYearY(moved.year, date.cal) THEN [moved EXCEPT !.day = @ - 1] ELSE moved

\* From the 1st of March on, the months before month m last (153m + 2) / 5 days.
\* The private count of days is 1753164 = 7 * 250452 less than the public one.
SinceMarch(y, m, d) ==
  LET a == (14 - m) \div 12
      v == y - a
  IN  d + (153 * (m + 12 * a - 3) + 2) \div 5 + 365 * v + v \div 4 - v \div 100 + v \div 400 - 32045
GregorianToJdn(y, m, d) == SinceMarch(y, m, d)

\* Through days counted in 33-year cycles with eight leap days
SolarInYear(jy, n) ==
  IF n < 186 THEN DateOf(jy, 1 + n \div 31, 1 + (n % 31), "Persian")
  ELSE DateOf(jy, 7 + (n - 186) \div 30, 1 + ((n - 186) % 30), "Persian")
SolarInFour(jy, n) == IF n > 365 THEN SolarInYear(jy + (n - 1) \div 365, (n - 1) % 365) ELSE SolarInYear(jy, n)
SolarInCycle(jy, n) == SolarInFour(jy + 4 * (n \div 1461), n % 1461)
GregorianToSolar(date) ==
  LET gy2 == IF date.month > 2 THEN date.year + 1 ELSE date.year
      before == <<0, 31, 59, 90, 120, 151, 181, 212, 243, 273, 304, 334>>[date.month]
      days == 355666 + 365 * date.year + (gy2 + 3) \div 4 - (gy2 + 99) \div 100 + (gy2 + 399) \div 400 + date.day + before
  IN  SolarInCycle(33 * (days \div 12053) - 1595, days % 12053)

\* The month that day gd of the year falls in
RECURSIVE MonthReached(_, _, _)
MonthReached(y, m, gd) ==
  IF m <= 12 /\ gd > GregorianDaysInMonth(y, m) THEN MonthReached(y, m + 1, gd - GregorianDaysInMonth(y, m))
  ELSE DateOf(y, m, gd, "Gregorian")
\* Day n, from 0, of a year, of four, of the years of a century, and of 400
InYear(gy, n) == IF n > 365 THEN MonthReached(gy + (n - 1) \div 365, 1, ((n - 1) % 365) + 1) ELSE MonthReached(gy, 1, n + 1)
InCentury(gy, n) == InYear(gy + 4 * (n \div 1461), n % 1461)
InCenturies(gy, n) ==
  LET r == (n - 1) % 36524
  IN  IF n > 36524 THEN InCentury(gy + 100 * ((n - 1) \div 36524), IF r >= 365 THEN r + 1 ELSE r) ELSE InCentury(gy, n)
\* The 30th of Esfand is converted as the 29th and moved on a day afterwards.
SolarToGregorian(date) ==
  LET lastOfLeap == date.month = 12 /\ date.day = 30 /\ IsPersianLeapYear(date.year)
      jd == IF lastOfLeap THEN 29 ELSE date.day
      jy == date.year + 1595
      days == 365 * jy - 355668 + (jy \div 33) * 8 + ((jy % 33) + 3) \div 4 + jd
              + (IF date.month < 7 THEN (date.month - 1) * 31 ELSE (date.month - 7) * 30 + 186)
  IN  IF date.month = 12 /\ date.day > 29 /\ ~IsPersianLeapYear(date.year) THEN DATE_NONE
      ELSE [InCenturies(400 * (days \div 146097), days % 146097) EXCEPT !.day = IF lastOfLeap THEN @ + 1 ELSE @]

JdnOf(g) == GregorianToJdn(g.year, g.month, g.day)
PersianToJdn(y, m, d) == JdnOf(SolarToGregorian(DateOf(y, m, d, "Persian")))
JulianDayOf(date, g) == IF DateIsValid(date) /\ DateIsValid(g) THEN SinceMarch(g.year, g.month, g.day) + 1753164 ELSE -1
ToJulianDay(date) == JulianDayOf(date, IF date.cal = "Persian" THEN SolarToGregorian(date) ELSE date)
\* The day after da days since the 1st of March of a year, and so on up to 400 years
MarchYear(y, da) ==
  LET m == (da * 5 + 308) \div 153 - 2
  IN  DateOf(y - 4800 + (m + 2) \div 12, ((m + 2) % 12) + 1, da - ((m + 4) * 153) \div 5 + 123, "Gregorian")
MarchFour(y, db) == LET a == ((db \div 365 + 1) * 3) \div 4 IN MarchYear(y + a, db - a * 365)
MarchCentury(y, dc) == MarchFour(y + (dc \div 1461) * 4, dc % 1461)
MarchCenturies(y, dg) == LET c == ((dg \div 36524 + 1) * 3) \div 4 IN MarchCentury(y + c * 100, dg - c * 36524)
FromJulianDay(jd) ==
  IF jd < 0 THEN DATE_NONE ELSE MarchCenturies(((jd + 32044) \div 146097) * 400, (jd + 32044) % 146097)

\* Of seconds since 1970: whole days, rounded down, also before 1970
ToUnix(date) == (ToJulianDay(date) - 2440588) * 86400
FromUnix(seconds, type) ==
  LET toZero == IF seconds < 0 THEN -((-seconds) \div 86400) ELSE seconds \div 86400
      days == IF seconds < 0 /\ seconds % 86400 # 0 THEN toZero - 1 ELSE toZero
      g == FromJulianDay(days + 2440588)
  IN  IF type = "Gregorian" THEN g ELSE GregorianToSolar(g)

DayOfWeek(date) ==
  LET jdn == IF date.cal = "Gregorian" THEN GregorianToJdn(date.year, date.month, date.day)
             ELSE PersianToJdn(date.year, date.month, date.day)
  IN  (jdn % 7) + 1
DayOfYear(date) ==
  IF date.cal = "Gregorian"
  THEN <<0, 31, 59, 90, 120, 151, 181, 212, 243, 273, 304, 334>>[date.month] + date.day
       + (IF date.month > 2 /\ GregorianLeap(date.year) THEN 1 ELSE 0)
  ELSE <<0, 31, 62, 93, 124, 155, 186, 216, 246, 276, 306, 336>>[date.month] + date.day
DaysInMonth(date) ==
  IF date.cal = "Gregorian" THEN GregorianDaysInMonth(date.year, date.month)
  ELSE IF date.month <= 6 THEN 31 ELSE IF date.month <= 11 \/ IsPersianLeapYear(date.year) THEN 30 ELSE 29
DaysInYear(date) == IF LeapYearY(date.year, date.cal) THEN 366 ELSE 365
\* The number, and the year it is said to be of
WeekNumber(date) ==
  LET n == IF date.cal = "Gregorian" THEN (DayOfYear(date) - DayOfWeek(date) + 10) \div 7 ELSE (DayOfYear(date) + 6) \div 7
  IN  <<n, IF n < 1 THEN date.year - 1 ELSE date.year>>

Comparable(lhs, rhs) == lhs.cal = rhs.cal /\ DateIsValid(lhs) /\ DateIsValid(rhs)
DaysTo(from, to) == IF Comparable(from, to) THEN ToJulianDay(to) - ToJulianDay(from) ELSE -1
DateIsEqual(lhs, rhs) == Comparable(lhs, rhs) /\ lhs = rhs
DateIsLessThan(lhs, rhs) ==
  /\ Comparable(lhs, rhs)
  /\ IF lhs.year # rhs.year THEN lhs.year < rhs.year
     ELSE IF lhs.month # rhs.month THEN lhs.month < rhs.month ELSE lhs.day < rhs.day
DateIsGreaterThan(lhs, rhs) ==
  /\ Comparable(lhs, rhs)
  /\ IF lhs.year # rhs.year THEN lhs.year > rhs.year
     ELSE IF lhs.month # rhs.month THEN lhs.month > rhs.month ELSE lhs.day > rhs.day
DateIsLessThanOrEqual(lhs, rhs) == DateIsLessThan(lhs, rhs) \/ DateIsEqual(lhs, rhs)
DateIsGreaterThanOrEqual(lhs, rhs) == DateIsGreaterThan(lhs, rhs) \/ DateIsEqual(lhs, rhs)
DateCompare(lhs, rhs) ==
  IF ~Comparable(lhs, rhs) THEN "INT_MIN"
  ELSE IF lhs.year # rhs.year THEN IF lhs.year < rhs.year THEN "-1" ELSE "1"
  ELSE IF lhs.month # rhs.month THEN IF lhs.month < rhs.month THEN "-1" ELSE "1"
  ELSE IF lhs.day = rhs.day THEN "0" ELSE IF lhs.day < rhs.day THEN "-1" ELSE "1"
Min(lhs, rhs) ==
  CASE lhs = DATE_NONE -> rhs [] rhs = DATE_NONE -> lhs [] DateCompare(lhs, rhs) = "INT_MIN" -> DATE_NONE [] OTHER -> IF DateCompare(lhs, rhs) # "1" THEN lhs ELSE rhs
Max(lhs, rhs) ==
  CASE lhs = DATE_NONE -> rhs [] rhs = DATE_NONE -> lhs [] DateCompare(lhs, rhs) = "INT_MIN" -> DATE_NONE [] OTHER -> IF DateCompare(lhs, rhs) # "-1" THEN lhs ELSE rhs

FirstDayOfMonth(date) == CreateYmd(date.year, date.month, 1, date.cal)
LastDayOfMonth(date) == CreateYmd(date.year, date.month, DaysInMonthOf(date.year, date.month, date.cal), date.cal)
Quarter(date) == (date.month - 1) \div 3 + 1
IsWeekend(date) == IF date.cal = "Gregorian" THEN DayOfWeek(date) \in {6, 7} ELSE DayOfWeek(date) = 5

------------------------------------------------------------------------------
(***************************************************************************)
(* time/std_time.c: times of a day, to the millisecond. NONE is NULL. The  *)
(* clocks and sleeps of the module are the system's.                       *)
(***************************************************************************)

TIME_NONE == [hour |-> -1]
MS_PER_DAY == 86400000
IsValidTime(h, m, s, ms) == h \in 0..23 /\ m \in 0..59 /\ s \in 0..59 /\ ms \in 0..999
TimeIsValid(t) == IsValidTime(t.hour, t.minute, t.second, t.msec)
TimeOf(h, m, s, ms) == [hour |-> h, minute |-> m, second |-> s, msec |-> ms]
TimeCreate(h, m, s, ms) == IF IsValidTime(h, m, s, ms) THEN TimeOf(h, m, s, ms) ELSE TIME_NONE
SetHms(t, h, m, s, ms) == IF IsValidTime(h, m, s, ms) THEN TimeOf(h, m, s, ms) ELSE t

MsecsOf(t) == t.hour * 3600000 + t.minute * 60000 + t.second * 1000 + t.msec
AddMsecs(t, ms) ==
  LET total == (MsecsOf(t) + ms) % MS_PER_DAY
  IN  IF ~TimeIsValid(t) THEN t
      ELSE TimeOf(total \div 3600000, (total % 3600000) \div 60000, (total % 60000) \div 1000, total % 1000)
\* Whole days go before the seconds are milliseconds, as an int does not hold them.
AddSecs(t, s) == AddMsecs(t, IF s < 0 THEN -(((-s) % 86400) * 1000) ELSE (s % 86400) * 1000)

MsecsTo(from, to) == IF TimeIsValid(from) /\ TimeIsValid(to) THEN MsecsOf(to) - MsecsOf(from) ELSE 0
SecsTo(from, to) ==
  IF TimeIsValid(from) /\ TimeIsValid(to)
  THEN (to.hour * 3600 + to.minute * 60 + to.second) - (from.hour * 3600 + from.minute * 60 + from.second) ELSE 0
FromMsecsSinceStartOfDay(msecs) ==
  LET seconds == msecs \div 1000
      minutes == seconds \div 60
  IN  IF msecs \notin 0..MS_PER_DAY - 1 THEN TIME_NONE ELSE TimeCreate(minutes \div 60, minutes % 60, seconds % 60, msecs % 1000)
\* Of seconds given in milliseconds
ToSecondsOfDay(t) == IF TimeIsValid(t) THEN MsecsOf(t) ELSE -1
FromSecondsOfDay(ms) ==
  IF ms \notin 0..MS_PER_DAY - 1 THEN TIME_NONE
  ELSE TimeCreate(ms \div 3600000, (ms % 3600000) \div 60000, (ms % 60000) \div 1000, ms % 1000)

TimeIsEqual(lhs, rhs) == TimeIsValid(lhs) /\ TimeIsValid(rhs) /\ lhs = rhs
TimeIsLessThan(lhs, rhs) ==
  /\ TimeIsValid(lhs) /\ TimeIsValid(rhs)
  /\ \/ lhs.hour < rhs.hour
     \/ lhs.hour = rhs.hour /\ lhs.minute < rhs.minute
     \/ lhs.hour = rhs.hour /\ lhs.minute = rhs.minute /\ lhs.second < rhs.second
     \/ lhs.hour = rhs.hour /\ lhs.minute = rhs.minute /\ lhs.second = rhs.second /\ lhs.msec < rhs.msec
TimeIsLessThanOrEqual(lhs, rhs) == TimeIsEqual(lhs, rhs) \/ TimeIsLessThan(lhs, rhs)
TimeIsGreaterThan(lhs, rhs) == TimeIsLessThan(rhs, lhs)
TimeIsGreaterThanOrEqual(lhs, rhs) == TimeIsGreaterThan(lhs, rhs) \/ TimeIsEqual(rhs, lhs)
IsMidnight(t) == TimeIsValid(t) /\ t = TimeOf(0, 0, 0, 0)
TimeCompare(lhs, rhs) ==
  IF ~TimeIsValid(lhs) \/ ~TimeIsValid(rhs) \/ MsecsOf(lhs) = MsecsOf(rhs) THEN 0 ELSE IF MsecsOf(lhs) < MsecsOf(rhs) THEN -1 ELSE 1

\* Text as its numbers and what separates them: H:M:S.f, H:M:S:f or H:M:S, in
\* brackets or not
TimeToString(t) == [numbers |-> <<t.hour, t.minute, t.second, t.msec>>, lastSep |-> ":", opens |-> TRUE, closes |-> TRUE]
ToIsoString(t) == [numbers |-> <<t.hour, t.minute, t.second, t.msec>>, lastSep |-> ".", opens |-> FALSE, closes |-> FALSE]
TimeFromString(text) ==
  LET n == text.numbers
  IN  IF text.opens # text.closes \/ DOMAIN n \notin {1..3, 1..4} THEN TIME_NONE
      ELSE TimeCreate(n[1], n[2], n[3], IF 4 \in DOMAIN n THEN n[4] ELSE 0)
\* The 12-hour clock of %I and %p
Hour12(t) == IF t.hour % 12 = 0 THEN 12 ELSE t.hour % 12
AmPm(t) == IF t.hour < 12 THEN "AM" ELSE "PM"

------------------------------------------------------------------------------
(***************************************************************************)
(* What the functions of Date and TimeOfDay must return. The days of both  *)
(* calendars are one line: converting, adding and counting must agree.     *)
(***************************************************************************)

NextDay(date) == AddDays(date, 1)
Monday2024 == DateOf(2024, 1, 1, "Gregorian")

\* Persian years whose leap days the two rules of the code place alike: the conversion has
\* another rule than is_persian_leap_year (see PersianYears)
RulesAgree(date) == date.year \in 1277..1435

\* What date.c:850 says of Persian dates: from one new year to the next there are as many
\* days as the year has.
PersianYears(years) ==
  \A y \in years : LET first == DateOf(y, 1, 1, "Persian")
                   IN  DaysTo(first, DateOf(y + 1, 1, 1, "Persian")) = DaysInYear(first)

\* Laws of one valid date of either calendar
DayLaws(date) ==
  \A jd \in {ToJulianDay(date)}, next \in {NextDay(date)} :
      /\ DateIsValid(date) /\ DateIsValid(next)
      /\ ToJulianDay(next) = jd + 1 /\ DaysTo(date, next) = 1
      /\ DayOfWeek(date) \in 1..7 /\ DayOfWeek(next) = (DayOfWeek(date) % 7) + 1
      /\ IsWeekend(date) <=> (DayOfWeek(date) \in (IF date.cal = "Persian" THEN {5} ELSE {6, 7}))
      /\ DayOfYear(next) = IF DayOfYear(date) = DaysInYear(date) THEN 1 ELSE DayOfYear(date) + 1
      /\ \A n \in {-400, -31, -1, 0, 1, 28, 365, 366, 1500} :
           /\ ToJulianDay(AddDays(date, n)) = jd + n
           /\ AddDays(AddDays(date, n), -n) = date
      /\ \A n \in {-25, -12, -1, 0, 1, 11, 13, 14, 24} :
           \A moved \in {AddMonths(date, n)} :
             /\ DateIsValid(moved) /\ moved.day <= date.day /\ (moved.day < date.day => moved = LastDayOfMonth(moved))
             /\ moved.year * 12 + moved.month = date.year * 12 + date.month + n
      /\ \A n \in {-4, -1, 1, 3} : AddYears(date, n) = AddMonths(date, 12 * n)
      /\ DaysInMonth(date) = DaysTo(FirstDayOfMonth(date), LastDayOfMonth(date)) + 1
      /\ Quarter(AddMonths(date, 3)) = (Quarter(date) % 4) + 1
      /\ \A n \in {-400, -1, 0, 1, 31, 365} : \A other \in {AddDays(date, n)} :
           /\ DateIsLessThan(date, other) <=> n > 0
           /\ DateIsLessThanOrEqual(other, date) <=> ~DateIsGreaterThan(other, date)
           /\ DateIsGreaterThanOrEqual(other, date) <=> ~DateIsLessThan(other, date)
           /\ DateCompare(date, other) = (IF n > 0 THEN "-1" ELSE IF n = 0 THEN "0" ELSE "1")
           /\ Min(date, other) = (IF n > 0 THEN date ELSE other) /\ Max(date, other) = (IF n > 0 THEN other ELSE date)
      /\ SetDate(date, date.year, 13, 1, date.cal) = date /\ CreateYmd(date.year, 2, 32, date.cal) = DATE_NONE

\* Weeks begin on Mondays, and the number 1 belongs to the 4th of January.
WeekLaws(date) ==
  \A next \in {NextDay(date)}, week \in {WeekNumber(date)} :
      /\ week[1] \in 0..53
      /\ next.year = date.year => WeekNumber(next)[1] = week[1] + (IF DayOfWeek(next) = 1 THEN 1 ELSE 0)
      /\ date.month = 1 /\ date.day = 4 => week = <<1, date.year>>
      /\ week[1] = 0 => week[2] = date.year - 1

GregorianLaws(date) ==
  /\ WeekLaws(date)
  /\ \A d \in {date} \union {s \in {GregorianToSolar(date)} : RulesAgree(s)} : DayLaws(d)
  /\ FromJulianDay(ToJulianDay(date)) = date
  /\ DayOfWeek(date) = (DaysTo(Monday2024, date) % 7) + 1
  /\ date.year \in 1910..2030 =>
       \A s \in {0, 1, 86399} : /\ FromUnix(ToUnix(date) + s, "Gregorian") = date
                                /\ FromUnix(ToUnix(date) + s, "Persian") = GregorianToSolar(date)
  /\ \A solar \in {s \in {GregorianToSolar(date)} : RulesAgree(s)} :
       /\ SolarToGregorian(solar) = date /\ ToJulianDay(solar) = ToJulianDay(date)
       /\ GregorianToSolar(NextDay(date)) = NextDay(solar)
       /\ DayOfWeek(solar) = DayOfWeek(date)
       /\ DaysTo(date, solar) = -1 /\ ~DateIsEqual(date, solar) /\ Min(date, solar) = DATE_NONE

Times == {TimeOf(0, 0, 0, 0), TimeOf(0, 0, 0, 1), TimeOf(11, 59, 59, 999), TimeOf(12, 0, 0, 0), TimeOf(13, 1, 0, 7), TimeOf(23, 59, 59, 999)}
Jumps == {-86400001, -86400000, -1, 0, 1, 60000, 86399999, 172800000}
Since(t) == MsecsTo(TimeOf(0, 0, 0, 0), t)

\* A day of milliseconds is a ring; AddMsecs and AddSecs go round it.
TimeLaws ==
  \A t \in Times :
    /\ FromMsecsSinceStartOfDay(Since(t)) = t /\ FromSecondsOfDay(ToSecondsOfDay(t)) = t
    /\ TimeFromString(TimeToString(t)) = t /\ TimeFromString(ToIsoString(t)) = t
    /\ TimeFromString([TimeToString(t) EXCEPT !.closes = FALSE]) = TIME_NONE
    /\ (Hour12(t) % 12) + (IF AmPm(t) = "PM" THEN 12 ELSE 0) = t.hour
    /\ SetHms(t, 24, 0, 0, 0) = t /\ IsMidnight(t) <=> Since(t) = 0
    /\ \A ms \in Jumps : /\ Since(AddMsecs(t, ms)) = (Since(t) + ms) % 86400000
                         /\ AddMsecs(AddMsecs(t, ms), -ms) = t
    /\ \A s \in {-86401, -1, 1, 3600, 90000, 2000000000} : Since(AddSecs(t, s)) = (Since(t) + ((s % 86400) * 1000)) % 86400000
    /\ \A u \in Times :
         /\ AddMsecs(t, MsecsTo(t, u)) = u
         /\ MsecsTo(t, u) - 1000 * SecsTo(t, u) = u.msec - t.msec
         /\ TimeIsLessThan(t, u) = (TimeCompare(t, u) < 0) /\ TimeIsEqual(t, u) = (TimeCompare(t, u) = 0)
         /\ TimeIsLessThanOrEqual(t, u) = ~TimeIsGreaterThan(t, u) /\ TimeIsGreaterThanOrEqual(t, u) = ~TimeIsLessThan(t, u)

------------------------------------------------------------------------------
(***************************************************************************)
(* random/random.c: the generator all of the module draws from, and what   *)
(* is made of the draws. The state g is [rand, hasSpare, spare]: the last  *)
(* number drawn, and the second of the two values random_gauss makes. A    *)
(* fraction of the range is kept as its numerator over RANGE. Operations   *)
(* return the value and the state.                                         *)
(***************************************************************************)
CONSTANTS RANDOM_BYTE,       \* 256
          Step(_),    \* the three shifts, which permute 1..RANGE-1
          NONZERO     \* 2463534242, used instead of a state of 0

RANGE == RANDOM_BYTE ^ 4
Initial == [rand |-> 1, hasSpare |-> FALSE, spare |-> <<>>]

PrngNext32(g) ==
  LET x == Step(IF g.rand = 0 THEN NONZERO ELSE g.rand) IN [value |-> x, g |-> [g EXCEPT !.rand = x]]
Index(g, n) == IF n = 0 THEN [value |-> 0, g |-> g] ELSE LET d == PrngNext32(g) IN [d EXCEPT !.value = @ % n]

\* The spare value stays.
Seed(g, seed) == [g EXCEPT !.rand = IF seed = 0 THEN 1 ELSE seed]
SetState(g, state) == [g EXCEPT !.rand = state]
GetState(g) == g.rand

\* ---------------------------------------------------------------- numbers --
Randint(g, x, y) ==
  LET a == IF x > y THEN y ELSE x
      b == IF x > y THEN x ELSE y
      d == PrngNext32(g)
  IN  [d EXCEPT !.value = a + (@ % (b - a + 1))]
Randrange(g, a, b, step) ==
  LET steps == (Size(b - a) + Size(step) - 1) \div Size(step)
      d == PrngNext32(g)
  IN  IF a = b \/ step = 0 \/ (step > 0 /\ a > b) \/ (step < 0 /\ a < b) THEN [value |-> -1, g |-> g]
      ELSE [d EXCEPT !.value = a + (@ % steps) * step]
Fraction(g) == PrngNext32(g)
\* With a probability of p out of q
Boolean(g, p, q) ==
  IF p <= 0 \/ p >= q THEN [value |-> p >= q, g |-> g]
  ELSE LET d == Fraction(g) IN [value |-> d.value * q < p * RANGE, g |-> d.g]
RandomUniform(g, x, y) ==
  LET a == IF x > y THEN y ELSE x
      d == PrngNext32(g)
  IN  [d EXCEPT !.value = a * RANGE + @ * Size(x - y)]
Getrandbits(g, bits) ==
  IF bits <= 0 \/ 2 ^ bits >= RANGE THEN [value |-> -1, g |-> g]
  ELSE LET d == PrngNext32(g) IN [d EXCEPT !.value = @ % 2 ^ bits]
\* The bytes of one draw after the other, the lowest first
RECURSIVE Randbytes(_, _)
Randbytes(g, n) ==
  LET d == PrngNext32(g)
      k == IF n < 4 THEN n ELSE 4
      rest == Randbytes(d.g, n - k)
  IN  IF n = 0 THEN [value |-> <<>>, g |-> g]
      ELSE [value |-> [i \in 1..k |-> (d.value \div RANDOM_BYTE ^ (i - 1)) % RANDOM_BYTE] \o rest.value, g |-> rest.g]

\* ----------------------------------------------------------------- arrays --
Swapped(seq, i, j) == [seq EXCEPT ![i] = seq[j], ![j] = seq[i]]
\* The place i gets one of those not yet placed, for the first k places.
RECURSIVE Placed(_, _, _, _)
Placed(g, seq, i, k) ==
  LET d == Index(g, Len(seq) - i + 1)
  IN  IF i > k THEN [value |-> seq, g |-> g] ELSE Placed(d.g, Swapped(seq, i, i + d.value), i + 1, k)
Shuffle(g, seq) == Placed(g, seq, 1, Len(seq) - 1)
RandomChoice(g, seq) == LET d == Index(g, Len(seq)) IN [d EXCEPT !.value = seq[@ + 1]]
Sample(g, seq, k) ==
  IF seq = <<>> \/ k = 0 \/ k > Len(seq) THEN [value |-> <<>>, g |-> g]
  ELSE LET p == Placed(g, seq, 1, k) IN [p EXCEPT !.value = SubSeq(@, 1, k)]
Total(weights) == Ext!FoldLeft(LAMBDA a, b : a + b, 0, weights)
Chosen(r, seq, weights) ==
  LET up == {i \in DOMAIN seq : i = Len(seq) \/ r <= Total(SubSeq(weights, 1, i)) * RANGE}
  IN  seq[CHOOSE i \in up : \A j \in up : i <= j]
RECURSIVE Choices(_, _, _, _)
Choices(g, seq, weights, k) ==
  LET d == RandomUniform(g, 0, Total(weights))
      rest == Choices(d.g, seq, weights, k - 1)
  IN  IF seq = <<>> \/ k = 0 THEN [value |-> <<>>, g |-> g]
      ELSE [value |-> <<Chosen(d.value, seq, weights)>> \o rest.value, g |-> rest.g]

\* ----------------------------------------------------------- distributions --
\* Two draws in the unit circle make two values, of which the second is spared:
\* a value is the draws and which of the two it is.
RECURSIVE InCircle(_)
InCircle(g) ==
  LET a == Fraction(g)
      b == Fraction(a.g)
      u == 2 * a.value - RANGE
      v == 2 * b.value - RANGE
  IN  IF u * u + v * v >= RANGE * RANGE \/ (u = 0 /\ v = 0) THEN InCircle(b.g) ELSE [value |-> <<u, v>>, g |-> b.g]
Gauss(g) ==
  IF g.hasSpare THEN [value |-> g.spare, g |-> [g EXCEPT !.hasSpare = FALSE]]
  ELSE LET pair == InCircle(g)
       IN  [value |-> <<pair.value[1], pair.value>>,
            g |-> [pair.g EXCEPT !.hasSpare = TRUE, !.spare = <<pair.value[2], pair.value>>]]
Lognormal(g) == Gauss(g)
\* What a logarithm or a quotient is taken of is never 0.
RECURSIVE Positive(_)
Positive(g) == LET d == Fraction(g) IN IF d.value = 0 THEN Positive(d.g) ELSE d
Expo(g) == Positive(g)
Pareto(g) == Positive(g)
Weibull(g) == Positive(g)

------------------------------------------------------------------------------
(***************************************************************************)
(* secrets/secrets.c: random values from the system's source. The source   *)
(* is given as what it answers: a sequence of words or bytes, FAIL where   *)
(* it cannot be read; a function takes as many as it needs.                *)
(***************************************************************************)

CONSTANTS SECRETS_BYTE,     \* 256
          WORDS     \* 2^32 or 2^64: how many values a word has

FAIL == -1

\* The source is read until there is enough; what it answers is how many bytes
\* there were, and a 0 or less ends it.
RECURSIVE TokenBytes(_, _, _)
TokenBytes(size, got, reads) ==
  IF got >= size THEN [done |-> TRUE, bytes |-> size]
  ELSE IF reads = <<>> \/ Head(reads) <= 0 THEN [done |-> FALSE, bytes |-> 0]
  ELSE TokenBytes(size, got + (IF Head(reads) > size - got THEN size - got ELSE Head(reads)), Tail(reads))

\* A word past the last multiple of n is drawn again.
Limit(n) == ((WORDS - 1) \div n) * n
RECURSIVE SecretsUniform(_, _)
SecretsUniform(n, source) ==
  IF source = <<>> \/ Head(source) = FAIL THEN FAIL
  ELSE IF Head(source) >= Limit(n) THEN SecretsUniform(n, Tail(source)) ELSE Head(source) % n
RandBelow(n, source) == IF n <= 0 THEN 0 ELSE SecretsUniform(n, source)
RandBelowSize(n, source) == IF n = 0 THEN FAIL ELSE SecretsUniform(n, source)
RandBits(k, source) ==
  IF k <= 0 \/ 2 ^ k > WORDS \/ source = <<>> \/ Head(source) = FAIL THEN 0 ELSE Head(source) % 2 ^ k
SecretsChoice(seq, source) == IF seq = <<>> \/ SecretsUniform(Len(seq), source) = FAIL THEN <<>> ELSE <<seq[SecretsUniform(Len(seq), source) + 1]>>

HexDigits(b) == <<b \div 16, b % 16>>
RECURSIVE TokenHex(_)
TokenHex(bytes) == IF bytes = <<>> THEN <<>> ELSE HexDigits(Head(bytes)) \o TokenHex(Tail(bytes))
TokenUrlsafe(bytes, letters) == [i \in DOMAIN bytes |-> bytes[i] % letters]

\* Mutant: every value is reduced to a letter.
AcceptedToLast(alen) == SECRETS_BYTE
Accepted(alen) == (SECRETS_BYTE \div alen) * alen
RECURSIVE LettersFrom(_, _, _)
LettersFrom(length, alen, pool) ==
  IF length = 0 THEN <<>>
  ELSE IF pool = <<>> \/ Head(pool) = FAIL THEN <<FAIL>>
  ELSE IF Head(pool) >= Accepted(alen) THEN LettersFrom(length, alen, Tail(pool))
  ELSE <<Head(pool) % alen>> \o LettersFrom(length - 1, alen, Tail(pool))
\* The letters' indexes, of an alphabet of at most BYTE; <<>> when the source fails before there are enough
TokenFromAlphabet(length, alen, pool) ==
  LET letters == LettersFrom(length, alen, pool)
  IN  IF alen = 0 \/ (letters # <<>> /\ letters[Len(letters)] = FAIL) THEN [done |-> length = 0, letters |-> <<>>]
      ELSE [done |-> TRUE, letters |-> letters]

CompareDigest(a, b) == \A i \in DOMAIN a : a[i] = b[i]

------------------------------------------------------------------------------
(***************************************************************************)
(* uuid/uuid.c: the message digests behind the name-based UUIDs, fed in    *)
(* pieces. ctx is [state, count, buffer]: the blocks that were transformed *)
(* (the arithmetic of a transform is left out: the state stands for all    *)
(* that went into it), how many bytes there were, and the buffer, of which *)
(* the first count % BLOCK bytes wait.                                     *)
(***************************************************************************)

CONSTANTS BLOCK,    \* 64
          LENGTH    \* 8: the bytes the length takes at the end

Init == [state |-> <<>>, count |-> 0, buffer |-> [i \in 1..BLOCK |-> 0]]
Filled(buffer, from, bytes) == [i \in 1..BLOCK |-> IF i - from \in DOMAIN bytes THEN bytes[i - from] ELSE buffer[i]]
RECURSIVE Blocks(_, _)
Blocks(ctx, data) ==
  IF Len(data) < BLOCK THEN [ctx EXCEPT !.buffer = Filled(@, 0, data)]
  ELSE Blocks([ctx EXCEPT !.state = Append(@, SubSeq(data, 1, BLOCK))], SubSeq(data, BLOCK + 1, Len(data)))
Update(ctx, data) ==
  LET have == ctx.count % BLOCK
      need == BLOCK - have
      counted == [ctx EXCEPT !.count = @ + Len(data)]
      full == Filled(ctx.buffer, have, SubSeq(data, 1, need))
  IN  IF have = 0 THEN Blocks(counted, data)
      ELSE IF Len(data) < need THEN [counted EXCEPT !.buffer = Filled(@, have, data)]
      ELSE Blocks([counted EXCEPT !.state = Append(@, full), !.buffer = full], SubSeq(data, need + 1, Len(data)))
RECURSIVE Padded(_)
Padded(ctx) == IF ctx.count % BLOCK = BLOCK - LENGTH THEN ctx ELSE Padded(Update(ctx, <<0>>))
\* A 1 bit, zeros, and the length in bits: MD5 has its lowest byte first.
Md5Final(ctx) ==
  LET bits == ctx.count * 8 IN Update(Padded(Update(ctx, <<128>>)), [i \in 1..LENGTH |-> (bits \div 256 ^ (i - 1)) % 256]).state
Sha1Final(ctx) ==
  LET bits == ctx.count * 8 IN Update(Padded(Update(ctx, <<128>>)), [i \in 1..LENGTH |-> (bits \div 256 ^ (LENGTH - i)) % 256]).state

------------------------------------------------------------------------------
(***************************************************************************)
(* uuid/uuid.c: sixteen bytes, made from random ones, the time or a name,  *)
(* and written as text. Texts are sequences of character codes; NONE is    *)
(* what is not parsed.                                                     *)
(***************************************************************************)

NONE == <<>>
DASH == 45
HEX == (48..57) \union (65..70) \union (97..102)

Nil == [i \in 1..16 |-> 0]
MaxUuid == [i \in 1..16 |-> 255]
MakeNamespace(octet3) == <<107, 167, 184, octet3, 157, 173, 17, 209, 128, 180, 0, 192, 79, 212, 48, 200>>
NamespaceDns == MakeNamespace(16)
NamespaceUrl == MakeNamespace(17)
NamespaceOid == MakeNamespace(18)
NamespaceX500 == MakeNamespace(20)

SetVersionVariant(u, version) == [u EXCEPT ![7] = (@ % 16) + 16 * version, ![9] = (@ % 64) + 128]
V4(random) == SetVersionVariant(random, 4)
\* The time is six digits to the base of 256, random ten more bytes.
V7(ms, random) == SetVersionVariant(ms \o random, 7)
V3(digest) == SetVersionVariant(SubSeq(digest, 1, 16), 3)
V5(digest) == SetVersionVariant(SubSeq(digest, 1, 16), 5)
Version(u) == u[7] \div 16
Variant(u) ==
  IF u[9] < 128 THEN "NCS" ELSE IF u[9] < 192 THEN "RFC4122" ELSE IF u[9] < 224 THEN "MICROSOFT" ELSE "FUTURE"
V7TimestampMs(u) == IF Version(u) # 7 THEN [i \in 1..6 |-> 0] ELSE SubSeq(u, 1, 6)

ToString(u) ==
  Ext!FlattenSeq([i \in 1..16 |-> (IF i \in {5, 7, 9, 11} THEN <<DASH>> ELSE <<>>) \o <<J!T!HexDigit(u[i] \div 16), J!T!HexDigit(u[i] % 16)>>])
Prefix == <<117, 114, 110, 58, 117, 117, 105, 100, 58>>
ToUrn(u) == Prefix \o ToString(u)
CiPrefix(text, prefix) == Len(prefix) <= Len(text) /\ J!T!ToLower(SubSeq(text, 1, Len(prefix))) = J!T!ToLower(prefix)
\* After the prefix, and without the braces around it: thirty-two digits, with
\* dashes wherever they are.
FromString(text) ==
  LET bare == IF CiPrefix(text, Prefix) THEN SubSeq(text, Len(Prefix) + 1, Len(text)) ELSE text
      inner == IF Len(bare) >= 2 /\ bare[1] = 123 /\ bare[Len(bare)] = 125 THEN SubSeq(bare, 2, Len(bare) - 1) ELSE bare
      digits == SelectSeq(inner, LAMBDA c : c # DASH)
  IN  IF Len(digits) # 32 \/ ~(Ext!ToSet(digits) \subseteq HEX) THEN NONE
      ELSE [i \in 1..16 |-> J!T!HexOf(digits[2 * i - 1]) * 16 + J!T!HexOf(digits[2 * i])]
ToBytes(u) == u
FromBytes(bytes) == bytes
IsNil(u) == \A i \in 1..16 : u[i] = 0
IsMax(u) == \A i \in 1..16 : u[i] = 255
Equal(a, b) == \A i \in 1..16 : a[i] = b[i]
Compare(a, b) ==
  LET i == CHOOSE i \in 1..16 : a[i] # b[i] /\ \A j \in 1..i - 1 : a[j] = b[j]
  IN  IF Equal(a, b) THEN 0 ELSE IF a[i] < b[i] THEN -1 ELSE 1

------------------------------------------------------------------------------
(***************************************************************************)
(* What the makers of random values promise: values in their range, none   *)
(* likelier than another where the source is not, the same ones again      *)
(* after the same seed; and UUIDs that are read as they were written.      *)
(***************************************************************************)
\* ------------------------------------------------------------- generator --
ABC == <<"a", "b", "c", "d">>
RandomCalls(g) ==
  {PrngNext32(g).g, Gauss(g).g, Randbytes(g, 5).g, Shuffle(g, ABC).g, Seed(g, 0), Seed(g, 5), SetState(g, 0), SetState(g, 11)}
\* The functions that draw, but for random_gauss
Sequence(g) ==
  <<Randint(g, -2, 5).value, Randrange(g, 10, -1, -3).value, Randbytes(g, 6).value, Shuffle(g, ABC).value,
    Sample(g, ABC, 3).value, Choices(g, ABC, <<0, 2, 0, 1>>, 4).value, Expo(g).value>>
InRange(g) ==
  /\ GetState(g) \in 0..RANGE - 1 /\ PrngNext32(g).value \in 1..RANGE - 1
  /\ \A a, b \in -2..2 : /\ LET lo == IF a < b THEN a ELSE b
                                hi == IF a < b THEN b ELSE a
                            IN  /\ Randint(g, a, b).value \in lo..hi
                                /\ RandomUniform(g, a, b).value \in lo * RANGE..hi * RANGE
                         /\ a < b => \A step \in {1, 2} :
                              LET r == Randrange(g, a, b, step).value IN (r - a) % step = 0 /\ r >= a /\ r < b
  /\ \A bits \in 1..3 : Getrandbits(g, bits).value \in 0..2 ^ bits - 1
  /\ Boolean(g, 0, 4).value = FALSE /\ Boolean(g, 4, 4).value = TRUE /\ Expo(g).value > 0
  /\ LET mixed == Shuffle(g, ABC).value
         some == Sample(g, ABC, 3).value
     IN  /\ Ext!ToSet(mixed) = Ext!ToSet(ABC) /\ Len(mixed) = 4
         /\ Len(some) = 3 /\ Cardinality(Ext!ToSet(some)) = 3 /\ Ext!ToSet(some) \subseteq Ext!ToSet(ABC)
  /\ Ext!ToSet(Choices(g, ABC, <<0, 2, 0, 1>>, 4).value) \subseteq {"b", "d"}
  /\ \A n \in 0..9 : LET bytes == Randbytes(g, n).value IN Len(bytes) = n /\ Ext!ToSet(bytes) \subseteq 0..1
\* The sequence after a seed or a state that was saved does not depend on what
\* was drawn before. That is so of every function but random_gauss, whose spare value
\* is drawn before the seed and handed out after it: see GaussReproducible.
Reproducible(g) ==
  /\ \A seed \in 0..4 : Sequence(Seed(g, seed)) = Sequence(Seed(Initial, seed))
  /\ LET later == Randbytes(Gauss(g).g, 9).g IN Sequence(SetState(later, GetState(g))) = Sequence(g)
\* What random.c:57 says of a seed, of random_gauss
GaussReproducible(g) == \A seed \in 0..4 : Gauss(Seed(g, seed)).value = Gauss(Seed(Initial, seed)).value
\* What random.c:111 says random_randrange returns for a step below 0, by which it goes down
StepsBelowZeroRefused(g) == \A a, b \in 0..4, step \in {-2, -1} : Randrange(g, a, b, step).value = -1

\* ---------------------------------------------------------------- secrets --
\* Every value is what the same number of words, or bytes, lead to.
Fair(n) ==
  LET words(r) == Cardinality({w \in 0..15 : RandBelow(n, <<w>>) = r})
      letters(r) == Cardinality({b \in 0..15 : TokenFromAlphabet(1, n, <<b>>).letters = <<r>>})
  IN  \A r \in 0..n - 1 : /\ words(r) = words(0) /\ words(r) > 0
                          /\ letters(r) = letters(0) /\ letters(r) > 0
SecretLaws(source) ==
  /\ \A n \in 1..9 : RandBelow(n, source) \in {FAIL} \union (0..n - 1) /\ RandBelowSize(n, source) = RandBelow(n, source)
  /\ \A k \in 1..4 : RandBits(k, source) \in 0..2 ^ k - 1
  /\ \A n \in 1..7 : LET token == TokenFromAlphabet(2, n, source)
                     IN  IF token.done THEN Len(token.letters) = 2 /\ Ext!ToSet(token.letters) \subseteq 0..n - 1 ELSE token.letters = <<>>
  /\ \A size \in 0..4 : LET read == TokenBytes(size, 0, source)
                        IN  read.done = (read.bytes = size /\ \E k \in 0..Len(source) : /\ \A i \in 1..k : source[i] > 0
                                                                                          /\ Ext!FoldLeft(LAMBDA a, b : a + b, 0, SubSeq(source, 1, k)) >= size)
                            /\ read.bytes \in {0, size}
  /\ \A other \in {source, [i \in DOMAIN source |-> source[i] + 1]} : CompareDigest(source, other) = (source = other)

\* ---------------------------------------------------------------- digests --
\* As one message padded, however it was cut in pieces
PaddedMessage(data, highFirst) ==
  LET n == Len(data)
      zeros == CHOOSE z \in 0..4 : (n + 1 + z + 2) % 5 = 0
      length == IF highFirst THEN <<(8 * n) \div 256, (8 * n) % 256>> ELSE <<(8 * n) % 256, (8 * n) \div 256>>
  IN  data \o <<128>> \o [i \in 1..zeros |-> 0] \o length
DigestLaws(data) ==
  \A i \in 0..Len(data), j \in 0..Len(data) : i <= j =>
    LET pieces == Update(Update(Update(Init, SubSeq(data, 1, i)), SubSeq(data, i + 1, j)), SubSeq(data, j + 1, Len(data)))
    IN  /\ Ext!FlattenSeq(Md5Final(pieces)) = PaddedMessage(data, FALSE)
        /\ Ext!FlattenSeq(Sha1Final(pieces)) = PaddedMessage(data, TRUE)

\* ------------------------------------------------------------------ UUIDs --
Uuids == {Nil, MaxUuid, NamespaceDns, NamespaceX500}
UuidCalls(u) == {[u EXCEPT ![i] = b] : i \in {1, 7, 9, 16}, b \in {0, 10, 96, 191, 255}}
UuidLaws(u) ==
  LET text == ToString(u)
      inBraces == <<123>> \o J!T!ToUpper(text) \o <<125>>
  IN  /\ Len(text) = 36 /\ FromString(text) = u /\ FromString(ToUrn(u)) = u
      /\ FromString(inBraces) = u /\ FromString(J!T!ToUpper(ToUrn(u))) = u
      /\ FromString(SubSeq(text, 1, 35)) = NONE /\ FromString(text \o <<48>>) = NONE /\ FromString(SubSeq(inBraces, 1, 37)) = NONE
      /\ \A v \in Uuids : /\ Compare(u, v) = J!T!StrCmp(text, ToString(v))
                          /\ Compare(u, v) = -Compare(v, u) /\ (Compare(u, v) = 0) = Equal(u, v)
      /\ IsNil(u) = (u = Nil) /\ IsMax(u) = (u = MaxUuid) /\ FromBytes(ToBytes(u)) = u
      /\ \A made \in {V3(u \o u), V4(u), V5(u \o <<1, 2, 3, 4>>), V7(SubSeq(u, 1, 6), SubSeq(u, 7, 16))} :
           Variant(made) = "RFC4122" /\ FromString(ToString(made)) = made
      /\ Version(V3(u)) = 3 /\ Version(V4(u)) = 4 /\ Version(V5(u)) = 5
      /\ V7TimestampMs(V7(SubSeq(u, 1, 6), SubSeq(u, 7, 16))) = SubSeq(u, 1, 6)
==============================================================================
