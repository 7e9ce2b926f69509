------------------------------- MODULE Primes ------------------------------
(***************************************************************************)
(* Curiosity/prime_number_concept.cpp: a number is tested at compile time  *)
(* by a fold over the divisors 2 .. isqrt(N) + 1, where isqrt counts       *)
(* leading zeros and makes three steps of Newton's method without a loop.  *)
(* Numbers have 32 bits; those below 2^30 are in TLC's range.              *)
(* meta-programming/primer.cpp: the same with templates only, whose        *)
(* recursion halves the range of the divisors to stay within the depth     *)
(* that compilers accept.                                                  *)
(***************************************************************************)
EXTENDS Integers

\* The n leading zeros are known; are there k more? The code shifts x by n and
\* masks the k upper bits.
Count(x, n, k) == IF x \div 2 ^ (32 - n - k) = 0 THEN n + k ELSE n

clz(x) ==
  IF x = 0 THEN 32
  ELSE Count(x, Count(x, Count(x, Count(x, Count(x, 0, 16), 8), 4), 2), 1)

Newton(N, xn) == (xn + N \div xn) \div 2

\* Faulty: only two steps.
isqrtTwice(N) ==
  IF N = 0 THEN 0
  ELSE Newton(N, Newton(N, 2 ^ ((32 - clz(N)) \div 2)))

isqrt(N) ==
  IF N = 0 THEN 0
  ELSE Newton(N, Newton(N, Newton(N, 2 ^ ((32 - clz(N)) \div 2))))

\* Faulty: the divisor 2 is left out.
IsPrimeOdd(N) == \A M \in 1 .. isqrt(N) - 1 : N % (M + 2) /= 0

\* The fold over integer_sequence 0 .. isqrt(N) - 1, for IsPrime and isPrime.
IsPrime(N) == \A M \in 0 .. isqrt(N) - 1 : N % (M + 2) /= 0

-----------------------------------------------------------------------------
BoolInt(b) == IF b THEN 1 ELSE 0

RECURSIVE TESTPRIME_PART(_, _, _, _)

\* Faulty: the upper half is not asked.
HalvesLower(I, MIN, MAX) ==
  TESTPRIME_PART(I, BoolInt((MAX + MIN - 1) \div 2 = MIN), MIN * BoolInt(MIN * MIN <= I),
       ((MAX + MIN - 1) \div 2) * BoolInt(MIN * MIN <= I))

\* The primary template: the upper half, then the lower one of I or of 0 when
\* the upper half has a divisor; none is asked if MIN * MIN is above I.
Halves(I, MIN, MAX) ==
  LET midsup == (MAX + MIN + 1) \div 2
      midinf == (MAX + MIN - 1) \div 2
      int_OK == BoolInt(MIN * MIN <= I)
      cont2 == TESTPRIME_PART(I, BoolInt(midsup = MAX), midsup * int_OK, MAX * int_OK)
  IN  TESTPRIME_PART(I * cont2, BoolInt(midinf = MIN), MIN * int_OK, midinf * int_OK)

\* TESTPRIME_PART<I, TEST, MIN, MAX>::test with its specialisations, two of
\* which would be ambiguous; 2 stands for that.
TESTPRIME_PART(I, TEST, MIN, MAX) ==
  CASE I = 0 /\ MIN = 0 /\ MAX = 0 -> 2
    [] I = 0 /\ (MIN /= 0 \/ MAX /= 0) -> 0
    [] I /= 0 /\ MIN = 0 /\ MAX = 0 -> 1
    [] I /= 0 /\ TEST = 1 /\ MIN /= 0 -> BoolInt(I % MIN /= 0)
    [] OTHER -> Halves(I, MIN, MAX)

TESTPRIME(I) == TESTPRIME_PART(I, 0, 2, I)

\* A number of RANGE_TESTPRIME, odd ones only.
RANGE_TESTPRIME(MIN) ==
  LET go == MIN % 2 IN TESTPRIME_PART(MIN * go, BoolInt(2 = MIN - 1), 2, MIN - 1)

-----------------------------------------------------------------------------
\* isqrt is the square root of N, rounded down, or one more: the fold has the
\* root among its divisors and hardly more than it needs.
RootOrNext(N) ==
  LET r == isqrt(N) IN N < (r + 1) * (r + 1) /\ (r = 0 \/ (r - 1) * (r - 1) <= N)

\* The tests tell the primes from 3 on. (0 and 1 pass IsPrime, 2 does not.)
\* Those of primer.cpp are compiled while no MIN * MIN is above an int.
TellsPrimes(N) ==
  LET prime == ~\E d \in 2 .. 32767 : d * d <= N /\ N % d = 0 IN
  /\ RootOrNext(N)
  /\ N >= 3 => (IsPrime(N) <=> prime)
  /\ N \in 3 .. 2 * 46340 => TESTPRIME(N) = BoolInt(prime) /\ RANGE_TESTPRIME(N) = BoolInt(prime)
=============================================================================
