---------------------------- MODULE TrialDivision ----------------------------
(***************************************************************************)
(* obtenerPrimos and esPrimo of src/primos/app.js: the two nested loops    *)
(* that answer GET /primos/:number.  A search is a record: the bound n,    *)
(* the loop variable i of obtenerPrimos, the loop variable d of esPrimo    *)
(* (called i there; 0 while its loop has not been entered), and the primes *)
(* found so far.  Turn is one turn of either loop.                         *)
(***************************************************************************)
EXTENDS Integers, Sequences

Search(n) == [n |-> n, i |-> 2, d |-> 0, primos |-> <<>>]

Over(s) == s.d = 0 /\ s.i > s.n

\* The first divisors are tried before the loop, then d and d + 2 of six.
\* The mutants step past 7 and stop before the square.
TriesOne(s) == s.i % s.d = 0
Divided(s) ==
  \/ s.i % s.d = 0
  \/ s.i % (s.d + 2) = 0

StopsEarly(s) == s.d * s.d >= s.i
PastRoot(s) == s.d * s.d > s.i

Rejects(s) ==
  \/ s.d = 0 /\ s.i <= 1
  \/ s.d = 0 /\ s.i > 3 /\ (s.i % 2 = 0 \/ s.i % 3 = 0)
  \/ s.d > 0 /\ ~PastRoot(s) /\ Divided(s)

Accepts(s) ==
  \/ s.d = 0 /\ s.i \in {2, 3}
  \/ s.d > 0 /\ PastRoot(s)

NextNumber(s, found) ==
  [n |-> s.n, i |-> s.i + 1, d |-> 0, primos |-> found]

NextDivisor(s) == [s EXCEPT !.d = IF @ = 0 THEN 5 ELSE @ + 6]

Turn(s) ==
  IF Rejects(s) THEN NextNumber(s, s.primos)
  ELSE IF Accepts(s) THEN NextNumber(s, Append(s.primos, s.i))
  ELSE NextDivisor(s)

-----------------------------------------------------------------------------
\* What the loops should compute, from the definition of a prime.
IsPrime(p) == p >= 2 /\ \A e \in 2 .. (p - 1) : p % e # 0

ListsPrimes(s, n) ==
  /\ \A j, k \in 1 .. Len(s) : j < k => s[j] < s[k]
  /\ \A p \in 2 .. n : IsPrime(p) <=> \E k \in 1 .. Len(s) : s[k] = p
  /\ \A k \in 1 .. Len(s) : s[k] \in 2 .. n
=============================================================================
