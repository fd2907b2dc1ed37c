------------------------ MODULE ExpressServiceProofs ------------------------
(***************************************************************************)
(* The loops of primos compute the primes, every turn of them preserving   *)
(* what a search has established; and the services answer with exactly the *)
(* primes asked for, and shut down without leaving an accepted request, for*)
(* any clients and numbers.                                                *)
(***************************************************************************)
EXTENDS ExpressServiceProperties, TLAPS

(* The loops. *)

\* Arithmetic: the quotient, a multiple has no remainder, and what divides
\* a divisor divides the number.
LEMMA Quotient ==
  ASSUME NEW a \in Nat, NEW b \in Nat \ {0}
  PROVE  /\ a \div b \in Nat
         /\ a % b \in 0 .. (b - 1)
         /\ a = (b * (a \div b)) + (a % b)
  OBVIOUS

\* A multiple leaves no remainder.
LEMMA Multiple ==
  ASSUME NEW k \in Nat, NEW b \in Nat \ {0}
  PROVE  (b * k) % b = 0
  OBVIOUS

\* Products may be grouped either way, which SMT does not find by itself.
LEMMA Associative ==
  ASSUME NEW x \in Int, NEW y \in Int, NEW z \in Int
  PROVE  (x * y) * z = x * (y * z)
  OBVIOUS

\* A divisor of a divisor divides.
LEMMA DivisorOfDivisor ==
  ASSUME NEW a \in Nat, NEW b \in Nat \ {0}, NEW c \in Nat \ {0},
         a % b = 0, b % c = 0
  PROVE  a % c = 0
<1>1. a \div b \in Nat /\ a = b * (a \div b)
  BY Quotient
<1>2. b \div c \in Nat /\ b = c * (b \div c)
  BY Quotient
<1> DEFINE x == b \div c
           y == a \div b
<1> HIDE DEF x, y
<1>3. x \in Nat /\ y \in Nat /\ a = b * y /\ b = c * x
  BY <1>1, <1>2 DEF x, y
<1>4. a = (c * x) * y
  BY <1>3
<1>5. x * y \in Nat /\ a = c * (x * y)
  BY <1>3, <1>4, Associative
<1> QED
  BY <1>5, Multiple

\* A number that nothing below d divides is prime once d * d exceeds it: of
\* two factors one would be below d.
LEMMA NoDivisorUpToRoot ==
  ASSUME NEW p \in Nat, NEW d \in Nat, p >= 2, d * d > p,
         \A e \in 2 .. (d - 1) : p % e # 0
  PROVE  IsPrime(p)
<1> SUFFICES ASSUME NEW e \in 2 .. (p - 1), p % e = 0
             PROVE  FALSE
  BY DEF IsPrime
<1> DEFINE f == p \div e
<1>1. e \in Nat \ {0} /\ f \in Nat /\ p = e * f
  BY Quotient
<1> HIDE DEF f
<1>2. f >= 2 /\ f <= p - 1
  <2>1. f # 0 /\ f # 1
    BY <1>1
  <2>2. e * f >= 2 * f
    BY <1>1
  <2> QED
    BY <1>1, <2>1, <2>2
<1>3. p % f = 0
  <2>1. p = f * e /\ f \in Nat \ {0}
    BY <1>1, <1>2
  <2>2. (f * e) % f = 0
    BY <1>1, <2>1, Multiple
  <2> QED
    BY <2>1, <2>2
<1>4. ASSUME NEW x \in 2 .. (p - 1), p % x = 0
      PROVE  x >= d
  <2>1. x \notin 2 .. (d - 1)
    BY <1>4
  <2> QED
    BY <2>1
<1>5. e >= d /\ f >= d
  <2>1. f \in 2 .. (p - 1)
    BY <1>1, <1>2
  <2> QED
    BY <1>3, <1>4, <2>1
<1>6. e * f >= d * d
  <2>1. e * f >= e * d
    BY <1>1, <1>5
  <2>2. e * d >= d * d
    BY <1>1, <1>5
  <2> QED
    BY <1>1, <2>1, <2>2
<1> QED
  BY <1>1, <1>6

\* Of six numbers from d on, d and d + 2 are the only ones that neither 2
\* nor 3 divides when d is 5 modulo 6, so the loop may skip the others.
LEMMA SixFurther ==
  ASSUME NEW p \in Nat, NEW d \in Nat, d % 6 = 5,
         p % 2 # 0, p % 3 # 0, p % d # 0, p % (d + 2) # 0,
         \A e \in 2 .. (d - 1) : p % e # 0
  PROVE  \A e \in 2 .. ((d + 6) - 1) : p % e # 0
<1> TAKE e \in 2 .. ((d + 6) - 1)
<1>1. CASE e <= d - 1
  BY <1>1
<1>2. CASE e \in {d, d + 2}
  BY <1>2
<1>3. CASE e \in {d + 1, d + 3, d + 5}
  <2>1. e \in Nat \ {0} /\ 2 \in Nat \ {0} /\ e % 2 = 0
    BY <1>3
  <2>2. p % e = 0 => p % 2 = 0
    BY <2>1, DivisorOfDivisor
  <2> QED
    BY <2>2
<1>4. CASE e = d + 4
  <2>1. e \in Nat \ {0} /\ 3 \in Nat \ {0} /\ e % 3 = 0
    BY <1>4
  <2>2. p % e = 0 => p % 3 = 0
    BY <2>1, DivisorOfDivisor
  <2> QED
    BY <2>2
<1> QED
  BY <1>1, <1>2, <1>3, <1>4

-----------------------------------------------------------------------------
SearchRecords == [n : Nat, i : Nat, d : Nat, primos : Seq(Nat)]

\* What esPrimo knows in its loop: no divisor below d.
Tried(s) ==
  s.d # 0 =>
    /\ s.d % 6 = 5 /\ s.i <= s.n
    /\ s.i % 2 # 0 /\ s.i % 3 # 0
    /\ \A e \in 2 .. (s.d - 1) : s.i % e # 0

\* The invariant of a search: the primes below i are listed.
Sound(s) ==
  /\ s \in SearchRecords
  /\ s.i >= 2 /\ (s.i = 2 \/ s.i <= s.n + 1)
  /\ Tried(s)
  /\ ListsPrimes(s.primos, s.i - 1)

\* A search starts sound.
LEMMA SearchSound == ASSUME NEW n \in Nat PROVE Sound(Search(n))
  BY DEF Search, Sound, SearchRecords, Tried, ListsPrimes

\* A composite number leaves the list as it is.
LEMMA SkipComposite ==
  ASSUME NEW s, Sound(s), ~IsPrime(s.i)
  PROVE  ListsPrimes(s.primos, s.i)
<1>1. \A p \in 2 .. s.i : p = s.i \/ p \in 2 .. (s.i - 1)
  BY DEF Sound, SearchRecords
<1>2. \A k \in 1 .. Len(s.primos) : s.primos[k] # s.i
  BY DEF Sound, SearchRecords, ListsPrimes
<1> QED
  BY <1>1, <1>2 DEF Sound, SearchRecords, ListsPrimes

\* A prime is appended to it.
LEMMA AppendPrime ==
  ASSUME NEW s, Sound(s), IsPrime(s.i)
  PROVE  ListsPrimes(Append(s.primos, s.i), s.i)
<1> DEFINE t == Append(s.primos, s.i)
           l == Len(s.primos)
<1>1. /\ s.primos \in Seq(Nat) /\ s.i \in Nat /\ l \in Nat
      /\ s.i >= 2
  BY DEF Sound, SearchRecords
<1>2. /\ \A j, k \in 1 .. l : j < k => s.primos[j] < s.primos[k]
      /\ \A k \in 1 .. l : s.primos[k] \in 2 .. (s.i - 1)
      /\ \A p \in 2 .. (s.i - 1) : IsPrime(p) <=> \E k \in 1 .. l : s.primos[k] = p
  BY DEF Sound, ListsPrimes
<1>3. /\ Len(t) = l + 1 /\ t[l + 1] = s.i
      /\ \A k \in 1 .. l : t[k] = s.primos[k]
  BY <1>1
<1> HIDE DEF t, l
<1>4. ASSUME NEW j \in 1 .. Len(t), NEW k \in 1 .. Len(t), j < k
      PROVE  t[j] < t[k]
  <2>1. j \in 1 .. l /\ (k \in 1 .. l \/ k = l + 1)
    BY <1>1, <1>3, <1>4
  <2>2. t[j] = s.primos[j] /\ s.primos[j] \in 2 .. (s.i - 1)
    BY <1>2, <1>3, <2>1
  <2>3. CASE k \in 1 .. l
    BY <1>2, <1>3, <1>4, <2>1, <2>2, <2>3
  <2>4. CASE k = l + 1
    BY <1>1, <1>3, <2>2, <2>4
  <2> QED
    BY <2>1, <2>3, <2>4
<1>5. ASSUME NEW k \in 1 .. Len(t)
      PROVE  t[k] \in 2 .. s.i
  <2>1. k \in 1 .. l \/ k = l + 1
    BY <1>1, <1>3
  <2>2. CASE k \in 1 .. l
    BY <1>1, <1>2, <1>3, <2>2
  <2>3. CASE k = l + 1
    BY <1>1, <1>3, <2>3
  <2> QED
    BY <2>1, <2>2, <2>3
<1>6. ASSUME NEW p \in 2 .. s.i
      PROVE  IsPrime(p) <=> \E k \in 1 .. Len(t) : t[k] = p
  <2>1. CASE p = s.i
    <3>1. l + 1 \in 1 .. Len(t) /\ t[l + 1] = p
      BY <1>1, <1>3, <2>1
    <3> QED
      BY <2>1, <3>1
  <2>2. CASE p # s.i
    <3>1. p \in 2 .. (s.i - 1)
      BY <1>1, <2>2
    <3>2. IsPrime(p) <=> \E k \in 1 .. l : s.primos[k] = p
      BY <1>2, <3>1
    <3>3. \A k \in 1 .. Len(t) : t[k] = p <=> (k \in 1 .. l /\ s.primos[k] = p)
      BY <1>1, <1>3, <2>2
    <3>4. 1 .. l \subseteq 1 .. Len(t)
      BY <1>1, <1>3
    <3> QED
      BY <3>2, <3>3, <3>4
  <2> QED
    BY <2>1, <2>2
<1> QED
  BY <1>4, <1>5, <1>6 DEF ListsPrimes, t

\* What is rejected is not prime.
LEMMA RejectsComposites ==
  ASSUME NEW s, Sound(s), Rejects(s)
  PROVE  ~IsPrime(s.i)
<1>1. s.i \in Nat /\ s.d \in Nat /\ s.i >= 2 /\ Tried(s)
  BY DEF Sound, SearchRecords
<1>2. CASE s.d = 0 /\ s.i > 3 /\ (s.i % 2 = 0 \/ s.i % 3 = 0)
  <2>1. 2 \in 2 .. (s.i - 1) /\ 3 \in 2 .. (s.i - 1)
    BY <1>1, <1>2
  <2> QED
    BY <1>2, <2>1 DEF IsPrime
<1>3. CASE s.d > 0 /\ ~PastRoot(s) /\ Divided(s)
  <2>1. s.d % 6 = 5
    BY <1>1, <1>3 DEF Tried
  <2>2. s.d >= 5
    BY <1>1, <2>1
  <2>3. s.d * s.d <= s.i
    BY <1>1, <1>3 DEF PastRoot
  <2>4. s.d * s.d >= 5 * s.d
    BY <1>1, <2>2
  <2>5. s.d \in 2 .. (s.i - 1) /\ s.d + 2 \in 2 .. (s.i - 1)
    <3>1. s.i >= 5 * s.d
      BY <1>1, <2>3, <2>4
    <3> HIDE <2>3, <2>4
    <3> QED
      BY <1>1, <2>2, <3>1
  <2> QED
    BY <1>3, <2>5 DEF Divided, IsPrime
<1> QED
  BY <1>1, <1>2, <1>3 DEF Rejects

\* What is accepted is prime.
LEMMA AcceptsPrimes ==
  ASSUME NEW s, Sound(s), Accepts(s)
  PROVE  IsPrime(s.i)
<1>1. s.i \in Nat /\ s.d \in Nat /\ s.i >= 2 /\ Tried(s)
  BY DEF Sound, SearchRecords
<1>2. CASE s.d = 0 /\ s.i \in {2, 3}
  BY <1>2 DEF IsPrime
<1>3. CASE s.d > 0 /\ PastRoot(s)
  <2>1. s.d * s.d > s.i
    BY <1>3 DEF PastRoot
  <2>2. \A e \in 2 .. (s.d - 1) : s.i % e # 0
    BY <1>1, <1>3 DEF Tried
  <2> QED
    BY <1>1, <2>1, <2>2, NoDivisorUpToRoot
<1> QED
  BY <1>2, <1>3 DEF Accepts

\* A turn of the loops keeps a search sound, and its bound.
THEOREM TurnSound ==
  ASSUME NEW s, Sound(s), ~Over(s)
  PROVE  Sound(Turn(s)) /\ Turn(s).n = s.n
<1>1. /\ s \in SearchRecords /\ s.n \in Nat /\ s.i \in Nat /\ s.d \in Nat
      /\ s.primos \in Seq(Nat) /\ s.i >= 2 /\ s.i <= s.n
  BY DEF Sound, SearchRecords, Over, Tried
<1>2. ASSUME NEW found \in Seq(Nat), ListsPrimes(found, s.i)
      PROVE  /\ Sound(NextNumber(s, found))
             /\ NextNumber(s, found).n = s.n
  <2> DEFINE t == NextNumber(s, found)
  <2>1. /\ t \in SearchRecords /\ t.n = s.n /\ t.i = s.i + 1
        /\ t.d = 0 /\ t.primos = found
    BY <1>1 DEF NextNumber, SearchRecords
  <2> HIDE DEF t
  <2>2. t.i - 1 = s.i
    BY <1>1, <2>1
  <2>3. Sound(t)
    BY <1>1, <1>2, <2>1, <2>2 DEF Sound, Tried
  <2> QED
    BY <2>1, <2>3 DEF t
<1>3. CASE Rejects(s)
  <2>1. Turn(s) = NextNumber(s, s.primos)
    BY <1>3 DEF Turn
  <2>2. ListsPrimes(s.primos, s.i)
    BY <1>3, RejectsComposites, SkipComposite
  <2> QED
    BY <1>1, <1>2, <2>1, <2>2
<1>4. CASE ~Rejects(s) /\ Accepts(s)
  <2> DEFINE found == Append(s.primos, s.i)
  <2>1. Turn(s) = NextNumber(s, found)
    BY <1>4 DEF Turn
  <2>2. found \in Seq(Nat)
    BY <1>1
  <2>3. ListsPrimes(found, s.i)
    BY <1>4, AcceptsPrimes, AppendPrime
  <2> HIDE DEF found
  <2> QED
    BY <1>2, <2>1, <2>2, <2>3
<1>5. CASE ~Rejects(s) /\ ~Accepts(s)
  <2>1. Turn(s) = [s EXCEPT !.d = IF s.d = 0 THEN 5 ELSE s.d + 6]
    BY <1>5 DEF Turn, NextDivisor
  <2>2. /\ Turn(s) \in SearchRecords /\ Turn(s).n = s.n /\ Turn(s).i = s.i
        /\ Turn(s).primos = s.primos
        /\ Turn(s).d = IF s.d = 0 THEN 5 ELSE s.d + 6
    BY <1>1, <2>1, SMTT(30) DEF SearchRecords
  <2>3. CASE s.d = 0
    <3>1. s.i > 3 /\ s.i % 2 # 0 /\ s.i % 3 # 0
      BY <1>1, <1>5, <2>3 DEF Rejects, Accepts
    <3>2. s.i % 4 # 0
      BY <1>1, <3>1
    <3>3. \A e \in 2 .. (5 - 1) : s.i % e # 0
      BY <3>1, <3>2
    <3>4. Tried(Turn(s))
      BY <1>1, <2>2, <2>3, <3>1, <3>3 DEF Tried
    <3> QED
      BY <1>1, <2>2, <3>4 DEF Sound
  <2>4. CASE s.d # 0
    <3>1. /\ s.d % 6 = 5 /\ s.i % 2 # 0 /\ s.i % 3 # 0
          /\ \A e \in 2 .. (s.d - 1) : s.i % e # 0
      BY <2>4 DEF Sound, Tried
    <3>2. s.i % s.d # 0 /\ s.i % (s.d + 2) # 0
      BY <1>1, <1>5, <2>4 DEF Rejects, Accepts, Divided
    <3>3. \A e \in 2 .. ((s.d + 6) - 1) : s.i % e # 0
      BY <1>1, <3>1, <3>2, SixFurther
    <3>4. (s.d + 6) % 6 = 5
      BY <1>1, <3>1
    <3>5. Tried(Turn(s))
      BY <1>1, <2>2, <2>4, <3>1, <3>3, <3>4 DEF Tried
    <3> QED
      BY <1>1, <2>2, <3>5 DEF Sound
  <2> QED
    BY <2>2, <2>3, <2>4
<1> QED
  BY <1>3, <1>4, <1>5

\* When the search is over it lists the primes up to its bound.
THEOREM SearchOver ==
  ASSUME NEW s, Sound(s), Over(s)
  PROVE  ListsPrimes(s.primos, s.n)
<1>1. s \in SearchRecords /\ s.i \in Nat /\ s.n \in Nat /\ s.i > s.n
  BY DEF Sound, SearchRecords, Over
<1>2. CASE s.i = s.n + 1
  BY <1>1, <1>2 DEF Sound
<1>3. CASE s.i = 2 /\ s.n < 1
  <2>1. 2 .. (s.i - 1) = {} /\ 2 .. s.n = {}
    BY <1>1, <1>3
  <2> QED
    BY <2>1 DEF Sound, ListsPrimes
<1> QED
  BY <1>1, <1>2, <1>3 DEF Sound

-----------------------------------------------------------------------------
(* The service. *)

Statuses == {200, 400, 404, 500}

Typed ==
  /\ image \in {"primos", "multiplica"}
  /\ phase \in {"serving", "closing", "exited", "crashed"}
  /\ sigterm \in BOOLEAN
  /\ conn \in [Clients -> {"none", "backlog", "fresh", "kept"}]
  /\ request \in [Clients -> Requests \cup {None}]
  /\ answer = [c \in Clients |-> answer[c]]
  /\ \A c \in Clients : answer[c] \notin {None, Cut} => answer[c].status \in Statuses
  /\ current \in Clients \cup {None}
  /\ search \in SearchRecords

\* While a handler computes, its search is sound and is for the number of
\* the request that it will answer, which nothing replaces meanwhile.
Working ==
  current # None =>
    /\ Pending(current) /\ Accepted(current)
    /\ Searches(request[current])
    /\ Sound(search) /\ search.n = request[current].arg

\* What waits has a connection, and none is left when the process exits.
Connected ==
  /\ \A c \in Clients : Pending(c) => conn[c] # "none"
  /\ phase = "exited" => \A c \in Clients : conn[c] = "none"

IInv == Typed /\ Working /\ Connected /\ PrimesRight

\* A request that starts a search asks for a natural number.
LEMMA SearchesNumber ==
  ASSUME NEW r \in Requests, Searches(r)
  PROVE  r.arg \in Nat
<1>1. r \in [route : {"number"}, arg : Numbers]
  BY DEF Requests, Searches
<1>2. r.arg \in Int \cup {NaN} /\ r.arg # NaN /\ ~(r.arg < 0)
  BY <1>1, ParsedAssumption DEF Searches, BadNumber
<1> QED
  BY <1>2

\* Answers given at once have a status of their own.
LEMMA ResponseStatus ==
  ASSUME NEW r \in Requests
  PROVE  Response(r).status \in Statuses
<1> USE DEF Response, Ok, Failed, consumirMemoria, Statuses
<1>1. CASE r.route = "number"
  BY <1>1
<1>2. CASE r.route = "load"
  BY <1>2
<1>3. CASE r.route \in {"health", "other"}
  BY <1>3
<1> QED
  BY <1>1, <1>2, <1>3 DEF Requests

\* The initial states satisfy the invariant.
LEMMA InitIInv == Init => IInv
<1> SUFFICES ASSUME Init PROVE IInv
  OBVIOUS
<1>1. Search(0) \in SearchRecords
  BY SearchSound DEF Sound
<1> QED
  BY <1>1, ParsedAssumption DEF Init, IInv, Typed, Working, Connected, PrimesRight, Pending

-----------------------------------------------------------------------------
\* Every step keeps it, one action at a time.
LEMMA ClientKeeps == ASSUME IInv, NEW c \in Clients, Client(c) PROVE IInv'
<1> USE DEF IInv, Client, Connect, Send, Leave, Pending
<1>1. Typed'
  BY DEF Typed, Alive
<1>2. \A x \in Clients \ {c} : /\ request'[x] = request[x] /\ answer'[x] = answer[x]
                               /\ conn'[x] = conn[x]
  BY DEF Typed
<1>3. answer'[c] = None /\ (request'[c] # None => conn'[c] # "none")
  BY DEF Typed
<1>4. current # c
  BY ParsedAssumption DEF Working, Accepted
<1>5. Working'
  BY <1>2, <1>4 DEF Working, Typed, Searches, BadNumber, Accepted
<1>6. Connected'
  BY <1>2, <1>3 DEF Connected, Alive
<1>7. PrimesRight'
  BY <1>2, <1>3 DEF PrimesRight, Searches, BadNumber, Cut
<1> QED
  BY <1>1, <1>5, <1>6, <1>7

\* A connection is accepted.
LEMMA AcceptKeeps == ASSUME IInv, NEW c \in Clients, Accept(c) PROVE IInv'
<1> USE DEF IInv, Accept
<1>1. Typed'
  BY DEF Typed
<1>2. Working'
  BY DEF Working, Idle
<1>3. PrimesRight'
  BY DEF PrimesRight, Searches, BadNumber, Cut, Failed
<1>4. Connected'
  BY DEF Connected, Typed, Pending, Alive, Idle
<1> QED
  BY <1>1, <1>2, <1>3, <1>4

\* Node ends one, with what has not been read from it.
LEMMA TimeoutKeeps == ASSUME IInv, NEW c \in Clients, Timeout(c) PROVE IInv'
<1> USE DEF IInv, Timeout, KeepAliveTimeout, HeadersTimeout, End, Unread
<1>1. Typed'
  BY DEF Typed
<1>2. Working'
  BY DEF Working, Idle
<1>3. \A x \in Clients : \/ answer'[x] = answer[x] /\ request'[x] = request[x]
                         \/ answer'[x] \in {None, Cut}
  BY DEF Typed
<1>4. PrimesRight'
  BY <1>3 DEF PrimesRight, Searches, BadNumber
<1>5. ~Pending(c)'
  BY DEF Typed, Pending
<1>6. Connected'
  BY <1>5 DEF Connected, Typed, Pending, Alive, Idle
<1> QED
  BY <1>1, <1>2, <1>4, <1>6

\* A handler that answers at once.
LEMMA RespondKeeps == ASSUME IInv, NEW c \in Clients, Respond(c) PROVE IInv'
<1> USE DEF IInv, Respond, Ready
<1>1. current = None /\ request[c] \in Requests
  BY DEF Idle, Typed, Pending
<1>2. Typed'
  BY <1>1, ResponseStatus DEF Typed
<1>3. Working'
  BY <1>1 DEF Working
<1>4. \A x \in Clients \ {c} : answer'[x] = answer[x]
  BY DEF Typed
<1>5. answer'[c] = Response(request[c])
  BY DEF Typed
<1>6. Connected'
  BY <1>4 DEF Connected, Pending, Typed, Alive, Idle
<1>7. PrimesRight'
  BY <1>4 DEF PrimesRight, Searches, BadNumber
<1> QED
  BY <1>2, <1>3, <1>6, <1>7

\* The heap is exhausted.
LEMMA AbortKeeps == ASSUME IInv, NEW c \in Clients, Abort(c) PROVE IInv'
  BY DEF IInv, Abort, Typed, Working, Connected, PrimesRight, Searches, BadNumber,
         Pending, Accepted, Ready, Cut, Failed

\* A search begins with the number that was asked.
LEMMA StartSearchKeeps == ASSUME IInv, NEW c \in Clients, StartSearch(c) PROVE IInv'
<1> USE DEF IInv, StartSearch, Ready
<1>1. request[c] \in Requests /\ Searches(request[c]) /\ request[c].arg \in Nat
  BY SearchesNumber DEF Typed, Pending
<1>2. Sound(search') /\ search'.n = request[c].arg
  BY <1>1, SearchSound DEF Search
<1>3. Typed'
  BY <1>2 DEF Typed, Sound
<1>4. Working'
  BY <1>1, <1>2 DEF Working, Pending, Searches, BadNumber, Accepted
<1>5. Connected' /\ PrimesRight'
  BY DEF Connected, PrimesRight, Pending, Searches, BadNumber, Cut, Failed
<1> QED
  BY <1>3, <1>4, <1>5

\* A turn of a loop keeps the search sound.
LEMMA obtenerPrimosKeeps == ASSUME IInv, obtenerPrimos PROVE IInv'
<1> USE DEF IInv, obtenerPrimos
<1>1. Sound(search') /\ search'.n = search.n
  BY TurnSound DEF Working
<1>2. Typed'
  BY <1>1 DEF Typed, Sound
<1>3. Working'
  BY <1>1 DEF Working, Pending, Searches, BadNumber, Accepted
<1>4. Connected' /\ PrimesRight'
  BY DEF Connected, PrimesRight, Pending, Searches, BadNumber, Cut, Failed
<1> QED
  BY <1>2, <1>3, <1>4

\* A search that is over has found the primes.
LEMMA AnswerPrimesKeeps == ASSUME IInv, AnswerPrimes PROVE IInv'
<1> USE DEF IInv, AnswerPrimes
<1> DEFINE body == [input |-> search.n, primos |-> search.primos,
                    cantidad |-> Len(search.primos)]
<1>1. /\ current \in Clients /\ Searches(request[current])
      /\ search.n = request[current].arg
      /\ ListsPrimes(search.primos, search.n)
  BY SearchOver DEF Typed, Working
<1>2. answer'[current] = Ok(body)
  BY <1>1 DEF Typed
<1>3. \A x \in Clients \ {current} : answer'[x] = answer[x]
  BY DEF Typed
<1>4. Search(0) \in SearchRecords
  BY SearchSound DEF Sound
<1>5. Typed'
  <2>1. \A x \in Clients :
          answer'[x] \notin {None, Cut} => answer'[x].status \in Statuses
    BY <1>2, <1>3 DEF Typed, Ok, Statuses
  <2> QED
    BY <1>4, <2>1 DEF Typed
<1>6. Working'
  BY DEF Working
<1>7. Connected'
  BY <1>1, <1>3 DEF Connected, Working, Typed, Pending, Alive
<1>8. PrimesRight'
  BY <1>1, <1>2, <1>3 DEF PrimesRight, Searches, BadNumber, Ok
<1> QED
  BY <1>5, <1>6, <1>7, <1>8

\* The backlog is reset with its requests.
LEMMA OnSigtermKeeps == ASSUME IInv, OnSigterm PROVE IInv'
<1> USE DEF IInv, OnSigterm, Unread
<1>1. Typed'
  BY DEF Typed
<1>2. Working'
  BY DEF Working, Idle
<1>3. \A c \in Clients :
        \/ conn'[c] = "none" /\ request'[c] = None /\ answer'[c] \in {None, Cut}
        \/ conn'[c] = conn[c] /\ request'[c] = request[c] /\ answer'[c] = answer[c]
  BY DEF Typed, Refused
<1>4. Connected'
  BY <1>3 DEF Connected, Pending, Idle, Alive
<1>5. PrimesRight'
  BY <1>3 DEF PrimesRight, Searches, BadNumber
<1> QED
  BY <1>1, <1>2, <1>4, <1>5

\* The process ends when no connection is left.
LEMMA ExitKeeps == ASSUME IInv, Exit PROVE IInv'
  BY DEF IInv, Exit, Drained, Typed, Working, Connected, PrimesRight, Searches,
         BadNumber, Pending, Idle

\* A signal changes nothing yet.
LEMMA SignalKeeps == ASSUME IInv, Signal PROVE IInv'
  BY DEF IInv, Signal, Typed, Working, Connected, PrimesRight, Searches,
         BadNumber, Pending, Accepted, Cut, Failed

\* The invariant is inductive.
LEMMA NextIInv == IInv /\ [Next]_vars => IInv'
<1> SUFFICES ASSUME IInv, [Next]_vars PROVE IInv'
  OBVIOUS
<1>1. ASSUME NEW c \in Clients, Client(c) \/ Serve(c) \/ Timeout(c) PROVE IInv'
  BY <1>1, ClientKeeps, AcceptKeeps, TimeoutKeeps, RespondKeeps, AbortKeeps, StartSearchKeeps
     DEF Serve
<1>2. CASE Loop
  BY <1>2, obtenerPrimosKeeps, AnswerPrimesKeeps DEF Loop
<1>3. CASE Signal \/ OnSigterm \/ Exit
  BY <1>3, SignalKeeps, OnSigtermKeeps, ExitKeeps
<1>4. CASE UNCHANGED vars
  BY <1>4 DEF vars, IInv, Typed, Working, Connected, PrimesRight, Searches,
              BadNumber, Pending, Accepted, Cut, Failed
<1> QED
  BY <1>1, <1>2, <1>3, <1>4 DEF Next

\* The invariant holds of every state.
LEMMA SpecIInv == Spec => []IInv
  BY InitIInv, NextIInv, PTL DEF Spec

-----------------------------------------------------------------------------
\* The types of the services' variables (app.js of both services).
THEOREM TypeCorrect == Spec => []TypeOK
<1>1. IInv => TypeOK
  BY DEF IInv, Typed, TypeOK, SearchRecords, Statuses
<1> QED
  BY <1>1, SpecIInv, PTL

\* GET /primos/:number answers with exactly the primes up to the number of
\* the request it answers, for every number and any number of clients
\* (primos/app.js:72-79).
THEOREM PrimesCorrect == Spec => []PrimesRight
<1>1. IInv => PrimesRight
  BY DEF IInv
<1> QED
  BY <1>1, SpecIInv, PTL

\* A process that exits after SIGTERM leaves no request waiting: it has
\* answered all that it read, and ended the connections of the others
\* (primos/app.js:128-134).
THEOREM GracefulShutdown == Spec => []Graceful
<1>1. IInv => Graceful
  BY DEF IInv, Connected, Graceful
<1> QED
  BY <1>1, SpecIInv, PTL
=============================================================================
