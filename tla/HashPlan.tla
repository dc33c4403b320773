------------------------------ MODULE HashPlan ------------------------------
(***************************************************************************)
(* How the table of a directory is chosen: include/femtofs/hash_plan.h,    *)
(* which makefemtofs and femtofsSim share, and what femtofsSim adds to it. *)
(* A name is the sequence of its bytes and is hashed as the code does it;  *)
(* a list of names is in byte order.                                       *)
(***************************************************************************)
EXTENDS Integers, SequencesExt

CONSTANTS
  SmallPrimes,   \* kSmallPrimes, in order
  MaxTableSize   \* kMaxTableSize, a prime

\* bound: bases and names of a run keep every sum below 2^31, so that the
\* reduction of the code's uint32_t sums changes nothing
NameHash(name, base, T) ==
  IF T <= 1 THEN 0 ELSE FoldLeft(LAMBDA h, byte : h * base + byte, 0, name) % T

TrialPrimes ==
  {3, 5, 7, 11, 13, 17, 19, 23, 29, 31, 37, 41, 43, 47, 53, 59, 61, 67, 71, 73, 79, 83, 89, 97,
   101, 103, 107, 109, 113, 127, 131, 137, 139, 149, 151, 157, 163, 167, 173, 179, 181, 191, 193,
   197, 199, 211, 223, 227, 229, 233, 239, 241, 251, 257, 263, 269, 271, 277, 281, 283, 293, 307, 311}

\* utilities::isPrime below 311^2, where its prefilter decides
IsPrime(n) ==
  /\ n >= 2
  /\ IF n % 2 = 0 THEN n = 2
     ELSE IF n <= 311 THEN n \in TrialPrimes
     ELSE \A q \in TrialPrimes : n % q # 0

\* the kernel's and fsck's trial division, on odd numbers
DividesNone(n) == n >= 2 /\ \A d \in 2..n - 1 : d <= n \div d => n % d # 0

NextPrime(n) == CHOOSE q \in n + 1..2 * n + 2 : IsPrime(q) /\ \A r \in n + 1..q - 1 : ~IsPrime(r)

-----------------------------------------------------------------------------
(* The score of a table.                                                   *)

\* names per bucket where their chain starts: of two hashes the less loaded
\* bucket, or the lower one
Loads(names, p1, p2, T) ==
  LET Put(counts, name) ==
        LET h1 == NameHash(name, p1, T)
            h2 == NameHash(name, p2, T)
            chosen == IF counts[h2] < counts[h1] \/ (counts[h2] = counts[h1] /\ h2 < h1)
                      THEN h2 ELSE h1
        IN [counts EXCEPT ![chosen] = @ + 1]
  IN FoldLeft(Put, [b \in 0..T - 1 |-> 0], names)

Score(counts) ==
  [squares |-> SumFunction([b \in DOMAIN counts |-> counts[b] * counts[b]]),
   chain |-> CHOOSE c \in Range(counts) : \A d \in Range(counts) : d <= c]

ScoreDual(names, p1, p2, T) == Score(Loads(names, p1, p2, T))

ScoreSingle(names, p, T) == ScoreDual(names, p, p, T)

\* a Choice: prime is an index into the primes; sizes of 0 and 1 need none
Choice(T, prime, score, dual) ==
  [T |-> T, prime |-> prime, squares |-> score.squares, chain |-> score.chain, dual |-> dual,
   hit |-> FALSE]
Empty == Choice(0, 1, [squares |-> 0, chain |-> 0], FALSE)
Single(T) == Choice(T, 1, [squares |-> 1, chain |-> 1], FALSE)

\* smallest score first; of equal ones the first prime
LeastSquares(scores) ==
  CHOOSE i \in DOMAIN scores : \A j \in DOMAIN scores :
    scores[i].squares < scores[j].squares \/ (scores[i].squares = scores[j].squares /\ i <= j)

LeastChoice(T, scores) ==
  LET i == LeastSquares(scores) IN Choice(T, i, scores[i], FALSE)

Scores(names, primes, T) == [i \in DOMAIN primes |-> ScoreSingle(names, primes[i], T)]

BestSingleForTable(names, primes, T) ==
  IF names = <<>> THEN Empty
  ELSE IF Len(names) = 1 THEN Single(T)
  ELSE LeastChoice(T, Scores(names, primes, T))

Ceiling(n) ==
  IF 2 * n < MaxTableSize /\ NextPrime(2 * n) < MaxTableSize THEN NextPrime(2 * n) ELSE MaxTableSize

\* the sizes that are tried: n, and the primes after it up to the ceiling
Tables(n) == <<n>> \o SetToSortSeq({t \in n + 1..Ceiling(n) : IsPrime(t)}, <)

-----------------------------------------------------------------------------
(* The choice of a table.                                                  *)

\* Sizes are tried until a table has no collision, or few of them; in each the
\* prime with the least squares counts, if that is less than before.
ChooseSingle(names, primes) ==
  LET n == Len(names)
      Keep(c) == [best |-> c, done |-> 10 * c.squares < 11 * n]
      Compare(best, c) == Keep(IF best = Empty \/ c.squares < best.squares THEN c ELSE best)
      Try(r, T) ==
        IF r.done THEN r ELSE Compare(r.best, LeastChoice(T, Scores(names, primes, T)))
      Mark(r) == [r.best EXCEPT !.hit = ~r.done]
  IN IF n = 0 THEN Empty
     ELSE IF n = 1 THEN Single(1)
     ELSE Mark(FoldLeft(Try, [best |-> Empty, done |-> FALSE], Tables(n)))

\* the order in which chooseDual prefers choices
Better(a, b) ==
  \/ a.chain < b.chain
  \/ a.chain = b.chain /\ a.squares < b.squares
  \/ a.chain = b.chain /\ a.squares = b.squares /\ a.T < b.T
  \/ a.chain = b.chain /\ a.squares = b.squares /\ a.T = b.T /\ a.prime < b.prime

Foremost(S) == CHOOSE c \in S : \A d \in S \ {c} : Better(c, d)

\* sizes are tried until no chain is longer than one
ChooseDual(names, primes, p2) ==
  LET n == Len(names)
      Compare(best, c) ==
        IF best # Empty /\ (best.chain <= 1 \/ ~Better(c, best)) THEN best ELSE c
      Try(best, T) ==
        Compare(best, Foremost({Choice(T, i, ScoreDual(names, primes[i], p2, T), TRUE) :
                                  i \in DOMAIN primes}))
      Mark(c) == [c EXCEPT !.hit = c.T = Ceiling(n) /\ 10 * c.squares >= 11 * n]
  IN IF n < 2 THEN ChooseSingle(names, primes) ELSE Mark(FoldLeft(Try, Empty, Tables(n)))

ImprovesQuality(a, b) == a.chain < b.chain \/ (a.chain = b.chain /\ a.squares < b.squares)

-----------------------------------------------------------------------------
(* femtofsSim.                                                             *)

\* chooseBestForFixedTableSize: chains count before squares
SimBestForTable(names, primes, T) ==
  LET n == Len(names)
      Mark(c) == [c EXCEPT !.hit = T = Ceiling(n) /\ 10 * c.squares >= 11 * n]
  IN IF n = 0 THEN Empty
     ELSE IF n = 1 THEN Single(IF T = 0 THEN 1 ELSE T)
     ELSE Mark(Foremost({Choice(T, i, ScoreSingle(names, primes[i], T), FALSE) : i \in DOMAIN primes}))

SameChoice(a, b) ==
  /\ a.T = b.T /\ a.prime = b.prime
  /\ a.chain = b.chain /\ a.squares = b.squares

\* buildHashCandidateSets: the baseline first, then what differs from it
SimCandidates(names, primes) ==
  LET baseline == ChooseSingle(names, primes)
      others == {SimBestForTable(names, primes, T) : T \in Range(Tables(Len(names)))}
  IN <<baseline>> \o
     IF Len(names) < 2 THEN <<>>
     ELSE SetToSortSeq({c \in others : ~SameChoice(c, baseline)}, LAMBDA a, b : a.T < b.T)

=============================================================================
