------------------------- MODULE SignalChain_proofs -------------------------
(***************************************************************************)
(* For every set of subcarriers, unit of the phase, shape of a link, drift *)
(* of the receiver and number of antennas: calibration takes away what the *)
(* receiver did to a frame and fails only without power; the spectrum of a *)
(* window has the power of the window, and what is called dominant in it,  *)
(* by the DSP service and by the features, is the first and the last of    *)
(* the strongest bins.                                                     *)
(*                                                                         *)
(* For every profile and number of links, percentiles are in order and     *)
(* raising a motion energy does not lower the score; and for every timing  *)
(* of the frames that the profile can tell from the regular one, a window  *)
(* with fewer than half of its intervals irregular is not observed as a    *)
(* state of the channel.                                                   *)
(*                                                                         *)
(* ChainInv says what is in the calibration buffer after each stage as a   *)
(* function of the shape and the drift of the frame (Staged); the sums,    *)
(* the regression and the unwrapping are treated as the functions that     *)
(* they are, by induction on the number of subcarriers.  WindowInv says    *)
(* that the window has an energy for each interval and each link, and no   *)
(* frame under way when it is full.  ScoreInv and LossInv say what a       *)
(* window holds until it is observed.                                      *)
(***************************************************************************)
EXTENDS SignalChain, FiniteSetTheorems, SequenceTheorems, WellFoundedInduction, TLAPS

-----------------------------------------------------------------------------
(***************************************************************************)
(* Induction.  The theorems of the library that take a predicate are of no *)
(* use to the provers; what they can use is a set without a gap.           *)
(***************************************************************************)

\* A set of numbers has a least one.
LEMMA LeastOfSet ==
  ASSUME NEW S, S \subseteq Nat, NEW n \in S
  PROVE  \E m \in S : \A k \in S : m <= k
<1> DEFINE T == {1..k : k \in S}
<1>1. IsWellFoundedOn(StrictSubsetOrdering(Nat), FiniteSubsetsOf(Nat))
  BY FS_StrictSubsetOrderingWellFounded, Zenon
<1>2. T \subseteq FiniteSubsetsOf(Nat)
  BY FS_Interval DEF FiniteSubsetsOf
<1>3. 1..n \in T
  OBVIOUS
<1>4. \E x \in T : \A y \in T : ~ (<<y, x>> \in StrictSubsetOrdering(Nat))
  <2> HIDE DEF T
  <2> QED BY <1>1, <1>2, <1>3, WFMin, Zenon
<1>5. PICK m \in S : \A k \in S : ~ (<<1..k, 1..m>> \in StrictSubsetOrdering(Nat))
  BY <1>4
<1>6. ASSUME NEW k \in S, k < m PROVE FALSE
  <2>1. 1..k \subseteq 1..m /\ 1..k # 1..m /\ m \in 1..m /\ m \notin 1..k
    BY <1>6
  <2>2. <<1..k, 1..m>> \in StrictSubsetOrdering(Nat)
    BY <2>1 DEF StrictSubsetOrdering
  <2> QED BY <1>5, <2>2
<1> QED BY <1>5, <1>6

\* What holds of 0, and of each number after one it holds of, holds of all.
LEMMA Induction ==
  ASSUME NEW N \in Nat, NEW S, 0 \in S,
         \A n \in 1..N : n - 1 \in S => n \in S
  PROVE  0..N \subseteq S
<1> SUFFICES ASSUME NEW k \in (0..N) \ S PROVE FALSE
  OBVIOUS
<1>1. PICK m \in (0..N) \ S : \A j \in (0..N) \ S : m <= j
  <2> DEFINE D == (0..N) \ S
  <2>1. D \subseteq Nat /\ k \in D
    OBVIOUS
  <2> HIDE DEF D
  <2>2. \E m \in D : \A j \in D : m <= j
    BY <2>1, LeastOfSet, Zenon
  <2> QED BY <2>2 DEF D
<1>2. m # 0 /\ m \in 1..N /\ m - 1 \in 0..N /\ ~(m <= m - 1)
  OBVIOUS
<1>3. m - 1 \in S
  BY <1>1, <1>2
<1> QED BY <1>1, <1>2, <1>3

\* A function g that starts with b and goes on by s.
Steps(g, n, b, s) == g[0] = b /\ \A i \in 1..n : g[i] = s[i][g[i - 1]]

\* There is one for every step that stays in a set.
LEMMA Recursion ==
  ASSUME NEW X, NEW N \in Nat, NEW b \in X, NEW s,
         \A i \in 1..N : \A x \in X : s[i][x] \in X
  PROVE  \E g \in [0..N -> X] : Steps(g, N, b, s)
<1> DEFINE S == {n \in 0..N : \E g \in [0..n -> X] : Steps(g, n, b, s)}
<1>1. 0 \in S
  <2>1. [i \in 0..0 |-> b] \in [0..0 -> X] /\ Steps([i \in 0..0 |-> b], 0, b, s)
    BY DEF Steps
  <2> QED BY <2>1
<1>2. ASSUME NEW n \in 1..N, n - 1 \in S PROVE n \in S
  <2>1. PICK g \in [0..(n - 1) -> X] : Steps(g, n - 1, b, s)
    BY <1>2
  <2> DEFINE h == [i \in 0..n |-> IF i = n THEN s[n][g[n - 1]] ELSE g[i]]
  <2>2. h \in [0..n -> X]
    BY <2>1
  <2>3. Steps(h, n, b, s)
    BY <2>1 DEF Steps
  <2> QED BY <2>2, <2>3
<1>3. 0..N \subseteq S
  <2> HIDE DEF S
  <2> QED BY <1>1, <1>2, Induction
<1>4. N \in S
  BY <1>3
<1> QED BY <1>4

-----------------------------------------------------------------------------
(***************************************************************************)
(* Sums                                                                    *)
(***************************************************************************)

\* The partial sums of a sequence.
Partial(seq, g) ==
  /\ g \in [0..Len(seq) -> Int]
  /\ g[0] = 0 /\ \A i \in 1..Len(seq) : g[i] = g[i - 1] + seq[i]
  /\ Sum(seq) = g[Len(seq)]

LEMMA PartialSums ==
  ASSUME NEW seq \in Seq(Int)
  PROVE  \E g : Partial(seq, g)
<1> DEFINE N == Len(seq)
           s == [i \in 1..N |-> [x \in Int |-> x + seq[i]]]
           E(g) == [n \in 0..N |-> IF n = 0 THEN 0 ELSE g[n - 1] + seq[n]]
           h == CHOOSE f : f = E(f)
<1>1. N \in Nat /\ 0 \in Int /\ \A i \in 1..N : seq[i] \in Int
  OBVIOUS
<1>2. Sum(seq) = h[N]
  BY Zenon DEF Sum
<1>3. \A i \in 1..N : \A x \in Int : s[i][x] = x + seq[i] /\ s[i][x] \in Int
  OBVIOUS
<1> HIDE DEF N, s, h
<1>4. PICK g \in [0..N -> Int] : Steps(g, N, 0, s)
  BY <1>1, <1>3, Recursion
<1>5. ASSUME NEW i \in 1..N PROVE g[i] = g[i - 1] + seq[i]
  <2>1. i \in 0..N /\ i - 1 \in 0..N
    BY <1>1
  <2>2. g[i] = s[i][g[i - 1]] /\ g[i - 1] \in Int
    BY <1>4, <2>1 DEF Steps
  <2> QED BY <1>3, <2>2
<1>6. g = E(g)
  BY <1>1, <1>4, <1>5 DEF Steps
<1>7. h = E(h)
  <2> HIDE DEF E
  <2> QED BY <1>6 DEF h
<1>8. h[0] = 0 /\ \A i \in 1..N : h[i] = h[i - 1] + seq[i]
  BY <1>1, <1>7
<1> DEFINE S == {n \in 0..N : h[n] \in Int}
<1>9. 0 \in S
  BY <1>1, <1>8
<1>10. ASSUME NEW i \in 1..N, i - 1 \in S PROVE i \in S
  <2>1. h[i - 1] \in Int /\ seq[i] \in Int /\ h[i] = h[i - 1] + seq[i] /\ i \in 0..N
    BY <1>1, <1>8, <1>10
  <2> QED BY <2>1
<1>11. 0..N \subseteq S
  <2> HIDE DEF S
  <2> QED BY <1>1, <1>9, <1>10, Induction
<1>12. h \in [0..N -> Int]
  BY <1>7, <1>11
<1> QED BY <1>2, <1>8, <1>12 DEF Partial, N

LEMMA SumInt ==
  ASSUME NEW seq \in Seq(Int)
  PROVE  Sum(seq) \in Int
BY PartialSums DEF Partial

\* The sum of the sums of two sequences.
LEMMA SumAdd ==
  ASSUME NEW n \in Nat, NEW a \in [1..n -> Int], NEW b \in [1..n -> Int]
  PROVE  Sum([i \in 1..n |-> a[i] + b[i]]) = Sum(a) + Sum(b)
<1> DEFINE z == [i \in 1..n |-> a[i] + b[i]]
<1>1. /\ z \in Seq(Int) /\ a \in Seq(Int) /\ b \in Seq(Int)
      /\ Len(z) = n /\ Len(a) = n /\ Len(b) = n
  OBVIOUS
<1>2. \A i \in 1..n : z[i] = a[i] + b[i] /\ a[i] \in Int /\ b[i] \in Int
  OBVIOUS
<1> HIDE DEF z
<1>3. PICK gz, ga, gb : Partial(z, gz) /\ Partial(a, ga) /\ Partial(b, gb)
  BY <1>1, PartialSums
<1> DEFINE S == {j \in 0..n : gz[j] = ga[j] + gb[j]}
<1>4. 0 \in S
  BY <1>1, <1>3 DEF Partial
<1>5. ASSUME NEW j \in 1..n, j - 1 \in S PROVE j \in S
  <2>1. j \in 0..n /\ j - 1 \in 0..n
    OBVIOUS
  <2>2. gz[j - 1] = ga[j - 1] + gb[j - 1]
    BY <1>5
  <2>3. gz[j] = gz[j - 1] + z[j] /\ ga[j] = ga[j - 1] + a[j] /\ gb[j] = gb[j - 1] + b[j]
    BY <1>1, <1>3 DEF Partial
  <2>4. ga[j - 1] \in Int /\ gb[j - 1] \in Int
    BY <1>1, <1>3, <2>1 DEF Partial
  <2>5. gz[j] = ga[j] + gb[j]
    BY <1>2, <2>2, <2>3, <2>4
  <2> QED BY <2>1, <2>5
<1>6. 0..n \subseteq S
  <2> HIDE DEF S
  <2> QED BY <1>4, <1>5, Induction
<1>7. n \in S
  BY <1>6
<1> QED BY <1>1, <1>3, <1>7 DEF Partial, z

LEMMA Distribute ==
  ASSUME NEW k \in Int, NEW x \in Int, NEW y \in Int
  PROVE  k * (x + y) = k * x + k * y
OBVIOUS

\* The sum of a sequence, scaled.
LEMMA SumScale ==
  ASSUME NEW n \in Nat, NEW k \in Int, NEW a \in [1..n -> Int]
  PROVE  Sum([i \in 1..n |-> k * a[i]]) = k * Sum(a)
<1> DEFINE z == [i \in 1..n |-> k * a[i]]
<1>1. /\ z \in Seq(Int) /\ a \in Seq(Int) /\ Len(z) = n /\ Len(a) = n
  OBVIOUS
<1>2. \A i \in 1..n : z[i] = k * a[i] /\ a[i] \in Int
  OBVIOUS
<1> HIDE DEF z
<1>3. PICK gz, ga : Partial(z, gz) /\ Partial(a, ga)
  BY <1>1, PartialSums
<1> DEFINE S == {j \in 0..n : gz[j] = k * ga[j]}
<1>4. 0 \in S
  BY <1>1, <1>3 DEF Partial
<1>5. ASSUME NEW j \in 1..n, j - 1 \in S PROVE j \in S
  <2>1. j \in 0..n /\ j - 1 \in 0..n
    OBVIOUS
  <2>2. gz[j - 1] = k * ga[j - 1]
    BY <1>5
  <2>3. gz[j] = gz[j - 1] + z[j] /\ ga[j] = ga[j - 1] + a[j]
    BY <1>1, <1>3 DEF Partial
  <2>4. PICK x \in Int, y \in Int : x = ga[j - 1] /\ y = a[j]
    BY <1>1, <1>2, <1>3, <2>1 DEF Partial
  <2>5. gz[j] = k * x + k * y /\ ga[j] = x + y
    BY <1>2, <2>2, <2>3, <2>4
  <2>6. k * (x + y) = k * x + k * y
    BY Distribute
  <2>7. gz[j] = k * ga[j]
    BY <2>5, <2>6, Zenon
  <2> QED BY <2>1, <2>7
<1>6. 0..n \subseteq S
  <2> HIDE DEF S
  <2> QED BY <1>4, <1>5, Induction
<1>7. n \in S
  BY <1>6
<1> QED BY <1>1, <1>3, <1>7 DEF Partial, z

\* The sum of a constant.
LEMMA SumConstant ==
  ASSUME NEW n \in Nat, NEW c \in Int
  PROVE  Sum([i \in 1..n |-> c]) = n * c
<1> DEFINE z == [i \in 1..n |-> c]
<1>1. z \in Seq(Int) /\ Len(z) = n /\ \A i \in 1..n : z[i] = c
  OBVIOUS
<1> HIDE DEF z
<1>2. PICK g : Partial(z, g)
  BY <1>1, PartialSums
<1> DEFINE S == {j \in 0..n : g[j] = j * c}
<1>3. 0 \in S
  BY <1>1, <1>2 DEF Partial
<1>4. ASSUME NEW j \in 1..n, j - 1 \in S PROVE j \in S
  <2>1. j \in 0..n /\ g[j] = (j - 1) * c + c
    BY <1>1, <1>2, <1>4 DEF Partial
  <2> QED BY <2>1
<1>5. 0..n \subseteq S
  <2> HIDE DEF S
  <2> QED BY <1>3, <1>4, Induction
<1>6. n \in S
  BY <1>5
<1> QED BY <1>1, <1>2, <1>6 DEF Partial, z

-----------------------------------------------------------------------------
(***************************************************************************)
(* The regression                                                          *)
(***************************************************************************)

\* Values that follow a trend fit it: the slope and the intercept of a line
\* that is added are those of the fit.
LEMMA SlopeShifts ==
  ASSUME NEW n \in Int, NEW sx \in Int, NEW sy \in Int, NEW sxx \in Int, NEW sxy \in Int,
         NEW s \in Int, NEW c \in Int
  PROVE  n * (sxy + s * sxx + c * sx) - sx * (sy + s * sx + n * c)
           = (n * sxy - sx * sy) + s * (n * sxx - sx * sx)
OBVIOUS

LEMMA InterceptShifts ==
  ASSUME NEW n \in Int, NEW sx \in Int, NEW sy \in Int, NEW spread \in Int, NEW slope \in Int,
         NEW s \in Int, NEW c \in Int
  PROVE  spread * (sy + s * sx + n * c) - (slope + s * spread) * sx
           = (spread * sy - slope * sx) + n * c * spread
OBVIOUS

LEMMA ResidualStays ==
  ASSUME NEW n \in Int, NEW x \in Int, NEW y \in Int, NEW spread \in Int, NEW slope \in Int,
         NEW intercept \in Int, NEW s \in Int, NEW c \in Int
  PROVE  n * spread * (y + s * x + c) - n * (slope + s * spread) * x
             - (intercept + n * c * spread)
           = n * spread * y - n * slope * x - intercept
OBVIOUS

-----------------------------------------------------------------------------
(***************************************************************************)
(* Phases                                                                  *)
(***************************************************************************)

LEMMA DivMod ==
  ASSUME NEW n \in Nat \ {0}, NEW a \in Int, NEW r \in 0..(n - 1)
  PROVE  (a * n + r) \div n = a /\ (a * n + r) % n = r
OBVIOUS

LEMMA Division ==
  ASSUME NEW n \in Nat \ {0}, NEW a \in Int
  PROVE  a = (a \div n) * n + (a % n) /\ a % n \in 0..(n - 1) /\ a \div n \in Int
OBVIOUS

LEMMA ModShift ==
  ASSUME NEW n \in Nat \ {0}, NEW a \in Int, NEW k \in Int
  PROVE  (a + k * n) % n = a % n
<1>1. PICK q \in Int, r \in 0..(n - 1) : a = q * n + r /\ r = a % n
  BY Division
<1>2. a + k * n = (q + k) * n + r
  BY <1>1
<1>3. ((q + k) * n + r) % n = r
  BY DivMod
<1> QED BY <1>1, <1>2, <1>3, Zenon

\* Two phases are whole turns apart.
Whole(a, b, n) == \E k \in Int : a = b + k * n

LEMMA WholeSame ==
  ASSUME NEW n \in Nat, NEW a \in Int
  PROVE  Whole(a, a, n)
<1>1. a = a + 0 * n
  OBVIOUS
<1> QED BY <1>1 DEF Whole

LEMMA WholeTurned ==
  ASSUME NEW n \in Nat, NEW a \in Int, NEW b \in Int, Whole(a, b, n)
  PROVE  Whole(b, a, n)
<1>1. PICK k \in Int : a = b + k * n
  BY DEF Whole
<1>2. b = a + (0 - k) * n /\ 0 - k \in Int
  BY <1>1
<1> QED BY <1>2, Zenon DEF Whole

LEMMA WholeChain ==
  ASSUME NEW n \in Nat, NEW a \in Int, NEW b \in Int, NEW c \in Int,
         Whole(a, b, n), Whole(b, c, n)
  PROVE  Whole(a, c, n)
<1>1. PICK k \in Int, l \in Int : a = b + k * n /\ b = c + l * n
  BY DEF Whole
<1>2. a = c + (k + l) * n /\ k + l \in Int
  BY <1>1
<1> QED BY <1>2, Zenon DEF Whole

LEMMA WholeSum ==
  ASSUME NEW n \in Nat, NEW a \in Int, NEW b \in Int, NEW c \in Int, NEW d \in Int,
         Whole(a, b, n), Whole(c, d, n)
  PROVE  Whole(a + c, b + d, n) /\ Whole(a - c, b - d, n)
<1>1. PICK k \in Int, l \in Int : a = b + k * n /\ c = d + l * n
  BY DEF Whole
<1>2. a + c = (b + d) + (k + l) * n /\ k + l \in Int
  BY <1>1
<1>3. a - c = (b - d) + (k - l) * n /\ k - l \in Int
  BY <1>1
<1> QED BY <1>2, <1>3, Zenon DEF Whole

LEMMA WholeMod ==
  ASSUME NEW n \in Nat \ {0}, NEW a \in Int, NEW b \in Int, Whole(a, b, n)
  PROVE  a % n = b % n /\ (a - b) % n = 0
<1>1. PICK k \in Int : a = b + k * n
  BY DEF Whole
<1>2. (b + k * n) % n = b % n
  BY ModShift
<1>3. (k * n + 0) % n = 0
  BY DivMod
<1>4. PICK y \in Int : y = k * n
  OBVIOUS
<1>5. a - b = k * n + 0
  BY <1>1, <1>4
<1>6. a % n = b % n
  BY <1>1, <1>2, Zenon
<1>7. (a - b) % n = 0
  BY <1>3, <1>5, Zenon
<1> QED BY <1>6, <1>7

LEMMA PrincipalIs ==
  ASSUME NEW n \in Nat \ {0}, NEW a \in Int
  PROVE  /\ Principal(a, n) \in Int
         /\ -n < 2 * Principal(a, n) /\ 2 * Principal(a, n) <= n
         /\ Whole(Principal(a, n), a, n)
<1>1. PICK q \in Int, r \in 0..(n - 1) : a = q * n + r /\ r = a % n
  BY Division
<1>2. CASE 2 * r > n
  <2>1. Principal(a, n) = r - n
    BY <1>1, <1>2 DEF Principal
  <2>2. r - n = a + (0 - q - 1) * n /\ 0 - q - 1 \in Int
    BY <1>1
  <2>3. Whole(Principal(a, n), a, n)
    BY <2>1, <2>2, Zenon DEF Whole
  <2> QED BY <1>2, <2>1, <2>3
<1>3. CASE 2 * r <= n
  <2>1. Principal(a, n) = r
    BY <1>1, <1>3 DEF Principal
  <2>2. r = a + (0 - q) * n /\ 0 - q \in Int
    BY <1>1
  <2>3. Whole(Principal(a, n), a, n)
    BY <2>1, <2>2, Zenon DEF Whole
  <2> QED BY <1>3, <2>1, <2>3
<1> QED BY <1>2, <1>3

LEMMA PrincipalShift ==
  ASSUME NEW n \in Nat \ {0}, NEW a \in Int, NEW b \in Int, Whole(a, b, n)
  PROVE  Principal(a, n) = Principal(b, n)
BY WholeMod DEF Principal

\* Less than half a turn away from a multiple of a turn there is no other.
LEMMA PrincipalOfSmall ==
  ASSUME NEW n \in Nat \ {0}, NEW a \in Int, -n < 2 * a, 2 * a <= n
  PROVE  Principal(a, n) = a
<1>1. CASE a >= 0
  <2>1. a \in 0..(n - 1) /\ 0 * n + a = a
    BY <1>1
  <2>2. (0 * n + a) % n = a
    BY <2>1, DivMod
  <2>3. a % n = a
    BY <2>1, <2>2, Zenon
  <2> QED BY <2>3 DEF Principal
<1>2. CASE a < 0
  <2>1. a + n \in 0..(n - 1) /\ (0 - 1) * n + (a + n) = a
    BY <1>2
  <2>2. ((0 - 1) * n + (a + n)) % n = a + n
    BY <2>1, DivMod
  <2>3. a % n = a + n
    BY <2>1, <2>2, Zenon
  <2> QED BY <1>2, <2>3 DEF Principal
<1> QED BY <1>1, <1>2

\* What unwrapping adds is a whole number of turns more than the step, and at
\* most half a turn; a step of less than half a turn is found again.
LEMMA ShortestIs ==
  ASSUME NEW n \in Nat \ {0}, NEW d \in Int
  PROVE  /\ Shortest(d, n) \in Int
         /\ -n <= 2 * Shortest(d, n) /\ 2 * Shortest(d, n) <= n
         /\ Whole(Shortest(d, n), d, n)
<1>1. PICK p \in Int : /\ p = Principal(d, n) /\ Whole(p, d, n)
                       /\ -n < 2 * p /\ 2 * p <= n
  BY PrincipalIs
<1>2. CASE 2 * p = n /\ d < 0
  <2>1. Shortest(d, n) = p - n
    BY <1>1, <1>2 DEF Shortest
  <2>2. PICK k \in Int : p = d + k * n
    BY <1>1 DEF Whole
  <2>3. p - n = d + (k - 1) * n /\ k - 1 \in Int
    BY <2>2
  <2>4. Whole(p - n, d, n)
    BY <2>3, Zenon DEF Whole
  <2> QED BY <1>1, <1>2, <2>1, <2>4
<1>3. CASE ~(2 * p = n /\ d < 0)
  <2>1. Shortest(d, n) = p
    BY <1>1, <1>3 DEF Shortest
  <2> QED BY <1>1, <2>1
<1> QED BY <1>2, <1>3

LEMMA ShortestOfSmall ==
  ASSUME NEW n \in Nat \ {0}, NEW a \in Int, NEW d \in Int, Whole(d, a, n),
         -n < 2 * a, 2 * a < n
  PROVE  Shortest(d, n) = a
<1>1. Principal(d, n) = Principal(a, n)
  BY PrincipalShift
<1>2. Principal(a, n) = a
  BY PrincipalOfSmall
<1> QED BY <1>1, <1>2 DEF Shortest

-----------------------------------------------------------------------------
(***************************************************************************)
(* Unwrapping                                                              *)
(***************************************************************************)

Unwraps(u, phase, turn) ==
  /\ u \in [1..Len(phase) -> Int]
  /\ 1 \in 1..Len(phase) => u[1] = phase[1]
  /\ \A i \in 1..(Len(phase) - 1) :
       u[i + 1] = u[i] + Shortest(Principal(phase[i + 1], turn) - u[i], turn)

LEMMA UnwrapRecursion ==
  ASSUME NEW phase \in Seq(Int), NEW turn \in Nat \ {0}
  PROVE  Unwraps(UnwrapLink(phase, turn), phase, turn)
<1> DEFINE N == Len(phase)
           next(i, x) == x + Shortest(Principal(phase[i], turn) - x, turn)
           s == [i \in 1..(N - 1) |-> [x \in Int |-> next(i + 1, x)]]
           E(u) == [i \in 1..N |-> IF i = 1 THEN phase[1] ELSE next(i, u[i - 1])]
           h == CHOOSE u : u = E(u)
<1>1. N \in Nat /\ \A i \in 1..N : phase[i] \in Int
  OBVIOUS
<1>2. UnwrapLink(phase, turn) = h
  BY Zenon DEF UnwrapLink
<1> HIDE DEF h, N
<1>3. \A i \in 1..N : \A x \in Int : next(i, x) \in Int
  <2> SUFFICES ASSUME NEW i \in 1..N, NEW x \in Int PROVE next(i, x) \in Int
    OBVIOUS
  <2>1. Principal(phase[i], turn) \in Int
    BY <1>1, PrincipalIs
  <2>2. Shortest(Principal(phase[i], turn) - x, turn) \in Int
    BY <2>1, ShortestIs
  <2> QED BY <2>2
<1> HIDE DEF next
<1>4. \E u : u = E(u)
  <2>1. CASE N = 0
    <3>1. [i \in 1..N |-> 0] = E([i \in 1..N |-> 0])
      BY <2>1
    <3> QED BY <3>1
  <2>2. CASE N # 0
    <3>1. \A i \in 1..(N - 1) : \A x \in Int : s[i][x] = next(i + 1, x) /\ s[i][x] \in Int
      BY <1>1, <1>3
    <3>2. N - 1 \in Nat /\ phase[1] \in Int
      BY <1>1, <2>2
    <3> HIDE DEF s
    <3>3. PICK g \in [0..(N - 1) -> Int] : Steps(g, N - 1, phase[1], s)
      BY <3>1, <3>2, Recursion
    <3> DEFINE u == [i \in 1..N |-> g[i - 1]]
    <3>4. ASSUME NEW i \in 1..N, i # 1 PROVE u[i] = next(i, u[i - 1])
      <4>1. i - 1 \in 1..(N - 1) /\ i - 2 \in 0..(N - 1) /\ (i - 1) - 1 = i - 2 /\ (i - 1) + 1 = i
        BY <1>1, <3>4
      <4>2. g[i - 1] = s[i - 1][g[(i - 1) - 1]] /\ g[i - 2] \in Int
        BY <3>3, <4>1 DEF Steps
      <4>3. g[i - 1] = next((i - 1) + 1, g[i - 2])
        BY <3>1, <4>1, <4>2
      <4>4. u[i] = g[i - 1] /\ u[i - 1] = g[i - 2]
        BY <1>1, <3>4, <4>1
      <4> QED BY <4>1, <4>3, <4>4, Zenon
    <3>5. 1 \in 1..N => u[1] = phase[1]
      BY <3>3 DEF Steps
    <3>6. u = E(u)
      <4>1. \A i \in 1..N : u[i] = IF i = 1 THEN phase[1] ELSE next(i, u[i - 1])
        BY <3>4, <3>5
      <4>2. u = [i \in 1..N |-> u[i]]
        OBVIOUS
      <4> HIDE DEF u
      <4> QED BY <4>1, <4>2
    <3> QED BY <3>6
  <2> QED BY <2>1, <2>2
<1>5. h = E(h)
  <2> HIDE DEF E
  <2> QED BY <1>4 DEF h
<1>6. DOMAIN h = 1..N /\ (1 \in 1..N => h[1] = phase[1])
  BY <1>5
<1>7. ASSUME NEW i \in 1..(N - 1) PROVE h[i + 1] = next(i + 1, h[i])
  <2>1. i + 1 \in 1..N /\ i + 1 # 1 /\ (i + 1) - 1 = i
    BY <1>1
  <2>2. h[i + 1] = next(i + 1, h[(i + 1) - 1])
    BY <1>5, <2>1
  <2> QED BY <2>1, <2>2
<1> DEFINE S == {j \in 0..(N - 1) : h[j + 1] \in Int}
<1>8. N # 0 => 0..(N - 1) \subseteq S
  <2> SUFFICES ASSUME N # 0 PROVE 0..(N - 1) \subseteq S
    OBVIOUS
  <2>1. 0 \in S /\ N - 1 \in Nat
    BY <1>1, <1>6
  <2>2. ASSUME NEW j \in 1..(N - 1), j - 1 \in S PROVE j \in S
    <3>1. h[j] \in Int /\ j + 1 \in 1..N /\ j \in 0..(N - 1)
      BY <1>1, <2>2
    <3>2. h[j + 1] \in Int
      BY <1>3, <1>7, <3>1
    <3> QED BY <3>1, <3>2
  <2> HIDE DEF S
  <2> QED BY <2>1, <2>2, Induction
<1>9. \A i \in 1..N : h[i] \in Int
  <2> SUFFICES ASSUME NEW i \in 1..N PROVE h[i] \in Int
    OBVIOUS
  <2>1. i - 1 \in 0..(N - 1) /\ N # 0 /\ (i - 1) + 1 = i
    BY <1>1
  <2>2. i - 1 \in S
    BY <1>8, <2>1
  <2> QED BY <2>1, <2>2
<1>10. h \in [1..N -> Int]
  BY <1>5, <1>9
<1>11. \A i \in 1..(N - 1) : h[i + 1] = h[i] + Shortest(Principal(phase[i + 1], turn) - h[i], turn)
  BY <1>7 DEF next
<1> QED BY <1>2, <1>6, <1>10, <1>11 DEF Unwraps, N

\* Unwrapping changes phases by whole turns.
LEMMA UnwrapKeeps ==
  ASSUME NEW n \in Nat, NEW phase \in [1..n -> Int], NEW turn \in Nat \ {0},
         NEW u, Unwraps(u, phase, turn), NEW i \in 1..n
  PROVE  Whole(u[i], phase[i], turn)
<1>1. Len(phase) = n /\ phase[i] \in Int
  OBVIOUS
<1>2. CASE i = 1
  <2>1. u[i] = phase[i]
    BY <1>1, <1>2 DEF Unwraps
  <2>2. Whole(phase[i], phase[i], turn)
    BY <1>1, WholeSame
  <2> QED BY <2>1, <2>2, Zenon
<1>3. CASE i # 1
  <2>1. i - 1 \in 1..(n - 1) /\ i - 1 \in 1..n /\ (i - 1) + 1 = i
    BY <1>3
  <2>2. PICK v \in Int : v = u[i - 1]
    BY <1>1, <2>1 DEF Unwraps
  <2>3. PICK p \in Int : p = Principal(phase[i], turn) /\ Whole(p, phase[i], turn)
    BY <1>1, PrincipalIs
  <2>4. PICK s \in Int : s = Shortest(p - v, turn) /\ Whole(s, p - v, turn)
    <3>1. p - v \in Int
      OBVIOUS
    <3> QED BY <3>1, ShortestIs
  <2>5. u[i] = v + s
    BY <1>1, <2>1, <2>2, <2>3, <2>4 DEF Unwraps
  <2>6. Whole(v, v, turn) /\ p - v \in Int /\ v + (p - v) = p /\ v + s \in Int
    BY WholeSame
  <2>7. Whole(v + s, v + (p - v), turn)
    BY <2>4, <2>6, WholeSum
  <2>8. Whole(v + s, p, turn)
    BY <2>6, <2>7, Zenon
  <2>9. Whole(v + s, phase[i], turn)
    BY <1>1, <2>3, <2>6, <2>8, WholeChain
  <2> QED BY <2>5, <2>9, Zenon
<1> QED BY <1>2, <1>3

\* No step of unwrapped phases is more than half a turn.
LEMMA UnwrapSteps ==
  ASSUME NEW n \in Nat, NEW phase \in [1..n -> Int], NEW turn \in Nat \ {0},
         NEW u, Unwraps(u, phase, turn), NEW i \in 1..(n - 1)
  PROVE  2 * Distance(u[i], u[i + 1]) <= turn
<1>1. Len(phase) = n /\ phase[i + 1] \in Int
  OBVIOUS
<1>2. PICK v \in Int : v = u[i]
  BY <1>1 DEF Unwraps
<1>3. PICK p \in Int : p = Principal(phase[i + 1], turn)
  BY <1>1, PrincipalIs
<1>4. PICK s \in Int : s = Shortest(p - v, turn) /\ -turn <= 2 * s /\ 2 * s <= turn
  <2>1. p - v \in Int
    OBVIOUS
  <2> QED BY <2>1, ShortestIs
<1>5. u[i + 1] = v + s
  BY <1>1, <1>2, <1>3, <1>4 DEF Unwraps
<1>6. Distance(u[i], u[i + 1]) = IF v < v + s THEN s ELSE 0 - s
  BY <1>2, <1>5 DEF Distance
<1> QED BY <1>4, <1>6

\* Phases are the same but for whole turns; steps are less than half a turn.
SameTurns(phase, w, n, turn) == \A i \in 1..n : Whole(phase[i], w[i], turn)

SmallSteps(w, n, turn) ==
  \A i \in 1..(n - 1) : -turn < 2 * (w[i + 1] - w[i]) /\ 2 * (w[i + 1] - w[i]) < turn

Shifted(u, w, n) == \E c \in Int : \A i \in 1..n : u[i] = w[i] + c

\* The phases that were wrapped are found again, but for whole turns on all
\* of them, when their steps are less than half a turn.
LEMMA UnwrapFinds ==
  ASSUME NEW n \in Nat \ {0}, NEW phase \in [1..n -> Int], NEW turn \in Nat \ {0},
         NEW u, Unwraps(u, phase, turn),
         NEW w \in [1..n -> Int], SameTurns(phase, w, n, turn), SmallSteps(w, n, turn)
  PROVE  Shifted(u, w, n)
<1>1. Len(phase) = n /\ 1 \in 1..n /\ n - 1 \in Nat
  OBVIOUS
<1>2. \A i \in 1..n : phase[i] \in Int /\ w[i] \in Int /\ u[i] \in Int
  BY <1>1 DEF Unwraps
<1>3. PICK c \in Int : c = u[1] - w[1]
  BY <1>1, <1>2
<1> DEFINE S == {j \in 0..(n - 1) : u[j + 1] = w[j + 1] + c}
<1>4. 0 \in S
  BY <1>1, <1>2, <1>3
<1>5. ASSUME NEW j \in 1..(n - 1), j - 1 \in S PROVE j \in S
  <2>1. j \in 1..n /\ j + 1 \in 1..n /\ (j - 1) + 1 = j
    OBVIOUS
  <2>2. PICK v \in Int, x \in Int, y \in Int : v = u[j] /\ x = w[j] /\ y = w[j + 1]
    BY <1>2, <2>1
  <2>3. v = x + c
    BY <1>5, <2>1, <2>2
  <2>4. PICK p \in Int : p = Principal(phase[j + 1], turn) /\ Whole(p, phase[j + 1], turn)
    BY <1>2, <2>1, PrincipalIs
  <2>5. Whole(p, y, turn)
    <3>1. Whole(phase[j + 1], y, turn)
      BY <2>1, <2>2 DEF SameTurns
    <3> QED BY <1>2, <2>1, <2>4, <3>1, WholeChain
  <2>6. Whole(v, x, turn)
    <3>1. Whole(v, phase[j], turn)
      BY <2>1, <2>2, UnwrapKeeps
    <3>2. Whole(phase[j], x, turn)
      BY <2>1, <2>2 DEF SameTurns
    <3> QED BY <1>2, <2>1, <3>1, <3>2, WholeChain
  <2>7. Whole(p - v, y - x, turn)
    BY <2>5, <2>6, WholeSum
  <2>8. -turn < 2 * (y - x) /\ 2 * (y - x) < turn
    BY <2>2 DEF SmallSteps
  <2>9. Shortest(p - v, turn) = y - x
    <3>1. p - v \in Int /\ y - x \in Int
      OBVIOUS
    <3> QED BY <2>7, <2>8, <3>1, ShortestOfSmall
  <2>10. u[j + 1] = v + (y - x)
    BY <1>1, <2>2, <2>4, <2>9 DEF Unwraps
  <2>11. u[j + 1] = y + c
    BY <2>3, <2>10
  <2> QED BY <2>2, <2>11
<1>6. 0..(n - 1) \subseteq S
  <2> HIDE DEF S
  <2> QED BY <1>1, <1>4, <1>5, Induction
<1>7. ASSUME NEW i \in 1..n PROVE u[i] = w[i] + c
  <2>1. i - 1 \in 0..(n - 1) /\ (i - 1) + 1 = i
    OBVIOUS
  <2> QED BY <1>6, <2>1
<1> QED BY <1>7 DEF Shifted

-----------------------------------------------------------------------------
(***************************************************************************)
(* Detrending                                                              *)
(***************************************************************************)

\* The values of a sequence with a line added.
Slanted(x, y, n, s, c) == [i \in 1..n |-> y[i] + s * x[i] + c]

Products(x, y, n) == [i \in 1..n |-> x[i] * y[i]]

LEMMA ProductTypes ==
  ASSUME NEW n \in Nat, NEW x \in [1..n -> Int], NEW y \in [1..n -> Int]
  PROVE  /\ Products(x, y, n) \in [1..n -> Int]
         /\ Sum(Products(x, y, n)) \in Int /\ Sum(x) \in Int
<1>1. Products(x, y, n) \in [1..n -> Int]
  <2>1. \A i \in 1..n : x[i] \in Int /\ y[i] \in Int
    OBVIOUS
  <2>2. \A a, b \in Int : a * b \in Int
    OBVIOUS
  <2>3. \A i \in 1..n : x[i] * y[i] \in Int
    BY <2>1, <2>2
  <2> QED BY <2>3, Zenon DEF Products
<1>2. \A z \in [1..n -> Int] : z \in Seq(Int)
  OBVIOUS
<1> QED BY <1>1, <1>2, SumInt

\* The fit, in terms of sums.
IsFit(x, y, n, sx, sy, sxx, sxy) ==
  /\ FitAffine(x, y).slope = n * sxy - sx * sy
  /\ FitAffine(x, y).spread = n * sxx - sx * sx
  /\ FitAffine(x, y).intercept = FitAffine(x, y).spread * sy - FitAffine(x, y).slope * sx

LEMMA FitIs ==
  ASSUME NEW n \in Nat, NEW x \in [1..n -> Int], NEW y \in [1..n -> Int],
         NEW sx, sx = Sum(x), NEW sy, sy = Sum(y),
         NEW sxx, sxx = Sum(Products(x, x, n)), NEW sxy, sxy = Sum(Products(x, y, n))
  PROVE  IsFit(x, y, n, sx, sy, sxx, sxy)
<1>1. Len(x) = n
  OBVIOUS
<1> QED BY <1>1, Zenon DEF FitAffine, Products, IsFit

LEMMA FitTypes ==
  ASSUME NEW n \in Nat, NEW x \in [1..n -> Int], NEW y \in [1..n -> Int]
  PROVE  /\ FitAffine(x, y).slope \in Int /\ FitAffine(x, y).spread \in Int
         /\ FitAffine(x, y).intercept \in Int
<1>1. PICK sx \in Int, sy \in Int, sxx \in Int, sxy \in Int :
        /\ sx = Sum(x) /\ sy = Sum(y)
        /\ sxx = Sum(Products(x, x, n)) /\ sxy = Sum(Products(x, y, n))
  BY ProductTypes
<1>2. /\ FitAffine(x, y).slope = n * sxy - sx * sy
      /\ FitAffine(x, y).spread = n * sxx - sx * sx
      /\ FitAffine(x, y).intercept
           = FitAffine(x, y).spread * sy - FitAffine(x, y).slope * sx
  BY <1>1, FitIs DEF IsFit
<1>3. PICK slope \in Int, spread \in Int : /\ slope = n * sxy - sx * sy
                                           /\ spread = n * sxx - sx * sx
  OBVIOUS
<1>4. spread * sy - slope * sx \in Int
  OBVIOUS
<1> QED BY <1>2, <1>3, <1>4

\* The sums of slanted values.
IsSlanted(z, x, y, n, s, c) ==
  /\ z \in [1..n -> Int]
  /\ Sum(z) = Sum(y) + s * Sum(x) + n * c
  /\ Sum(Products(x, z, n)) = Sum(Products(x, y, n)) + s * Sum(Products(x, x, n)) + c * Sum(x)

LEMMA SlantedSums ==
  ASSUME NEW n \in Nat, NEW x \in [1..n -> Int], NEW y \in [1..n -> Int],
         NEW s \in Int, NEW c \in Int
  PROVE  IsSlanted(Slanted(x, y, n, s, c), x, y, n, s, c)
<1> DEFINE z == Slanted(x, y, n, s, c)
           q == Products(x, x, n)
           r == Products(x, y, n)
<1>1. \A i \in 1..n : x[i] \in Int /\ y[i] \in Int
  OBVIOUS
<1>2. \A a, b \in Int : /\ a * b \in Int /\ b + s * a + c \in Int
                        /\ s * a \in Int /\ b + s * a \in Int /\ c * a \in Int
  OBVIOUS
<1>3. z \in [1..n -> Int]
  BY <1>1, <1>2, Zenon DEF Slanted
<1>4. q \in [1..n -> Int] /\ r \in [1..n -> Int]
  BY ProductTypes
<1> DEFINE a1 == [i \in 1..n |-> s * x[i]]
           a2 == [i \in 1..n |-> y[i] + a1[i]]
           a3 == [i \in 1..n |-> c]
           a4 == [i \in 1..n |-> a2[i] + a3[i]]
<1>5. a1 \in [1..n -> Int] /\ a2 \in [1..n -> Int] /\ a3 \in [1..n -> Int]
  <2>1. \A i \in 1..n : s * x[i] \in Int /\ y[i] + s * x[i] \in Int
    BY <1>1, <1>2
  <2> QED BY <2>1
<1>6. z = a4
  BY Zenon DEF Slanted
<1>7. Sum(a1) = s * Sum(x) /\ Sum(a3) = n * c
  BY SumScale, SumConstant, Zenon
<1>8. Sum(a2) = Sum(y) + Sum(a1)
  <2> HIDE DEF a1
  <2> QED BY <1>5, SumAdd, Zenon
<1>9. Sum(a4) = Sum(a2) + Sum(a3)
  <2> HIDE DEF a2, a3
  <2> QED BY <1>5, SumAdd, Zenon
<1>10. Sum(z) = Sum(y) + s * Sum(x) + n * c
  <2> HIDE DEF a1, a2, a3, a4, z
  <2> QED BY <1>6, <1>7, <1>8, <1>9, Zenon
<1> HIDE DEF a1, a2, a3, a4
<1> DEFINE b1 == [i \in 1..n |-> s * q[i]]
           b2 == [i \in 1..n |-> r[i] + b1[i]]
           b3 == [i \in 1..n |-> c * x[i]]
           b4 == [i \in 1..n |-> b2[i] + b3[i]]
<1>11. b1 \in [1..n -> Int] /\ b2 \in [1..n -> Int] /\ b3 \in [1..n -> Int]
  <2> HIDE DEF q, r
  <2>1. \A i \in 1..n : q[i] \in Int /\ r[i] \in Int
    BY <1>4
  <2>2. \A i \in 1..n : s * q[i] \in Int /\ r[i] + s * q[i] \in Int /\ c * x[i] \in Int
    BY <1>1, <1>2, <2>1
  <2> QED BY <2>2
<1>12. Products(x, z, n) = b4
  <2>1. \A a, b \in Int : a * (b + s * a + c) = a * b + s * (a * a) + c * a
    OBVIOUS
  <2>2. \A i \in 1..n : x[i] * (y[i] + s * x[i] + c)
                          = x[i] * y[i] + s * (x[i] * x[i]) + c * x[i]
    BY <1>1, <2>1
  <2> QED BY <2>2, Zenon DEF Products, Slanted
<1>13. Sum(b1) = s * Sum(q) /\ Sum(b3) = c * Sum(x)
  <2> HIDE DEF q
  <2> QED BY <1>4, SumScale, Zenon
<1>14. Sum(b2) = Sum(r) + Sum(b1)
  <2> HIDE DEF b1, r
  <2> QED BY <1>4, <1>11, SumAdd, Zenon
<1>15. Sum(b4) = Sum(b2) + Sum(b3)
  <2> HIDE DEF b2, b3
  <2> QED BY <1>11, SumAdd, Zenon
<1>16. Sum(Products(x, z, n)) = Sum(r) + s * Sum(q) + c * Sum(x)
  <2> HIDE DEF b1, b2, b3, b4, z, q, r
  <2> QED BY <1>12, <1>13, <1>14, <1>15, Zenon
<1> QED BY <1>3, <1>10, <1>16, Zenon DEF IsSlanted

\* Detrending does not see a line.
LEMMA DetrendStays ==
  ASSUME NEW n \in Nat, n > 1, NEW x \in [1..n -> Int], NEW y \in [1..n -> Int],
         NEW s \in Int, NEW c \in Int
  PROVE  DetrendLink(x, Slanted(x, y, n, s, c)) = DetrendLink(x, y)
<1> DEFINE z == Slanted(x, y, n, s, c)
<1>1. PICK sx \in Int, sy \in Int, sxx \in Int, sxy \in Int :
        /\ sx = Sum(x) /\ sy = Sum(y)
        /\ sxx = Sum(Products(x, x, n)) /\ sxy = Sum(Products(x, y, n))
  BY ProductTypes
<1>2. PICK tx \in Int, tt \in Int :
        /\ tx = sy + s * sx + n * c
        /\ tt = sxy + s * sxx + c * sx
  OBVIOUS
<1>3. z \in [1..n -> Int] /\ Sum(z) = tx /\ Sum(Products(x, z, n)) = tt
  <2>1. IsSlanted(z, x, y, n, s, c)
    BY SlantedSums
  <2> QED BY <1>1, <1>2, <2>1, Zenon DEF IsSlanted
<1> HIDE DEF z
<1>4. PICK slope \in Int, spread \in Int : /\ slope = n * sxy - sx * sy
                                           /\ spread = n * sxx - sx * sx
  OBVIOUS
<1>5. PICK intercept \in Int : intercept = spread * sy - slope * sx
  OBVIOUS
<1>6. /\ FitAffine(x, y).slope = slope /\ FitAffine(x, y).spread = spread
      /\ FitAffine(x, y).intercept = intercept
  <2>1. IsFit(x, y, n, sx, sy, sxx, sxy)
    BY <1>1, FitIs
  <2> QED BY <1>4, <1>5, <2>1, Zenon DEF IsFit
<1>7. PICK zslope \in Int : zslope = slope + s * spread
  OBVIOUS
<1>8. PICK zintercept \in Int : zintercept = intercept + n * c * spread
  OBVIOUS
<1>9. n * tt - sx * tx = zslope
  <2>1. n * (sxy + s * sxx + c * sx) - sx * (sy + s * sx + n * c)
          = (n * sxy - sx * sy) + s * (n * sxx - sx * sx)
    BY SlopeShifts
  <2> QED BY <1>2, <1>4, <1>7, <2>1, Zenon
<1>10. spread * tx - zslope * sx = zintercept
  <2>1. spread * (sy + s * sx + n * c) - (slope + s * spread) * sx
          = (spread * sy - slope * sx) + n * c * spread
    BY InterceptShifts
  <2> QED BY <1>2, <1>5, <1>7, <1>8, <2>1, Zenon
<1>11. /\ FitAffine(x, z).slope = zslope /\ FitAffine(x, z).spread = spread
       /\ FitAffine(x, z).intercept = zintercept
  <2>1. IsFit(x, z, n, sx, tx, sxx, tt)
    BY <1>1, <1>3, FitIs
  <2> QED BY <1>4, <1>9, <1>10, <2>1, Zenon DEF IsFit
<1>12. \A i \in 1..n :
         n * spread * z[i] - n * zslope * x[i] - zintercept
           = n * spread * y[i] - n * slope * x[i] - intercept
  <2> SUFFICES ASSUME NEW i \in 1..n
               PROVE  n * spread * z[i] - n * zslope * x[i] - zintercept
                        = n * spread * y[i] - n * slope * x[i] - intercept
    OBVIOUS
  <2>1. PICK a \in Int, b \in Int : a = x[i] /\ b = y[i] /\ z[i] = b + s * a + c
    BY DEF z, Slanted
  <2>2. n * spread * (b + s * a + c) - n * zslope * a - zintercept
          = n * spread * b - n * slope * a - intercept
    <3>1. n * spread * (b + s * a + c) - n * (slope + s * spread) * a
              - (intercept + n * c * spread)
            = n * spread * b - n * slope * a - intercept
      BY ResidualStays
    <3> QED BY <1>7, <1>8, <3>1, Zenon
  <2> QED BY <2>1, <2>2, Zenon
<1>13. Len(y) = n /\ Len(z) = n /\ ~(n < 2)
  BY <1>3
<1>14. DetrendLink(x, y) = [i \in 1..n |-> n * spread * y[i] - n * slope * x[i] - intercept]
  BY <1>6, <1>13, Zenon DEF DetrendLink
<1>15. DetrendLink(x, z) = [i \in 1..n |-> n * spread * z[i] - n * zslope * x[i] - zintercept]
  BY <1>11, <1>13, Zenon DEF DetrendLink
<1>16. DetrendLink(x, z) = DetrendLink(x, y)
  BY <1>12, <1>14, <1>15, Zenon
<1> QED BY <1>16 DEF z

\* The spread of numbers that are not all the same is positive.
LEMMA PositiveFactor ==
  ASSUME NEW k \in Nat \ {0}, NEW d \in Int, k * d > 0
  PROVE  d > 0
OBVIOUS

LEMMA SquareIsNat ==
  ASSUME NEW a \in Int
  PROVE  a * a \in Nat /\ (a # 0 => a * a > 0)
OBVIOUS

LEMMA SpreadGrows ==
  ASSUME NEW k \in Nat \ {0}, NEW q \in Int, NEW s \in Int, NEW x \in Int, k * q - s * s > 0
  PROVE  (k + 1) * (q + x * x) - (s + x) * (s + x) > 0
<1>1. k * ((k + 1) * (q + x * x) - (s + x) * (s + x))
        = (k + 1) * (k * q - s * s) + (k * x - s) * (k * x - s)
  OBVIOUS
<1>2. PICK a \in Int : a = k * x - s
  OBVIOUS
<1>3. PICK d \in Int : d = k * q - s * s
  OBVIOUS
<1>4. a * a \in Nat
  BY SquareIsNat
<1>5. (k + 1) * d > 0
  <2>1. d > 0 /\ k + 1 > 0
    BY <1>3
  <2> QED BY <2>1
<1>6. PICK e \in Int : e = (k + 1) * (q + x * x) - (s + x) * (s + x)
  OBVIOUS
<1>7. k * e = (k + 1) * d + a * a
  BY <1>1, <1>2, <1>3, <1>6, Zenon
<1>8. k * e > 0
  BY <1>4, <1>5, <1>7
<1>9. e > 0
  BY <1>8, PositiveFactor
<1> QED BY <1>6, <1>9

Increasing(x, n) == \A i \in 1..(n - 1) : x[i] < x[i + 1]

LEMMA SpreadIsPositive ==
  ASSUME NEW n \in Nat, n > 1, NEW x \in [1..n -> Int], Increasing(x, n)
  PROVE  FitAffine(x, x).spread > 0
<1> DEFINE q == Products(x, x, n)
<1>1. q \in [1..n -> Int] /\ \A i \in 1..n : q[i] = x[i] * x[i] /\ x[i] \in Int
  BY ProductTypes DEF Products
<1> HIDE DEF q
<1>2. x \in Seq(Int) /\ q \in Seq(Int) /\ Len(x) = n /\ Len(q) = n
  BY <1>1
<1>3. PICK gx, gq : Partial(x, gx) /\ Partial(q, gq)
  BY <1>2, PartialSums
<1>4. \A i \in 0..n : gx[i] \in Int /\ gq[i] \in Int
  BY <1>2, <1>3 DEF Partial
<1>5. \A i \in 1..n : gx[i] = gx[i - 1] + x[i] /\ gq[i] = gq[i - 1] + x[i] * x[i]
  BY <1>1, <1>2, <1>3 DEF Partial
<1> DEFINE S == {j \in 0..(n - 2) : (j + 2) * gq[j + 2] - gx[j + 2] * gx[j + 2] > 0}
<1>6. 0 \in S
  <2>1. PICK a \in Int, b \in Int : a = x[1] /\ b = x[2] /\ a < b
    BY <1>1 DEF Increasing
  <2>2. gx[0] = 0 /\ gq[0] = 0 /\ 1 \in 1..n /\ 2 \in 1..n
    BY <1>3 DEF Partial
  <2>3. PICK p \in Int : p = a * a
    OBVIOUS
  <2>4. PICK r \in Int : r = b * b
    OBVIOUS
  <2>5. gx[1] = gx[0] + x[1] /\ gq[1] = gq[0] + x[1] * x[1]
    BY <1>5, <2>2
  <2>6. gx[1] = a /\ gq[1] = p
    BY <2>1, <2>2, <2>3, <2>5
  <2>7. gx[2] = gx[1] + x[2] /\ gq[2] = gq[1] + x[2] * x[2]
    BY <1>5, <2>2
  <2>8. gx[2] = a + b /\ gq[2] = p + r
    BY <2>1, <2>4, <2>6, <2>7, Zenon
  <2>9. 2 * (p + r) - (a + b) * (a + b) = (a - b) * (a - b)
    BY <2>3, <2>4
  <2>10. (a - b) * (a - b) > 0
    <3>1. a - b \in Int /\ a - b # 0
      BY <2>1
    <3> QED BY <3>1, SquareIsNat
  <2>11. 2 * gq[2] - gx[2] * gx[2] > 0
    BY <2>8, <2>9, <2>10, Zenon
  <2>12. 0 \in 0..(n - 2) /\ 0 + 2 = 2
    OBVIOUS
  <2> QED BY <2>11, <2>12
<1>7. ASSUME NEW j \in 1..(n - 2), j - 1 \in S PROVE j \in S
  <2>1. /\ j + 1 \in 0..n /\ j + 2 \in 1..n /\ (j + 2) - 1 = j + 1 /\ (j - 1) + 2 = j + 1
        /\ (j + 1) + 1 = j + 2 /\ j + 1 \in Nat \ {0} /\ j \in 0..(n - 2)
    OBVIOUS
  <2>2. PICK s \in Int, t \in Int, a \in Int : s = gx[j + 1] /\ t = gq[j + 1] /\ a = x[j + 2]
    BY <1>1, <1>4, <2>1
  <2>3. (j + 1) * t - s * s > 0
    <3>1. (j - 1 + 2) * gq[j - 1 + 2] - gx[j - 1 + 2] * gx[j - 1 + 2] > 0
      BY <1>7
    <3> QED BY <2>1, <2>2, <3>1, Zenon
  <2>4. ((j + 1) + 1) * (t + a * a) - (s + a) * (s + a) > 0
    BY <2>1, <2>3, SpreadGrows
  <2>5. gx[j + 2] = s + a /\ gq[j + 2] = t + a * a
    BY <1>5, <2>1, <2>2, Zenon
  <2>6. (j + 2) * gq[j + 2] - gx[j + 2] * gx[j + 2] > 0
    BY <2>1, <2>4, <2>5, Zenon
  <2> QED BY <2>1, <2>6
<1>8. n - 2 \in S
  <2>1. n - 2 \in Nat
    OBVIOUS
  <2> HIDE DEF S
  <2>2. 0..(n - 2) \subseteq S
    BY <1>6, <1>7, <2>1, Induction
  <2> QED BY <2>1, <2>2
<1>9. n * gq[n] - gx[n] * gx[n] > 0
  <2>1. (n - 2) + 2 = n
    OBVIOUS
  <2>2. (n - 2 + 2) * gq[n - 2 + 2] - gx[n - 2 + 2] * gx[n - 2 + 2] > 0
    BY <1>8
  <2> QED BY <2>1, <2>2, Zenon
<1>10. Sum(x) = gx[n] /\ Sum(q) = gq[n]
  BY <1>2, <1>3 DEF Partial
<1>11. IsFit(x, x, n, Sum(x), Sum(x), Sum(q), Sum(q))
  BY FitIs DEF q
<1> QED BY <1>9, <1>10, <1>11, Zenon DEF IsFit

-----------------------------------------------------------------------------
(***************************************************************************)
(* A captured frame and its buffer                                         *)
(***************************************************************************)

Appended(t, s, e, n) ==
  t = Append(s, e) /\ Len(t) = n + 1 /\ t[n + 1] = e /\ \A k \in 1..n : t[k] = s[k]

LEMMA AppendIs ==
  ASSUME NEW S, NEW s \in Seq(S), NEW e \in S, NEW n \in Nat, Len(s) = n
  PROVE  \E t \in Seq(S) : Appended(t, s, e, n)
<1> DEFINE t == Append(s, e)
<1>1. t \in Seq(S) /\ Len(t) = n + 1 /\ t[n + 1] = e /\ \A k \in 1..n : t[k] = s[k]
  OBVIOUS
<1> QED BY <1>1, Zenon DEF Appended

LEMMA StagesAre ==
  /\ Len(Stages) = 3
  /\ Stages[1] = "phase_unwrap" /\ Stages[2] = "linear_phase_detrend"
  /\ Stages[3] = "rms_amplitude_normalize"
<1> DEFINE p == BaselineCsiV1
           E(g) == [n \in 0..Len(p) |->
                      IF n = 0 THEN <<>>
                      ELSE IF p[n].enabled THEN Append(g[n - 1], p[n].id) ELSE g[n - 1]]
           h == CHOOSE g : g = E(g)
           f == [n \in 0..3 |-> IF n = 0 THEN <<>> ELSE IF n = 1 THEN <<"phase_unwrap">>
                                ELSE IF n = 2 THEN <<"phase_unwrap", "linear_phase_detrend">>
                                ELSE <<"phase_unwrap", "linear_phase_detrend",
                                       "rms_amplitude_normalize">>]
<1>1. Stages = h[Len(p)]
  BY Zenon DEF Stages, BuildStages
<1>2. /\ Len(p) = 3
      /\ p[1].enabled /\ p[1].id = "phase_unwrap"
      /\ p[2].enabled /\ p[2].id = "linear_phase_detrend"
      /\ p[3].enabled /\ p[3].id = "rms_amplitude_normalize"
  BY DEF BaselineCsiV1
<1> HIDE DEF p
<1>3. f = E(f)
  <2>1. \A n \in 0..3 : n = 0 \/ n = 1 \/ n = 2 \/ n = 3
    OBVIOUS
  <2>2. /\ f[0] = <<>> /\ f[1] = Append(f[0], p[1].id) /\ f[2] = Append(f[1], p[2].id)
        /\ f[3] = Append(f[2], p[3].id)
    BY <1>2
  <2>3. f = [n \in 0..3 |-> f[n]]
    OBVIOUS
  <2> HIDE DEF f
  <2>4. \A n \in 0..3 : f[n] = IF n = 0 THEN <<>>
                               ELSE IF p[n].enabled THEN Append(f[n - 1], p[n].id) ELSE f[n - 1]
    <3> SUFFICES ASSUME NEW n \in 0..3
                 PROVE  f[n] = IF n = 0 THEN <<>>
                               ELSE IF p[n].enabled THEN Append(f[n - 1], p[n].id) ELSE f[n - 1]
      OBVIOUS
    <3>1. CASE n = 0
      BY <2>2, <3>1
    <3>2. CASE n = 1
      <4>1. n - 1 = 0 /\ n # 0
        BY <3>2
      <4> QED BY <1>2, <2>2, <3>2, <4>1, Zenon
    <3>3. CASE n = 2
      <4>1. n - 1 = 1 /\ n # 0
        BY <3>3
      <4> QED BY <1>2, <2>2, <3>3, <4>1, Zenon
    <3>4. CASE n = 3
      <4>1. n - 1 = 2 /\ n # 0
        BY <3>4
      <4> QED BY <1>2, <2>2, <3>4, <4>1, Zenon
    <3> QED BY <2>1, <3>1, <3>2, <3>3, <3>4
  <2> QED BY <1>2, <2>3, <2>4
<1>4. h = E(h)
  <2> HIDE DEF E, f
  <2> QED BY <1>3
<1> HIDE DEF h
<1>5. /\ h[0] = <<>>
      /\ h[1] = Append(h[0], "phase_unwrap") /\ h[2] = Append(h[1], "linear_phase_detrend")
      /\ h[3] = Append(h[2], "rms_amplitude_normalize")
  <2>1. \A n \in 0..3 : h[n] = IF n = 0 THEN <<>>
                               ELSE IF p[n].enabled THEN Append(h[n - 1], p[n].id) ELSE h[n - 1]
    BY <1>2, <1>4, Zenon
  <2>2. 0 \in 0..3 /\ 1 \in 0..3 /\ 2 \in 0..3 /\ 3 \in 0..3
    OBVIOUS
  <2>3. 1 - 1 = 0 /\ 2 - 1 = 1 /\ 3 - 1 = 2 /\ 1 # 0 /\ 2 # 0 /\ 3 # 0
    OBVIOUS
  <2>4. h[0] = <<>>
    BY <2>1, <2>2, Zenon
  <2>5. h[1] = Append(h[0], "phase_unwrap")
    BY <1>2, <2>1, <2>2, <2>3, Zenon
  <2>6. h[2] = Append(h[1], "linear_phase_detrend")
    BY <1>2, <2>1, <2>2, <2>3, Zenon
  <2>7. h[3] = Append(h[2], "rms_amplitude_normalize")
    BY <1>2, <2>1, <2>2, <2>3, Zenon
  <2> QED BY <2>4, <2>5, <2>6, <2>7
<1>6. /\ Len(h[3]) = 3
      /\ h[3][1] = "phase_unwrap" /\ h[3][2] = "linear_phase_detrend"
      /\ h[3][3] = "rms_amplitude_normalize"
  <2>1. \A e \in {"phase_unwrap", "linear_phase_detrend", "rms_amplitude_normalize"} : e \in StageId
    BY DEF StageId
  <2>2. <<>> \in Seq(StageId) /\ Len(<<>>) = 0
    OBVIOUS
  <2>3. PICK s1 \in Seq(StageId) : Appended(s1, <<>>, "phase_unwrap", 0)
    BY <2>1, <2>2, AppendIs
  <2>4. Len(s1) = 1 /\ s1[1] = "phase_unwrap" /\ h[1] = s1
    BY <1>5, <2>3 DEF Appended
  <2>5. PICK s2 \in Seq(StageId) : Appended(s2, s1, "linear_phase_detrend", 1)
    BY <2>1, <2>4, AppendIs
  <2>6. Len(s2) = 2 /\ s2[1] = "phase_unwrap" /\ s2[2] = "linear_phase_detrend" /\ h[2] = s2
    BY <1>5, <2>4, <2>5 DEF Appended
  <2>7. PICK s3 \in Seq(StageId) : Appended(s3, s2, "rms_amplitude_normalize", 2)
    BY <2>1, <2>6, AppendIs
  <2>8. Len(s3) = 3 /\ \A k \in 1..2 : s3[k] = s2[k]
    BY <2>7 DEF Appended
  <2>9. s3[3] = "rms_amplitude_normalize" /\ h[3] = s3
    BY <1>5, <2>6, <2>7 DEF Appended
  <2>10. s3[1] = "phase_unwrap" /\ s3[2] = "linear_phase_detrend"
    BY <2>6, <2>8
  <2> QED BY <2>8, <2>9, <2>10, Zenon
<1> QED BY <1>1, <1>2, <1>6

N == Len(Indices)

\* The powers and the phases of a link, as they are received.
Powers(shape, drift) == [i \in 1..N |-> drift.gain * shape[i].power]
Phases(shape, drift) == [i \in 1..N |-> Received(shape, drift)[i].phase]

LEMMA IndicesAre == N \in Nat /\ Indices \in [1..N -> Int]
BY FrameConfig DEF N

LEMMA ShapeTypes ==
  ASSUME NEW shape \in Shape, NEW i \in 1..N
  PROVE  shape[i].power \in Nat /\ shape[i].phase \in Int /\ DOMAIN shape = 1..N
<1>1. shape \in [1..N -> [power : Nat, phase : Int]]
  BY DEF Shape, N
<1> QED BY <1>1

LEMMA DriftTypes ==
  ASSUME NEW drift \in Drift
  PROVE  drift.gain \in Nat \ {0} /\ drift.offset \in Int /\ drift.slope \in Int
BY DEF Drift

\* Where the receiver sends phases.
SentPhase(shape, drift, i) == shape[i].phase + drift.offset + drift.slope * Indices[i]

LEMMA ReceivedIs ==
  ASSUME NEW shape \in Shape, NEW drift \in Drift, NEW i \in 1..N
  PROVE  /\ Received(shape, drift)[i].power = drift.gain * shape[i].power
         /\ Received(shape, drift)[i].power \in Nat
         /\ Received(shape, drift)[i].phase \in Int
         /\ SentPhase(shape, drift, i) \in Int
         /\ shape[i].power > 0 =>
              Received(shape, drift)[i].phase = Principal(SentPhase(shape, drift, i), Turn)
<1>1. PICK a \in Int, g \in Nat, o \in Int, s \in Int, x \in Int, w \in Nat :
        /\ a = shape[i].phase /\ w = shape[i].power
        /\ g = drift.gain /\ o = drift.offset /\ s = drift.slope /\ x = Indices[i]
  BY ShapeTypes, DriftTypes, IndicesAre
<1>2. PICK t \in Int : t = a + o + s * x
  OBVIOUS
<1>3. SentPhase(shape, drift, i) = t
  BY <1>1, <1>2, Zenon DEF SentPhase
<1>4. Principal(t, Turn) \in Int
  BY TurnConfig, PrincipalIs
<1>5. Received(shape, drift)[i]
        = [power |-> drift.gain * shape[i].power,
           phase |-> IF shape[i].power = 0 THEN 0
                     ELSE Principal(SentPhase(shape, drift, i), Turn)]
  BY ShapeTypes, Zenon DEF Received, SentPhase
<1>6. g * w \in Nat
  OBVIOUS
<1>7. Received(shape, drift)[i].power = g * w
  <2>1. Received(shape, drift)[i].power = drift.gain * shape[i].power
    BY <1>5
  <2> QED BY <1>1, <2>1, Zenon
<1>8. Received(shape, drift)[i].phase = IF w = 0 THEN 0 ELSE Principal(t, Turn)
  <2>1. Received(shape, drift)[i].phase
          = IF shape[i].power = 0 THEN 0 ELSE Principal(SentPhase(shape, drift, i), Turn)
    BY <1>5
  <2> QED BY <1>1, <1>3, <2>1, Zenon
<1> HIDE DEF Received
<1>9. Received(shape, drift)[i].phase \in Int
  BY <1>4, <1>8
<1>10. shape[i].power > 0 => Received(shape, drift)[i].phase = Principal(t, Turn)
  BY <1>1, <1>8
<1>11. Received(shape, drift)[i].power = drift.gain * shape[i].power
  BY <1>1, <1>7, Zenon
<1> QED BY <1>3, <1>6, <1>7, <1>9, <1>10, <1>11

LEMMA PowersAndPhases ==
  ASSUME NEW shape \in Shape, NEW drift \in Drift
  PROVE  Powers(shape, drift) \in [1..N -> Nat] /\ Phases(shape, drift) \in [1..N -> Int]
<1>1. \A i \in 1..N : drift.gain * shape[i].power \in Nat /\ Received(shape, drift)[i].phase \in Int
  BY ReceivedIs
<1> QED BY <1>1, Zenon DEF Powers, Phases

\* Where the samples of a link are in a frame.
LEMMA LinkOfCaptured ==
  ASSUME NEW shapes, NEW drift, NEW l \in Antennas
  PROVE  /\ DOMAIN LinkOf(CapturedFrame(shapes, drift), l - 1, 0) = 1..N
         /\ \A i \in 1..N :
              LinkOf(CapturedFrame(shapes, drift), l - 1, 0)[i] = Received(shapes[l], drift)[i]
<1> DEFINE frame == CapturedFrame(shapes, drift)
           start == (l - 1) * N
<1>1. /\ frame.tx = 1 /\ frame.indices = Indices
      /\ frame.samples = [j \in 1..(Receivers * N) |->
                            Received(shapes[((j - 1) \div N) + 1], drift)[((j - 1) % N) + 1]]
  BY DEF CapturedFrame, N
<1>2. N \in Nat /\ l \in Int /\ start \in Nat /\ l <= Receivers /\ Receivers \in Nat
  BY IndicesAre, FrameConfig DEF Antennas
<1> HIDE DEF frame, N
<1>3. LinkOf(frame, l - 1, 0) = SubSeq(frame.samples, start + 1, start + N)
  <2>1. LinkOf(frame, l - 1, 0)
          = SubSeq(frame.samples, ((l - 1) * 1 + 0) * N + 1, ((l - 1) * 1 + 0) * N + N)
    BY <1>1, Zenon DEF LinkOf, N
  <2>2. (l - 1) * 1 + 0 = l - 1
    BY <1>2
  <2> QED BY <2>1, <2>2, Zenon
<1>4. SubSeq(frame.samples, start + 1, start + N)
        = [k \in 1..N |-> frame.samples[start + k]]
  <2> HIDE DEF start
  <2>1. (start + N) - (start + 1) + 1 = N /\ \A k \in 1..N : k + (start + 1) - 1 = start + k
    BY <1>2
  <2> QED BY <1>2, <2>1
<1>5. ASSUME NEW i \in 1..N
      PROVE  frame.samples[start + i] = Received(shapes[l], drift)[i]
  <2>1. N \in Nat \ {0}
    BY <1>2
  <2>2. start + i \in 1..(Receivers * N)
    <3>1. start + N = l * N
      BY <1>2
    <3>2. l * N <= Receivers * N
      BY <1>2
    <3> HIDE DEF start
    <3>3. Receivers * N \in Int /\ l * N \in Int
      BY <1>2
    <3> QED BY <1>2, <3>1, <3>2, <3>3
  <2>3. ((start + i) - 1) \div N = l - 1 /\ ((start + i) - 1) % N = i - 1
    <3>1. i - 1 \in 0..(N - 1) /\ l - 1 \in Int
      BY <1>2
    <3>2. ((l - 1) * N + (i - 1)) \div N = l - 1 /\ ((l - 1) * N + (i - 1)) % N = i - 1
      BY <2>1, <3>1, DivMod
    <3>3. (l - 1) * N + (i - 1) = (start + i) - 1
      <4> HIDE DEF start
      <4>1. start = (l - 1) * N
        BY DEF start
      <4>2. start + (i - 1) = (start + i) - 1
        BY <1>2
      <4> QED BY <4>1, <4>2, Zenon
    <3> QED BY <3>2, <3>3, Zenon
  <2>4. frame.samples[start + i] = Received(shapes[l], drift)[i]
    <3> HIDE DEF start
    <3>1. PICK m \in 1..(Receivers * N) : m = start + i
      BY <2>2
    <3>2. frame.samples[m] = Received(shapes[((m - 1) \div N) + 1], drift)[((m - 1) % N) + 1]
      BY <1>1, Zenon
    <3>3. (m - 1) \div N = l - 1 /\ (m - 1) % N = i - 1
      BY <2>3, <3>1, Zenon
    <3>4. (l - 1) + 1 = l /\ (i - 1) + 1 = i
      BY <1>2
    <3>5. frame.samples[m] = Received(shapes[l], drift)[i]
      BY <3>2, <3>3, <3>4, Zenon
    <3> QED BY <3>1, <3>5, Zenon
  <2> QED BY <2>4
<1>6. /\ DOMAIN LinkOf(frame, l - 1, 0) = 1..N
      /\ \A i \in 1..N : LinkOf(frame, l - 1, 0)[i] = frame.samples[start + i]
  BY <1>3, <1>4, Zenon
<1> QED BY <1>5, <1>6, Zenon DEF frame

-----------------------------------------------------------------------------
(***************************************************************************)
(* The stages                                                              *)
(***************************************************************************)

\* A buffer whose links have these powers, phases and totals.
BufferOf(turn, power, phase, total) ==
  [indices |-> Indices, turn |-> turn,
   links |-> [l \in Antennas |-> [power |-> power[l], phase |-> phase[l], total |-> total[l]]]]

LEMMA PhaseUnwrapIs ==
  ASSUME NEW turn, NEW power, NEW phase, NEW total
  PROVE  PhaseUnwrap(BufferOf(turn, power, phase, total))
           = BufferOf(turn, power, [l \in Antennas |-> UnwrapLink(phase[l], turn)], total)
<1> DEFINE b == BufferOf(turn, power, phase, total)
<1>1. b.turn = turn /\ b.indices = Indices
  BY DEF BufferOf
<1>2. DOMAIN b.links = Antennas
  BY DEF BufferOf
<1>3. \A l \in Antennas :
        b.links[l] = [power |-> power[l], phase |-> phase[l], total |-> total[l]]
  BY DEF BufferOf
<1>4. b = [indices |-> Indices, turn |-> turn, links |-> b.links]
  BY DEF BufferOf
<1> HIDE DEF b
<1> DEFINE links == [l \in Antennas |-> WithPhase(b.links[l], UnwrapLink(b.links[l].phase, turn))]
<1>5. PhaseUnwrap(b) = [b EXCEPT !.links = links]
  BY <1>1, <1>2, Zenon DEF PhaseUnwrap
<1>6. \A l \in Antennas :
        WithPhase(b.links[l], UnwrapLink(b.links[l].phase, turn))
          = [power |-> power[l], phase |-> UnwrapLink(phase[l], turn), total |-> total[l]]
  <2> SUFFICES ASSUME NEW l \in Antennas
               PROVE  WithPhase(b.links[l], UnwrapLink(b.links[l].phase, turn))
                        = [power |-> power[l], phase |-> UnwrapLink(phase[l], turn), total |-> total[l]]
    OBVIOUS
  <2> DEFINE link == b.links[l]
             v == UnwrapLink(phase[l], turn)
  <2>1. link = [power |-> power[l], phase |-> phase[l], total |-> total[l]]
    BY <1>3
  <2> HIDE DEF link
  <2>2. link.phase = phase[l]
    BY <2>1
  <2>3. UnwrapLink(link.phase, turn) = v
    BY <2>2, Zenon
  <2> HIDE DEF v
  <2>4. WithPhase(link, v) = [power |-> power[l], phase |-> v, total |-> total[l]]
    BY <2>1 DEF WithPhase
  <2> QED BY <2>3, <2>4, Zenon DEF link, v
<1>7. links = [l \in Antennas |-> [power |-> power[l], phase |-> UnwrapLink(phase[l], turn),
                                   total |-> total[l]]]
  BY <1>6, Zenon
<1> HIDE DEF links
<1>8. [b EXCEPT !.links = links] = [indices |-> Indices, turn |-> turn, links |-> links]
  BY <1>4
<1>9. links = [l \in Antennas |->
                 [power |-> power[l],
                  phase |-> [m \in Antennas |-> UnwrapLink(phase[m], turn)][l],
                  total |-> total[l]]]
  BY <1>7
<1> QED BY <1>5, <1>8, <1>9, Zenon DEF BufferOf, b

LEMMA LinearPhaseDetrendIs ==
  ASSUME NEW turn, NEW power, NEW phase, NEW total
  PROVE  LinearPhaseDetrend(BufferOf(turn, power, phase, total))
           = BufferOf(turn * Finer(Indices), power,
                      [l \in Antennas |-> DetrendLink(Indices, phase[l])], total)
<1> DEFINE b == BufferOf(turn, power, phase, total)
<1>1. b.turn = turn /\ b.indices = Indices
  BY DEF BufferOf
<1>2. DOMAIN b.links = Antennas
  BY DEF BufferOf
<1>3. \A l \in Antennas :
        b.links[l] = [power |-> power[l], phase |-> phase[l], total |-> total[l]]
  BY DEF BufferOf
<1>4. b = [indices |-> Indices, turn |-> turn, links |-> b.links]
  BY DEF BufferOf
<1> HIDE DEF b
<1> DEFINE links == [l \in Antennas |-> WithPhase(b.links[l], DetrendLink(Indices, b.links[l].phase))]
           finer == turn * Finer(Indices)
<1>5. LinearPhaseDetrend(b) = [indices |-> Indices, turn |-> finer, links |-> links]
  BY <1>1, <1>2, Zenon DEF LinearPhaseDetrend
<1>6. \A l \in Antennas :
        WithPhase(b.links[l], DetrendLink(Indices, b.links[l].phase))
          = [power |-> power[l], phase |-> DetrendLink(Indices, phase[l]), total |-> total[l]]
  <2> SUFFICES ASSUME NEW l \in Antennas
               PROVE  WithPhase(b.links[l], DetrendLink(Indices, b.links[l].phase))
                        = [power |-> power[l], phase |-> DetrendLink(Indices, phase[l]), total |-> total[l]]
    OBVIOUS
  <2> DEFINE link == b.links[l]
             v == DetrendLink(Indices, phase[l])
  <2>1. link = [power |-> power[l], phase |-> phase[l], total |-> total[l]]
    BY <1>3
  <2> HIDE DEF link
  <2>2. link.phase = phase[l]
    BY <2>1
  <2>3. DetrendLink(Indices, link.phase) = v
    BY <2>2, Zenon
  <2> HIDE DEF v
  <2>4. WithPhase(link, v) = [power |-> power[l], phase |-> v, total |-> total[l]]
    BY <2>1 DEF WithPhase
  <2> QED BY <2>3, <2>4, Zenon DEF link, v
<1>7. links = [l \in Antennas |-> [power |-> power[l], phase |-> DetrendLink(Indices, phase[l]),
                                   total |-> total[l]]]
  BY <1>6, Zenon
<1> HIDE DEF links, finer
<1>8. links = [l \in Antennas |->
                 [power |-> power[l],
                  phase |-> [m \in Antennas |-> DetrendLink(Indices, phase[m])][l],
                  total |-> total[l]]]
  BY <1>7
<1> QED BY <1>5, <1>8, Zenon DEF BufferOf, b, finer

\* The phases of a link, as principal phases.
Principals(phase, turn) == [i \in DOMAIN phase |-> Principal(phase[i], turn)]

LEMMA RmsAmplitudeNormalizeIs ==
  ASSUME NEW turn, NEW power, NEW phase, NEW total
  PROVE  RmsAmplitudeNormalize(BufferOf(turn, power, phase, total))
           = BufferOf(turn, power, [l \in Antennas |-> Principals(phase[l], turn)],
                      [l \in Antennas |-> Sum(power[l])])
<1> DEFINE b == BufferOf(turn, power, phase, total)
<1>1. b.turn = turn
  BY DEF BufferOf
<1>2. DOMAIN b.links = Antennas
  BY DEF BufferOf
<1>3. \A l \in Antennas :
        b.links[l] = [power |-> power[l], phase |-> phase[l], total |-> total[l]]
  BY DEF BufferOf
<1>4. b = [indices |-> Indices, turn |-> turn, links |-> b.links]
  BY DEF BufferOf
<1> HIDE DEF b
<1> DEFINE links == [l \in Antennas |-> NormalizeLink(b.links[l], turn)]
<1>5. RmsAmplitudeNormalize(b) = [b EXCEPT !.links = links]
  BY <1>1, <1>2, Zenon DEF RmsAmplitudeNormalize
<1>6. \A l \in Antennas :
        NormalizeLink(b.links[l], turn)
          = [power |-> power[l], phase |-> Principals(phase[l], turn), total |-> Sum(power[l])]
  <2> SUFFICES ASSUME NEW l \in Antennas
               PROVE  NormalizeLink(b.links[l], turn)
                        = [power |-> power[l], phase |-> Principals(phase[l], turn),
                           total |-> Sum(power[l])]
    OBVIOUS
  <2> DEFINE link == b.links[l]
  <2>1. link = [power |-> power[l], phase |-> phase[l], total |-> total[l]]
    BY <1>3
  <2> HIDE DEF link
  <2>2. MapSeq(link.phase, LAMBDA p : Principal(p, turn)) = Principals(phase[l], turn)
    BY <2>1 DEF MapSeq, Principals
  <2>3. NormalizeLink(link, turn)
          = [power |-> link.power, phase |-> Principals(phase[l], turn), total |-> Sum(link.power)]
    BY <2>2, Zenon DEF NormalizeLink
  <2>4. link.power = power[l]
    BY <2>1
  <2> QED BY <2>3, <2>4, Zenon DEF link
<1>7. links = [l \in Antennas |-> [power |-> power[l], phase |-> Principals(phase[l], turn),
                                   total |-> Sum(power[l])]]
  BY <1>6, Zenon
<1> HIDE DEF links
<1>8. [b EXCEPT !.links = links] = [indices |-> Indices, turn |-> turn, links |-> links]
  BY <1>4
<1>9. links = [l \in Antennas |->
                 [power |-> power[l],
                  phase |-> [m \in Antennas |-> Principals(phase[m], turn)][l],
                  total |-> [m \in Antennas |-> Sum(power[m])][l]]]
  BY <1>7
<1> QED BY <1>5, <1>8, <1>9, Zenon DEF BufferOf, b

LEMMA FromFrameIs ==
  ASSUME NEW shapes \in [Antennas -> Shape], NEW drift \in Drift
  PROVE  FromFrame(CapturedFrame(shapes, drift))
           = BufferOf(Turn, [l \in Antennas |-> Powers(shapes[l], drift)],
                      [l \in Antennas |-> Phases(shapes[l], drift)], [l \in Antennas |-> 0])
<1> DEFINE frame == CapturedFrame(shapes, drift)
           power == [l \in Antennas |-> Powers(shapes[l], drift)]
           phase == [l \in Antennas |-> Phases(shapes[l], drift)]
           total == [l \in Antennas |-> 0]
           link(l) == LinkOf(frame, l - 1, 0)
           fields(l) == [power |-> MapSeq(link(l), LAMBDA s : s.power),
                         phase |-> MapSeq(link(l), LAMBDA s : s.phase), total |-> 0]
<1>1. frame.rx = Receivers /\ frame.tx = 1 /\ frame.indices = Indices
  BY DEF CapturedFrame
<1>2. Links(frame) = Antennas
  BY <1>1, FrameConfig DEF Links, Antennas
<1>3. \A l \in Antennas : (l - 1) \div 1 = l - 1 /\ (l - 1) % 1 = 0
  <2> SUFFICES ASSUME NEW l \in Antennas PROVE (l - 1) \div 1 = l - 1 /\ (l - 1) % 1 = 0
    OBVIOUS
  <2>1. l - 1 \in Int /\ (l - 1) * 1 + 0 = l - 1 /\ 0 \in 0..(1 - 1) /\ 1 \in Nat \ {0}
    BY FrameConfig DEF Antennas
  <2>2. ((l - 1) * 1 + 0) \div 1 = l - 1 /\ ((l - 1) * 1 + 0) % 1 = 0
    BY <2>1, DivMod
  <2> QED BY <2>1, <2>2, Zenon
<1>4. \A l \in Antennas :
        DOMAIN link(l) = 1..N /\ \A i \in 1..N : link(l)[i] = Received(shapes[l], drift)[i]
  BY LinkOfCaptured, Zenon DEF frame
<1> HIDE DEF frame, link
<1>5. \A l \in Antennas :
        /\ MapSeq(link(l), LAMBDA s : s.power) = power[l]
        /\ MapSeq(link(l), LAMBDA s : s.phase) = phase[l]
  <2> SUFFICES ASSUME NEW l \in Antennas
               PROVE  /\ MapSeq(link(l), LAMBDA s : s.power) = power[l]
                      /\ MapSeq(link(l), LAMBDA s : s.phase) = phase[l]
    OBVIOUS
  <2>1. shapes[l] \in Shape /\ power[l] = Powers(shapes[l], drift) /\ phase[l] = Phases(shapes[l], drift)
    OBVIOUS
  <2>2. \A i \in 1..N : Received(shapes[l], drift)[i].power = drift.gain * shapes[l][i].power
    BY <2>1, ReceivedIs
  <2>3. MapSeq(link(l), LAMBDA s : s.power) = [i \in 1..N |-> link(l)[i].power]
    BY <1>4, Zenon DEF MapSeq
  <2>4. [i \in 1..N |-> link(l)[i].power] = [i \in 1..N |-> drift.gain * shapes[l][i].power]
    BY <1>4, <2>2, Zenon
  <2>5. MapSeq(link(l), LAMBDA s : s.phase) = [i \in 1..N |-> link(l)[i].phase]
    BY <1>4, Zenon DEF MapSeq
  <2>6. [i \in 1..N |-> link(l)[i].phase] = [i \in 1..N |-> Received(shapes[l], drift)[i].phase]
    BY <1>4, Zenon
  <2> HIDE DEF power, phase
  <2> QED BY <2>1, <2>3, <2>4, <2>5, <2>6, Zenon DEF Powers, Phases
<1>6. FromFrame(frame) = [indices |-> Indices, turn |-> Turn, links |-> [l \in Antennas |-> fields(l)]]
  <2>1. \A l \in Antennas :
          LinkOf(frame, (l - 1) \div frame.tx, (l - 1) % frame.tx) = link(l)
    BY <1>1, <1>3, Zenon DEF link
  <2> QED BY <1>1, <1>2, <2>1, Zenon DEF FromFrame
<1>7. \A l \in Antennas :
        fields(l) = [power |-> power[l], phase |-> phase[l], total |-> total[l]]
  BY <1>5
<1> QED BY <1>6, <1>7, Zenon DEF BufferOf, frame

-----------------------------------------------------------------------------
(***************************************************************************)
(* What a captured frame becomes                                           *)
(***************************************************************************)

Unwrapped(shape, drift) == UnwrapLink(Phases(shape, drift), Turn)
Detrended(shape, drift) == DetrendLink(Indices, Unwrapped(shape, drift))
Normalized(shape, drift) == Principals(Detrended(shape, drift), Turn * Finer(Indices))

\* The phases of a link that is through so many stages, and its total.
PhasesAt(shape, drift, k) ==
  IF k = 0 THEN Phases(shape, drift)
  ELSE IF k = 1 THEN Unwrapped(shape, drift)
  ELSE IF k = 2 THEN Detrended(shape, drift) ELSE Normalized(shape, drift)

TotalAt(shape, drift, k) == IF k = 3 THEN Sum(Powers(shape, drift)) ELSE 0

\* The buffer of a captured frame that is through so many stages.
Staged(shapes, drift, k) ==
  BufferOf(IF k \in {0, 1} THEN Turn ELSE Turn * Finer(Indices),
           [l \in Antennas |-> Powers(shapes[l], drift)],
           [l \in Antennas |-> PhasesAt(shapes[l], drift, k)],
           [l \in Antennas |-> TotalAt(shapes[l], drift, k)])

LEMMA StagedFirst ==
  ASSUME NEW shapes \in [Antennas -> Shape], NEW drift \in Drift
  PROVE  FromFrame(CapturedFrame(shapes, drift)) = Staged(shapes, drift, 0)
<1>1. 0 # 3 /\ 0 \in {0, 1}
  OBVIOUS
<1> QED BY <1>1, FromFrameIs, Zenon DEF Staged, PhasesAt, TotalAt

LEMMA StagedNext ==
  ASSUME NEW shapes, NEW drift, NEW k \in 0..2
  PROVE  Apply(Staged(shapes, drift, k), Stages[k + 1]) = Staged(shapes, drift, k + 1)
<1> DEFINE power == [l \in Antennas |-> Powers(shapes[l], drift)]
           phase(j) == [l \in Antennas |-> PhasesAt(shapes[l], drift, j)]
           total(j) == [l \in Antennas |-> TotalAt(shapes[l], drift, j)]
           turn == Turn * Finer(Indices)
<1>1. CASE k = 0
  <2>1. /\ Staged(shapes, drift, 0) = BufferOf(Turn, power, phase(0), total(0))
        /\ Staged(shapes, drift, 1) = BufferOf(Turn, power, phase(1), total(1))
    BY DEF Staged
  <2>2. phase(1) = [l \in Antennas |-> UnwrapLink(phase(0)[l], Turn)]
    BY DEF PhasesAt, Unwrapped
  <2>3. total(1) = total(0)
    BY DEF TotalAt
  <2> HIDE DEF power, phase, total
  <2>4. PhaseUnwrap(Staged(shapes, drift, 0)) = Staged(shapes, drift, 1)
    <3>1. PhaseUnwrap(BufferOf(Turn, power, phase(0), total(0)))
            = BufferOf(Turn, power, [l \in Antennas |-> UnwrapLink(phase(0)[l], Turn)], total(0))
      BY PhaseUnwrapIs, Zenon
    <3> QED BY <2>1, <2>2, <2>3, <3>1, Zenon
  <2>5. Apply(Staged(shapes, drift, 0), "phase_unwrap") = PhaseUnwrap(Staged(shapes, drift, 0))
    BY DEF Apply
  <2>6. k + 1 = 1
    BY <1>1
  <2> QED BY <1>1, <2>4, <2>5, <2>6, StagesAre, Zenon
<1>2. CASE k = 1
  <2>1. /\ Staged(shapes, drift, 1) = BufferOf(Turn, power, phase(1), total(1))
        /\ Staged(shapes, drift, 2) = BufferOf(turn, power, phase(2), total(2))
    BY DEF Staged
  <2>2. phase(2) = [l \in Antennas |-> DetrendLink(Indices, phase(1)[l])]
    BY DEF PhasesAt, Detrended
  <2>3. total(2) = total(1)
    BY DEF TotalAt
  <2> HIDE DEF power, phase, total
  <2>4. LinearPhaseDetrend(Staged(shapes, drift, 1)) = Staged(shapes, drift, 2)
    <3>1. LinearPhaseDetrend(BufferOf(Turn, power, phase(1), total(1)))
            = BufferOf(Turn * Finer(Indices), power,
                       [l \in Antennas |-> DetrendLink(Indices, phase(1)[l])], total(1))
      BY LinearPhaseDetrendIs
    <3> QED BY <2>1, <2>2, <2>3, <3>1, Zenon
  <2>5. Apply(Staged(shapes, drift, 1), "linear_phase_detrend")
          = LinearPhaseDetrend(Staged(shapes, drift, 1))
    BY DEF Apply
  <2>6. k + 1 = 2
    BY <1>2
  <2> QED BY <1>2, <2>4, <2>5, <2>6, StagesAre, Zenon
<1>3. CASE k = 2
  <2>1. /\ Staged(shapes, drift, 2) = BufferOf(turn, power, phase(2), total(2))
        /\ Staged(shapes, drift, 3) = BufferOf(turn, power, phase(3), total(3))
    BY DEF Staged
  <2>2. phase(3) = [l \in Antennas |-> Principals(phase(2)[l], turn)]
    BY DEF PhasesAt, Normalized
  <2>3. total(3) = [l \in Antennas |-> Sum(power[l])]
    BY DEF TotalAt
  <2> HIDE DEF power, phase, total, turn
  <2>4. RmsAmplitudeNormalize(Staged(shapes, drift, 2)) = Staged(shapes, drift, 3)
    <3>1. RmsAmplitudeNormalize(BufferOf(turn, power, phase(2), total(2)))
            = BufferOf(turn, power, [l \in Antennas |-> Principals(phase(2)[l], turn)],
                       [l \in Antennas |-> Sum(power[l])])
      BY RmsAmplitudeNormalizeIs, Zenon
    <3> QED BY <2>1, <2>2, <2>3, <3>1, Zenon
  <2>5. Apply(Staged(shapes, drift, 2), "rms_amplitude_normalize")
          = RmsAmplitudeNormalize(Staged(shapes, drift, 2))
    BY DEF Apply
  <2>6. k + 1 = 3
    BY <1>3
  <2> QED BY <1>3, <2>4, <2>5, <2>6, StagesAre, Zenon
<1> QED BY <1>1, <1>2, <1>3

LinkIs(link, shape, drift, k) ==
  /\ link.power = Powers(shape, drift)
  /\ link.phase = PhasesAt(shape, drift, k)
  /\ link.total = TotalAt(shape, drift, k)

LEMMA StagedLinks ==
  ASSUME NEW shapes, NEW drift, NEW k, NEW l \in Antennas
  PROVE  LinkIs(Staged(shapes, drift, k).links[l], shapes[l], drift, k)
<1>1. Staged(shapes, drift, k).links[l]
        = [power |-> Powers(shapes[l], drift), phase |-> PhasesAt(shapes[l], drift, k),
           total |-> TotalAt(shapes[l], drift, k)]
  BY DEF Staged, BufferOf
<1> HIDE DEF Staged
<1> QED BY <1>1 DEF LinkIs

\* What the receiver did to the phases of a link is gone.
ShapePhases(shape) == [i \in 1..N |-> shape[i].phase]

LEMMA NormalizedStays ==
  ASSUME NEW shape \in Shape, NEW drift \in Drift, Unaliased(shape, drift)
  PROVE  Normalized(shape, drift)
           = Principals(DetrendLink(Indices, ShapePhases(shape)), Turn * Finer(Indices))
<1> DEFINE phase == Phases(shape, drift)
           u == Unwrapped(shape, drift)
           w == [i \in 1..N |-> SentPhase(shape, drift, i)]
           y == ShapePhases(shape)
<1>1. N \in Nat \ {0} /\ N > 1 /\ Turn \in Nat \ {0}
  BY IndicesAre, TurnConfig DEF Unaliased, N
<1>2. phase \in [1..N -> Int] /\ w \in [1..N -> Int] /\ y \in [1..N -> Int]
  <2>1. \A i \in 1..N : SentPhase(shape, drift, i) \in Int
    BY ReceivedIs
  <2>2. \A i \in 1..N : shape[i].phase \in Int
    BY ShapeTypes
  <2> QED BY <2>1, <2>2, PowersAndPhases, Zenon DEF ShapePhases
<1>3. Unwraps(u, phase, Turn)
  <2>1. phase \in Seq(Int)
    BY <1>1, <1>2
  <2> HIDE DEF phase
  <2> QED BY <1>1, <2>1, UnwrapRecursion, Zenon DEF Unwrapped, phase
<1>4. SameTurns(phase, w, N, Turn)
  <2> SUFFICES ASSUME NEW i \in 1..N PROVE Whole(phase[i], w[i], Turn)
    BY Zenon DEF SameTurns
  <2>1. shape[i].power > 0
    BY ShapeTypes DEF Unaliased
  <2>2. phase[i] = Principal(w[i], Turn)
    BY <2>1, ReceivedIs DEF Phases
  <2>3. w[i] \in Int
    BY <1>2
  <2>4. Whole(Principal(w[i], Turn), w[i], Turn)
    BY <1>1, <2>3, PrincipalIs
  <2> QED BY <2>2, <2>4, Zenon
<1>5. SmallSteps(w, N, Turn)
  <2> SUFFICES ASSUME NEW i \in 1..(N - 1)
               PROVE  -Turn < 2 * (w[i + 1] - w[i]) /\ 2 * (w[i + 1] - w[i]) < Turn
    BY Zenon DEF SmallSteps
  <2>1. i \in 1..N /\ i + 1 \in 1..N
    BY <1>1
  <2>2. PICK a \in Int, b \in Int, p \in Int, q \in Int, o \in Int, s \in Int :
          /\ a = shape[i].phase /\ b = shape[i + 1].phase
          /\ p = Indices[i] /\ q = Indices[i + 1]
          /\ o = drift.offset /\ s = drift.slope
    BY <2>1, ShapeTypes, DriftTypes, IndicesAre
  <2>3. w[i] = a + o + s * p /\ w[i + 1] = b + o + s * q
    BY <2>1, <2>2, Zenon DEF SentPhase
  <2>4. 2 * Distance(b - a, s * (p - q)) < Turn
    BY <2>2 DEF Unaliased, N
  <2>5. PICK e \in Int, f \in Int : e = s * p /\ f = s * q
    OBVIOUS
  <2>6. s * (p - q) = e - f
    BY <2>5
  <2>7. 2 * Distance(b - a, e - f) < Turn
    BY <2>4, <2>6, Zenon
  <2>8. -Turn < 2 * ((b - a) - (e - f)) /\ 2 * ((b - a) - (e - f)) < Turn
    BY <1>1, <2>7 DEF Distance
  <2>9. w[i + 1] - w[i] = (b - a) - (e - f)
    <3>1. w[i] = a + o + e /\ w[i + 1] = b + o + f
      BY <2>3, <2>5, Zenon
    <3> QED BY <3>1
  <2> QED BY <2>8, <2>9, Zenon
<1> HIDE DEF phase, u, w, y
<1>6. PICK c \in Int : \A i \in 1..N : u[i] = w[i] + c
  <2>1. Shifted(u, w, N)
    BY <1>1, <1>2, <1>3, <1>4, <1>5, UnwrapFinds
  <2> QED BY <2>1 DEF Shifted
<1>7. u = Slanted(Indices, y, N, drift.slope, drift.offset + c)
  <2>1. u = [i \in 1..N |-> u[i]]
    <3>1. Len(phase) = N
      BY <1>1, <1>2
    <3> QED BY <1>3, <3>1 DEF Unwraps
  <2>2. ASSUME NEW i \in 1..N
        PROVE  u[i] = y[i] + drift.slope * Indices[i] + (drift.offset + c)
    <3>1. PICK a \in Int, x \in Int, o \in Int, s \in Int :
            a = y[i] /\ x = Indices[i] /\ o = drift.offset /\ s = drift.slope
      BY <1>2, DriftTypes, IndicesAre
    <3>2. w[i] = a + o + s * x
      BY <3>1, Zenon DEF w, y, SentPhase, ShapePhases
    <3>3. PICK e \in Int : e = s * x
      OBVIOUS
    <3>4. w[i] = a + o + e
      BY <3>2, <3>3, Zenon
    <3>5. u[i] = a + e + (o + c)
      BY <1>6, <3>4
    <3> QED BY <3>1, <3>3, <3>5, Zenon
  <2> QED BY <2>1, <2>2, Zenon DEF Slanted
<1>8. DetrendLink(Indices, u) = DetrendLink(Indices, y)
  <2>1. PICK s \in Int, o \in Int : s = drift.slope /\ o = drift.offset + c
    BY DriftTypes
  <2>2. DetrendLink(Indices, Slanted(Indices, y, N, s, o)) = DetrendLink(Indices, y)
    <3> DEFINE x == Indices
               n == N
    <3>1. n \in Nat /\ n > 1 /\ x \in [1..n -> Int] /\ y \in [1..n -> Int]
      BY <1>1, <1>2, IndicesAre
    <3> HIDE DEF x, n
    <3>2. DetrendLink(x, Slanted(x, y, n, s, o)) = DetrendLink(x, y)
      BY <3>1, DetrendStays
    <3> QED BY <3>2 DEF x, n
  <2> QED BY <1>7, <2>1, <2>2, Zenon
<1> QED BY <1>8, Zenon DEF Normalized, Detrended, u, y

-----------------------------------------------------------------------------
(***************************************************************************)
(* The invariant: the buffer under way, and that of the last frame, are    *)
(* what their frames became.                                               *)
(***************************************************************************)

Genuine(r) ==
  /\ r.shapes \in [Antennas -> Shape] /\ r.drift \in Drift
  /\ r.frame = CapturedFrame(r.shapes, r.drift)

RawIsGenuine == raw # None /\ TryNew(raw.frame) => Genuine(raw)

BufferIsStaged ==
  buffer # None \/ stage # 0 =>
    /\ raw # None /\ TryNew(raw.frame)
    /\ stage \in 0..3 /\ buffer = Staged(raw.shapes, raw.drift, stage)

LastIsCalibrated ==
  last # None =>
    /\ last.shapes \in [Antennas -> Shape] /\ last.drift \in Drift
    /\ last.buffer = Staged(last.shapes, last.drift, 3)

ChainInv == RawIsGenuine /\ BufferIsStaged /\ LastIsCalibrated

LEMMA ChannelsAreShapes ==
  Channels \subseteq [Antennas -> Shape] /\ Silent \subseteq [Antennas -> Shape]
<1>1. Channels \subseteq [Antennas -> Shape]
  BY FrameConfig DEF Antennas
<1>2. ASSUME NEW shapes \in Channels, NEW l \in Antennas
      PROVE  [shapes EXCEPT ![l] = Dead] \in [Antennas -> Shape]
  <2>1. shapes \in [Antennas -> Shape] /\ Dead \in Shape
    BY <1>1, FrameConfig
  <2> QED BY <2>1
<1> QED BY <1>1, <1>2 DEF Silent

LEMMA FramesAreGenuine ==
  ASSUME NEW channels, channels \subseteq [Antennas -> Shape],
         NEW drifts, drifts \subseteq Drift, NEW r \in Frames(channels, drifts)
  PROVE  Genuine(r)
<1>1. PICK shapes \in channels, drift \in drifts :
        r = [frame |-> CapturedFrame(shapes, drift), shapes |-> shapes, drift |-> drift]
  BY DEF Frames
<1>2. r.frame = CapturedFrame(shapes, drift) /\ r.shapes = shapes /\ r.drift = drift
  BY <1>1
<1>3. shapes \in [Antennas -> Shape] /\ drift \in Drift
  OBVIOUS
<1> QED BY <1>2, <1>3, Zenon DEF Genuine

LEMMA LossesAreGenuine ==
  ASSUME NEW r \in Losses, TryNew(r.frame)
  PROVE  Genuine(r)
<1>1. CASE r \in Frames(Silent, Steady)
  BY <1>1, FrameConfig, ChannelsAreShapes, FramesAreGenuine
<1>2. CASE r \in {[frame |-> frame, shapes |-> <<>>, drift |-> <<>>] : frame \in Malformed}
  <2>1. PICK frame \in Malformed : r = [frame |-> frame, shapes |-> <<>>, drift |-> <<>>]
    BY <1>2
  <2>2. r.frame = frame /\ Defective(frame)
    BY <2>1, FrameConfig
  <2> QED BY <2>2, Zenon DEF Defective, TryNew
<1> QED BY <1>1, <1>2 DEF Losses

LEMMA ChainInvInit == Init => ChainInv
BY DEF Init, ChainInv, RawIsGenuine, BufferIsStaged, LastIsCalibrated

LEMMA ChainInvNext == ChainInv /\ [Next]_chain => ChainInv'
<1> SUFFICES ASSUME ChainInv, [Next]_chain PROVE ChainInv'
  OBVIOUS
<1> USE DEF ChainInv, RawIsGenuine, BufferIsStaged, LastIsCalibrated
<1>1. CASE Capture
  <2>1. TryNew(raw'.frame) => Genuine(raw')
    <3>1. CASE raw' \in Frames(Channels, Likely)
      BY <3>1, FrameConfig, ChannelsAreShapes, FramesAreGenuine DEF Likely
    <3>2. CASE raw' \in Losses
      BY <3>2, LossesAreGenuine
    <3> QED BY <1>1, <3>1, <3>2 DEF Capture
  <2>2. buffer = None /\ stage = 0
    BY <1>1 DEF Capture
  <2> QED BY <1>1, <2>1, <2>2 DEF Capture
<1>2. CASE Refuse
  BY <1>2 DEF Refuse
<1>3. CASE BeginCalibration
  <2>1. Genuine(raw)
    BY <1>3 DEF BeginCalibration
  <2>2. buffer' = Staged(raw.shapes, raw.drift, 0)
    BY <1>3, <2>1, StagedFirst, Zenon DEF BeginCalibration, Genuine
  <2> QED BY <1>3, <2>2 DEF BeginCalibration
<1>4. CASE ApplyStage
  <2>1. /\ raw # None /\ TryNew(raw.frame)
        /\ stage \in 0..2 /\ buffer = Staged(raw.shapes, raw.drift, stage)
    BY <1>4, StagesAre DEF ApplyStage
  <2>2. buffer' = Staged(raw.shapes, raw.drift, stage + 1)
    BY <1>4, <2>1, StagedNext, Zenon DEF ApplyStage
  <2>3. stage' = stage + 1 /\ UNCHANGED <<raw, last>>
    BY <1>4 DEF ApplyStage
  <2>4. stage' \in 0..3 /\ buffer' = Staged(raw.shapes, raw.drift, stage')
    BY <2>1, <2>2, <2>3
  <2> QED BY <2>1, <2>3, <2>4
<1>5. CASE StageFails
  BY <1>5 DEF StageFails
<1>6. CASE Join
  <2>1. /\ raw # None /\ TryNew(raw.frame) /\ Genuine(raw)
        /\ buffer = Staged(raw.shapes, raw.drift, 3)
    BY <1>6, StagesAre DEF Join
  <2> DEFINE new == [buffer |-> buffer, shapes |-> raw.shapes, drift |-> raw.drift]
  <2>2. new.buffer = buffer /\ new.shapes = raw.shapes /\ new.drift = raw.drift
    OBVIOUS
  <2> HIDE DEF new
  <2>3. /\ new.shapes \in [Antennas -> Shape] /\ new.drift \in Drift
        /\ new.buffer = Staged(new.shapes, new.drift, 3)
    BY <2>1, <2>2, Zenon DEF Genuine
  <2>4. last' = None \/ last' = new
    BY <1>6, Zenon DEF Join, new
  <2>5. LastIsCalibrated'
    BY <2>3, <2>4, Zenon
  <2>6. raw' = None /\ buffer' = None /\ stage' = 0
    BY <1>6 DEF Join
  <2> QED BY <2>5, <2>6
<1>7. CASE WindowFails
  BY <1>7 DEF WindowFails
<1>8. CASE Analyse
  BY <1>8 DEF Analyse
<1>9. CASE Extract
  BY <1>9 DEF Extract
<1>10. CASE Observe
  BY <1>10 DEF Observe
<1>11. CASE Proceed
  BY <1>11 DEF Proceed
<1>12. CASE UNCHANGED chain
  BY <1>12 DEF chain
<1> QED BY <1>1, <1>2, <1>3, <1>4, <1>5, <1>6, <1>7, <1>8, <1>9, <1>10, <1>11, <1>12 DEF Next

-----------------------------------------------------------------------------
(***************************************************************************)
(* The theorems                                                            *)
(***************************************************************************)

LEMMA ErrorMeansNoEnergy ==
  ASSUME ChainInv, buffer # None, stage < Len(Stages),
         StageError(buffer, Stages[stage + 1]) # "none"
  PROVE  \E l \in DOMAIN buffer.links : Sum(buffer.links[l].power) = 0
<1>1. /\ TryNew(raw.frame) /\ Genuine(raw)
      /\ buffer = Staged(raw.shapes, raw.drift, stage)
  BY DEF ChainInv, RawIsGenuine, BufferIsStaged
<1>2. buffer.indices = Indices
  BY <1>1 DEF Staged, BufferOf
<1>3. raw.frame.indices = Indices
  BY <1>1 DEF Genuine, CapturedFrame
<1>4. ~(Len(Indices) > 1 /\ FitAffine(Indices, Indices).spread = 0)
  <2> SUFFICES ASSUME N > 1 PROVE FitAffine(Indices, Indices).spread # 0
    BY DEF N
  <2>1. Increasing(Indices, N)
    BY <1>1, <1>3, Zenon DEF TryNew, Increasing, N
  <2>2. FitAffine(Indices, Indices).spread > 0
    BY <2>1, IndicesAre, SpreadIsPositive
  <2>3. FitAffine(Indices, Indices).spread \in Int
    BY IndicesAre, FitTypes
  <2> QED BY <2>2, <2>3
<1> QED BY <1>2, <1>4, Zenon DEF StageError

\* CsiFrame::try_new and the stages: the subcarriers of an accepted frame are
\* increasing, so that the regression has something to go by.
THEOREM OnlySilenceFails == Spec => []CalibrationFailsOnlyOnZeroEnergy
<1>1. ChainInv => CalibrationFailsOnlyOnZeroEnergy
  BY ErrorMeansNoEnergy, Zenon DEF CalibrationFailsOnlyOnZeroEnergy
<1> QED BY <1>1, ChainInvInit, ChainInvNext, PTL DEF Spec

LEMMA UnwrappedSteps ==
  ASSUME ChainInv, stage = 1, NEW l \in Antennas
  PROVE  /\ \A i \in DOMAIN buffer.links[l].phase :
              (buffer.links[l].phase[i] - LinkOf(raw.frame, l - 1, 0)[i].phase) % Turn = 0
         /\ \A i \in 1..(Len(buffer.links[l].phase) - 1) :
              2 * Distance(buffer.links[l].phase[i], buffer.links[l].phase[i + 1]) <= Turn
<1>1. /\ Genuine(raw) /\ buffer = Staged(raw.shapes, raw.drift, 1)
  BY DEF ChainInv, RawIsGenuine, BufferIsStaged
<1> DEFINE shape == raw.shapes[l]
           phase == Phases(shape, raw.drift)
           u == Unwrapped(shape, raw.drift)
<1>2. shape \in Shape /\ raw.drift \in Drift
  BY <1>1 DEF Genuine
<1>3. buffer.links[l].phase = u
  <2>1. LinkIs(Staged(raw.shapes, raw.drift, 1).links[l], raw.shapes[l], raw.drift, 1)
    BY StagedLinks
  <2>2. 1 # 0
    OBVIOUS
  <2> QED BY <1>1, <2>1, <2>2, Zenon DEF LinkIs, PhasesAt
<1>4. N \in Nat /\ Turn \in Nat \ {0} /\ phase \in [1..N -> Int]
  BY <1>2, IndicesAre, TurnConfig, PowersAndPhases
<1>5. Unwraps(u, phase, Turn) /\ u \in [1..N -> Int] /\ Len(u) = N
  <2>1. phase \in Seq(Int) /\ Len(phase) = N
    BY <1>4
  <2> HIDE DEF phase
  <2>2. Unwraps(u, phase, Turn)
    BY <1>4, <2>1, UnwrapRecursion, Zenon DEF Unwrapped, phase
  <2> QED BY <1>4, <2>1, <2>2 DEF Unwraps
<1>6. \A i \in 1..N : LinkOf(raw.frame, l - 1, 0)[i].phase = phase[i]
  <2>1. \A i \in 1..N : LinkOf(raw.frame, l - 1, 0)[i] = Received(shape, raw.drift)[i]
    <3>1. \A i \in 1..N : LinkOf(CapturedFrame(raw.shapes, raw.drift), l - 1, 0)[i]
                            = Received(raw.shapes[l], raw.drift)[i]
      BY LinkOfCaptured
    <3> QED BY <1>1, <3>1, Zenon DEF Genuine
  <2> QED BY <2>1, Zenon DEF Phases
<1> HIDE DEF u, phase
<1>7. \A i \in 1..N : (u[i] - phase[i]) % Turn = 0
  <2> SUFFICES ASSUME NEW i \in 1..N PROVE (u[i] - phase[i]) % Turn = 0
    OBVIOUS
  <2>1. PICK a \in Int, b \in Int : a = u[i] /\ b = phase[i]
    BY <1>4, <1>5
  <2>2. Whole(a, b, Turn)
    BY <1>4, <1>5, <2>1, UnwrapKeeps
  <2>3. (a - b) % Turn = 0
    BY <1>4, <2>2, WholeMod
  <2> QED BY <2>1, <2>3, Zenon
<1>8. \A i \in 1..(N - 1) : 2 * Distance(u[i], u[i + 1]) <= Turn
  BY <1>4, <1>5, UnwrapSteps
<1>9. DOMAIN u = 1..N
  BY <1>5
<1> QED BY <1>3, <1>5, <1>6, <1>7, <1>8, <1>9, Zenon

\* unwrap_link: for every frame, whole turns are all that it adds, and none is
\* missing.
THEOREM UnwrappingIsContinuous == Spec => []UnwrappedIsContinuous
<1>1. ChainInv => UnwrappedIsContinuous
  BY UnwrappedSteps, Zenon DEF UnwrappedIsContinuous
<1> QED BY <1>1, ChainInvInit, ChainInvNext, PTL DEF Spec

\* Two calibrated links of one shape are the same.
LEMMA DriftsCancel ==
  ASSUME NEW shape \in Shape, NEW a \in Drift, NEW b \in Drift,
         Unaliased(shape, a), Unaliased(shape, b), NEW i \in 1..N
  PROVE  /\ Powers(shape, a)[i] * Sum(Powers(shape, b)) = Powers(shape, b)[i] * Sum(Powers(shape, a))
         /\ Normalized(shape, a)[i] = Normalized(shape, b)[i]
<1> DEFINE p == [j \in 1..N |-> shape[j].power]
<1>1. p \in [1..N -> Int] /\ N \in Nat /\ p \in Seq(Int)
  BY ShapeTypes, IndicesAre
<1>2. PICK g \in Int, h \in Int : g = a.gain /\ h = b.gain
  BY DriftTypes
<1>3. Powers(shape, a) = [j \in 1..N |-> g * p[j]] /\ Powers(shape, b) = [j \in 1..N |-> h * p[j]]
  BY <1>2 DEF Powers
<1> HIDE DEF p
<1>4. PICK s \in Int, x \in Int : s = Sum(p) /\ x = p[i]
  BY <1>1, SumInt
<1>5. Sum([j \in 1..N |-> g * p[j]]) = g * s /\ Sum([j \in 1..N |-> h * p[j]]) = h * s
  BY <1>1, <1>4, SumScale
<1>6. (g * x) * (h * s) = (h * x) * (g * s)
  OBVIOUS
<1>7. Powers(shape, a)[i] = g * x /\ Powers(shape, b)[i] = h * x
  BY <1>3, <1>4
<1>8. Sum(Powers(shape, a)) = g * s /\ Sum(Powers(shape, b)) = h * s
  BY <1>3, <1>5, Zenon
<1>9. Normalized(shape, a)[i] = Normalized(shape, b)[i]
  BY NormalizedStays, Zenon
<1> QED BY <1>6, <1>7, <1>8, <1>9, Zenon

LEMMA SameShapeSameLink ==
  ASSUME ChainInv, buffer # None, stage = Len(Stages), last # None, NEW l \in Antennas,
         raw.shapes[l] = last.shapes[l],
         Unaliased(raw.shapes[l], raw.drift), Unaliased(last.shapes[l], last.drift)
  PROVE  SameLink(last.buffer.links[l], buffer.links[l])
<1>1. /\ Genuine(raw) /\ buffer = Staged(raw.shapes, raw.drift, 3)
      /\ last.shapes \in [Antennas -> Shape] /\ last.drift \in Drift
      /\ last.buffer = Staged(last.shapes, last.drift, 3)
  BY StagesAre DEF ChainInv, RawIsGenuine, BufferIsStaged, LastIsCalibrated
<1> DEFINE shape == raw.shapes[l]
           a == last.drift
           b == raw.drift
<1>2. shape \in Shape /\ a \in Drift /\ b \in Drift /\ last.shapes[l] = shape
  BY <1>1 DEF Genuine
<1>3. 3 # 0 /\ 3 # 1 /\ 3 # 2
  OBVIOUS
<1>4. /\ last.buffer.links[l].power = Powers(shape, a)
      /\ last.buffer.links[l].phase = Normalized(shape, a)
      /\ last.buffer.links[l].total = Sum(Powers(shape, a))
  <2>1. LinkIs(Staged(last.shapes, last.drift, 3).links[l], last.shapes[l], last.drift, 3)
    BY StagedLinks
  <2> QED BY <1>1, <1>2, <1>3, <2>1, Zenon DEF LinkIs, PhasesAt, TotalAt
<1>5. /\ buffer.links[l].power = Powers(shape, b)
      /\ buffer.links[l].phase = Normalized(shape, b)
      /\ buffer.links[l].total = Sum(Powers(shape, b))
  <2>1. LinkIs(Staged(raw.shapes, raw.drift, 3).links[l], raw.shapes[l], raw.drift, 3)
    BY StagedLinks
  <2> QED BY <1>1, <1>3, <2>1, Zenon DEF LinkIs, PhasesAt, TotalAt
<1>6. DOMAIN Powers(shape, a) = 1..N
  BY DEF Powers
<1>7. ASSUME NEW i \in 1..N
      PROVE  /\ Powers(shape, a)[i] * Sum(Powers(shape, b)) = Powers(shape, b)[i] * Sum(Powers(shape, a))
             /\ Normalized(shape, a)[i] = Normalized(shape, b)[i]
  BY <1>2, DriftsCancel
<1> QED BY <1>4, <1>5, <1>6, <1>7, Zenon DEF SameLink

\* CalibrationPipeline::calibrate with the baseline profile: for every gain,
\* offset and slope of the receiver, every shape of a link, every set of
\* subcarriers and every unit of the phase.
THEOREM CalibrationRemovesDrift == Spec => []DriftShowsNoMotion
<1>1. ChainInv => DriftShowsNoMotion
  BY SameShapeSameLink, Zenon DEF DriftShowsNoMotion
<1> QED BY <1>1, ChainInvInit, ChainInvNext, PTL DEF Spec

-----------------------------------------------------------------------------
(***************************************************************************)
(* Spectra: the sums of a spectrum, written out.                           *)
(***************************************************************************)

\* A function on 1..n is a sequence of n.
LEMMA FunctionIsSeq ==
  ASSUME NEW n \in Nat, NEW s \in [1..n -> Int]
  PROVE  s \in Seq(Int) /\ Len(s) = n
OBVIOUS

LEMMA SumOfThree ==
  ASSUME NEW s \in [1..3 -> Int]
  PROVE  Sum(s) = s[1] + s[2] + s[3]
<1>1. s \in Seq(Int) /\ Len(s) = 3
  BY FunctionIsSeq
<1>2. PICK g : Partial(s, g)
  BY <1>1, PartialSums
<1>3. /\ g[0] = 0 /\ g[1] = g[1 - 1] + s[1] /\ g[2] = g[2 - 1] + s[2]
      /\ g[3] = g[3 - 1] + s[3] /\ Sum(s) = g[3]
  BY <1>1, <1>2 DEF Partial
<1>4. g[1] = g[0] + s[1] /\ g[2] = g[1] + s[2] /\ g[3] = g[2] + s[3]
  BY <1>3
<1> QED BY <1>3, <1>4

LEMMA SumOfFour ==
  ASSUME NEW s \in [1..4 -> Int]
  PROVE  Sum(s) = s[1] + s[2] + s[3] + s[4]
<1>1. s \in Seq(Int) /\ Len(s) = 4
  BY FunctionIsSeq
<1>2. PICK g : Partial(s, g)
  BY <1>1, PartialSums
<1>3. /\ g[0] = 0 /\ g[1] = g[1 - 1] + s[1] /\ g[2] = g[2 - 1] + s[2]
      /\ g[3] = g[3 - 1] + s[3] /\ g[4] = g[4 - 1] + s[4] /\ Sum(s) = g[4]
  BY <1>1, <1>2 DEF Partial
<1>4. g[1] = g[0] + s[1] /\ g[2] = g[1] + s[2] /\ g[3] = g[2] + s[3] /\ g[4] = g[3] + s[4]
  BY <1>3
<1> QED BY <1>3, <1>4

LEMMA SumOfSix ==
  ASSUME NEW s \in [1..6 -> Int]
  PROVE  Sum(s) = s[1] + s[2] + s[3] + s[4] + s[5] + s[6]
<1>1. s \in Seq(Int) /\ Len(s) = 6
  BY FunctionIsSeq
<1>2. PICK g : Partial(s, g)
  BY <1>1, PartialSums
<1>3. /\ g[0] = 0 /\ g[1] = g[1 - 1] + s[1] /\ g[2] = g[2 - 1] + s[2]
      /\ g[3] = g[3 - 1] + s[3] /\ g[4] = g[4 - 1] + s[4]
      /\ g[5] = g[5 - 1] + s[5] /\ g[6] = g[6 - 1] + s[6] /\ Sum(s) = g[6]
  BY <1>1, <1>2 DEF Partial
<1>4. /\ g[1] = g[0] + s[1] /\ g[2] = g[1] + s[2] /\ g[3] = g[2] + s[3]
      /\ g[4] = g[3] + s[4] /\ g[5] = g[4] + s[5] /\ g[6] = g[5] + s[6]
  BY <1>3
<1> QED BY <1>3, <1>4

LEMMA SixthsOfATurn ==
  /\ Cos(0) = 2 /\ Cos(1) = 1 /\ Cos(2) = -1 /\ Cos(3) = -2 /\ Cos(4) = -1 /\ Cos(5) = 1
  /\ Cos(6) = 2 /\ Cos(8) = -1 /\ Cos(9) = -2 /\ Cos(10) = -1 /\ Cos(12) = 2 /\ Cos(15) = -2
  /\ Sin(0) = 0 /\ Sin(1) = 1 /\ Sin(2) = 1 /\ Sin(3) = 0 /\ Sin(4) = -1 /\ Sin(5) = -1
  /\ Sin(6) = 0 /\ Sin(8) = 1 /\ Sin(9) = 0 /\ Sin(10) = -1 /\ Sin(12) = 0 /\ Sin(15) = 0
<1>1. /\ 0 % 6 = 0 /\ 1 % 6 = 1 /\ 2 % 6 = 2 /\ 3 % 6 = 3 /\ 4 % 6 = 4 /\ 5 % 6 = 5
      /\ 6 % 6 = 0 /\ 8 % 6 = 2 /\ 9 % 6 = 3 /\ 10 % 6 = 4 /\ 12 % 6 = 0 /\ 15 % 6 = 3
  OBVIOUS
<1>2. 0 + 1 = 1 /\ 1 + 1 = 2 /\ 2 + 1 = 3 /\ 3 + 1 = 4 /\ 4 + 1 = 5 /\ 5 + 1 = 6
  OBVIOUS
<1> DEFINE c == <<2, 1, -1, -2, -1, 1>>
           s == <<0, 1, 1, 0, -1, -1>>
<1>3. c[1] = 2 /\ c[2] = 1 /\ c[3] = -1 /\ c[4] = -2 /\ c[5] = -1 /\ c[6] = 1
  OBVIOUS
<1>4. s[1] = 0 /\ s[2] = 1 /\ s[3] = 1 /\ s[4] = 0 /\ s[5] = -1 /\ s[6] = -1
  OBVIOUS
<1>5. \A k : Cos(k) = c[(k % 6) + 1] /\ Sin(k) = s[(k % 6) + 1]
  BY Zenon DEF Cos, Sin
<1> HIDE DEF c, s
<1> QED BY <1>1, <1>2, <1>3, <1>4, <1>5, Zenon

Weighted(w, c) ==
  w[1] * c[1] + w[2] * c[2] + w[3] * c[3] + w[4] * c[4] + w[5] * c[5] + w[6] * c[6]

\* c and s are the twiddle factors of a bin.
Twiddles(bin, c, s) ==
  /\ c \in [1..6 -> Int] /\ s \in [1..6 -> Int]
  /\ \A i \in 1..6 : c[i] = Cos(bin * (i - 1)) /\ s[i] = Sin(bin * (i - 1))

LEMMA NormOfBin ==
  ASSUME NEW w \in [1..6 -> Int], NEW bin, NEW c, NEW s, Twiddles(bin, c, s),
         NEW re, re = Weighted(w, c), NEW im, im = Weighted(w, s)
  PROVE  NormSqr(w, bin) = re * re + 3 * (im * im)
<1> c \in [1..6 -> Int] /\ s \in [1..6 -> Int]
  BY DEF Twiddles
<1>0. \A i \in 1..6 : c[i] = Cos(bin * (i - 1)) /\ s[i] = Sin(bin * (i - 1))
  BY DEF Twiddles
<1> DEFINE x == [i \in 1..6 |-> w[i] * c[i]]
           y == [i \in 1..6 |-> w[i] * s[i]]
<1>1. DOMAIN w = 1..6
  OBVIOUS
<1>2. NormSqr(w, bin) = Sum(x) * Sum(x) + 3 * (Sum(y) * Sum(y))
  <2>1. /\ [i \in DOMAIN w |-> w[i] * Cos(bin * (i - 1))] = x
        /\ [i \in DOMAIN w |-> w[i] * Sin(bin * (i - 1))] = y
    BY <1>0, <1>1, Zenon
  <2> HIDE DEF x, y
  <2> QED BY <2>1, Zenon DEF NormSqr
<1>3. \A a, b \in Int : a * b \in Int
  OBVIOUS
<1>4. \A i \in 1..6 : w[i] \in Int /\ c[i] \in Int /\ s[i] \in Int
  OBVIOUS
<1>5. x \in [1..6 -> Int] /\ y \in [1..6 -> Int]
  BY <1>3, <1>4, Zenon
<1>6. /\ x[1] = w[1] * c[1] /\ x[2] = w[2] * c[2] /\ x[3] = w[3] * c[3]
      /\ x[4] = w[4] * c[4] /\ x[5] = w[5] * c[5] /\ x[6] = w[6] * c[6]
      /\ y[1] = w[1] * s[1] /\ y[2] = w[2] * s[2] /\ y[3] = w[3] * s[3]
      /\ y[4] = w[4] * s[4] /\ y[5] = w[5] * s[5] /\ y[6] = w[6] * s[6]
  OBVIOUS
<1> HIDE DEF x, y
<1>7. /\ Sum(x) = x[1] + x[2] + x[3] + x[4] + x[5] + x[6]
      /\ Sum(y) = y[1] + y[2] + y[3] + y[4] + y[5] + y[6]
  BY <1>5, SumOfSix
<1>8. Sum(x) = re /\ Sum(y) = im
  BY <1>6, <1>7, Zenon DEF Weighted
<1> QED BY <1>2, <1>8, Zenon

\* A series of a window.
Motions == [1..Transitions -> Int]

LEMMA WindowedIs ==
  ASSUME NEW x \in Motions
  PROVE  CenterAndApplyHann(x) \in [1..6 -> Int]
<1>1. x \in [1..6 -> Int] /\ DOMAIN x = 1..6 /\ x \in Seq(Int) /\ Len(x) = 6
  BY FunctionIsSeq DEF Motions, Transitions
<1>2. Sum(x) \in Int /\ HannWindow \in [1..6 -> Int]
  BY <1>1, SumInt DEF HannWindow
<1>3. \A h, a, m \in Int : h * (6 * a - m) \in Int
  OBVIOUS
<1>4. \A i \in 1..6 : HannWindow[i] * (Len(x) * x[i] - Sum(x)) \in Int
  <2>1. \A i \in 1..6 : x[i] \in Int /\ HannWindow[i] \in Int
    BY <1>1, <1>2
  <2> QED BY <1>1, <1>2, <1>3, <2>1, Zenon
<1> QED BY <1>1, <1>4, Zenon DEF CenterAndApplyHann

Square(n) == n * n

\* Twice the real part of each bin, and the imaginary part over the sine of a
\* sixth of a turn.
Real(w) ==
  << 2 * (w[1] + w[2] + w[3] + w[4] + w[5] + w[6]),
     2 * w[1] + w[2] - w[3] - 2 * w[4] - w[5] + w[6],
     2 * w[1] - w[2] - w[3] + 2 * w[4] - w[5] - w[6],
     2 * (w[1] - w[2] + w[3] - w[4] + w[5] - w[6]) >>
Imaginary(w) ==
  << 0, w[2] + w[3] - w[5] - w[6], w[2] - w[3] + w[5] - w[6], 0 >>

LEMMA PartsAre ==
  ASSUME NEW w \in [1..6 -> Int]
  PROVE  Real(w) \in [1..4 -> Int] /\ Imaginary(w) \in [1..4 -> Int]
<1>1. \A i \in 1..6 : w[i] \in Int
  OBVIOUS
<1>2. /\ 2 * (w[1] + w[2] + w[3] + w[4] + w[5] + w[6]) \in Int
      /\ 2 * w[1] + w[2] - w[3] - 2 * w[4] - w[5] + w[6] \in Int
      /\ 2 * w[1] - w[2] - w[3] + 2 * w[4] - w[5] - w[6] \in Int
      /\ 2 * (w[1] - w[2] + w[3] - w[4] + w[5] - w[6]) \in Int
      /\ w[2] + w[3] - w[5] - w[6] \in Int /\ w[2] - w[3] + w[5] - w[6] \in Int
  BY <1>1
<1>3. \A a, b, c, d \in Int : <<a, b, c, d>> \in [1..4 -> Int]
  OBVIOUS
<1>4. 0 \in Int
  OBVIOUS
<1> QED BY <1>2, <1>3, <1>4, Zenon DEF Real, Imaginary

BinIs(w, b) == NormSqr(w, b) = Square(Real(w)[b + 1]) + 3 * Square(Imaginary(w)[b + 1])

LEMMA DcBin ==
  ASSUME NEW w \in [1..6 -> Int]
  PROVE  BinIs(w, 0)
<1> DEFINE c == <<2, 2, 2, 2, 2, 2>>
           s == <<0, 0, 0, 0, 0, 0>>
<1>1. c \in [1..6 -> Int] /\ s \in [1..6 -> Int]
  OBVIOUS
<1>2. /\ c[1] = 2 /\ c[2] = 2 /\ c[3] = 2 /\ c[4] = 2 /\ c[5] = 2 /\ c[6] = 2
      /\ s[1] = 0 /\ s[2] = 0 /\ s[3] = 0 /\ s[4] = 0 /\ s[5] = 0 /\ s[6] = 0
  OBVIOUS
<1> HIDE DEF c, s
<1>3. /\ 0 * (1 - 1) = 0 /\ 0 * (2 - 1) = 0 /\ 0 * (3 - 1) = 0
      /\ 0 * (4 - 1) = 0 /\ 0 * (5 - 1) = 0 /\ 0 * (6 - 1) = 0
  OBVIOUS
<1>4. \A i \in 1..6 : i = 1 \/ i = 2 \/ i = 3 \/ i = 4 \/ i = 5 \/ i = 6
  OBVIOUS
<1>5. Twiddles(0, c, s)
  <2>1. \A i \in 1..6 : c[i] = Cos(0 * (i - 1)) /\ s[i] = Sin(0 * (i - 1))
    BY <1>2, <1>3, <1>4, SixthsOfATurn, Zenon
  <2> QED BY <1>1, <2>1, Zenon DEF Twiddles
<1>6. /\ w[1] \in Int /\ w[2] \in Int /\ w[3] \in Int
      /\ w[4] \in Int /\ w[5] \in Int /\ w[6] \in Int
  OBVIOUS
<1>7. Weighted(w, c) = Real(w)[1] /\ Weighted(w, s) = Imaginary(w)[1]
  BY <1>2, <1>6 DEF Weighted, Real, Imaginary
<1>8. NormSqr(w, 0) = Real(w)[1] * Real(w)[1] + 3 * (Imaginary(w)[1] * Imaginary(w)[1])
  BY <1>5, <1>7, NormOfBin
<1>9. 0 + 1 = 1
  OBVIOUS
<1> QED BY <1>8, <1>9, Zenon DEF BinIs, Square

LEMMA FirstBin ==
  ASSUME NEW w \in [1..6 -> Int]
  PROVE  BinIs(w, 1)
<1> DEFINE c == <<2, 1, -1, -2, -1, 1>>
           s == <<0, 1, 1, 0, -1, -1>>
<1>1. c \in [1..6 -> Int] /\ s \in [1..6 -> Int]
  OBVIOUS
<1>2. /\ c[1] = 2 /\ c[2] = 1 /\ c[3] = -1 /\ c[4] = -2 /\ c[5] = -1 /\ c[6] = 1
      /\ s[1] = 0 /\ s[2] = 1 /\ s[3] = 1 /\ s[4] = 0 /\ s[5] = -1 /\ s[6] = -1
  OBVIOUS
<1> HIDE DEF c, s
<1>3. /\ 1 * (1 - 1) = 0 /\ 1 * (2 - 1) = 1 /\ 1 * (3 - 1) = 2
      /\ 1 * (4 - 1) = 3 /\ 1 * (5 - 1) = 4 /\ 1 * (6 - 1) = 5
  OBVIOUS
<1>4. \A i \in 1..6 : i = 1 \/ i = 2 \/ i = 3 \/ i = 4 \/ i = 5 \/ i = 6
  OBVIOUS
<1>5. Twiddles(1, c, s)
  <2>1. \A i \in 1..6 : c[i] = Cos(1 * (i - 1)) /\ s[i] = Sin(1 * (i - 1))
    BY <1>2, <1>3, <1>4, SixthsOfATurn, Zenon
  <2> QED BY <1>1, <2>1, Zenon DEF Twiddles
<1>6. /\ w[1] \in Int /\ w[2] \in Int /\ w[3] \in Int
      /\ w[4] \in Int /\ w[5] \in Int /\ w[6] \in Int
  OBVIOUS
<1>7. Weighted(w, c) = Real(w)[2] /\ Weighted(w, s) = Imaginary(w)[2]
  BY <1>2, <1>6 DEF Weighted, Real, Imaginary
<1>8. NormSqr(w, 1) = Real(w)[2] * Real(w)[2] + 3 * (Imaginary(w)[2] * Imaginary(w)[2])
  BY <1>5, <1>7, NormOfBin
<1>9. 1 + 1 = 2
  OBVIOUS
<1> QED BY <1>8, <1>9, Zenon DEF BinIs, Square

LEMMA SecondBin ==
  ASSUME NEW w \in [1..6 -> Int]
  PROVE  BinIs(w, 2)
<1> DEFINE c == <<2, -1, -1, 2, -1, -1>>
           s == <<0, 1, -1, 0, 1, -1>>
<1>1. c \in [1..6 -> Int] /\ s \in [1..6 -> Int]
  OBVIOUS
<1>2. /\ c[1] = 2 /\ c[2] = -1 /\ c[3] = -1 /\ c[4] = 2 /\ c[5] = -1 /\ c[6] = -1
      /\ s[1] = 0 /\ s[2] = 1 /\ s[3] = -1 /\ s[4] = 0 /\ s[5] = 1 /\ s[6] = -1
  OBVIOUS
<1> HIDE DEF c, s
<1>3. /\ 2 * (1 - 1) = 0 /\ 2 * (2 - 1) = 2 /\ 2 * (3 - 1) = 4
      /\ 2 * (4 - 1) = 6 /\ 2 * (5 - 1) = 8 /\ 2 * (6 - 1) = 10
  OBVIOUS
<1>4. \A i \in 1..6 : i = 1 \/ i = 2 \/ i = 3 \/ i = 4 \/ i = 5 \/ i = 6
  OBVIOUS
<1>5. Twiddles(2, c, s)
  <2>1. \A i \in 1..6 : c[i] = Cos(2 * (i - 1)) /\ s[i] = Sin(2 * (i - 1))
    BY <1>2, <1>3, <1>4, SixthsOfATurn, Zenon
  <2> QED BY <1>1, <2>1, Zenon DEF Twiddles
<1>6. /\ w[1] \in Int /\ w[2] \in Int /\ w[3] \in Int
      /\ w[4] \in Int /\ w[5] \in Int /\ w[6] \in Int
  OBVIOUS
<1>7. Weighted(w, c) = Real(w)[3] /\ Weighted(w, s) = Imaginary(w)[3]
  BY <1>2, <1>6 DEF Weighted, Real, Imaginary
<1>8. NormSqr(w, 2) = Real(w)[3] * Real(w)[3] + 3 * (Imaginary(w)[3] * Imaginary(w)[3])
  BY <1>5, <1>7, NormOfBin
<1>9. 2 + 1 = 3
  OBVIOUS
<1> QED BY <1>8, <1>9, Zenon DEF BinIs, Square

LEMMA NyquistBin ==
  ASSUME NEW w \in [1..6 -> Int]
  PROVE  BinIs(w, 3)
<1> DEFINE c == <<2, -2, 2, -2, 2, -2>>
           s == <<0, 0, 0, 0, 0, 0>>
<1>1. c \in [1..6 -> Int] /\ s \in [1..6 -> Int]
  OBVIOUS
<1>2. /\ c[1] = 2 /\ c[2] = -2 /\ c[3] = 2 /\ c[4] = -2 /\ c[5] = 2 /\ c[6] = -2
      /\ s[1] = 0 /\ s[2] = 0 /\ s[3] = 0 /\ s[4] = 0 /\ s[5] = 0 /\ s[6] = 0
  OBVIOUS
<1> HIDE DEF c, s
<1>3. /\ 3 * (1 - 1) = 0 /\ 3 * (2 - 1) = 3 /\ 3 * (3 - 1) = 6
      /\ 3 * (4 - 1) = 9 /\ 3 * (5 - 1) = 12 /\ 3 * (6 - 1) = 15
  OBVIOUS
<1>4. \A i \in 1..6 : i = 1 \/ i = 2 \/ i = 3 \/ i = 4 \/ i = 5 \/ i = 6
  OBVIOUS
<1>5. Twiddles(3, c, s)
  <2>1. \A i \in 1..6 : c[i] = Cos(3 * (i - 1)) /\ s[i] = Sin(3 * (i - 1))
    BY <1>2, <1>3, <1>4, SixthsOfATurn, Zenon
  <2> QED BY <1>1, <2>1, Zenon DEF Twiddles
<1>6. /\ w[1] \in Int /\ w[2] \in Int /\ w[3] \in Int
      /\ w[4] \in Int /\ w[5] \in Int /\ w[6] \in Int
  OBVIOUS
<1>7. Weighted(w, c) = Real(w)[4] /\ Weighted(w, s) = Imaginary(w)[4]
  BY <1>2, <1>6 DEF Weighted, Real, Imaginary
<1>8. NormSqr(w, 3) = Real(w)[4] * Real(w)[4] + 3 * (Imaginary(w)[4] * Imaginary(w)[4])
  BY <1>5, <1>7, NormOfBin
<1>9. 3 + 1 = 4
  OBVIOUS
<1> QED BY <1>8, <1>9, Zenon DEF BinIs, Square

\* The bins of a spectrum.
IsSpectrum(p, w) ==
  /\ p \in [1..4 -> Nat]
  /\ p[1] = Square(Real(w)[1])
  /\ p[2] = 2 * (Square(Real(w)[2]) + 3 * Square(Imaginary(w)[2]))
  /\ p[3] = 2 * (Square(Real(w)[3]) + 3 * Square(Imaginary(w)[3]))
  /\ p[4] = Square(Real(w)[4])

LEMMA SpectrumIs ==
  ASSUME NEW x \in Motions
  PROVE  IsSpectrum(SpectrumForSeries(x), CenterAndApplyHann(x))
<1> DEFINE w == CenterAndApplyHann(x)
<1>1. Len(x) = 6 /\ w \in [1..6 -> Int]
  BY WindowedIs DEF Motions, Transitions
<1>2. SpectrumForSeries(x)
        = [k \in 1..4 |-> NormSqr(w, k - 1) * (IF k = 1 \/ k = 4 THEN 1 ELSE 2)]
  <2>1. OneSidedLen(x) = 4 /\ Len(x) % 2 = 0
    BY <1>1 DEF OneSidedLen
  <2> HIDE DEF w
  <2>2. SpectrumForSeries(x)
          = [k \in 1..4 |-> NormSqr(w, k - 1)
                              * (IF k = 1 \/ (Len(x) % 2 = 0 /\ k = 4) THEN 1 ELSE 2)]
    BY <2>1, Zenon DEF SpectrumForSeries, w
  <2> QED BY <2>1, <2>2, Zenon
<1> HIDE DEF w
<1>3. BinIs(w, 0) /\ BinIs(w, 1) /\ BinIs(w, 2) /\ BinIs(w, 3)
  BY <1>1, DcBin, FirstBin, SecondBin, NyquistBin
<1>4. PICK r \in [1..4 -> Nat], i \in [1..4 -> Nat] :
        \A k \in 1..4 : r[k] = Square(Real(w)[k]) /\ i[k] = Square(Imaginary(w)[k])
  <2>1. ASSUME NEW k \in 1..4
        PROVE  Square(Real(w)[k]) \in Nat /\ Square(Imaginary(w)[k]) \in Nat
    <3>1. Real(w)[k] \in Int /\ Imaginary(w)[k] \in Int
      BY <1>1, PartsAre
    <3> QED BY <3>1, SquareIsNat, Zenon DEF Square
  <2> DEFINE r == [k \in 1..4 |-> Square(Real(w)[k])]
             i == [k \in 1..4 |-> Square(Imaginary(w)[k])]
  <2>2. r \in [1..4 -> Nat] /\ i \in [1..4 -> Nat]
    BY <2>1
  <2>3. \A k \in 1..4 : r[k] = Square(Real(w)[k]) /\ i[k] = Square(Imaginary(w)[k])
    OBVIOUS
  <2> QED BY <2>2, <2>3
<1>5. /\ NormSqr(w, 0) = r[1] /\ NormSqr(w, 1) = r[2] + 3 * i[2]
      /\ NormSqr(w, 2) = r[3] + 3 * i[3] /\ NormSqr(w, 3) = r[4]
  <2>1. i[1] = 0 /\ i[4] = 0
    <3>1. Imaginary(w)[1] = 0 /\ Imaginary(w)[4] = 0
      BY DEF Imaginary
    <3> QED BY <1>4, <3>1 DEF Square
  <2>2. 0 + 1 = 1 /\ 1 + 1 = 2 /\ 2 + 1 = 3 /\ 3 + 1 = 4
    OBVIOUS
  <2>3. 1 \in 1..4 /\ 2 \in 1..4 /\ 3 \in 1..4 /\ 4 \in 1..4
    OBVIOUS
  <2>4. /\ NormSqr(w, 0) = r[1] + 3 * i[1] /\ NormSqr(w, 1) = r[2] + 3 * i[2]
        /\ NormSqr(w, 2) = r[3] + 3 * i[3] /\ NormSqr(w, 3) = r[4] + 3 * i[4]
    BY <1>3, <1>4, <2>2, <2>3, Zenon DEF BinIs
  <2>5. r[1] \in Nat /\ r[4] \in Nat
    OBVIOUS
  <2> QED BY <2>1, <2>4, <2>5
<1> DEFINE p == SpectrumForSeries(x)
<1>6. p[1] = r[1] /\ p[2] = 2 * (r[2] + 3 * i[2]) /\ p[3] = 2 * (r[3] + 3 * i[3]) /\ p[4] = r[4]
  <2>1. /\ p[1] = NormSqr(w, 0) * 1 /\ p[2] = NormSqr(w, 1) * 2
        /\ p[3] = NormSqr(w, 2) * 2 /\ p[4] = NormSqr(w, 3) * 1
    BY <1>2
  <2> HIDE DEF p
  <2>2. \A k \in 1..4 : r[k] \in Nat /\ i[k] \in Nat
    OBVIOUS
  <2> QED BY <1>5, <2>1, <2>2
<1>7. p \in [1..4 -> Nat]
  <2>1. p = [k \in 1..4 |-> p[k]]
    BY <1>2, Zenon
  <2>2. \A k \in 1..4 : k = 1 \/ k = 2 \/ k = 3 \/ k = 4
    OBVIOUS
  <2> HIDE DEF p
  <2>3. p[1] \in Nat /\ p[2] \in Nat /\ p[3] \in Nat /\ p[4] \in Nat
    <3>1. \A k \in 1..4 : r[k] \in Nat /\ i[k] \in Nat
      OBVIOUS
    <3> QED BY <1>6, <3>1
  <2>4. \A k \in 1..4 : p[k] \in Nat
    BY <2>2, <2>3, Zenon
  <2> QED BY <2>1, <2>4, Zenon
<1>8. 1 \in 1..4 /\ 2 \in 1..4 /\ 3 \in 1..4 /\ 4 \in 1..4
  OBVIOUS
<1> HIDE DEF p
<1>9. IsSpectrum(p, w)
  BY <1>4, <1>6, <1>7, <1>8, Zenon DEF IsSpectrum
<1> QED BY <1>9 DEF p, w

\* The sum of a spectrum is that of the squares of what it is a spectrum of.
LEMMA EnergiesOfSix ==
  ASSUME NEW w \in [1..6 -> Int]
  PROVE  Square(2 * (w[1] + w[2] + w[3] + w[4] + w[5] + w[6]))
           + 2 * (Square(2 * w[1] + w[2] - w[3] - 2 * w[4] - w[5] + w[6])
                    + 3 * Square(w[2] + w[3] - w[5] - w[6]))
           + 2 * (Square(2 * w[1] - w[2] - w[3] + 2 * w[4] - w[5] - w[6])
                    + 3 * Square(w[2] - w[3] + w[5] - w[6]))
           + Square(2 * (w[1] - w[2] + w[3] - w[4] + w[5] - w[6]))
           = 24 * (w[1] * w[1] + w[2] * w[2] + w[3] * w[3]
                     + w[4] * w[4] + w[5] * w[5] + w[6] * w[6])
<1> DEFINE a == w[1]
           b == w[2]
           c == w[3]
           d == w[4]
           e == w[5]
           f == w[6]
<1>1. a \in Int /\ b \in Int /\ c \in Int /\ d \in Int /\ e \in Int /\ f \in Int
  OBVIOUS
<1> HIDE DEF a, b, c, d, e, f
<1>2. Square(2 * (a + b + c + d + e + f))
        + 2 * (Square(2 * a + b - c - 2 * d - e + f) + 3 * Square(b + c - e - f))
        + 2 * (Square(2 * a - b - c + 2 * d - e - f) + 3 * Square(b - c + e - f))
        + Square(2 * (a - b + c - d + e - f))
        = 24 * (a * a + b * b + c * c + d * d + e * e + f * f)
  BY <1>1 DEF Square
<1> QED BY <1>2, Zenon DEF a, b, c, d, e, f

SameEnergy(x) ==
  LET windowed == CenterAndApplyHann(x)
  IN  Sum(SpectrumForSeries(x))
        = 4 * Len(windowed) * Sum([i \in DOMAIN windowed |-> windowed[i] * windowed[i]])

LEMMA SpectrumEnergy ==
  ASSUME NEW x \in Motions
  PROVE  SameEnergy(x)
<1> DEFINE w == CenterAndApplyHann(x)
           p == SpectrumForSeries(x)
           z == [i \in 1..6 |-> w[i] * w[i]]
<1>1. w \in [1..6 -> Int]
  BY WindowedIs
<1>2. Len(w) = 6 /\ DOMAIN w = 1..6
  BY <1>1, FunctionIsSeq
<1>3. IsSpectrum(p, w)
  BY SpectrumIs
<1> HIDE DEF w, p
<1>4. p \in [1..4 -> Int] /\ Sum(p) = p[1] + p[2] + p[3] + p[4]
  <2>1. p \in [1..4 -> Int]
    BY <1>3 DEF IsSpectrum
  <2> QED BY <2>1, SumOfFour
<1> DEFINE squares == w[1] * w[1] + w[2] * w[2] + w[3] * w[3]
                        + w[4] * w[4] + w[5] * w[5] + w[6] * w[6]
<1>5. Sum(p) = 24 * squares
  <2>1. /\ Real(w)[1] = 2 * (w[1] + w[2] + w[3] + w[4] + w[5] + w[6])
        /\ Real(w)[2] = 2 * w[1] + w[2] - w[3] - 2 * w[4] - w[5] + w[6]
        /\ Real(w)[3] = 2 * w[1] - w[2] - w[3] + 2 * w[4] - w[5] - w[6]
        /\ Real(w)[4] = 2 * (w[1] - w[2] + w[3] - w[4] + w[5] - w[6])
        /\ Imaginary(w)[2] = w[2] + w[3] - w[5] - w[6]
        /\ Imaginary(w)[3] = w[2] - w[3] + w[5] - w[6]
    BY DEF Real, Imaginary
  <2>2. /\ p[1] = Square(Real(w)[1])
        /\ p[2] = 2 * (Square(Real(w)[2]) + 3 * Square(Imaginary(w)[2]))
        /\ p[3] = 2 * (Square(Real(w)[3]) + 3 * Square(Imaginary(w)[3]))
        /\ p[4] = Square(Real(w)[4])
    BY <1>3, Zenon DEF IsSpectrum
  <2>3. Square(2 * (w[1] + w[2] + w[3] + w[4] + w[5] + w[6]))
          + 2 * (Square(2 * w[1] + w[2] - w[3] - 2 * w[4] - w[5] + w[6])
                   + 3 * Square(w[2] + w[3] - w[5] - w[6]))
          + 2 * (Square(2 * w[1] - w[2] - w[3] + 2 * w[4] - w[5] - w[6])
                   + 3 * Square(w[2] - w[3] + w[5] - w[6]))
          + Square(2 * (w[1] - w[2] + w[3] - w[4] + w[5] - w[6]))
          = 24 * squares
    BY <1>1, EnergiesOfSix, Zenon
  <2> QED BY <1>4, <2>1, <2>2, <2>3, Zenon
<1>6. Sum(z) = squares
  <2>1. z \in [1..6 -> Int]
    <3>1. \A i \in 1..6 : w[i] \in Int
      BY <1>1
    <3>2. \A n \in Int : n * n \in Int
      OBVIOUS
    <3> QED BY <3>1, <3>2, Zenon
  <2>2. /\ z[1] = w[1] * w[1] /\ z[2] = w[2] * w[2] /\ z[3] = w[3] * w[3]
        /\ z[4] = w[4] * w[4] /\ z[5] = w[5] * w[5] /\ z[6] = w[6] * w[6]
    OBVIOUS
  <2> HIDE DEF z
  <2>3. Sum(z) = z[1] + z[2] + z[3] + z[4] + z[5] + z[6]
    BY <2>1, SumOfSix
  <2> QED BY <2>2, <2>3, Zenon
<1>7. z = [i \in DOMAIN w |-> w[i] * w[i]]
  BY <1>2, Zenon
<1>8. 4 * 6 = 24
  OBVIOUS
<1> HIDE DEF z, squares
<1> QED BY <1>2, <1>5, <1>6, <1>7, <1>8, Zenon DEF SameEnergy, w, p

\* The bins of a spectrum but DC.
LEMMA RestIs ==
  ASSUME NEW p \in [1..4 -> Nat]
  PROVE  Tail(p) \in [1..3 -> Nat] /\ Len(Tail(p)) = 3 /\ DOMAIN Tail(p) = 1..3
<1>1. p \in Seq(Nat) /\ Len(p) = 4
  <2>1. \A n \in Nat : \A s \in [1..n -> Nat] : s \in Seq(Nat) /\ Len(s) = n
    OBVIOUS
  <2> QED BY <2>1
<1>2. p # <<>>
  <2>1. <<>> \in Seq(Nat) => Len(<<>>) = 0
    OBVIOUS
  <2>2. p = <<>> => Len(p) = 0
    BY <1>1, <2>1, Zenon
  <2> QED BY <1>1, <2>2
<1>3. Tail(p) \in Seq(Nat) /\ Len(Tail(p)) = Len(p) - 1
  BY <1>1, <1>2, HeadTailProperties
<1>4. Len(Tail(p)) = 3
  BY <1>1, <1>3
<1>5. Tail(p) \in [1..3 -> Nat]
  <2>1. \A n \in Nat : \A s \in Seq(Nat) : Len(s) = n => s \in [1..n -> Nat]
    OBVIOUS
  <2> QED BY <1>3, <1>4, <2>1
<1> QED BY <1>4, <1>5

Bounded(seq, n) == \E b \in Nat : \A i \in 1..n : seq[i] <= b

LEMMA BoundIs ==
  ASSUME NEW n \in Nat, NEW seq \in [1..n -> Nat]
  PROVE  Bounded(seq, n)
<1> DEFINE T == {j \in 0..n : Bounded(seq, j)}
<1>1. 0 \in T
  BY DEF Bounded
<1>2. ASSUME NEW j \in 1..n, j - 1 \in T PROVE j \in T
  <2>1. PICK b \in Nat : \A i \in 1..(j - 1) : seq[i] <= b
    BY <1>2 DEF Bounded
  <2>2. seq[j] \in Nat /\ b + seq[j] \in Nat
    OBVIOUS
  <2>3. \A i \in 1..j : seq[i] \in Nat /\ (i \in 1..(j - 1) \/ i = j)
    OBVIOUS
  <2>4. \A i \in 1..j : seq[i] <= b + seq[j]
    BY <2>1, <2>2, <2>3
  <2>5. Bounded(seq, j)
    BY <2>2, <2>4 DEF Bounded
  <2> QED BY <2>5
<1>3. 0..n \subseteq T
  <2> HIDE DEF T
  <2> QED BY <1>1, <1>2, Induction
<1>4. n \in 0..n
  OBVIOUS
<1>5. n \in T
  <2> HIDE DEF T
  <2> QED BY <1>3, <1>4
<1> QED BY <1>5

\* The least bound of a sequence is one of its values.
LEMMA GreatestIs ==
  ASSUME NEW n \in Nat \ {0}, NEW seq \in [1..n -> Nat]
  PROVE  /\ Greatest(seq) \in Nat
         /\ \E i \in 1..n : seq[i] = Greatest(seq)
         /\ \A i \in 1..n : seq[i] <= Greatest(seq)
<1> DEFINE S == {b \in Nat : \A i \in 1..n : seq[i] <= b}
           V == {seq[i] : i \in DOMAIN seq}
<1>1. PICK b \in Nat : \A i \in 1..n : seq[i] <= b
  BY BoundIs DEF Bounded
<1>2. PICK m \in S : \A k \in S : m <= k
  <2>1. b \in S /\ S \subseteq Nat
    BY <1>1
  <2> HIDE DEF S
  <2> QED BY <2>1, LeastOfSet
<1>3. m \in Nat /\ \A i \in 1..n : seq[i] \in Nat /\ seq[i] <= m
  OBVIOUS
<1>4. \E i \in 1..n : seq[i] = m
  <2> SUFFICES ASSUME \A i \in 1..n : seq[i] # m PROVE FALSE
    OBVIOUS
  <2>1. 1 \in 1..n
    OBVIOUS
  <2>2. m - 1 \in Nat
    BY <1>3, <2>1
  <2>3. \A i \in 1..n : seq[i] <= m - 1
    BY <1>3, <2>2
  <2>4. m - 1 \in S
    BY <2>2, <2>3
  <2> QED BY <1>2, <1>3, <2>4
<1>5. \E v \in V : \A i \in DOMAIN seq : seq[i] <= v
  BY <1>3, <1>4
<1>6. Greatest(seq) = CHOOSE v \in V : \A i \in DOMAIN seq : seq[i] <= v
  BY Zenon DEF Greatest
<1>7. Greatest(seq) \in V /\ \A i \in DOMAIN seq : seq[i] <= Greatest(seq)
  <2> HIDE DEF V
  <2> QED BY <1>5, <1>6, Zenon
<1> QED BY <1>7

\* There is a first of the strongest bins, and a last.
IsFirst(r, b) == r[b] = Greatest(r) /\ \A c \in 1..(b - 1) : r[c] < Greatest(r)
IsLast(r, b) == r[b] = Greatest(r) /\ \A c \in (b + 1)..Len(r) : r[c] < Greatest(r)

LEMMA FirstIs ==
  ASSUME NEW n \in Nat \ {0}, NEW r \in [1..n -> Nat]
  PROVE  \E b \in DOMAIN r : IsFirst(r, b)
<1> DEFINE S == {b \in 1..n : r[b] = Greatest(r)}
<1>1. /\ Greatest(r) \in Nat /\ \E b \in 1..n : r[b] = Greatest(r)
      /\ \A b \in 1..n : r[b] <= Greatest(r)
  BY GreatestIs
<1>2. PICK m \in S : \A k \in S : m <= k
  <2>1. S \subseteq Nat /\ \E b : b \in S
    BY <1>1
  <2> HIDE DEF S
  <2> QED BY <2>1, LeastOfSet
<1>3. ASSUME NEW c \in 1..(m - 1) PROVE r[c] < Greatest(r)
  <2>1. c \in 1..n /\ c \notin S
    BY <1>2
  <2>2. r[c] \in Nat /\ r[c] # Greatest(r)
    BY <2>1
  <2> QED BY <1>1, <2>1, <2>2
<1>4. IsFirst(r, m)
  BY <1>2, <1>3 DEF IsFirst
<1> QED BY <1>4

LEMMA LastIs ==
  ASSUME NEW n \in Nat \ {0}, NEW r \in [1..n -> Nat]
  PROVE  \E b \in DOMAIN r : IsLast(r, b)
<1> DEFINE S == {k \in 0..(n - 1) : r[n - k] = Greatest(r)}
<1>1. /\ Greatest(r) \in Nat /\ \E b \in 1..n : r[b] = Greatest(r)
      /\ \A b \in 1..n : r[b] <= Greatest(r)
  BY GreatestIs
<1>2. PICK m \in S : \A k \in S : m <= k
  <2>1. PICK b \in 1..n : r[b] = Greatest(r)
    BY <1>1
  <2>2. n - b \in 0..(n - 1) /\ n - (n - b) = b
    OBVIOUS
  <2>3. S \subseteq Nat /\ n - b \in S
    BY <2>1, <2>2
  <2> HIDE DEF S
  <2> QED BY <2>3, LeastOfSet
<1>3. ASSUME NEW c \in ((n - m) + 1)..n PROVE r[c] < Greatest(r)
  <2>1. c \in 1..n /\ n - c \in 0..(n - 1) /\ n - c < m /\ n - (n - c) = c
    OBVIOUS
  <2>2. n - c \notin S
    BY <1>2, <2>1
  <2>3. r[c] \in Nat /\ r[c] # Greatest(r)
    BY <2>1, <2>2
  <2> QED BY <1>1, <2>1, <2>3
<1>4. n - m \in 1..n /\ r[n - m] = Greatest(r) /\ Len(r) = n
  OBVIOUS
<1>5. IsLast(r, n - m)
  BY <1>3, <1>4 DEF IsLast
<1> QED BY <1>4, <1>5

\* What DominantsDifferOnlyInTies says of a spectrum.
Dominants(p) ==
  LET bins == Tail(p)
      strongest == {b \in DOMAIN bins : \A c \in DOMAIN bins : bins[c] <= bins[b]}
      dsp == DominantNonDc(p)
      features == ExtractSpectralFeatures(p)
  IN  /\ dsp = NoPeak <=>
           features.total = 0 \/ 100 * Len(bins) * features.dominantPower < 105 * features.total
      /\ dsp # NoPeak =>
           /\ {dsp, features.dominant} \subseteq strongest
           /\ \A b \in strongest : dsp <= b /\ b <= features.dominant

LEMMA DominantsAre ==
  ASSUME NEW p \in [1..4 -> Nat]
  PROVE  Dominants(p)
<1> DEFINE r == Tail(p)
           best == Greatest(r)
           dsp == DominantNonDc(p)
           features == ExtractSpectralFeatures(p)
           small == 100 * Len(r) * best < 105 * Sum(r)
           first == CHOOSE b \in DOMAIN r : IsFirst(r, b)
           latest == CHOOSE b \in DOMAIN r : IsLast(r, b)
<1>1. r \in [1..3 -> Nat] /\ Len(r) = 3 /\ DOMAIN r = 1..3
  BY RestIs
<1>2. dsp = IF best <= 0 \/ small THEN NoPeak ELSE first
  BY Zenon DEF DominantNonDc, IsFirst
<1>3. features.total = 0 <=> Sum(r) = 0
  BY DEF ExtractSpectralFeatures
<1>4. Sum(r) # 0 =>
        features.total = Sum(r) /\ features.dominantPower = best /\ features.dominant = latest
  BY DEF ExtractSpectralFeatures, IsLast
<1> HIDE DEF r, dsp, features
<1>5. /\ best \in Nat /\ \E i \in 1..3 : r[i] = best
      /\ \A i \in 1..3 : r[i] <= best
  <2>1. 3 \in Nat \ {0}
    OBVIOUS
  <2> QED BY <1>1, <2>1, GreatestIs
<1>6. first \in 1..3 /\ IsFirst(r, first) /\ latest \in 1..3 /\ IsLast(r, latest)
  <2>1. 3 \in Nat \ {0}
    OBVIOUS
  <2>2. (\E b \in DOMAIN r : IsFirst(r, b)) /\ (\E b \in DOMAIN r : IsLast(r, b))
    BY <1>1, <2>1, FirstIs, LastIs
  <2>3. first \in DOMAIN r /\ IsFirst(r, first) /\ latest \in DOMAIN r /\ IsLast(r, latest)
    BY <2>2, Zenon
  <2> QED BY <1>1, <2>3
<1>7. Sum(r) \in Nat /\ (Sum(r) = 0 <=> best <= 0)
  <2>1. Sum(r) = r[1] + r[2] + r[3]
    BY <1>1, SumOfThree
  <2>2. PICK x \in Nat, y \in Nat, z \in Nat : x = r[1] /\ y = r[2] /\ z = r[3]
    BY <1>1
  <2>3. x <= best /\ y <= best /\ z <= best /\ (best = x \/ best = y \/ best = z)
    <3>1. \A i \in 1..3 : i = 1 \/ i = 2 \/ i = 3
      OBVIOUS
    <3> QED BY <1>5, <2>2, <3>1
  <2> HIDE DEF best
  <2> QED BY <1>5, <2>1, <2>2, <2>3
<1> HIDE DEF first, latest, best
<1> DEFINE strongest == {b \in DOMAIN r : \A c \in DOMAIN r : r[c] <= r[b]}
<1>8. strongest = {b \in 1..3 : r[b] = best}
  <2>1. ASSUME NEW b \in 1..3, \A c \in 1..3 : r[c] <= r[b] PROVE r[b] = best
    <3>1. r[b] \in Nat /\ r[b] <= best /\ best <= r[b]
      BY <1>1, <1>5, <2>1
    <3> QED BY <1>5, <3>1
  <2>2. ASSUME NEW b \in 1..3, r[b] = best PROVE \A c \in 1..3 : r[c] <= r[b]
    BY <1>5, <2>2
  <2> QED BY <1>1, <2>1, <2>2
<1>9. first \in strongest /\ latest \in strongest
  BY <1>6, <1>8 DEF IsFirst, IsLast, best
<1>10. ASSUME NEW b \in strongest PROVE first <= b /\ b <= latest
  <2>1. b \in 1..3 /\ r[b] = best
    BY <1>8
  <2>2. ASSUME b < first PROVE FALSE
    <3>1. b \in 1..(first - 1)
      BY <1>6, <2>1, <2>2
    <3>2. r[b] < best
      BY <1>6, <3>1 DEF IsFirst, best
    <3> QED BY <1>5, <2>1, <3>2
  <2>3. ASSUME latest < b PROVE FALSE
    <3>1. b \in (latest + 1)..Len(r)
      BY <1>1, <1>6, <2>1, <2>3
    <3>2. r[b] < best
      BY <1>6, <3>1 DEF IsLast, best
    <3> QED BY <1>5, <2>1, <3>2
  <2> QED BY <1>6, <2>1, <2>2, <2>3
<1>11. first # NoPeak
  BY <1>6 DEF NoPeak
<1>12. dsp = NoPeak <=> features.total = 0 \/ 100 * Len(r) * features.dominantPower < 105 * features.total
  <2>1. CASE Sum(r) = 0
    BY <1>2, <1>3, <1>7, <2>1
  <2>2. CASE Sum(r) # 0
    <3>1. ~(best <= 0) /\ features.total # 0
      BY <1>3, <1>7, <2>2
    <3>2. features.total = Sum(r) /\ features.dominantPower = best
      BY <1>4, <2>2
    <3> QED BY <1>2, <1>11, <3>1, <3>2, Zenon
  <2> QED BY <2>1, <2>2
<1>13. ASSUME dsp # NoPeak
       PROVE  /\ {dsp, features.dominant} \subseteq strongest
              /\ \A b \in strongest : dsp <= b /\ b <= features.dominant
  <2>1. dsp = first /\ ~(best <= 0)
    BY <1>2, <1>13, Zenon
  <2>2. features.dominant = latest
    BY <1>4, <1>7, <2>1
  <2> HIDE DEF strongest
  <2> QED BY <1>9, <1>10, <2>1, <2>2
<1> QED BY <1>12, <1>13, Zenon DEF Dominants, strongest, r, dsp, features

-----------------------------------------------------------------------------
(***************************************************************************)
(* The window.                                                             *)
(***************************************************************************)

\* No frame is under way while there is a window to analyse.
FrameIsBeforeWindow == (buffer # None => raw # None) /\ (raw # None => ~Full)

\* What an interval of a window may be.
Known == UNION {{timing[i] : i \in 1..Transitions} : timing \in Timings}

\* A window has an energy of every link for each of its intervals.
WindowIsAligned ==
  /\ intervals \in Seq(Int) /\ Len(intervals) <= Transitions /\ since \in Int
  /\ motion \in [Antennas -> Seq(Int)]
  /\ \A l \in Antennas : Len(motion[l]) = Len(intervals)

IsResult(r) == \E i, m : m \in [Antennas -> Motions] /\ r = ProcessWindow(i, m)

ResultIsOfWindow == result # None => IsResult(result)

WindowInv == FrameIsBeforeWindow /\ WindowIsAligned /\ ResultIsOfWindow

LEMMA WindowInvInit == Init => WindowInv
<1> SUFFICES ASSUME Init PROVE WindowInv
  OBVIOUS
<1>1. <<>> \in Seq(Int) /\ Len(<<>>) = 0 /\ 0 \in Int /\ 0 <= Transitions
  BY DEF Transitions
<1>2. /\ intervals = <<>> /\ since = 0 /\ motion = [l \in Antennas |-> <<>>] /\ result = None
      /\ raw = None /\ buffer = None
  BY DEF Init
<1>3. WindowIsAligned
  BY <1>1, <1>2 DEF WindowIsAligned
<1> QED BY <1>2, <1>3 DEF WindowInv, FrameIsBeforeWindow, ResultIsOfWindow

LEMMA FrameStaysBeforeWindow == FrameIsBeforeWindow /\ [Next]_chain => FrameIsBeforeWindow'
<1> SUFFICES ASSUME FrameIsBeforeWindow, [Next]_chain PROVE FrameIsBeforeWindow'
  OBVIOUS
<1>1. CASE UNCHANGED chain
  BY <1>1 DEF chain, FrameIsBeforeWindow, Full
<1>2. CASE Capture
  <2>1. raw = None /\ ~Full /\ UNCHANGED <<buffer, intervals>>
    BY <1>2 DEF Capture
  <2> QED BY <2>1 DEF FrameIsBeforeWindow, Full
<1>3. CASE Refuse \/ StageFails \/ Join
  <2>1. raw' = None /\ buffer' = None
    BY <1>3 DEF Refuse, StageFails, Join
  <2> QED BY <2>1 DEF FrameIsBeforeWindow
<1>4. CASE BeginCalibration \/ ApplyStage
  <2>1. raw # None /\ UNCHANGED <<raw, intervals>>
    BY <1>4 DEF BeginCalibration, ApplyStage, FrameIsBeforeWindow
  <2> QED BY <2>1 DEF FrameIsBeforeWindow, Full
<1>5. CASE WindowFails
  <2>1. raw = None /\ UNCHANGED <<raw, buffer>>
    BY <1>5 DEF WindowFails
  <2> QED BY <2>1 DEF FrameIsBeforeWindow
<1>6. CASE Analyse \/ Extract \/ Observe
  <2>1. UNCHANGED <<raw, buffer, intervals>>
    BY <1>6 DEF Analyse, Extract, Observe
  <2> QED BY <2>1 DEF FrameIsBeforeWindow, Full
<1>7. CASE Proceed
  <2>1. intervals' = <<>> /\ UNCHANGED <<raw, buffer>>
    BY <1>7 DEF Proceed
  <2>2. ~Full'
    BY <2>1 DEF Full, Transitions
  <2> QED BY <2>1, <2>2 DEF FrameIsBeforeWindow
<1> QED BY <1>1, <1>2, <1>3, <1>4, <1>5, <1>6, <1>7 DEF Next

LEMMA LengthIs ==
  ASSUME WindowIsAligned
  PROVE  Len(intervals) \in Nat /\ Len(intervals) <= Transitions
<1>1. \A s \in Seq(Int) : Len(s) \in Nat
  OBVIOUS
<1> QED BY <1>1 DEF WindowIsAligned

LEMMA KnownIsNat == Known \subseteq Nat
<1>1. ASSUME NEW t \in Timings, NEW j \in 1..Transitions PROVE t[j] \in Nat
  <2>1. t \in [1..Transitions -> Nat]
    BY FrameConfig
  <2> QED BY <2>1
<1> QED BY <1>1 DEF Known

\* The next interval is one of those the window may have.
LEMMA NextIntervalsAreKnown ==
  ASSUME WindowIsAligned, ~Full
  PROVE  NextIntervals \subseteq Known
<1>1. Len(intervals) + 1 \in 1..Transitions
  <2>1. PICK n \in Nat : n = Len(intervals) /\ n <= Transitions
    BY LengthIs, Zenon
  <2>2. n # 6 /\ n <= 6
    BY <2>1 DEF Full, Transitions
  <2>3. n + 1 \in 1..6
    BY <2>2
  <2> QED BY <2>1, <2>3 DEF Transitions
<1>2. \A t \in Timings, j \in 1..Transitions : t[j] \in Known
  BY DEF Known
<1> DEFINE k == Len(intervals) + 1
<1>3. \A x \in NextIntervals : \E timing \in Timings : x = timing[k]
  <2> HIDE DEF k
  <2>1. NextIntervals = {timing[k] :
                           timing \in {t \in Timings : \A i \in DOMAIN intervals : t[i] = intervals[i]}}
    BY Zenon DEF NextIntervals, k
  <2> QED BY <2>1
<1> QED BY <1>1, <1>2, <1>3, Zenon

\* An interval and an energy of every link are added.
LEMMA WindowGrows ==
  ASSUME WindowIsAligned, ~Full, NEW e \in [Antennas -> 0..MaxEnergy],
         intervals' = Append(intervals, since),
         motion' = [l \in Antennas |-> Append(motion[l], e[l])],
         since' = 0
  PROVE  WindowIsAligned'
<1>1. intervals' \in Seq(Int) /\ Len(intervals') = Len(intervals) + 1
  BY DEF WindowIsAligned
<1>4. Len(intervals') <= Transitions
  <2>1. PICK n \in Nat : n = Len(intervals) /\ n <= Transitions
    BY LengthIs, Zenon
  <2>2. n # 6 /\ n <= 6
    BY <2>1 DEF Full, Transitions
  <2>3. n + 1 <= 6
    BY <2>2
  <2> QED BY <1>1, <2>1, <2>3 DEF Transitions
<1>2. ASSUME NEW l \in Antennas
      PROVE  Append(motion[l], e[l]) \in Seq(Int) /\ Len(Append(motion[l], e[l])) = Len(intervals) + 1
  <2>1. motion[l] \in Seq(Int) /\ e[l] \in Int /\ Len(motion[l]) = Len(intervals)
    BY FrameConfig DEF WindowIsAligned
  <2> QED BY <2>1
<1>3. motion' \in [Antennas -> Seq(Int)] /\ \A l \in Antennas : Len(motion'[l]) = Len(intervals) + 1
  BY <1>2, Zenon
<1> QED BY <1>1, <1>3, <1>4 DEF WindowIsAligned, Antennas

LEMMA FullIsMotions ==
  ASSUME WindowIsAligned, Full
  PROVE  motion \in [Antennas -> Motions]
<1>1. ASSUME NEW l \in Antennas PROVE motion[l] \in Motions
  <2>1. motion[l] \in Seq(Int) /\ Len(motion[l]) = Transitions /\ Transitions \in Nat
    BY DEF WindowIsAligned, Full, Transitions
  <2>2. \A n \in Nat : \A s \in Seq(Int) : Len(s) = n => s \in [1..n -> Int]
    OBVIOUS
  <2> QED BY <2>1, <2>2, Zenon DEF Motions
<1>2. motion = [l \in Antennas |-> motion[l]]
  BY DEF WindowIsAligned
<1> QED BY <1>1, <1>2, Zenon

LEMMA WindowInvNext == WindowInv /\ [Next]_chain => WindowInv'
<1> SUFFICES ASSUME WindowInv, [Next]_chain PROVE WindowInv'
  OBVIOUS
<1>0. WindowIsAligned /\ ResultIsOfWindow /\ FrameIsBeforeWindow
  BY DEF WindowInv
<1>a. FrameIsBeforeWindow'
  BY <1>0, FrameStaysBeforeWindow
<1>1. ASSUME UNCHANGED <<intervals, motion>>, since' \in Int PROVE WindowIsAligned'
  BY <1>0, <1>1 DEF WindowIsAligned
<1>2. ASSUME intervals' = <<>>, motion' = [l \in Antennas |-> <<>>], UNCHANGED since
      PROVE  WindowIsAligned'
  <2>1. <<>> \in Seq(Int) /\ Len(<<>>) = 0 /\ 0 <= Transitions
    BY DEF Transitions
  <2> QED BY <1>0, <1>2, <2>1 DEF WindowIsAligned
<1>3. ASSUME UNCHANGED result PROVE ResultIsOfWindow'
  BY <1>0, <1>3, Zenon DEF ResultIsOfWindow
<1>4. since \in Int /\ 0 \in Int
  BY <1>0 DEF WindowIsAligned
<1>5. CASE Capture
  <2>1. since' \in Int
    <3>1. since' = 0 \/ since' \in NextIntervals \/ since' = Tick
      BY <1>5 DEF Capture
    <3>2. NextIntervals \subseteq Known /\ Known \subseteq Nat
      BY <1>0, <1>5, NextIntervalsAreKnown, KnownIsNat DEF Capture
    <3>3. Tick \in Nat
      BY FrameConfig
    <3>4. 0 \in Int /\ \A n \in Nat : n \in Int
      OBVIOUS
    <3> QED BY <3>1, <3>2, <3>3, <3>4, Zenon
  <2> QED BY <1>1, <1>3, <1>5, <1>a, <2>1 DEF Capture, WindowInv
<1>6. CASE Refuse
  BY <1>1, <1>3, <1>4, <1>a, <1>6 DEF Refuse, WindowInv
<1>7. CASE BeginCalibration
  BY <1>1, <1>3, <1>4, <1>a, <1>7 DEF BeginCalibration, WindowInv
<1>8. CASE ApplyStage
  BY <1>1, <1>3, <1>4, <1>a, <1>8 DEF ApplyStage, WindowInv
<1>9. CASE StageFails
  BY <1>1, <1>3, <1>4, <1>a, <1>9 DEF StageFails, WindowInv
<1>10. CASE Join
  <2>1. since' = 0 /\ UNCHANGED result
    BY <1>10 DEF Join
  <2>2. CASE last = None
    <3>1. UNCHANGED <<intervals, motion>>
      BY <1>10, <2>2 DEF Join
    <3> QED BY <1>1, <1>3, <1>4, <1>a, <2>1, <3>1 DEF WindowInv
  <2>3. CASE last # None
    <3>1. /\ intervals' = Append(intervals, since)
          /\ \E e \in [Antennas -> 0..MaxEnergy] :
               motion' = [l \in Antennas |-> Append(motion[l], e[l])]
      BY <1>10, <2>3 DEF Join
    <3>2. buffer # None /\ ~Full
      BY <1>0, <1>10 DEF Join, FrameIsBeforeWindow
    <3>3. WindowIsAligned'
      BY <1>0, <2>1, <3>1, <3>2, WindowGrows
    <3> QED BY <1>3, <1>a, <2>1, <3>3 DEF WindowInv
  <2> QED BY <2>2, <2>3
<1>11. CASE WindowFails
  BY <1>2, <1>3, <1>11, <1>a DEF WindowFails, WindowInv
<1>12. CASE Analyse
  <2>1. motion \in [Antennas -> Motions] /\ result' = ProcessWindow(intervals, motion)
    BY <1>0, <1>12, FullIsMotions DEF Analyse
  <2>2. ResultIsOfWindow'
    BY <2>1, Zenon DEF ResultIsOfWindow, IsResult
  <2> QED BY <1>1, <1>4, <1>a, <1>12, <2>2 DEF Analyse, WindowInv
<1>13. CASE Extract
  BY <1>1, <1>3, <1>4, <1>a, <1>13 DEF Extract, WindowInv
<1>14. CASE Observe
  BY <1>1, <1>3, <1>4, <1>a, <1>14 DEF Observe, WindowInv
<1>15. CASE Proceed
  <2>1. ResultIsOfWindow'
    BY <1>15 DEF Proceed, ResultIsOfWindow
  <2> QED BY <1>2, <1>15, <1>a, <2>1 DEF Proceed, WindowInv
<1>16. CASE UNCHANGED chain
  BY <1>1, <1>3, <1>4, <1>a, <1>16 DEF chain, WindowInv
<1> QED BY <1>5, <1>6, <1>7, <1>8, <1>9, <1>10, <1>11, <1>12, <1>13, <1>14, <1>15, <1>16 DEF Next

LEMMA AggregateIs ==
  ASSUME NEW m \in [Antennas -> Motions]
  PROVE  Aggregate(m) \in Motions
<1>1. Receivers \in Nat /\ 1 \in Antennas /\ DOMAIN m = 1..Receivers
  BY FrameConfig DEF Antennas
<1>2. DOMAIN m[1] = 1..Transitions
  BY <1>1 DEF Motions
<1>3. ASSUME NEW t \in 1..Transitions PROVE Sum([l \in 1..Receivers |-> m[l][t]]) \in Int
  <2>1. [l \in 1..Receivers |-> m[l][t]] \in [1..Receivers -> Int]
    BY DEF Motions, Antennas
  <2>2. [l \in 1..Receivers |-> m[l][t]] \in Seq(Int)
    BY <1>1, <2>1, FunctionIsSeq
  <2> QED BY <2>2, SumInt
<1> QED BY <1>1, <1>2, <1>3, Zenon DEF Aggregate, Motions

\* Each spectrum of a result is that of its series.
LEMMA SeriesAre ==
  ASSUME WindowInv, result # None, NEW s \in Series
  PROVE  s[1] \in Motions /\ s[2] = SpectrumForSeries(s[1])
<1>1. PICK i, m : m \in [Antennas -> Motions] /\ result = ProcessWindow(i, m)
  BY Zenon DEF WindowInv, ResultIsOfWindow, IsResult
<1>2. /\ result.aggregate = Aggregate(m) /\ result.spectrum = SpectrumForSeries(Aggregate(m))
      /\ result.motion = m /\ result.links = [l \in DOMAIN m |-> SpectrumForSeries(m[l])]
  BY <1>1 DEF ProcessWindow
<1>3. CASE s = <<result.aggregate, result.spectrum>>
  BY <1>1, <1>2, <1>3, AggregateIs
<1>4. CASE s \in {<<result.motion[l], result.links[l]>> : l \in DOMAIN result.links}
  <2>1. PICK l \in DOMAIN m : s = <<m[l], SpectrumForSeries(m[l])>>
    BY <1>2, <1>4
  <2> QED BY <1>1, <2>1
<1> QED BY <1>3, <1>4 DEF Series

LEMMA SpectrumNat ==
  ASSUME NEW x \in Motions
  PROVE  SpectrumForSeries(x) \in [1..4 -> Nat]
BY SpectrumIs DEF IsSpectrum

\* spectrum_for_series: for every window of six energies, every number of
\* links and all that the frames may be, the doubling of the bins between DC
\* and Nyquist is what keeps the power of the series.
THEOREM PowerIsKept == Spec => []Parseval
<1>1. ASSUME WindowInv, result # None, NEW s \in Series PROVE SameEnergy(s[1]) /\ s[2] = SpectrumForSeries(s[1])
  BY <1>1, SeriesAre, SpectrumEnergy
<1>2. WindowInv => Parseval
  BY <1>1, Zenon DEF Parseval, SameEnergy
<1> QED BY <1>2, WindowInvInit, WindowInvNext, PTL DEF Spec

\* dominant_non_dc and extract_spectral_features: for every spectrum of three
\* bins but DC, they name the first and the last of the strongest, and the
\* margin of the one decides alone whether there is none.
THEOREM DominantsAreStrongest == Spec => []DominantsDifferOnlyInTies
<1>1. ASSUME WindowInv, result # None, NEW s \in Series PROVE Dominants(s[2])
  BY <1>1, SeriesAre, SpectrumNat, DominantsAre
<1>2. WindowInv => DominantsDifferOnlyInTies
  BY <1>1, Zenon DEF DominantsDifferOnlyInTies, Dominants
<1> QED BY <1>2, WindowInvInit, WindowInvNext, PTL DEF Spec

-----------------------------------------------------------------------------
(***************************************************************************)
(* Roots, quotients and ranks grow with what they are of.                  *)
(***************************************************************************)

LEMMA ProductGrows ==
  ASSUME NEW a \in Nat, NEW b \in Nat, a <= b, NEW c \in Nat, NEW d \in Nat, c <= d
  PROVE  a * c <= b * d
<1>1. a * c <= b * c
  OBVIOUS
<1>2. b * c <= b * d
  OBVIOUS
<1>3. a * c \in Int /\ b * c \in Int /\ b * d \in Int
  OBVIOUS
<1> QED BY <1>1, <1>2, <1>3

\* The integer square root is one, and grows.
IsSqrt(r, n) == r * r <= n /\ n < (r + 1) * (r + 1)

LEMMA SqrtIs ==
  ASSUME NEW n \in Nat
  PROVE  Sqrt(n) \in Nat /\ IsSqrt(Sqrt(n), n)
<1> DEFINE S == {r \in Nat : n < (r + 1) * (r + 1)}
<1>1. n \in S
  <2>1. (n + 1) * (n + 1) = n * n + 2 * n + 1 /\ n * n >= 0
    BY SquareIsNat
  <2> QED BY <2>1
<1>2. PICK r \in S : \A k \in S : r <= k
  BY <1>1, LeastOfSet
<1>3. r \in 0..n
  BY <1>1, <1>2
<1>4. r * r <= n
  <2>1. CASE r = 0
    BY <2>1
  <2>2. CASE r # 0
    <3>1. r - 1 \in Nat /\ r - 1 \notin S
      BY <1>2, <2>2
    <3>2. ~(n < ((r - 1) + 1) * ((r - 1) + 1))
      BY <3>1
    <3>3. (r - 1) + 1 = r /\ r * r \in Int
      BY <1>3
    <3> QED BY <3>2, <3>3
  <2> QED BY <2>1, <2>2
<1>5. \E q \in 0..n : q * q <= n /\ n < (q + 1) * (q + 1)
  BY <1>2, <1>3, <1>4
<1>6. Sqrt(n) \in 0..n /\ Sqrt(n) * Sqrt(n) <= n /\ n < (Sqrt(n) + 1) * (Sqrt(n) + 1)
  BY <1>5, Zenon DEF Sqrt
<1> QED BY <1>6 DEF IsSqrt

LEMMA SqrtGrows ==
  ASSUME NEW m \in Nat, NEW n \in Nat, m <= n
  PROVE  Sqrt(m) <= Sqrt(n)
<1>1. PICK r \in Nat, q \in Nat : /\ r = Sqrt(m) /\ q = Sqrt(n)
                                  /\ r * r <= m /\ n < (q + 1) * (q + 1)
  BY SqrtIs DEF IsSqrt
<1>2. ASSUME q < r PROVE FALSE
  <2>1. (q + 1) * (q + 1) <= r * r
    BY <1>2, ProductGrows
  <2> QED BY <2>1, <1>1
<1> QED BY <1>1, <1>2

LEMMA QuotientGrows ==
  ASSUME NEW a \in Nat, NEW b \in Nat, a <= b, NEW n \in Nat \ {0}
  PROVE  a \div n \in Nat /\ b \div n \in Nat /\ a \div n <= b \div n
<1>1. \A x \in Nat : x = (x \div n) * n + (x % n) /\ x % n \in 0..(n - 1) /\ x \div n \in Int
  BY Division
<1>2. PICK p \in Int, r \in 0..(n - 1) : p = a \div n /\ a = p * n + r
  BY <1>1
<1>3. PICK q \in Int, s \in 0..(n - 1) : q = b \div n /\ b = q * n + s
  BY <1>1
<1>4. ASSUME q < p PROVE FALSE
  <2>1. (q + 1) * n <= p * n
    BY <1>4
  <2>2. (q + 1) * n = q * n + n
    OBVIOUS
  <2> QED BY <2>1, <2>2, <1>2, <1>3, <1>4
<1>5. ASSUME NEW x \in Int, NEW c \in Nat, NEW y \in 0..(n - 1), c = x * n + y PROVE x \in Nat
  <2>1. ASSUME x < 0 PROVE FALSE
    <3>1. x * n <= (-1) * n
      BY <2>1
    <3> QED BY <3>1, <1>5
  <2> QED BY <2>1
<1> QED BY <1>2, <1>3, <1>4, <1>5

\* Where a sequence is less than a value, and where at most that.
Below(seq, v) == {i \in DOMAIN seq : seq[i] < v}
UpTo(seq, v) == {i \in DOMAIN seq : seq[i] <= v}

LEMMA CardinalityOfInterval ==
  ASSUME NEW n \in Nat
  PROVE  IsFiniteSet(1..n) /\ Cardinality(1..n) = n
<1>1. 1 \in Int /\ n \in Int
  OBVIOUS
<1>2. IsFiniteSet(1..n) /\ Cardinality(1..n) = IF 1 > n THEN 0 ELSE n - 1 + 1
  BY <1>1, FS_Interval, Zenon
<1> QED BY <1>2

LEMMA Counts ==
  ASSUME NEW n \in Nat, NEW S, S \subseteq 1..n
  PROVE  IsFiniteSet(S) /\ Cardinality(S) \in Nat /\ Cardinality(S) <= n
<1>1. IsFiniteSet(1..n) /\ Cardinality(1..n) = n
  BY CardinalityOfInterval
<1>2. IsFiniteSet(S) /\ Cardinality(S) <= Cardinality(1..n)
  BY <1>1, FS_Subset, Zenon
<1> QED BY <1>1, <1>2, FS_CardinalityType

\* The k-th value is the least that k places do not exceed.
LEMMA RankedIs ==
  ASSUME NEW n \in Nat, NEW seq \in [1..n -> Nat], NEW k \in 1..n
  PROVE  \E v \in {seq[i] : i \in DOMAIN seq} : IsRanked(seq, k, v)
<1> DEFINE S == {v \in Nat : k <= Cardinality(UpTo(seq, v))}
<1>1. PICK bound \in Nat : \A i \in 1..n : seq[i] <= bound
  BY BoundIs DEF Bounded
<1>2. bound \in S
  <2>1. UpTo(seq, bound) = 1..n
    BY <1>1 DEF UpTo
  <2>2. Cardinality(1..n) = n
    BY CardinalityOfInterval
  <2> QED BY <2>1, <2>2
<1>3. PICK v \in S : \A w \in S : v <= w
  <2> HIDE DEF S
  <2>1. S \subseteq Nat
    BY DEF S
  <2> QED BY <1>2, <2>1, LeastOfSet
<1>4. Cardinality(Below(seq, v)) < k
  <2>1. CASE v = 0
    <3>1. Below(seq, v) = {}
      BY <2>1 DEF Below
    <3> QED BY <3>1, FS_EmptySet
  <2>2. CASE v # 0
    <3>1. v - 1 \in Nat /\ v - 1 \notin S
      BY <1>3, <2>2
    <3>2. Below(seq, v) = UpTo(seq, v - 1)
      BY <3>1 DEF Below, UpTo
    <3>3. UpTo(seq, v - 1) \subseteq 1..n
      BY DEF UpTo
    <3>4. Cardinality(UpTo(seq, v - 1)) \in Nat
      BY <3>3, Counts
    <3> QED BY <3>1, <3>2, <3>4
  <2> QED BY <2>1, <2>2
<1>5. k <= Cardinality(UpTo(seq, v))
  BY <1>3
<1>6. v \in {seq[i] : i \in DOMAIN seq}
  <2> SUFFICES ASSUME \A i \in 1..n : seq[i] # v PROVE FALSE
    OBVIOUS
  <2>1. Below(seq, v) = UpTo(seq, v)
    BY <1>3 DEF Below, UpTo
  <2>2. UpTo(seq, v) \subseteq 1..n
    BY DEF UpTo
  <2>3. Cardinality(UpTo(seq, v)) \in Nat
    BY <2>2, Counts
  <2> QED BY <1>4, <1>5, <2>1, <2>3
<1> QED BY <1>4, <1>5, <1>6 DEF IsRanked, Below, UpTo

LEMMA SortedIs ==
  ASSUME NEW n \in Nat, NEW seq \in [1..n -> Nat], NEW k \in 1..n
  PROVE  /\ Sorted(seq)[k] \in Nat /\ IsRanked(seq, k, Sorted(seq)[k])
         /\ \E i \in 1..n : Sorted(seq)[k] = seq[i]
<1>1. Sorted(seq)[k] = CHOOSE v \in {seq[i] : i \in DOMAIN seq} : IsRanked(seq, k, v)
  BY DEF Sorted
<1>2. Sorted(seq)[k] \in {seq[i] : i \in DOMAIN seq} /\ IsRanked(seq, k, Sorted(seq)[k])
  BY <1>1, RankedIs, Zenon
<1> QED BY <1>2

\* A sequence that is nowhere less than another has no smaller k-th value:
\* where it is at most its k-th value, the other is.
LEMMA SortedGrows ==
  ASSUME NEW n \in Nat, NEW a \in [1..n -> Nat], NEW b \in [1..n -> Nat],
         \A i \in 1..n : a[i] <= b[i], NEW k \in 1..n
  PROVE  Sorted(a)[k] <= Sorted(b)[k]
<1>1. PICK v \in Nat : v = Sorted(a)[k] /\ IsRanked(a, k, v)
  BY SortedIs
<1>2. PICK w \in Nat : w = Sorted(b)[k] /\ IsRanked(b, k, w)
  BY SortedIs
<1>3. ASSUME w < v PROVE FALSE
  <2>1. UpTo(b, w) \subseteq Below(a, v)
    BY <1>3 DEF UpTo, Below
  <2>2. Below(a, v) \subseteq 1..n /\ UpTo(b, w) \subseteq 1..n
    BY DEF UpTo, Below
  <2>3. /\ IsFiniteSet(Below(a, v)) /\ Cardinality(Below(a, v)) \in Nat
        /\ Cardinality(UpTo(b, w)) \in Nat
    BY <2>2, Counts
  <2>4. Cardinality(UpTo(b, w)) <= Cardinality(Below(a, v))
    BY <2>1, <2>3, FS_Subset, Zenon
  <2>5. Cardinality(Below(a, v)) < k /\ k <= Cardinality(UpTo(b, w))
    BY <1>1, <1>2 DEF IsRanked, Below, UpTo
  <2> QED BY <2>3, <2>4, <2>5
<1> QED BY <1>1, <1>2, <1>3

\* Fewer places are below the k-th value than are at most the j-th, if k <= j.
LEMMA SortedInOrder ==
  ASSUME NEW n \in Nat, NEW a \in [1..n -> Nat], NEW k \in 1..n, NEW j \in 1..n, k <= j
  PROVE  Sorted(a)[k] <= Sorted(a)[j]
<1>1. PICK v \in Nat : v = Sorted(a)[k] /\ IsRanked(a, k, v)
  BY SortedIs
<1>2. PICK w \in Nat : w = Sorted(a)[j] /\ IsRanked(a, j, w)
  BY SortedIs
<1>3. ASSUME w < v PROVE FALSE
  <2>1. UpTo(a, w) \subseteq Below(a, v)
    BY <1>3 DEF UpTo, Below
  <2>2. Below(a, v) \subseteq 1..n /\ UpTo(a, w) \subseteq 1..n
    BY DEF UpTo, Below
  <2>3. /\ IsFiniteSet(Below(a, v)) /\ Cardinality(Below(a, v)) \in Nat
        /\ Cardinality(UpTo(a, w)) \in Nat
    BY <2>2, Counts
  <2>4. Cardinality(UpTo(a, w)) <= Cardinality(Below(a, v))
    BY <2>1, <2>3, FS_Subset, Zenon
  <2>5. Cardinality(Below(a, v)) < k /\ j <= Cardinality(UpTo(a, w))
    BY <1>1, <1>2 DEF IsRanked, Below, UpTo
  <2> QED BY <2>3, <2>4, <2>5
<1> QED BY <1>1, <1>2, <1>3

-----------------------------------------------------------------------------
(***************************************************************************)
(* The score grows with the motion.                                        *)
(***************************************************************************)

LEMMA SumGrows ==
  ASSUME NEW n \in Nat, NEW a \in [1..n -> Nat], NEW b \in [1..n -> Nat],
         \A i \in 1..n : a[i] <= b[i]
  PROVE  Sum(a) \in Nat /\ Sum(b) \in Nat /\ Sum(a) <= Sum(b)
<1>1. a \in [1..n -> Int] /\ b \in [1..n -> Int]
  OBVIOUS
<1>2. a \in Seq(Int) /\ b \in Seq(Int) /\ Len(a) = n /\ Len(b) = n
  BY <1>1, FunctionIsSeq
<1>3. PICK ga, gb : Partial(a, ga) /\ Partial(b, gb)
  BY <1>2, PartialSums
<1> DEFINE S == {j \in 0..n : ga[j] \in Nat /\ gb[j] \in Nat /\ ga[j] <= gb[j]}
<1>4. 0 \in S
  BY <1>2, <1>3 DEF Partial
<1>5. ASSUME NEW j \in 1..n, j - 1 \in S PROVE j \in S
  <2>1. j \in 0..n /\ a[j] \in Nat /\ b[j] \in Nat /\ a[j] <= b[j]
    OBVIOUS
  <2>2. ga[j] = ga[j - 1] + a[j] /\ gb[j] = gb[j - 1] + b[j]
    BY <1>2, <1>3 DEF Partial
  <2> QED BY <1>5, <2>1, <2>2
<1>6. 0..n \subseteq S
  <2> HIDE DEF S
  <2> QED BY <1>4, <1>5, Induction
<1>7. n \in S
  BY <1>6
<1> QED BY <1>2, <1>3, <1>7 DEF Partial

LEMMA RmsGrows ==
  ASSUME NEW n \in Nat \ {0}, NEW a \in [1..n -> Nat], NEW b \in [1..n -> Nat],
         \A i \in 1..n : a[i] <= b[i]
  PROVE  Rms(a) \in Nat /\ Rms(b) \in Nat /\ Rms(a) <= Rms(b)
<1> DEFINE x == [i \in 1..n |-> a[i] * a[i]]
           y == [i \in 1..n |-> b[i] * b[i]]
<1>1. \A k \in Nat : k * k \in Nat
  BY SquareIsNat
<1>2. x \in [1..n -> Nat] /\ y \in [1..n -> Nat]
  BY <1>1
<1>3. \A i \in 1..n : x[i] <= y[i]
  <2> SUFFICES ASSUME NEW i \in 1..n PROVE a[i] * a[i] <= b[i] * b[i]
    OBVIOUS
  <2>1. a[i] \in Nat /\ b[i] \in Nat /\ a[i] <= b[i]
    OBVIOUS
  <2> QED BY <2>1, ProductGrows
<1>4. /\ Rms(a) = Sqrt((10000 * Sum(x)) \div n)
      /\ Rms(b) = Sqrt((10000 * Sum(y)) \div n)
  <2>1. ASSUME NEW s, NEW z, Len(s) = n, z = [i \in DOMAIN s |-> s[i] * s[i]]
        PROVE  Rms(s) = Sqrt((10000 * Sum(z)) \div n)
    BY <2>1 DEF Rms
  <2>2. Len(a) = n /\ DOMAIN a = 1..n /\ Len(b) = n /\ DOMAIN b = 1..n
    OBVIOUS
  <2>3. x = [i \in DOMAIN a |-> a[i] * a[i]] /\ y = [i \in DOMAIN b |-> b[i] * b[i]]
    BY <2>2, Zenon
  <2> HIDE DEF x, y
  <2> QED BY <2>1, <2>2, <2>3
<1> HIDE DEF x, y
<1>5. Sum(x) \in Nat /\ Sum(y) \in Nat /\ Sum(x) <= Sum(y)
  BY <1>2, <1>3, SumGrows
<1>6. PICK p \in Nat, q \in Nat : p = 10000 * Sum(x) /\ q = 10000 * Sum(y) /\ p <= q
  BY <1>5
<1>7. p \div n \in Nat /\ q \div n \in Nat /\ p \div n <= q \div n
  BY <1>6, QuotientGrows
<1>8. Sqrt(p \div n) \in Nat /\ Sqrt(q \div n) \in Nat /\ Sqrt(p \div n) <= Sqrt(q \div n)
  BY <1>7, SqrtIs, SqrtGrows
<1> QED BY <1>4, <1>6, <1>8

\* The percentiles of six energies.
LEMMA PercentilesAre ==
  ASSUME NEW s \in [1..6 -> Nat]
  PROVE  /\ Percentile(s, 50) = Sorted(s)[3] * 50 + Sorted(s)[4] * 50
         /\ Percentile(s, 90) = Sorted(s)[5] * 50 + Sorted(s)[6] * 50
         /\ Percentile(s, 95) = Sorted(s)[5] * 25 + Sorted(s)[6] * 75
         /\ Median(s) = 50 * (Sorted(s)[3] + Sorted(s)[4])
<1>1. Len(s) = 6
  OBVIOUS
<1>2. /\ 50 * (6 - 1) = 250 /\ 250 \div 100 = 2 /\ 250 % 100 = 50
      /\ 2 + 1 = 3 /\ 2 + 2 = 4 /\ 100 - 50 = 50 /\ 50 # 0
  OBVIOUS
<1>3. /\ 90 * (6 - 1) = 450 /\ 450 \div 100 = 4 /\ 450 % 100 = 50
      /\ 4 + 1 = 5 /\ 4 + 2 = 6
  OBVIOUS
<1>4. /\ 95 * (6 - 1) = 475 /\ 475 \div 100 = 4 /\ 475 % 100 = 75
      /\ 100 - 75 = 25 /\ 75 # 0
  OBVIOUS
<1>5. Percentile(s, 50) = Sorted(s)[3] * 50 + Sorted(s)[4] * 50
  BY <1>1, <1>2 DEF Percentile
<1>6. Percentile(s, 90) = Sorted(s)[5] * 50 + Sorted(s)[6] * 50
  BY <1>1, <1>2, <1>3 DEF Percentile
<1>7. Percentile(s, 95) = Sorted(s)[5] * 25 + Sorted(s)[6] * 75
  BY <1>1, <1>3, <1>4 DEF Percentile
<1>8. 6 \div 2 = 3 /\ 6 % 2 = 0 /\ 3 + 1 = 4
  OBVIOUS
<1>9. Median(s) = 50 * (Sorted(s)[3] + Sorted(s)[4])
  BY <1>1, <1>8 DEF Median, TwiceMedian
<1> QED BY <1>5, <1>6, <1>7, <1>9

LEMMA PercentileGrows ==
  ASSUME NEW a \in [1..6 -> Nat], NEW b \in [1..6 -> Nat], \A i \in 1..6 : a[i] <= b[i]
  PROVE  /\ Percentile(a, 95) \in Nat /\ Percentile(b, 95) \in Nat
         /\ Percentile(a, 95) <= Percentile(b, 95)
<1>1. /\ Percentile(a, 95) = Sorted(a)[5] * 25 + Sorted(a)[6] * 75
      /\ Percentile(b, 95) = Sorted(b)[5] * 25 + Sorted(b)[6] * 75
  BY PercentilesAre
<1>2. /\ Sorted(a)[5] \in Nat /\ Sorted(b)[5] \in Nat /\ Sorted(a)[5] <= Sorted(b)[5]
      /\ Sorted(a)[6] \in Nat /\ Sorted(b)[6] \in Nat /\ Sorted(a)[6] <= Sorted(b)[6]
  <2>1. 6 \in Nat /\ 5 \in 1..6 /\ 6 \in 1..6
    OBVIOUS
  <2> QED BY <2>1, SortedIs, SortedGrows
<1>3. PICK p \in Nat, q \in Nat, r \in Nat, s \in Nat :
        /\ p = Sorted(a)[5] /\ q = Sorted(b)[5] /\ r = Sorted(a)[6] /\ s = Sorted(b)[6]
        /\ p <= q /\ r <= s
  BY <1>2
<1>4. p * 25 + r * 75 \in Nat /\ q * 25 + s * 75 \in Nat /\ p * 25 + r * 75 <= q * 25 + s * 75
  BY <1>3
<1> QED BY <1>1, <1>3, <1>4

LEMMA PercentilesAreInOrder ==
  ASSUME NEW s \in [1..6 -> Nat]
  PROVE  PercentilesInOrder(s)
<1>1. 6 \in Nat \ {0} /\ 3 \in 1..6 /\ 4 \in 1..6 /\ 5 \in 1..6 /\ 6 \in 1..6
  OBVIOUS
<1>2. PICK p \in Nat, q \in Nat, r \in Nat, t \in Nat :
        p = Sorted(s)[3] /\ q = Sorted(s)[4] /\ r = Sorted(s)[5] /\ t = Sorted(s)[6]
  BY <1>1, SortedIs
<1>3. p <= q /\ q <= r /\ r <= t
  <2>1. 3 <= 4 /\ 4 <= 5 /\ 5 <= 6
    OBVIOUS
  <2> QED BY <1>1, <1>2, <2>1, SortedInOrder
<1>4. PICK m \in Nat : m = Greatest(s) /\ t <= m
  <2>1. Greatest(s) \in Nat /\ \A i \in 1..6 : s[i] <= Greatest(s)
    BY <1>1, GreatestIs
  <2>2. \E i \in 1..6 : Sorted(s)[6] = s[i]
    <3>1. 6 \in Nat /\ 6 \in 1..6
      OBVIOUS
    <3> QED BY <3>1, SortedIs, Zenon
  <2>3. \E i \in 1..6 : t = s[i]
    BY <1>2, <2>2, Zenon
  <2> QED BY <2>1, <2>3
<1>5. /\ Percentile(s, 50) = p * 50 + q * 50 /\ Median(s) = 50 * (p + q)
      /\ Percentile(s, 90) = r * 50 + t * 50 /\ Percentile(s, 95) = r * 25 + t * 75
  BY <1>2, PercentilesAre
<1>6. /\ p * 50 + q * 50 = 50 * (p + q) /\ p * 50 + q * 50 <= r * 50 + t * 50
      /\ r * 50 + t * 50 <= r * 25 + t * 75 /\ r * 25 + t * 75 <= 100 * m
  BY <1>3, <1>4
<1> QED BY <1>4, <1>5, <1>6 DEF PercentilesInOrder

LEMMA Clamp01Grows ==
  ASSUME NEW a \in Nat, NEW b \in Nat, a <= b, NEW scale \in Nat \ {0}
  PROVE  /\ Clamp01(a, scale) \in Nat /\ Clamp01(b, scale) \in Nat
         /\ Clamp01(a, scale) <= Clamp01(b, scale)
<1>1. PICK p \in Nat, q \in Nat : p = 1000 * a /\ q = 1000 * b /\ p <= q
  OBVIOUS
<1>2. p \div scale \in Nat /\ q \div scale \in Nat /\ p \div scale <= q \div scale
  BY <1>1, QuotientGrows
<1>3. ~(a > scale) => p \div scale <= 1000
  <2> SUFFICES ASSUME a <= scale PROVE p \div scale <= 1000
    OBVIOUS
  <2>1. 1000 * scale \in Nat /\ p <= 1000 * scale
    BY <1>1
  <2>2. p \div scale <= (1000 * scale) \div scale
    BY <2>1, QuotientGrows
  <2>3. 1000 \in Int /\ 0 \in 0..(scale - 1) /\ 1000 * scale + 0 = 1000 * scale
    OBVIOUS
  <2>4. (1000 * scale + 0) \div scale = 1000
    BY <2>3, DivMod
  <2> QED BY <2>2, <2>3, <2>4
<1>4. /\ Clamp01(a, scale) = IF a > scale THEN 1000 ELSE p \div scale
      /\ Clamp01(b, scale) = IF b > scale THEN 1000 ELSE q \div scale
  BY <1>1 DEF Clamp01
<1>5. PICK x \in Nat, y \in Nat : x = p \div scale /\ y = q \div scale
  BY <1>2
<1> QED BY <1>2, <1>3, <1>4, <1>5

\* observe_channel_change: the score of more motion.
LEMMA ScoreGrows ==
  ASSUME NEW a, NEW b, a.rms \in Nat, b.rms \in Nat, a.rms <= b.rms,
         a.p95 \in Nat, b.p95 \in Nat, a.p95 <= b.p95
  PROVE  /\ Score(a, Profile) \in Nat /\ Score(b, Profile) \in Nat
         /\ Score(a, Profile) <= Score(b, Profile)
<1>1. Profile.rmsScale \in Nat \ {0} /\ Profile.p95Scale \in Nat \ {0}
  <2>1. Profile.rmsScale \in Nat /\ Profile.p95Scale \in Nat
    BY ProfileConfig DEF ChannelChangeProfile
  <2>2. Profile.rmsScale > 0 /\ Profile.p95Scale > 0
    BY ProfileConfig DEF ValidObservationProfile
  <2> QED BY <2>1, <2>2
<1>2. PICK p \in Nat, q \in Nat :
        p = Clamp01(a.rms, Profile.rmsScale) /\ q = Clamp01(b.rms, Profile.rmsScale) /\ p <= q
  BY <1>1, Clamp01Grows
<1>3. PICK r \in Nat, s \in Nat :
        r = Clamp01(a.p95, Profile.p95Scale) /\ s = Clamp01(b.p95, Profile.p95Scale) /\ r <= s
  BY <1>1, Clamp01Grows
<1>4. p + r \in Nat /\ q + s \in Nat /\ p + r <= q + s
  BY <1>2, <1>3
<1>5. (p + r) \div 2 \in Nat /\ (q + s) \div 2 \in Nat /\ (p + r) \div 2 <= (q + s) \div 2
  BY <1>4, QuotientGrows
<1>6. Score(a, Profile) = (p + r) \div 2 /\ Score(b, Profile) = (q + s) \div 2
  BY <1>2, <1>3, Zenon DEF Score
<1> QED BY <1>5, <1>6

-----------------------------------------------------------------------------
(***************************************************************************)
(* A window stays until it is observed: what is known of it at any time is *)
(* what its intervals and energies give.                                   *)
(***************************************************************************)

EnergiesAreNat == motion \in [Antennas -> Seq(Nat)]

WindowIsHeld ==
  /\ result # None => Full /\ result = ProcessWindow(intervals, motion)
  /\ vector # None => result # None /\ vector = ExtractFeatures(result)

ScoreInv == EnergiesAreNat /\ WindowIsHeld

LEMMA ScoreInvInit == Init => ScoreInv
<1> SUFFICES ASSUME Init PROVE ScoreInv
  OBVIOUS
<1>1. motion = [l \in Antennas |-> <<>>] /\ <<>> \in Seq(Nat)
  BY DEF Init
<1>2. EnergiesAreNat
  BY <1>1 DEF EnergiesAreNat
<1>3. result = None /\ vector = None
  BY DEF Init
<1> QED BY <1>2, <1>3 DEF ScoreInv, WindowIsHeld

LEMMA ScoreInvNext == WindowInv /\ ScoreInv /\ [Next]_chain => ScoreInv'
<1> SUFFICES ASSUME WindowInv, ScoreInv, [Next]_chain PROVE ScoreInv'
  OBVIOUS
<1>1. EnergiesAreNat /\ WindowIsHeld /\ FrameIsBeforeWindow
  BY DEF ScoreInv, WindowInv
<1>2. ASSUME motion' = motion PROVE EnergiesAreNat'
  BY <1>1, <1>2 DEF EnergiesAreNat
<1>3. ASSUME motion' = [l \in Antennas |-> <<>>] PROVE EnergiesAreNat'
  <2>1. <<>> \in Seq(Nat)
    OBVIOUS
  <2> QED BY <1>3, <2>1 DEF EnergiesAreNat, Antennas
<1>4. ASSUME UNCHANGED <<intervals, motion, result, vector>> PROVE ScoreInv'
  BY <1>1, <1>2, <1>4 DEF ScoreInv, WindowIsHeld, Full
<1>5. CASE UNCHANGED chain
  BY <1>4, <1>5 DEF chain
<1>6. CASE Capture \/ Refuse \/ BeginCalibration \/ ApplyStage \/ StageFails \/ Observe
  BY <1>4, <1>6 DEF Capture, Refuse, BeginCalibration, ApplyStage, StageFails, Observe
<1>7. CASE Join
  <2>1. /\ buffer # None /\ UNCHANGED <<result, vector>>
        /\ \/ UNCHANGED <<intervals, motion>>
           \/ \E e \in [Antennas -> 0..MaxEnergy] :
                motion' = [l \in Antennas |-> Append(motion[l], e[l])]
    BY <1>7 DEF Join
  <2>2. ~Full
    BY <1>1, <2>1 DEF FrameIsBeforeWindow
  <2>3. WindowIsHeld'
    BY <1>1, <2>1, <2>2 DEF WindowIsHeld
  <2>4. ASSUME NEW e \in [Antennas -> 0..MaxEnergy],
               motion' = [l \in Antennas |-> Append(motion[l], e[l])]
        PROVE  EnergiesAreNat'
    <3>1. ASSUME NEW l \in Antennas PROVE Append(motion[l], e[l]) \in Seq(Nat)
      <4>1. motion[l] \in Seq(Nat) /\ e[l] \in Nat
        BY <1>1, FrameConfig DEF EnergiesAreNat
      <4> QED BY <4>1
    <3> QED BY <2>4, <3>1 DEF EnergiesAreNat, Antennas
  <2>5. EnergiesAreNat'
    BY <1>2, <2>1, <2>4
  <2> QED BY <2>3, <2>5 DEF ScoreInv
<1>8. CASE WindowFails
  <2>1. result = None /\ motion' = [l \in Antennas |-> <<>>] /\ UNCHANGED <<result, vector>>
    BY <1>8 DEF WindowFails
  <2> QED BY <1>1, <1>3, <2>1 DEF ScoreInv, WindowIsHeld
<1>9. CASE Analyse
  <2>1. /\ Full /\ result = None /\ result' = ProcessWindow(intervals, motion)
        /\ UNCHANGED <<intervals, motion, vector>>
    BY <1>9 DEF Analyse
  <2>2. vector = None
    BY <1>1, <2>1 DEF WindowIsHeld
  <2> QED BY <1>2, <2>1, <2>2 DEF ScoreInv, WindowIsHeld, Full
<1>10. CASE Extract
  <2>1. /\ result # None /\ vector' = ExtractFeatures(result)
        /\ UNCHANGED <<intervals, motion, result>>
    BY <1>10 DEF Extract
  <2> QED BY <1>1, <1>2, <2>1 DEF ScoreInv, WindowIsHeld, Full
<1>11. CASE Proceed
  <2>1. result' = None /\ vector' = None /\ motion' = [l \in Antennas |-> <<>>]
    BY <1>11 DEF Proceed
  <2> QED BY <1>3, <2>1 DEF ScoreInv, WindowIsHeld
<1> QED BY <1>5, <1>6, <1>7, <1>8, <1>9, <1>10, <1>11 DEF Next

\* One energy of one link is raised.
LEMMA AggregateGrows ==
  ASSUME NEW m \in [Antennas -> [1..Transitions -> Nat]],
         NEW l \in Antennas, NEW t \in 1..Transitions,
         NEW more, more = [m EXCEPT ![l][t] = @ + 1]
  PROVE  /\ Aggregate(m) \in [1..6 -> Nat] /\ Aggregate(more) \in [1..6 -> Nat]
         /\ \A u \in 1..6 : Aggregate(m)[u] <= Aggregate(more)[u]
<1>1. Transitions = 6 /\ Receivers \in Nat /\ Antennas = 1..Receivers /\ 1 \in Antennas
  BY FrameConfig DEF Transitions, Antennas
<1>2. /\ more \in [Antennas -> [1..6 -> Nat]]
      /\ \A k \in Antennas, u \in 1..6 : m[k][u] \in Nat /\ more[k][u] \in Nat /\ m[k][u] <= more[k][u]
  <2>1. m[l] \in [1..6 -> Nat] /\ m[l][t] \in Nat
    BY <1>1
  <2> DEFINE raised == [u \in 1..6 |-> IF u = t THEN m[l][t] + 1 ELSE m[l][u]]
  <2>2. raised \in [1..6 -> Nat] /\ [m[l] EXCEPT ![t] = m[l][t] + 1] = raised
    <3>1. \A f \in [1..6 -> Nat], c \in Nat :
            /\ [u \in 1..6 |-> IF u = t THEN c ELSE f[u]] \in [1..6 -> Nat]
            /\ [f EXCEPT ![t] = c] = [u \in 1..6 |-> IF u = t THEN c ELSE f[u]]
      OBVIOUS
    <3>2. m[l] \in [1..6 -> Nat] /\ m[l][t] + 1 \in Nat
      BY <2>1
    <3> QED BY <3>1, <3>2, Zenon
  <2>3. PICK x \in [1..6 -> Nat] : x = raised
    BY <2>2, Zenon
  <2>4. more = [m EXCEPT ![l] = x]
    <3> HIDE DEF raised
    <3> QED BY <2>2, <2>3, Zenon
  <2>5. more \in [Antennas -> [1..6 -> Nat]]
    BY <1>1, <2>4
  <2>6. \A a \in Nat : a + 1 \in Nat /\ a <= a + 1 /\ a <= a
    OBVIOUS
  <2>7. ASSUME NEW k \in Antennas, NEW u \in 1..6
        PROVE  m[k][u] \in Nat /\ more[k][u] \in Nat /\ m[k][u] <= more[k][u]
    <3> HIDE DEF raised
    <3>1. m[k][u] \in Nat
      BY <1>1
    <3>2. CASE k # l
      <4>1. more[k] = m[k]
        BY <2>4, <3>2, Zenon
      <4> QED BY <2>6, <3>1, <4>1, Zenon
    <3>3. CASE k = l
      <4>1. more[k] = x /\ m[k][u] = m[l][u]
        BY <2>4, <3>3, Zenon
      <4>2. x[u] = IF u = t THEN m[l][t] + 1 ELSE m[l][u]
        BY <2>3, Zenon DEF raised
      <4>3. CASE u = t
        <5>1. more[k][u] = m[k][u] + 1
          BY <4>1, <4>2, <4>3, Zenon
        <5> QED BY <2>6, <3>1, <5>1, Zenon
      <4>4. CASE u # t
        <5>1. more[k][u] = m[k][u]
          BY <4>1, <4>2, <4>4, Zenon
        <5> QED BY <2>6, <3>1, <5>1, Zenon
      <4> QED BY <4>3, <4>4
    <3> QED BY <3>2, <3>3
  <2> QED BY <2>5, <2>7
<1> DEFINE Column(x, u) == [k \in Antennas |-> x[k][u]]
<1>3. ASSUME NEW x \in [Antennas -> [1..6 -> Nat]]
      PROVE  Aggregate(x) = [u \in 1..6 |-> Sum(Column(x, u))]
  <2>1. DOMAIN x = Antennas /\ DOMAIN x[1] = 1..6
    BY <1>1
  <2> QED BY <2>1, Zenon DEF Aggregate
<1>4. ASSUME NEW u \in 1..6
      PROVE  /\ Sum(Column(m, u)) \in Nat /\ Sum(Column(more, u)) \in Nat
             /\ Sum(Column(m, u)) <= Sum(Column(more, u))
  <2>1. /\ Column(m, u) \in [1..Receivers -> Nat] /\ Column(more, u) \in [1..Receivers -> Nat]
        /\ \A k \in 1..Receivers : Column(m, u)[k] <= Column(more, u)[k]
    BY <1>1, <1>2
  <2> HIDE DEF Column
  <2> QED BY <1>1, <2>1, SumGrows
<1> HIDE DEF Column
<1>5. m \in [Antennas -> [1..6 -> Nat]]
  BY <1>1
<1>6. /\ Aggregate(m) = [u \in 1..6 |-> Sum(Column(m, u))]
      /\ Aggregate(more) = [u \in 1..6 |-> Sum(Column(more, u))]
  BY <1>2, <1>3, <1>5
<1> QED BY <1>4, <1>6

\* The motion energy of a window that is described.
LEMMA HeldMotion ==
  ASSUME WindowInv, ScoreInv, vector # None
  PROVE  /\ motion \in [Antennas -> [1..Transitions -> Nat]]
         /\ vector.values.rms = Rms(Aggregate(motion))
         /\ vector.values.p95 = Percentile(Aggregate(motion), 95)
<1>1. /\ WindowIsAligned /\ motion \in [Antennas -> Seq(Nat)] /\ Full
      /\ result = ProcessWindow(intervals, motion) /\ vector = ExtractFeatures(result)
  BY DEF WindowInv, ScoreInv, EnergiesAreNat, WindowIsHeld
<1>2. ASSUME NEW l \in Antennas PROVE motion[l] \in [1..Transitions -> Nat]
  <2>1. motion[l] \in Seq(Nat) /\ Len(motion[l]) = Transitions /\ Transitions \in Nat
    BY <1>1 DEF WindowIsAligned, Full, Transitions
  <2>2. \A n \in Nat : \A s \in Seq(Nat) : Len(s) = n => s \in [1..n -> Nat]
    OBVIOUS
  <2> QED BY <2>1, <2>2, Zenon
<1>3. motion = [l \in Antennas |-> motion[l]]
  BY <1>1
<1>4. motion \in [Antennas -> [1..Transitions -> Nat]]
  BY <1>2, <1>3, Zenon
<1>5. result.aggregate = Aggregate(motion)
  BY <1>1 DEF ProcessWindow
<1>6. vector.values = ComputeValues(result.aggregate, result.spectrum, result)
  BY <1>1 DEF ExtractFeatures
<1>7. vector.values.rms = Rms(result.aggregate) /\ vector.values.p95 = Percentile(result.aggregate, 95)
  BY <1>6 DEF ComputeValues
<1> QED BY <1>4, <1>5, <1>7

LEMMA MoreScores ==
  ASSUME WindowInv, ScoreInv, vector # None, NEW l \in Antennas, NEW t \in 1..Transitions,
         NEW more, more = Aggregate([motion EXCEPT ![l][t] = @ + 1])
  PROVE  Score([rms |-> Rms(more), p95 |-> Percentile(more, 95)], Profile)
           >= Score(vector.values, Profile)
<1>1. PICK m \in [Antennas -> [1..Transitions -> Nat]] :
        /\ m = motion /\ vector.values.rms = Rms(Aggregate(m))
        /\ vector.values.p95 = Percentile(Aggregate(m), 95)
  BY HeldMotion
<1>2. /\ Aggregate(m) \in [1..6 -> Nat] /\ more \in [1..6 -> Nat]
      /\ \A u \in 1..6 : Aggregate(m)[u] <= more[u]
  BY <1>1, AggregateGrows
<1>3. 6 \in Nat \ {0}
  OBVIOUS
<1>4. /\ Rms(Aggregate(m)) \in Nat /\ Rms(more) \in Nat /\ Rms(Aggregate(m)) <= Rms(more)
  BY <1>2, <1>3, RmsGrows
<1>5. /\ Percentile(Aggregate(m), 95) \in Nat /\ Percentile(more, 95) \in Nat
      /\ Percentile(Aggregate(m), 95) <= Percentile(more, 95)
  BY <1>2, PercentileGrows
<1> DEFINE after == [rms |-> Rms(more), p95 |-> Percentile(more, 95)]
<1>6. after.rms = Rms(more) /\ after.p95 = Percentile(more, 95)
  OBVIOUS
<1> HIDE DEF after
<1>7. /\ Score(vector.values, Profile) \in Nat /\ Score(after, Profile) \in Nat
      /\ Score(vector.values, Profile) <= Score(after, Profile)
  BY <1>1, <1>4, <1>5, <1>6, ScoreGrows
<1> QED BY <1>7 DEF after

LEMMA AggregateIsOrdered ==
  ASSUME WindowInv, ScoreInv, vector # None
  PROVE  PercentilesInOrder(Aggregate(motion))
<1>1. motion \in [Antennas -> [1..Transitions -> Nat]]
  BY HeldMotion
<1>2. 1 \in Antennas /\ 1 \in 1..Transitions
  BY FrameConfig DEF Antennas, Transitions
<1>3. Aggregate(motion) \in [1..6 -> Nat]
  BY <1>1, <1>2, AggregateGrows
<1> QED BY <1>3, PercentilesAreInOrder

\* observe_channel_change with rms and percentile: for every number of links,
\* every profile and every motion of six energies, the percentiles are in order
\* and raising one energy does not lower the score.
THEOREM MotionRaisesScore == Spec => []EvidenceFollowsMotion
<1>1. WindowInv /\ ScoreInv => EvidenceFollowsMotion
  <2> SUFFICES ASSUME WindowInv, ScoreInv, vector # None
               PROVE  EvidenceFollowsMotion
    BY DEF EvidenceFollowsMotion
  <2> QED BY MoreScores, AggregateIsOrdered, Zenon DEF EvidenceFollowsMotion
<1>2. Init => WindowInv /\ ScoreInv
  BY WindowInvInit, ScoreInvInit
<1>3. WindowInv /\ ScoreInv /\ [Next]_chain => (WindowInv /\ ScoreInv)'
  BY WindowInvNext, ScoreInvNext
<1> QED BY <1>1, <1>2, <1>3, PTL DEF Spec

-----------------------------------------------------------------------------
(***************************************************************************)
(* The jitter of a window of which few intervals are irregular.            *)
(***************************************************************************)

OffTick(s, tick) == {i \in DOMAIN s : s[i] # tick}

\* With fewer of them than half, the middle values are ticks: what is less than
\* a tick, and what is more, does not reach the middle.
LEMMA MiddleIsTick ==
  ASSUME NEW n \in Nat, NEW s \in [1..n -> Nat], NEW tick \in Nat, NEW k \in 1..n,
         Cardinality(OffTick(s, tick)) < k, k <= n - Cardinality(OffTick(s, tick))
  PROVE  Sorted(s)[k] = tick
<1> DEFINE off == OffTick(s, tick)
           regular == (1..n) \ off
<1>1. off \subseteq 1..n /\ regular \subseteq 1..n /\ \A i \in regular : s[i] = tick
  BY DEF OffTick
<1>2. IsFiniteSet(off) /\ Cardinality(off) \in Nat /\ IsFiniteSet(1..n) /\ Cardinality(1..n) = n
  BY <1>1, Counts, CardinalityOfInterval
<1>3. Cardinality(regular) = n - Cardinality(off)
  <2> HIDE DEF off
  <2>1. Cardinality((1..n) \ off) = Cardinality(1..n) - Cardinality((1..n) \cap off)
    BY <1>2, FS_Difference, Zenon
  <2>2. (1..n) \cap off = off
    BY <1>1
  <2> QED BY <1>2, <2>1, <2>2
<1>4. PICK v \in Nat : v = Sorted(s)[k] /\ IsRanked(s, k, v)
  BY SortedIs
<1>5. Cardinality(Below(s, v)) < k /\ k <= Cardinality(UpTo(s, v))
  BY <1>4 DEF IsRanked, Below, UpTo
<1>6. Below(s, v) \subseteq 1..n /\ UpTo(s, v) \subseteq 1..n
  BY DEF Below, UpTo
<1>7. /\ IsFiniteSet(Below(s, v)) /\ Cardinality(Below(s, v)) \in Nat
      /\ IsFiniteSet(UpTo(s, v)) /\ Cardinality(UpTo(s, v)) \in Nat
  BY <1>6, Counts
<1>8. ASSUME v > tick PROVE FALSE
  <2>1. regular \subseteq Below(s, v)
    BY <1>1, <1>8 DEF Below
  <2>2. Cardinality(regular) <= Cardinality(Below(s, v))
    <3> HIDE DEF regular
    <3> QED BY <1>7, <2>1, FS_Subset, Zenon
  <2> HIDE DEF regular
  <2> QED BY <1>2, <1>3, <1>5, <1>7, <2>2
<1>9. ASSUME v < tick PROVE FALSE
  <2>1. UpTo(s, v) \subseteq off
    BY <1>6, <1>9 DEF OffTick, UpTo
  <2>2. Cardinality(UpTo(s, v)) <= Cardinality(off)
    <3> HIDE DEF off
    <3> QED BY <1>2, <2>1, FS_Subset, Zenon
  <2> QED BY <1>2, <1>5, <1>7, <2>2
<1> QED BY <1>4, <1>8, <1>9

\* The largest distance from the median is at least that of each interval.
LEMMA JitterTells ==
  ASSUME NEW s \in [1..6 -> Nat], NEW tick \in Nat, 2 * Cardinality(OffTick(s, tick)) < 6,
         NEW percent \in Nat, ~JitterExceeds(AnalyzeSampling(s), percent), NEW i \in 1..6
  PROVE  100 * Distance(s[i], tick) <= percent * tick
<1>1. TwiceMedian(s) = 2 * tick
  <2>1. Len(s) = 6 /\ 6 \div 2 = 3 /\ 6 % 2 = 0 /\ 3 + 1 = 4
    OBVIOUS
  <2>2. OffTick(s, tick) \subseteq 1..6 /\ 6 \in Nat /\ 3 \in 1..6 /\ 4 \in 1..6
    BY DEF OffTick
  <2>3. PICK c \in Nat : c = Cardinality(OffTick(s, tick))
    BY <2>2, Counts
  <2>4. c < 3 /\ 3 <= 6 - c /\ c < 4 /\ 4 <= 6 - c
    BY <2>3
  <2>5. Sorted(s)[3] = tick /\ Sorted(s)[4] = tick
    BY <2>2, <2>3, <2>4, MiddleIsTick
  <2>6. TwiceMedian(s) = Sorted(s)[3] + Sorted(s)[4]
    BY <2>1 DEF TwiceMedian
  <2> QED BY <2>5, <2>6
<1> DEFINE far == [j \in DOMAIN s |-> Distance(2 * s[j], 2 * tick)]
<1>2. /\ AnalyzeSampling(s).median = 2 * tick
      /\ AnalyzeSampling(s).deviation = Greatest(far)
  BY <1>1 DEF AnalyzeSampling
<1>3. far \in [1..6 -> Nat] /\ far[i] = 2 * Distance(s[i], tick) /\ Distance(s[i], tick) \in Nat
  BY DEF Distance
<1> HIDE DEF far
<1>4. Greatest(far) \in Nat /\ far[i] <= Greatest(far)
  <2>1. 6 \in Nat \ {0}
    OBVIOUS
  <2> QED BY <1>3, <2>1, GreatestIs
<1>5. ~(100 * Greatest(far) > percent * (2 * tick))
  BY <1>2 DEF JitterExceeds
<1>6. PICK d \in Nat, x \in Nat : d = Distance(s[i], tick) /\ x = percent * tick
  BY <1>3
<1>7. percent * (2 * tick) = 2 * x
  BY <1>6
<1> QED BY <1>3, <1>4, <1>5, <1>6, <1>7

-----------------------------------------------------------------------------
(***************************************************************************)
(* What a window tells of the frames that were lost.                       *)
(***************************************************************************)

SinceIsKnown == raw # None /\ last # None => since \in Known \cup {Tick}

IntervalsAreKnown == \A i \in 1..Len(intervals) : intervals[i] \in Known \cup {Tick}

ObservationIsHeld ==
  observation # None => vector # None /\ observation = ObserveChannelChange(vector, Profile)

LossInv == SinceIsKnown /\ IntervalsAreKnown /\ ObservationIsHeld

LEMMA LossInvInit == Init => LossInv
<1> SUFFICES ASSUME Init PROVE LossInv
  OBVIOUS
<1>1. raw = None /\ intervals = <<>> /\ observation = None
  BY DEF Init
<1>2. Len(intervals) = 0
  BY <1>1
<1> QED BY <1>1, <1>2 DEF LossInv, SinceIsKnown, IntervalsAreKnown, ObservationIsHeld

LEMMA JoinKeepsIntervals ==
  ASSUME WindowIsAligned, SinceIsKnown, IntervalsAreKnown, raw # None, Join
  PROVE  IntervalsAreKnown'
<1>1. CASE last = None
  BY <1>1 DEF Join, IntervalsAreKnown
<1>2. CASE last # None
  <2>1. intervals' = Append(intervals, since)
    BY <1>2 DEF Join
  <2>2. PICK k \in Nat : k = Len(intervals)
    BY LengthIs
  <2>3. /\ Len(intervals') = k + 1 /\ intervals'[k + 1] = since
        /\ \A i \in 1..k : intervals'[i] = intervals[i]
    <3>1. intervals \in Seq(Int) /\ since \in Int
      BY DEF WindowIsAligned
    <3>2. \A s \in Seq(Int), e \in Int :
            /\ Len(Append(s, e)) = Len(s) + 1 /\ Append(s, e)[Len(s) + 1] = e
            /\ \A i \in 1..Len(s) : Append(s, e)[i] = s[i]
      OBVIOUS
    <3> QED BY <2>1, <2>2, <3>1, <3>2
  <2>4. since \in Known \cup {Tick}
    BY <1>2 DEF SinceIsKnown
  <2>5. ASSUME NEW i \in 1..(k + 1) PROVE intervals'[i] \in Known \cup {Tick}
    <3>1. CASE i = k + 1
      BY <2>3, <2>4, <3>1
    <3>2. CASE i # k + 1
      <4>1. i \in 1..k
        BY <3>2
      <4> QED BY <2>2, <2>3, <4>1 DEF IntervalsAreKnown
    <3> QED BY <3>1, <3>2
  <2> QED BY <2>3, <2>5 DEF IntervalsAreKnown
<1> QED BY <1>1, <1>2

LEMMA LossInvNext == WindowInv /\ ScoreInv /\ LossInv /\ [Next]_chain => LossInv'
<1> SUFFICES ASSUME WindowInv, ScoreInv, LossInv, [Next]_chain
             PROVE  LossInv'
  OBVIOUS
<1>1. FrameIsBeforeWindow /\ WindowIsAligned /\ WindowIsHeld
  BY DEF WindowInv, ScoreInv
<1>2. SinceIsKnown /\ IntervalsAreKnown /\ ObservationIsHeld
  BY DEF LossInv
<1>3. ASSUME UNCHANGED <<raw, since, last, intervals, vector, observation>> PROVE LossInv'
  BY <1>2, <1>3 DEF LossInv, SinceIsKnown, IntervalsAreKnown, ObservationIsHeld
<1>4. CASE UNCHANGED chain
  BY <1>3, <1>4 DEF chain
<1>5. CASE Capture
  <2>1. ~Full /\ UNCHANGED <<last, intervals, vector, observation>>
    BY <1>5 DEF Capture
  <2>2. last # None => since' \in NextIntervals \/ since' = Tick
    BY <1>5, Zenon DEF Capture
  <2>3. NextIntervals \subseteq Known
    BY <1>1, <2>1, NextIntervalsAreKnown
  <2>4. SinceIsKnown'
    BY <2>1, <2>2, <2>3 DEF SinceIsKnown
  <2> QED BY <1>2, <2>1, <2>4 DEF LossInv, IntervalsAreKnown, ObservationIsHeld
<1>6. CASE Refuse \/ StageFails
  <2>1. raw' = None /\ UNCHANGED <<intervals, vector, observation>>
    BY <1>6 DEF Refuse, StageFails
  <2> QED BY <1>2, <2>1 DEF LossInv, SinceIsKnown, IntervalsAreKnown, ObservationIsHeld
<1>7. CASE BeginCalibration \/ ApplyStage \/ Analyse
  BY <1>3, <1>7 DEF BeginCalibration, ApplyStage, Analyse
<1>8. CASE Join
  <2>1. buffer # None /\ raw' = None /\ UNCHANGED <<vector, observation>>
    BY <1>8 DEF Join
  <2>2. raw # None
    BY <1>1, <2>1 DEF FrameIsBeforeWindow
  <2>3. IntervalsAreKnown'
    BY <1>1, <1>2, <1>8, <2>2, JoinKeepsIntervals
  <2> QED BY <1>2, <2>1, <2>3 DEF LossInv, SinceIsKnown, ObservationIsHeld
<1>9. CASE WindowFails
  <2>1. result = None /\ intervals' = <<>> /\ UNCHANGED <<raw, since, last, vector, observation>>
    BY <1>9 DEF WindowFails
  <2>2. Len(intervals') = 0
    BY <2>1
  <2> QED BY <1>2, <2>1, <2>2 DEF LossInv, SinceIsKnown, IntervalsAreKnown, ObservationIsHeld
<1>10. CASE Extract
  <2>1. vector = None /\ UNCHANGED <<raw, since, last, intervals, observation>>
    BY <1>10 DEF Extract
  <2>2. observation' = None
    BY <1>2, <2>1 DEF ObservationIsHeld
  <2> QED BY <1>2, <2>1, <2>2 DEF LossInv, SinceIsKnown, IntervalsAreKnown, ObservationIsHeld
<1>11. CASE Observe
  <2>1. /\ vector # None /\ observation' = ObserveChannelChange(vector, Profile)
        /\ UNCHANGED <<raw, since, last, intervals, vector>>
    BY <1>11 DEF Observe
  <2> QED BY <1>2, <2>1 DEF LossInv, SinceIsKnown, IntervalsAreKnown, ObservationIsHeld
<1>12. CASE Proceed
  <2>1. intervals' = <<>> /\ observation' = None /\ UNCHANGED <<raw, since, last>>
    BY <1>12 DEF Proceed
  <2>2. Len(intervals') = 0
    BY <2>1
  <2> QED BY <1>2, <2>1, <2>2 DEF LossInv, SinceIsKnown, IntervalsAreKnown, ObservationIsHeld
<1> QED BY <1>4, <1>5, <1>6, <1>7, <1>8, <1>9, <1>10, <1>11, <1>12 DEF Next

\* An observation that is sure of its window is of one without jitter.
LEMMA SureMeansSteady ==
  ASSUME NEW v, NEW profile, ObserveChannelChange(v, profile).state # "indeterminate"
  PROVE  ~JitterExceeds(v.values.sampling, profile.maximumJitter)
<1> SUFFICES ASSUME JitterExceeds(v.values.sampling, profile.maximumJitter) PROVE FALSE
  OBVIOUS
<1> DEFINE margin == ThresholdMargin(Score(v.values, profile), profile.stable, profile.high)
           reasons == IndeterminateReasons(v, margin, profile)
<1>1. "jitter" \in reasons
  BY DEF IndeterminateReasons
<1>2. ObserveChannelChange(v, profile).state
        = StateOf(reasons, Score(v.values, profile), profile)
  BY DEF ObserveChannelChange
<1> HIDE DEF reasons
<1>3. StateOf(reasons, Score(v.values, profile), profile) = "indeterminate"
  BY <1>1, Zenon DEF StateOf
<1> QED BY <1>2, <1>3

LEMMA SureMeansTicks ==
  ASSUME Resolvable, WindowInv, ScoreInv, LossInv,
         observation # None, observation.state # "indeterminate",
         2 * Cardinality(Irregular) < Len(intervals)
  PROVE  Irregular = {}
<1>1. /\ WindowIsAligned /\ Full /\ IntervalsAreKnown
      /\ observation = ObserveChannelChange(vector, Profile) /\ vector = ExtractFeatures(result)
      /\ result = ProcessWindow(intervals, motion)
  BY DEF WindowInv, ScoreInv, LossInv, WindowIsHeld, ObservationIsHeld
<1>2. vector.values.sampling = AnalyzeSampling(intervals)
  <2>1. result.sampling = AnalyzeSampling(intervals)
    BY <1>1 DEF ProcessWindow
  <2>2. vector.values = ComputeValues(result.aggregate, result.spectrum, result)
    BY <1>1 DEF ExtractFeatures
  <2> QED BY <2>1, <2>2 DEF ComputeValues
<1>3. ~JitterExceeds(AnalyzeSampling(intervals), Profile.maximumJitter)
  BY <1>1, <1>2, SureMeansSteady
<1>4. PICK tick \in Nat, percent \in Nat : tick = Tick /\ percent = Profile.maximumJitter
  BY FrameConfig, ProfileConfig DEF ChannelChangeProfile
<1>5. /\ intervals \in Seq(Int) /\ Len(intervals) = 6 /\ DOMAIN intervals = 1..6
      /\ \A i \in 1..6 : intervals[i] \in Known \cup {Tick}
  BY <1>1 DEF WindowIsAligned, Full, IntervalsAreKnown, Transitions
<1>6. Known \subseteq Nat
  BY KnownIsNat
<1>7. PICK s \in [1..6 -> Nat] : s = intervals
  <2>1. \A i \in 1..6 : intervals[i] \in Nat
    BY <1>4, <1>5, <1>6
  <2>2. \A t \in Seq(Int) : Len(t) = 6 => t = [i \in 1..6 |-> t[i]]
    OBVIOUS
  <2>3. intervals = [i \in 1..6 |-> intervals[i]]
    BY <1>5, <2>2
  <2> QED BY <2>1, <2>3, Zenon
<1>8. Irregular = OffTick(s, tick) /\ 2 * Cardinality(OffTick(s, tick)) < 6
  <2>1. Irregular = OffTick(s, tick)
    BY <1>4, <1>7, Zenon DEF Irregular, OffTick
  <2> QED BY <1>5, <2>1
<1>9. ASSUME NEW i \in 1..6 PROVE intervals[i] = Tick
  <2>1. 100 * Distance(s[i], tick) <= percent * tick
    BY <1>3, <1>4, <1>7, <1>8, JitterTells
  <2>2. intervals[i] = Tick \/ 100 * Distance(s[i], tick) > percent * tick
    <3>1. CASE intervals[i] \in Known
      <4>1. PICK timing \in Timings, j \in 1..Transitions : intervals[i] = timing[j]
        BY <3>1 DEF Known
      <4>2. timing[j] = Tick \/ 100 * Distance(timing[j], Tick) > Profile.maximumJitter * Tick
        BY Zenon DEF Resolvable
      <4> QED BY <1>4, <1>7, <4>1, <4>2, Zenon
    <3>2. CASE intervals[i] = Tick
      BY <3>2
    <3>3. intervals[i] \in Known \cup {Tick}
      BY <1>5
    <3> QED BY <3>1, <3>2, <3>3
  <2>3. 100 * Distance(s[i], tick) \in Int /\ percent * tick \in Int
    <3>1. s[i] \in Nat
      OBVIOUS
    <3>2. Distance(s[i], tick) \in Int
      BY <3>1 DEF Distance
    <3> QED BY <3>2
  <2>4. \A d, p \in Int : ~(d <= p /\ d > p)
    OBVIOUS
  <2> QED BY <2>1, <2>2, <2>3, <2>4, Zenon
<1> QED BY <1>5, <1>9 DEF Irregular

\* analyze_sampling with observe_channel_change: for every timing that the
\* profile tells from ticks, however many frames are lost or late, a window of
\* which fewer than half of the intervals are irregular is not observed as a
\* state, whatever the DSP service tolerates.
THEOREM LossIsIndeterminate ==
  ASSUME Resolvable
  PROVE  Spec => []FewLossesAreNotMotion
<1>1. WindowInv /\ ScoreInv /\ LossInv => FewLossesAreNotMotion
  BY SureMeansTicks, Zenon DEF FewLossesAreNotMotion
<1>2. Init => WindowInv /\ ScoreInv /\ LossInv
  BY WindowInvInit, ScoreInvInit, LossInvInit
<1>3. WindowInv /\ ScoreInv /\ LossInv /\ [Next]_chain => (WindowInv /\ ScoreInv /\ LossInv)'
  BY WindowInvNext, ScoreInvNext, LossInvNext
<1> QED BY <1>1, <1>2, <1>3, PTL DEF Spec

-----------------------------------------------------------------------------
(***************************************************************************)
(* The profile of the observations.                                        *)
(***************************************************************************)
App == INSTANCE Configuration

\* ChannelChangeV1Config::to_profile.
ProfileOf(t) ==
  [rmsScale |-> t.rmsScale.value, p95Scale |-> t.p95Scale.value, stable |-> t.stable.value,
   high |-> t.high.value, minimumMargin |-> t.minimumMargin.value,
   maximumJitter |-> t.maximumJitter.value]

\* AppConfig::validate: the thresholds of an enabled perception service are in
\* order and its scales divide nothing by zero, as ProfileConfig assumes.
THEOREM ObservationIsConfigured ==
  ASSUME NEW app \in App!AppConfig, NEW compiled, App!Accepted(app, compiled),
         app.perception.enabled
  PROVE  /\ ProfileOf(app.perception.thresholds) \in ChannelChangeProfile
         /\ ValidObservationProfile(ProfileOf(app.perception.thresholds))
<1> DEFINE t == app.perception.thresholds
<1>1. App!ThresholdsValid(t) /\ t \in App!ThresholdConfig
  BY DEF App!Accepted, App!PerceptionValid, App!AppConfig, App!PerceptionConfig
<1> HIDE DEF t
<1>2. /\ t.rmsScale.value \in Int /\ t.p95Scale.value \in Int /\ t.stable.value \in Int
      /\ t.high.value \in Int /\ t.minimumMargin.value \in Int /\ t.maximumJitter.value \in Int
  BY <1>1 DEF App!ThresholdConfig, App!Number
<1>3. /\ t.rmsScale.value > 0 /\ t.p95Scale.value > 0 /\ t.stable.value >= 0
      /\ t.stable.value < t.high.value /\ t.minimumMargin.value >= 0 /\ t.maximumJitter.value >= 0
  BY <1>1 DEF App!ThresholdsValid, App!Positive, App!NotNegative
<1> QED BY <1>2, <1>3 DEF ProfileOf, ChannelChangeProfile, ValidObservationProfile, t
=============================================================================
