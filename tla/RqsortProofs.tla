--------------------------- MODULE RqsortProofs ---------------------------
(***************************************************************************)
(* rqsort leaves its array in order and loses no element: proved for every *)
(* array whose keys are numbers, through every fragment, whichever of the  *)
(* three sorts a fragment ends with.                                       *)
(***************************************************************************)
EXTENDS Rqsort, SequenceTheorems, FiniteSetTheorems, WellFoundedInduction, TLAPS

(* Induction over numbers, as the least counterexample.                    *)
LEMMA LeastOne ==
    ASSUME NEW S, S \subseteq Nat, S # {}
    PROVE  \E x \in S : \A y \in S : x <= y
<1>1. IsWellFoundedOn(OpToRel(<, Nat), Nat)
    BY NatLessThanWellFounded
<1>2. PICK x \in S : \A y \in S : ~(<< y, x >> \in OpToRel(<, Nat))
    BY <1>1, WFMin
<1>3. \A y \in S : ~(y < x)
    BY <1>2 DEF OpToRel
<1> QED
    BY <1>3

(* A set of numbers that holds 0, and n when it holds n - 1.               *)
LEMMA UpTo ==
    ASSUME NEW n \in Nat, NEW P, 0 \in P,
           \A k \in 1 .. n : k - 1 \in P => k \in P
    PROVE  \A k \in 0 .. n : k \in P
<1> SUFFICES ASSUME NEW m \in 0 .. n, m \notin P PROVE FALSE
    OBVIOUS
<1> DEFINE S == { k \in 0 .. n : k \notin P }
<1>1. PICK k \in S : \A y \in S : k <= y
    <2>1. S \subseteq Nat /\ m \in S
        OBVIOUS
    <2> HIDE DEF S
    <2> QED
        BY <2>1, LeastOne
<1>2. k \in 0 .. n /\ k # 0
    OBVIOUS
<1>3. k - 1 \in 0 .. n /\ ~(k <= k - 1) /\ k \in 1 .. n
    BY <1>2
<1>4. k - 1 \notin S
    BY <1>1, <1>3
<1>5. k - 1 \in P
    BY <1>3, <1>4
<1> QED
    BY <1>1, <1>3, <1>5

(* A loop: a recursive function over the number of turns exists if every   *)
(* turn leads from one state to one.  step is the turn, as a function.     *)
IsLoop(f, base, n, step) ==
    \A k \in 0 .. n : f[k] = IF k = 0 THEN base ELSE step[<< k, f[k - 1] >>]

LEMMA LoopExists ==
    ASSUME NEW S, NEW base \in S, NEW n \in Nat, NEW step \in [(1 .. n) \X S -> S]
    PROVE  \E f \in [0 .. n -> S] : IsLoop(f, base, n, step)
<1> DEFINE P == { m \in 0 .. n :
              \E f \in [0 .. m -> S] :
                 \A k \in 0 .. m : f[k] = IF k = 0 THEN base ELSE step[<< k, f[k - 1] >>] }
<1>1. 0 \in P
    <2>1. /\ [k \in 0 .. 0 |-> base] \in [0 .. 0 -> S]
          /\ \A k \in 0 .. 0 : k = 0 /\ [i \in 0 .. 0 |-> base][k] = base
        OBVIOUS
    <2>2. 0 \in 0 .. n
        OBVIOUS
    <2> QED
        BY <2>1, <2>2
<1>2. ASSUME NEW m \in 1 .. n, m - 1 \in P PROVE m \in P
    <2>1. PICK f \in [0 .. m - 1 -> S] :
             \A k \in 0 .. m - 1 : f[k] = IF k = 0 THEN base ELSE step[<< k, f[k - 1] >>]
        BY <1>2
    <2> DEFINE g == [k \in 0 .. m |-> IF k = m THEN step[<< m, f[m - 1] >>] ELSE f[k]]
    <2>2. m - 1 \in 0 .. m - 1 /\ f[m - 1] \in S /\ step[<< m, f[m - 1] >>] \in S
        OBVIOUS
    <2>3. g \in [0 .. m -> S]
        BY <2>2
    <2>4. ASSUME NEW k \in 0 .. m
          PROVE  g[k] = IF k = 0 THEN base ELSE step[<< k, g[k - 1] >>]
        <3>1. CASE k = m
            <4>1. m - 1 \in 0 .. m /\ m - 1 # m /\ m # 0 /\ m \in 0 .. m
                OBVIOUS
            <4>2. g[m - 1] = f[m - 1] /\ g[m] = step[<< m, f[m - 1] >>]
                BY <4>1
            <4> HIDE DEF g
            <4> QED
                BY <3>1, <4>1, <4>2
        <3>2. CASE k = 0
            <4>1. 0 \in 0 .. m - 1 /\ 0 \in 0 .. m /\ 0 # m
                OBVIOUS
            <4>2. f[0] = base /\ g[0] = f[0]
                BY <2>1, <4>1
            <4> HIDE DEF g
            <4> QED
                BY <3>2, <4>2
        <3>3. CASE k # m /\ k # 0
            <4>1. k \in 0 .. m - 1 /\ k - 1 \in 0 .. m /\ k - 1 # m
                BY <3>3
            <4> QED
                BY <2>1, <3>3, <4>1
        <3> QED
            BY <3>1, <3>2, <3>3
    <2>5. m \in 0 .. n
        OBVIOUS
    <2> HIDE DEF g
    <2> QED
        BY <2>3, <2>4, <2>5
<1> HIDE DEF P
<1>3. n \in P
    <2>1. \A k \in 0 .. n : k \in P
        BY <1>1, <1>2, UpTo
    <2> QED
        BY <2>1
<1> QED
    BY <1>3 DEF P, IsLoop

-----------------------------------------------------------------------------
(* The elements of a row of n are moved around, those at lo to hi among    *)
(* themselves and the others not at all.                                   *)
Perms(lo, hi, n) ==
    { p \in [1 .. n -> 1 .. n] :
        /\ \A i, j \in 1 .. n : p[i] = p[j] => i = j
        /\ \A k \in 1 .. n : \E i \in 1 .. n : p[i] = k
        /\ \A i \in 1 .. n : IF i \in lo .. hi THEN p[i] \in lo .. hi ELSE p[i] = i }

Arranged(a, lo, hi, n) == { [i \in 1 .. n |-> a[p[i]]] : p \in Perms(lo, hi, n) }

IsRow(a, n) == a = [i \in 1 .. n |-> a[i]]

LEMMA ArrangedBy ==
    ASSUME NEW a, NEW n \in Nat, NEW lo, NEW hi, NEW p \in Perms(lo, hi, n), NEW b,
           IsRow(b, n), \A i \in 1 .. n : b[i] = a[p[i]]
    PROVE  b \in Arranged(a, lo, hi, n)
BY DEF Arranged, IsRow

LEMMA ArrangedWhich ==
    ASSUME NEW a, NEW n \in Nat, NEW lo, NEW hi, NEW b \in Arranged(a, lo, hi, n)
    PROVE  /\ IsRow(b, n)
           /\ \E p \in Perms(lo, hi, n) : \A i \in 1 .. n : b[i] = a[p[i]]
<1>1. PICK p \in Perms(lo, hi, n) : b = [i \in 1 .. n |-> a[p[i]]]
    BY DEF Arranged
<1>2. \A i \in 1 .. n : b[i] = a[p[i]]
    BY <1>1
<1>3. IsRow(b, n)
    BY <1>1 DEF IsRow
<1> QED
    BY <1>2, <1>3

LEMMA SelfArranged ==
    ASSUME NEW n \in Nat, NEW a, IsRow(a, n), NEW lo, NEW hi
    PROVE  a \in Arranged(a, lo, hi, n)
<1> DEFINE p == [i \in 1 .. n |-> i]
<1>1. p \in [1 .. n -> 1 .. n] /\ \A i \in 1 .. n : p[i] = i
    OBVIOUS
<1> HIDE DEF p
<1>2. p \in Perms(lo, hi, n)
    BY <1>1 DEF Perms
<1>3. \A i \in 1 .. n : a[i] = a[p[i]]
    BY <1>1
<1> QED
    BY <1>2, <1>3, ArrangedBy

LEMMA ArrangedAgain ==
    ASSUME NEW n \in Nat, NEW a, NEW lo, NEW hi,
           NEW b \in Arranged(a, lo, hi, n), NEW c \in Arranged(b, lo, hi, n)
    PROVE  c \in Arranged(a, lo, hi, n)
<1>1. PICK p \in Perms(lo, hi, n) : \A i \in 1 .. n : b[i] = a[p[i]]
    BY ArrangedWhich
<1>2. PICK q \in Perms(lo, hi, n) : \A i \in 1 .. n : c[i] = b[q[i]]
    BY ArrangedWhich
<1>3. IsRow(c, n)
    BY ArrangedWhich
<1>4. p \in [1 .. n -> 1 .. n] /\ q \in [1 .. n -> 1 .. n]
    BY DEF Perms
<1> DEFINE r == [i \in 1 .. n |-> p[q[i]]]
<1>5. r \in [1 .. n -> 1 .. n] /\ \A i \in 1 .. n : r[i] = p[q[i]]
    BY <1>4
<1>6. \A i \in 1 .. n : c[i] = a[r[i]]
    BY <1>1, <1>2, <1>4, <1>5
<1> HIDE DEF r
<1>11. /\ \A i, j \in 1 .. n : p[i] = p[j] => i = j
       /\ \A i, j \in 1 .. n : q[i] = q[j] => i = j
       /\ \A i \in 1 .. n : IF i \in lo .. hi THEN p[i] \in lo .. hi ELSE p[i] = i
       /\ \A i \in 1 .. n : IF i \in lo .. hi THEN q[i] \in lo .. hi ELSE q[i] = i
    BY DEF Perms
<1>7. \A i, j \in 1 .. n : r[i] = r[j] => i = j
    <2> SUFFICES ASSUME NEW i \in 1 .. n, NEW j \in 1 .. n, r[i] = r[j] PROVE i = j
        OBVIOUS
    <2>1. p[q[i]] = p[q[j]] /\ q[i] \in 1 .. n /\ q[j] \in 1 .. n
        BY <1>4, <1>5
    <2> QED
        BY <1>11, <2>1
<1>8. \A k \in 1 .. n : \E i \in 1 .. n : r[i] = k
    <2> SUFFICES ASSUME NEW k \in 1 .. n PROVE \E i \in 1 .. n : r[i] = k
        OBVIOUS
    <2>1. PICK j \in 1 .. n : p[j] = k
        BY DEF Perms
    <2>2. PICK i \in 1 .. n : q[i] = j
        BY DEF Perms
    <2> QED
        BY <2>1, <2>2, <1>5
<1>9. \A i \in 1 .. n : IF i \in lo .. hi THEN r[i] \in lo .. hi ELSE r[i] = i
    <2> SUFFICES ASSUME NEW i \in 1 .. n
                 PROVE  IF i \in lo .. hi THEN r[i] \in lo .. hi ELSE r[i] = i
        OBVIOUS
    <2>1. q[i] \in 1 .. n /\ r[i] = p[q[i]]
        BY <1>4, <1>5
    <2>2. CASE i \in lo .. hi
        BY <1>11, <2>1, <2>2
    <2>3. CASE i \notin lo .. hi
        BY <1>11, <2>1, <2>3
    <2> QED
        BY <2>2, <2>3
<1>10. r \in Perms(lo, hi, n)
    BY <1>5, <1>7, <1>8, <1>9 DEF Perms
<1> QED
    BY <1>3, <1>6, <1>10, ArrangedBy

LEMMA ArrangedWider ==
    ASSUME NEW n \in Nat, NEW a, NEW lo \in Int, NEW hi \in Int, NEW b \in Arranged(a, lo, hi, n),
           NEW low \in Int, NEW high \in Int, low <= lo, hi <= high
    PROVE  b \in Arranged(a, low, high, n)
<1>1. PICK p \in Perms(lo, hi, n) : \A i \in 1 .. n : b[i] = a[p[i]]
    BY ArrangedWhich
<1>2. IsRow(b, n)
    BY ArrangedWhich
<1>3. lo .. hi \subseteq low .. high
    OBVIOUS
<1>4. p \in Perms(low, high, n)
    BY <1>3 DEF Perms
<1> QED
    BY <1>1, <1>2, <1>4, ArrangedBy

(* Where the elements come from.                                           *)
LEMMA ArrangedFrom ==
    ASSUME NEW n \in Nat, NEW a, NEW lo, NEW hi, NEW b \in Arranged(a, lo, hi, n)
    PROVE  /\ \A i \in 1 .. n \ lo .. hi : b[i] = a[i]
           /\ \A i \in 1 .. n : i \in lo .. hi => \E j \in lo .. hi : j \in 1 .. n /\ b[i] = a[j]
           /\ \A i \in 1 .. n : \E j \in 1 .. n : b[i] = a[j]
<1>1. PICK p \in Perms(lo, hi, n) : \A i \in 1 .. n : b[i] = a[p[i]]
    BY ArrangedWhich
<1> QED
    BY <1>1 DEF Perms

Within(b, a, lo, hi, n) ==
    /\ \A i \in 1 .. n \ lo .. hi : b[i] = a[i]
    /\ \A i \in 1 .. n : i \in lo .. hi => \E j \in lo .. hi : j \in 1 .. n /\ b[i] = a[j]

LEMMA ArrangedSays ==
    ASSUME NEW n \in Nat, NEW a, NEW lo, NEW hi, NEW b \in Arranged(a, lo, hi, n)
    PROVE  Within(b, a, lo, hi, n)
<1>1. PICK p \in Perms(lo, hi, n) : \A i \in 1 .. n : b[i] = a[p[i]]
    BY ArrangedWhich
<1> QED
    BY <1>1 DEF Perms, Within

-----------------------------------------------------------------------------
LEMMA SwapRow ==
    ASSUME NEW n \in Nat, NEW a, IsRow(a, n), NEW i \in 1 .. n, NEW j \in 1 .. n
    PROVE  /\ IsRow(Swap(a, i, j), n)
           /\ Swap(a, i, j)[i] = a[j] /\ Swap(a, i, j)[j] = a[i]
           /\ \A k \in 1 .. n \ { i, j } : Swap(a, i, j)[k] = a[k]
<1>1. DOMAIN a = 1 .. n
    BY DEF IsRow
<1>2. DOMAIN Swap(a, i, j) = 1 .. n
    BY <1>1 DEF Swap
<1>3. \A k \in 1 .. n : Swap(a, i, j)[k] = IF k = j THEN a[i] ELSE IF k = i THEN a[j] ELSE a[k]
    BY <1>1 DEF Swap, IsRow
<1>4. Swap(a, i, j) = [k \in 1 .. n |-> Swap(a, i, j)[k]]
    BY <1>2 DEF Swap
<1> QED
    BY <1>3, <1>4 DEF IsRow

LEMMA SwapArranged ==
    ASSUME NEW n \in Nat, NEW a, IsRow(a, n), NEW lo \in Int, NEW hi \in Int,
           NEW i \in 1 .. n, NEW j \in 1 .. n, i \in lo .. hi, j \in lo .. hi
    PROVE  Swap(a, i, j) \in Arranged(a, lo, hi, n)
<1> DEFINE p == [k \in 1 .. n |-> IF k = j THEN i ELSE IF k = i THEN j ELSE k]
<1>1. /\ p \in [1 .. n -> 1 .. n]
      /\ \A k \in 1 .. n : p[k] = IF k = j THEN i ELSE IF k = i THEN j ELSE k
    OBVIOUS
<1> HIDE DEF p
<1>2. \A k \in 1 .. n : p[p[k]] = k
    BY <1>1
<1>3. \A k, l \in 1 .. n : p[k] = p[l] => k = l
    BY <1>2
<1>4. \A k \in 1 .. n : \E l \in 1 .. n : p[l] = k
    BY <1>1, <1>2
<1>5. \A k \in 1 .. n : IF k \in lo .. hi THEN p[k] \in lo .. hi ELSE p[k] = k
    BY <1>1
<1>6. p \in Perms(lo, hi, n)
    BY <1>1, <1>3, <1>4, <1>5 DEF Perms
<1>7. \A k \in 1 .. n : Swap(a, i, j)[k] = a[p[k]]
    <2> SUFFICES ASSUME NEW k \in 1 .. n PROVE Swap(a, i, j)[k] = a[p[k]]
        OBVIOUS
    <2>0. PICK b : b = Swap(a, i, j)
        OBVIOUS
    <2>4. b[i] = a[j] /\ b[j] = a[i] /\ \A l \in 1 .. n \ { i, j } : b[l] = a[l]
        BY <2>0, SwapRow
    <2>1. CASE k = j
        BY <1>1, <2>0, <2>1, <2>4
    <2>2. CASE k = i /\ k # j
        BY <1>1, <2>0, <2>2, <2>4
    <2>3. CASE k \notin { i, j }
        BY <1>1, <2>0, <2>3, <2>4
    <2> QED
        BY <2>1, <2>2, <2>3
<1> QED
    BY <1>6, <1>7, SwapRow, ArrangedBy

LEMMA SwapBlockArranged ==
    ASSUME NEW n \in Nat, NEW a, IsRow(a, n), NEW lo \in 1 .. n, NEW hi \in Int, hi <= n,
           NEW i \in Int, NEW j \in Int, NEW m \in Nat,
           lo <= i, i + m <= j, j + m - 1 <= hi
    PROVE  SwapBlock(a, i, j, m) \in Arranged(a, lo, hi, n)
<1> DEFINE p == [k \in 1 .. n |-> IF k \in i .. i + m - 1 THEN k - i + j
                                  ELSE IF k \in j .. j + m - 1 THEN k - j + i ELSE k]
<1>1. /\ p \in [1 .. n -> 1 .. n]
      /\ \A k \in 1 .. n : p[k] = IF k \in i .. i + m - 1 THEN k - i + j
                                  ELSE IF k \in j .. j + m - 1 THEN k - j + i ELSE k
    OBVIOUS
<1> HIDE DEF p
<1>2. \A k \in 1 .. n : p[p[k]] = k
    BY <1>1
<1>3. \A k, l \in 1 .. n : p[k] = p[l] => k = l
    BY <1>2
<1>4. \A k \in 1 .. n : \E l \in 1 .. n : p[l] = k
    BY <1>1, <1>2
<1>5. \A k \in 1 .. n : IF k \in lo .. hi THEN p[k] \in lo .. hi ELSE p[k] = k
    <2> SUFFICES ASSUME NEW k \in 1 .. n
                 PROVE  IF k \in lo .. hi THEN p[k] \in lo .. hi ELSE p[k] = k
        OBVIOUS
    <2>1. CASE k \in i .. i + m - 1
        BY <1>1, <2>1
    <2>2. CASE k \in j .. j + m - 1
        BY <1>1, <2>2
    <2>3. CASE k \notin i .. i + m - 1 /\ k \notin j .. j + m - 1
        BY <1>1, <2>3
    <2> QED
        BY <2>1, <2>2, <2>3
<1>6. p \in Perms(lo, hi, n)
    BY <1>1, <1>3, <1>4, <1>5 DEF Perms
<1>7. IsRow(SwapBlock(a, i, j, m), n)
    BY DEF IsRow, SwapBlock
<1>8. ASSUME NEW k \in 1 .. n PROVE SwapBlock(a, i, j, m)[k] = a[p[k]]
    <2>1. DOMAIN a = 1 .. n
        BY DEF IsRow
    <2>2. CASE k \in i .. i + m - 1
        BY <1>1, <2>1, <2>2 DEF SwapBlock
    <2>3. CASE k \in j .. j + m - 1
        <3>1. k \notin i .. i + m - 1
            BY <2>3
        <3> QED
            BY <1>1, <2>1, <2>3, <3>1 DEF SwapBlock
    <2>4. CASE k \notin i .. i + m - 1 /\ k \notin j .. j + m - 1
        BY <1>1, <2>1, <2>4 DEF SwapBlock
    <2> QED
        BY <2>2, <2>3, <2>4
<1> QED
    BY <1>6, <1>7, <1>8, ArrangedBy

-----------------------------------------------------------------------------
(* The largest and the smallest number of a set.                           *)
LEMMA LargestOne ==
    ASSUME NEW hi \in Nat, NEW S, S \subseteq 0 .. hi, S # {}
    PROVE  Max(S) \in S /\ \A y \in S : y <= Max(S)
<1> DEFINE T == { hi - x : x \in S }
<1>1. T \subseteq Nat /\ T # {}
    <2>1. \A x \in S : hi - x \in Nat
        OBVIOUS
    <2>2. PICK x \in S : TRUE
        OBVIOUS
    <2>3. hi - x \in T
        OBVIOUS
    <2> QED
        BY <2>1, <2>3
<1>2. PICK t \in T : \A u \in T : t <= u
    <2> HIDE DEF T
    <2> QED
        BY <1>1, LeastOne
<1>3. PICK x \in S : t = hi - x
    OBVIOUS
<1>4. \A y \in S : hi - y \in T /\ y \in Int
    OBVIOUS
<1>5. \A y \in S : x >= y
    BY <1>2, <1>3, <1>4
<1>6. \E m \in S : \A y \in S : m >= y
    BY <1>5
<1>7. /\ (CHOOSE m \in S : \A y \in S : m >= y) \in S
      /\ \A y \in S : (CHOOSE m \in S : \A z \in S : m >= z) >= y
    BY <1>6
<1> QED
    BY <1>7, <1>4 DEF Max

LEMMA SmallestOne ==
    ASSUME NEW S, S \subseteq Nat, S # {}
    PROVE  Min(S) \in S /\ \A y \in S : Min(S) <= y
<1>1. \E m \in S : \A y \in S : m <= y
    BY LeastOne
<1>2. /\ (CHOOSE m \in S : \A y \in S : m <= y) \in S
      /\ \A y \in S : (CHOOSE m \in S : \A z \in S : m <= z) <= y
    BY <1>1
<1> QED
    BY <1>2 DEF Min

-----------------------------------------------------------------------------
(* The insertion sort.                                                     *)
SinkPlaces(a, base, i) == { p \in base .. i : p > base => Key(a[p - 1]) <= Key(a[i]) }
SinkPlace(a, base, i) == Max(SinkPlaces(a, base, i))

LEMMA SinkPlaceFits ==
    ASSUME NEW n \in Nat, NEW a, NEW base \in 1 .. n, NEW i \in base .. n
    PROVE  /\ SinkPlace(a, base, i) \in SinkPlaces(a, base, i)
           /\ \A q \in SinkPlaces(a, base, i) : q <= SinkPlace(a, base, i)
<1>1. base \in SinkPlaces(a, base, i)
    BY DEF SinkPlaces
<1>2. SinkPlaces(a, base, i) \subseteq 0 .. i /\ i \in Nat
    BY DEF SinkPlaces
<1>3. /\ Max(SinkPlaces(a, base, i)) \in SinkPlaces(a, base, i)
      /\ \A y \in SinkPlaces(a, base, i) : y <= Max(SinkPlaces(a, base, i))
    BY <1>1, <1>2, LargestOne
<1> QED
    BY <1>3 DEF SinkPlace

SunkTo(b, a, s, base, i, n) ==
    /\ IsRow(b, n)
    /\ s \in base .. i
    /\ b[s] = a[i]
    /\ \A k \in s + 1 .. i : b[k] = a[k - 1]
    /\ \A k \in 1 .. n : k \notin s .. i => b[k] = a[k]

LEMMA SinkSays ==
    ASSUME NEW n \in Nat, NEW a, IsRow(a, n), NEW base \in 1 .. n, NEW i \in base .. n
    PROVE  SunkTo(Sink(a, base, i), a, SinkPlace(a, base, i), base, i, n)
<1>1. PICK s : s = SinkPlace(a, base, i)
    OBVIOUS
<1>2. s \in base .. i
    BY <1>1, SinkPlaceFits DEF SinkPlaces
<1>3. Sink(a, base, i) = [k \in DOMAIN a |-> CASE k = s -> a[i]
                              [] k \in s + 1 .. i -> a[k - 1]
                              [] OTHER -> a[k]]
    BY <1>1 DEF Sink, SinkPlace, SinkPlaces
<1>4. DOMAIN a = 1 .. n
    BY DEF IsRow
<1>5. PICK b : b = Sink(a, base, i)
    OBVIOUS
<1>6. b = [k \in 1 .. n |-> CASE k = s -> a[i]
                              [] k \in s + 1 .. i -> a[k - 1]
                              [] OTHER -> a[k]]
    BY <1>3, <1>4, <1>5
<1>7. IsRow(b, n) /\ b[s] = a[i]
    BY <1>2, <1>6 DEF IsRow
<1>8. \A k \in s + 1 .. i : b[k] = a[k - 1]
    <2> SUFFICES ASSUME NEW k \in s + 1 .. i PROVE b[k] = a[k - 1]
        OBVIOUS
    <2>1. k \in 1 .. n /\ k # s
        BY <1>2
    <2> QED
        BY <1>6, <2>1
<1>9. \A k \in 1 .. n : k \notin s .. i => b[k] = a[k]
    <2> SUFFICES ASSUME NEW k \in 1 .. n, k \notin s .. i PROVE b[k] = a[k]
        OBVIOUS
    <2>1. k # s /\ k \notin s + 1 .. i
        BY <1>2
    <2> QED
        BY <1>6, <2>1
<1> QED
    BY <1>1, <1>2, <1>5, <1>7, <1>8, <1>9 DEF SunkTo

LEMMA SinkArranged ==
    ASSUME NEW n \in Nat, NEW a, IsRow(a, n), NEW base \in 1 .. n, NEW i \in base .. n
    PROVE  Sink(a, base, i) \in Arranged(a, base, i, n)
<1>1. PICK s : s = SinkPlace(a, base, i)
    OBVIOUS
<1>11. PICK b : b = Sink(a, base, i)
    OBVIOUS
<1>2. /\ IsRow(b, n) /\ s \in base .. i /\ b[s] = a[i]
      /\ \A k \in s + 1 .. i : b[k] = a[k - 1]
      /\ \A k \in 1 .. n : k \notin s .. i => b[k] = a[k]
    <2>1. SunkTo(Sink(a, base, i), a, SinkPlace(a, base, i), base, i, n)
        BY SinkSays
    <2> QED
        BY <1>1, <1>11, <2>1 DEF SunkTo
<1> DEFINE p == [k \in 1 .. n |-> IF k = s THEN i ELSE IF k \in s + 1 .. i THEN k - 1 ELSE k]
<1>3. /\ p \in [1 .. n -> 1 .. n]
      /\ \A k \in 1 .. n : p[k] = IF k = s THEN i ELSE IF k \in s + 1 .. i THEN k - 1 ELSE k
    BY <1>2
<1> HIDE DEF p
<1>31. /\ p[s] = i
       /\ \A k \in s + 1 .. i : p[k] = k - 1
       /\ \A k \in 1 .. n : k \notin s .. i => p[k] = k
    <2>1. s \in 1 .. n /\ \A k \in s + 1 .. i : k \in 1 .. n /\ k # s
        BY <1>2
    <2>2. \A k \in 1 .. n : k \notin s .. i => k # s /\ k \notin s + 1 .. i
        BY <1>2
    <2> QED
        BY <1>3, <2>1, <2>2
<1>32. \A k \in 1 .. n : k = s \/ k \in s + 1 .. i \/ k \notin s .. i
    BY <1>2
<1>4. \A k, l \in 1 .. n : p[k] = p[l] => k = l
    <2> SUFFICES ASSUME NEW k \in 1 .. n, NEW l \in 1 .. n, p[k] = p[l] PROVE k = l
        OBVIOUS
    <2>1. CASE k = s
        BY <1>2, <1>31, <1>32, <2>1
    <2>2. CASE k \in s + 1 .. i
        BY <1>2, <1>31, <1>32, <2>2
    <2>3. CASE k \notin s .. i
        BY <1>2, <1>31, <1>32, <2>3
    <2> QED
        BY <1>32, <2>1, <2>2, <2>3
<1>5. \A k \in 1 .. n : \E l \in 1 .. n : p[l] = k
    <2> SUFFICES ASSUME NEW k \in 1 .. n PROVE \E l \in 1 .. n : p[l] = k
        OBVIOUS
    <2>1. CASE k = i
        BY <1>2, <1>31, <2>1
    <2>2. CASE k \in s .. i - 1
        <3>1. k + 1 \in 1 .. n /\ k + 1 # s /\ k + 1 \in s + 1 .. i
            BY <1>2, <2>2
        <3>2. p[k + 1] = k
            BY <1>3, <3>1
        <3> QED
            BY <3>1, <3>2
    <2>3. CASE k \notin s .. i
        <3>1. k # s /\ k \notin s + 1 .. i
            BY <1>2, <2>3
        <3> QED
            BY <1>3, <3>1
    <2> QED
        BY <2>1, <2>2, <2>3, <1>2
<1>6. \A k \in 1 .. n : IF k \in base .. i THEN p[k] \in base .. i ELSE p[k] = k
    <2> SUFFICES ASSUME NEW k \in 1 .. n
                 PROVE  IF k \in base .. i THEN p[k] \in base .. i ELSE p[k] = k
        OBVIOUS
    <2>1. CASE k = s
        BY <1>2, <1>31, <2>1
    <2>2. CASE k \in s + 1 .. i
        BY <1>2, <1>31, <2>2
    <2>3. CASE k \notin s .. i
        BY <1>2, <1>31, <2>3
    <2> QED
        BY <1>32, <2>1, <2>2, <2>3
<1>7. p \in Perms(base, i, n)
    BY <1>3, <1>4, <1>5, <1>6 DEF Perms
<1>8. ASSUME NEW k \in 1 .. n PROVE b[k] = a[p[k]]
    <2>1. CASE k = s
        BY <1>2, <1>3, <2>1
    <2>2. CASE k \in s + 1 .. i
        BY <1>2, <1>3, <2>2
    <2>3. CASE k \notin s .. i
        <3>1. k # s /\ k \notin s + 1 .. i
            BY <1>2, <2>3
        <3> QED
            BY <1>2, <1>3, <2>3, <3>1
    <2> QED
        BY <2>1, <2>2, <2>3, <1>2
<1>9. b \in Arranged(a, base, i, n)
    BY <1>2, <1>7, <1>8, ArrangedBy
<1> QED
    BY <1>11, <1>9

-----------------------------------------------------------------------------
(* Keys, and elements in the order of their keys.                          *)
HasKeys(a, n) == \A i \in 1 .. n : Key(a[i]) \in Int
SortedIn(a, lo, hi) == \A i, j \in lo .. hi : i <= j => Key(a[i]) <= Key(a[j])

LEMMA ArrangedKeys ==
    ASSUME NEW n \in Nat, NEW a, HasKeys(a, n), NEW lo, NEW hi, NEW b \in Arranged(a, lo, hi, n)
    PROVE  HasKeys(b, n)
<1>1. \A i \in 1 .. n : \E j \in 1 .. n : b[i] = a[j]
    BY ArrangedFrom
<1> QED
    BY <1>1 DEF HasKeys

LEMMA SinkSorts ==
    ASSUME NEW n \in Nat, NEW a, IsRow(a, n), HasKeys(a, n),
           NEW base \in 1 .. n, NEW i \in base .. n, SortedIn(a, base, i - 1)
    PROVE  SortedIn(Sink(a, base, i), base, i)
<1>1. PICK s : s = SinkPlace(a, base, i)
    OBVIOUS
<1>2. PICK b : b = Sink(a, base, i)
    OBVIOUS
<1>3. /\ s \in base .. i /\ b[s] = a[i]
      /\ \A k \in s + 1 .. i : b[k] = a[k - 1]
      /\ \A k \in 1 .. n : k \notin s .. i => b[k] = a[k]
    <2>1. SunkTo(Sink(a, base, i), a, SinkPlace(a, base, i), base, i, n)
        BY SinkSays
    <2> QED
        BY <1>1, <1>2, <2>1 DEF SunkTo
<1>4. /\ s > base => Key(a[s - 1]) <= Key(a[i])
      /\ \A q \in base .. i : (q > base => Key(a[q - 1]) <= Key(a[i])) => q <= s
    BY <1>1, SinkPlaceFits DEF SinkPlaces
<1>5. \A k \in 1 .. n : Key(a[k]) \in Int
    BY DEF HasKeys
<1>6. \A k \in base .. s - 1 : Key(a[k]) <= Key(a[i])
    <2> SUFFICES ASSUME NEW k \in base .. s - 1 PROVE Key(a[k]) <= Key(a[i])
        OBVIOUS
    <2>1. /\ k \in base .. i - 1 /\ s - 1 \in base .. i - 1 /\ k <= s - 1 /\ s > base
          /\ k \in 1 .. n /\ s - 1 \in 1 .. n /\ i \in 1 .. n
        BY <1>3
    <2>2. Key(a[k]) <= Key(a[s - 1]) /\ Key(a[s - 1]) <= Key(a[i])
        BY <2>1, <1>4 DEF SortedIn
    <2>3. Key(a[k]) \in Int /\ Key(a[s - 1]) \in Int /\ Key(a[i]) \in Int
        BY <2>1, <1>5
    <2> QED
        BY <2>2, <2>3
<1>7. \A k \in s .. i - 1 : Key(a[i]) <= Key(a[k])
    <2> SUFFICES ASSUME NEW k \in s .. i - 1 PROVE Key(a[i]) <= Key(a[k])
        OBVIOUS
    <2>1. k + 1 \in base .. i /\ k + 1 > base /\ ~(k + 1 <= s) /\ k + 1 - 1 = k
        BY <1>3
    <2>2. ~(Key(a[k]) <= Key(a[i]))
        BY <1>4, <2>1
    <2>3. k \in 1 .. n /\ i \in 1 .. n
        BY <1>3
    <2>4. Key(a[k]) \in Int /\ Key(a[i]) \in Int
        BY <1>5, <2>3
    <2> QED
        BY <2>2, <2>4
<1>8. /\ \A k \in base .. s - 1 : b[k] = a[k] /\ k \in base .. i - 1
      /\ \A k \in s + 1 .. i : b[k] = a[k - 1] /\ k - 1 \in s .. i - 1 /\ k - 1 \in base .. i - 1
    <2>1. \A k \in base .. s - 1 : k \in 1 .. n /\ k \notin s .. i /\ k \in base .. i - 1
        BY <1>3
    <2>2. \A k \in s + 1 .. i : k - 1 \in s .. i - 1 /\ k - 1 \in base .. i - 1
        BY <1>3
    <2> QED
        BY <1>3, <2>1, <2>2
<1>9. SortedIn(b, base, i)
    <2> SUFFICES ASSUME NEW k \in base .. i, NEW l \in base .. i, k <= l
                 PROVE  Key(b[k]) <= Key(b[l])
        BY DEF SortedIn
    <2>1. /\ k \in base .. s - 1 \/ k = s \/ k \in s + 1 .. i
          /\ l \in base .. s - 1 \/ l = s \/ l \in s + 1 .. i
        BY <1>3
    <2>2. Key(a[i]) <= Key(a[i])
        <3>1. i \in 1 .. n
            OBVIOUS
        <3>2. Key(a[i]) \in Int
            BY <1>5, <3>1
        <3> QED
            BY <3>2
    <2>3. CASE k \in base .. s - 1 /\ l \in base .. s - 1
        BY <1>8, <2>3 DEF SortedIn
    <2>4. CASE k \in base .. s - 1 /\ l = s
        BY <1>3, <1>6, <1>8, <2>4
    <2>5. CASE k \in base .. s - 1 /\ l \in s + 1 .. i
        <3>1. l - 1 \in base .. i - 1 /\ k \in base .. i - 1 /\ k <= l - 1
            BY <1>3, <2>5
        <3> QED
            BY <1>8, <2>5, <3>1 DEF SortedIn
    <2>6. CASE k = s /\ l = s
        BY <1>3, <2>2, <2>6
    <2>7. CASE k = s /\ l \in s + 1 .. i
        BY <1>3, <1>7, <1>8, <2>7
    <2>8. CASE k \in s + 1 .. i /\ l \in s + 1 .. i
        <3>1. k - 1 \in base .. i - 1 /\ l - 1 \in base .. i - 1 /\ k - 1 <= l - 1
            BY <1>3, <2>8
        <3> QED
            BY <1>8, <2>8, <3>1 DEF SortedIn
    <2>9. ~(k = s /\ l \in base .. s - 1) /\ ~(k \in s + 1 .. i /\ (l = s \/ l \in base .. s - 1))
        BY <1>3
    <2> QED
        BY <2>1, <2>3, <2>4, <2>5, <2>6, <2>7, <2>8, <2>9
<1> QED
    BY <1>2, <1>9

(* The loop of the insertion sort, turn by turn.                           *)
SinksTo(f, a, base, m) ==
    f = [k \in 0 .. m |-> IF k < 2 THEN a ELSE Sink(f[k - 1], base, base + k - 1)]

LEMMA InsertionLoop ==
    ASSUME NEW n \in Nat, NEW a, IsRow(a, n), NEW base \in 1 .. n, NEW m \in Nat, base + m - 1 <= n
    PROVE  /\ \E f : SinksTo(f, a, base, m)
           /\ \A f : SinksTo(f, a, base, m) =>
                 \A k \in 0 .. m : f[k] \in Arranged(a, base, base + m - 1, n)
<1> DEFINE hi == base + m - 1
           S == Arranged(a, base, hi, n)
<1>1. a \in S
    BY SelfArranged
<1>2. ASSUME NEW x \in S, NEW k \in 0 .. m, k >= 2 PROVE Sink(x, base, base + k - 1) \in S
    <2>1. base + k - 1 \in base .. n /\ base + k - 1 <= hi /\ hi \in Int /\ base <= base
        BY <1>2
    <2>2. IsRow(x, n)
        BY ArrangedWhich
    <2>3. Sink(x, base, base + k - 1) \in Arranged(x, base, base + k - 1, n)
        BY <2>1, <2>2, SinkArranged
    <2>4. Sink(x, base, base + k - 1) \in Arranged(x, base, hi, n)
        <3> DEFINE top == base + k - 1
                   y == Sink(x, base, top)
        <3>1. top \in Int /\ hi \in Int /\ base \in Int /\ top <= hi /\ y \in Arranged(x, base, top, n)
            BY <2>1, <2>3
        <3> HIDE DEF top, y, hi
        <3>2. y \in Arranged(x, base, hi, n)
            BY <3>1, ArrangedWider
        <3> QED
            BY <3>2 DEF y, top
    <2> HIDE DEF hi
    <2> QED
        BY <2>4, ArrangedAgain
<1> DEFINE step == [kx \in (1 .. m) \X S |->
                      IF kx[1] < 2 THEN a ELSE Sink(kx[2], base, base + kx[1] - 1)]
<1>3. step \in [(1 .. m) \X S -> S]
    <2> SUFFICES ASSUME NEW kx \in (1 .. m) \X S
                 PROVE  (IF kx[1] < 2 THEN a ELSE Sink(kx[2], base, base + kx[1] - 1)) \in S
        OBVIOUS
    <2>1. kx[1] \in 0 .. m /\ kx[2] \in S
        OBVIOUS
    <2> HIDE DEF S
    <2> QED
        BY <1>1, <1>2, <2>1
<1>4. \A k \in 1 .. m, x \in S :
         step[<< k, x >>] = IF k < 2 THEN a ELSE Sink(x, base, base + k - 1)
    OBVIOUS
<1> HIDE DEF step, S
<1>5. PICK f \in [0 .. m -> S] :
         \A k \in 0 .. m : f[k] = IF k = 0 THEN a ELSE step[<< k, f[k - 1] >>]
    <2>1. \E f \in [0 .. m -> S] : IsLoop(f, a, m, step)
        BY <1>1, <1>3, LoopExists
    <2> QED
        BY <2>1 DEF IsLoop
<1>6. SinksTo(f, a, base, m)
    <2>1. f = [k \in 0 .. m |-> f[k]]
        OBVIOUS
    <2>2. ASSUME NEW k \in 0 .. m
          PROVE  f[k] = IF k < 2 THEN a ELSE Sink(f[k - 1], base, base + k - 1)
        <3>1. CASE k = 0
            <4>1. f[k] = a
                BY <1>5, <3>1
            <4>2. k < 2
                BY <3>1
            <4> QED
                BY <4>1, <4>2
        <3>2. CASE k # 0
            <4>1. k \in 1 .. m /\ f[k - 1] \in S
                BY <3>2
            <4> QED
                BY <1>4, <1>5, <3>2, <4>1
        <3> QED
            BY <3>1, <3>2
    <2> QED
        BY <2>1, <2>2 DEF SinksTo
<1>7. ASSUME NEW g, SinksTo(g, a, base, m)
      PROVE  \A k \in 0 .. m : g[k] \in S
    <2> DEFINE P == { k \in 0 .. m : g[k] \in S }
    <2>1. \A k \in 0 .. m : g[k] = IF k < 2 THEN a ELSE Sink(g[k - 1], base, base + k - 1)
        BY <1>7 DEF SinksTo
    <2>2. 0 \in P
        BY <1>1, <2>1
    <2>3. \A k \in 1 .. m : k - 1 \in P => k \in P
        BY <1>1, <1>2, <2>1
    <2> HIDE DEF P
    <2>4. \A k \in 0 .. m : k \in P
        BY <2>2, <2>3, UpTo
    <2> QED
        BY <2>4 DEF P
<1> QED
    BY <1>6, <1>7 DEF S

LEMMA InsertionSorts ==
    ASSUME NEW n \in Nat, NEW a, IsRow(a, n), HasKeys(a, n),
           NEW base \in Nat \ {0}, NEW m \in Nat, base + m - 1 <= n
    PROVE  /\ InsertionSort(a, base, m) \in Arranged(a, base, base + m - 1, n)
           /\ SortedIn(InsertionSort(a, base, m), base, base + m - 1)
<1>1. CASE m = 0
    <2> DEFINE f == [k \in 0 .. m |-> IF k < 2 THEN a ELSE Sink(a, base, base + k - 1)]
    <2>1. \A g : SinksTo(g, a, base, m) => g[m] = a
        BY <1>1 DEF SinksTo
    <2>2. SinksTo([k \in 0 .. m |-> a], a, base, m)
        <3>1. \A k \in 0 .. m : k < 2
            BY <1>1
        <3> QED
            BY <3>1 DEF SinksTo
    <2>3. \E g : SinksTo(g, a, base, m) /\ InsertionSort(a, base, m) = g[m]
        BY <2>2 DEF InsertionSort, SinksTo
    <2>4. InsertionSort(a, base, m) = a
        BY <2>1, <2>3
    <2>5. SortedIn(a, base, base + m - 1)
        BY <1>1 DEF SortedIn
    <2> QED
        BY <2>4, <2>5, SelfArranged
<1>2. CASE m # 0
    <2>0. base \in 1 .. n
        BY <1>2
    <2>1. /\ \E f : SinksTo(f, a, base, m)
          /\ \A f : SinksTo(f, a, base, m) =>
                \A k \in 0 .. m : f[k] \in Arranged(a, base, base + m - 1, n)
        BY <2>0, InsertionLoop
    <2>2. PICK f : SinksTo(f, a, base, m) /\ InsertionSort(a, base, m) = f[m]
        BY <2>1 DEF InsertionSort, SinksTo
    <2>3. \A k \in 0 .. m : f[k] \in Arranged(a, base, base + m - 1, n)
        BY <2>1, <2>2
    <2>4. \A k \in 0 .. m : f[k] = IF k < 2 THEN a ELSE Sink(f[k - 1], base, base + k - 1)
        BY <2>2 DEF SinksTo
    <2>5. \A k \in 0 .. m : IsRow(f[k], n) /\ HasKeys(f[k], n)
        BY <2>3, ArrangedWhich, ArrangedKeys
    <2> DEFINE P == { k \in 0 .. m : SortedIn(f[k], base, base + k - 1) }
    <2>6. \A k \in 0 .. m : k < 2 => k \in P
        <3> SUFFICES ASSUME NEW k \in 0 .. m, k < 2 PROVE SortedIn(f[k], base, base + k - 1)
            OBVIOUS
        <3>1. \A i, j \in base .. base + k - 1 : i = j /\ i \in 1 .. n
            BY <2>0
        <3>2. \A i \in 1 .. n : Key(f[k][i]) \in Int
            BY <2>5 DEF HasKeys
        <3>3. \A i \in 1 .. n : Key(f[k][i]) <= Key(f[k][i])
            <4> SUFFICES ASSUME NEW i \in 1 .. n PROVE Key(f[k][i]) <= Key(f[k][i])
                OBVIOUS
            <4>1. Key(f[k][i]) \in Int
                BY <3>2
            <4> QED
                BY <4>1
        <3> QED
            BY <3>1, <3>3 DEF SortedIn
    <2>7. ASSUME NEW k \in 1 .. m, k - 1 \in P PROVE k \in P
        <3>1. CASE k < 2
            BY <2>6, <3>1
        <3>2. CASE k >= 2
            <4>1. k \in 0 .. m /\ k - 1 \in 0 .. m /\ base + k - 1 \in base .. n
                BY <3>2
            <4>2. f[k] = Sink(f[k - 1], base, base + k - 1)
                BY <2>4, <3>2, <4>1
            <4>3. SortedIn(f[k - 1], base, (base + k - 1) - 1)
                <5>1. base + (k - 1) - 1 = (base + k - 1) - 1
                    OBVIOUS
                <5> QED
                    BY <2>7, <5>1
            <4> DEFINE x == f[k - 1]
                       top == base + k - 1
            <4>4. IsRow(x, n) /\ HasKeys(x, n) /\ top \in base .. n /\ SortedIn(x, base, top - 1)
                BY <2>5, <4>1, <4>3
            <4> HIDE DEF x, top
            <4>5. SortedIn(Sink(x, base, top), base, top)
                BY <2>0, <4>4, SinkSorts
            <4> QED
                BY <4>1, <4>2, <4>5 DEF x, top
        <3> QED
            BY <3>1, <3>2
    <2>8. 0 \in P
        BY <2>6
    <2> HIDE DEF P
    <2>9. \A k \in 0 .. m : k \in P
        BY <2>7, <2>8, UpTo
    <2>10. m \in 0 .. m
        OBVIOUS
    <2> QED
        BY <2>2, <2>3, <2>9, <2>10 DEF P
<1> QED
    BY <1>1, <1>2

-----------------------------------------------------------------------------
(* Heaps, told by the keys K of their n positions.                         *)
Child(p, c) == c = 2 * p + 1 \/ c = 2 * p + 2

HeapFrom(K, n, from) ==
    \A p \in from .. n - 1, c \in 0 .. n - 1 : Child(p, c) => K[c] <= K[p]

(* The same but for r, which may be smaller than its children.             *)
HeapBut(K, n, from, r) ==
    /\ r \in from .. n - 1
    /\ \A p \in from .. n - 1, c \in 0 .. n - 1 : Child(p, c) /\ p # r => K[c] <= K[p]
    /\ \A p \in from .. n - 1, c \in 0 .. n - 1 : Child(p, r) /\ Child(r, c) => K[c] <= K[p]

LEMMA OneParent ==
    ASSUME NEW p \in Nat, NEW q \in Nat, NEW c \in Nat, Child(p, c), Child(q, c)
    PROVE  p = q /\ p < c
BY DEF Child

LEMMA SiftKeys ==
    ASSUME NEW n \in Nat, NEW K \in [0 .. n - 1 -> Int], NEW from \in Nat, NEW r,
           HeapBut(K, n, from, r),
           NEW c \in 0 .. n - 1, Child(r, c), K[r] <= K[c],
           \A q \in 0 .. n - 1 : Child(r, q) => K[q] <= K[c],
           NEW L \in [0 .. n - 1 -> Int], L[r] = K[c], L[c] = K[r],
           \A q \in 0 .. n - 1 : q # r /\ q # c => L[q] = K[q]
    PROVE  HeapBut(L, n, from, c) /\ r < c
<1>1. r \in from .. n - 1 /\ r \in 0 .. n - 1 /\ r \in Nat /\ c \in Nat
    BY DEF HeapBut
<1>2. r < c /\ c \in from .. n - 1
    BY <1>1 DEF Child
<1>3. ASSUME NEW p \in from .. n - 1, NEW q \in 0 .. n - 1, Child(p, q), p # c
      PROVE  L[q] <= L[p]
    <2>0. p \in Nat /\ q \in Nat /\ p < q /\ p \in 0 .. n - 1
        BY <1>3 DEF Child
    <2>1. CASE p = r
        <3>1. CASE q = c
            BY <2>1, <3>1
        <3>2. CASE q # c
            BY <1>3, <2>0, <2>1, <3>2
        <3> QED
            BY <3>1, <3>2
    <2>2. CASE p # r
        <3>1. L[p] = K[p]
            BY <1>3, <2>0, <2>2
        <3>2. CASE q = r
            BY <1>3, <2>2, <3>1, <3>2 DEF HeapBut
        <3>3. q # c
            BY <1>1, <1>3, <2>0, <2>2, OneParent
        <3>4. CASE q # r
            <4>1. L[q] = K[q]
                BY <3>3, <3>4
            <4>2. K[q] <= K[p]
                BY <1>3, <2>2 DEF HeapBut
            <4> QED
                BY <3>1, <4>1, <4>2
        <3> QED
            BY <3>2, <3>4
    <2> QED
        BY <2>1, <2>2
<1>4. ASSUME NEW p \in from .. n - 1, NEW q \in 0 .. n - 1, Child(p, c), Child(c, q)
      PROVE  L[q] <= L[p]
    <2>1. p = r
        BY <1>1, <1>4, OneParent
    <2>2. q # c /\ q # r
        BY <1>2, <1>4 DEF Child
    <2>3. K[q] <= K[c]
        BY <1>2, <1>4 DEF HeapBut
    <2> QED
        BY <2>1, <2>2, <2>3
<1> QED
    BY <1>2, <1>3, <1>4 DEF HeapBut

LEMMA SiftRests ==
    ASSUME NEW n \in Nat, NEW K \in [0 .. n - 1 -> Int], NEW from \in Nat, NEW r,
           HeapBut(K, n, from, r),
           \A c \in 0 .. n - 1 : Child(r, c) => K[c] <= K[r]
    PROVE  HeapFrom(K, n, from)
BY DEF HeapBut, HeapFrom

(* The root of a heap is the largest.                                      *)
LEMMA RootIsLargest ==
    ASSUME NEW n \in Nat, NEW K \in [0 .. n - 1 -> Int], HeapFrom(K, n, 0)
    PROVE  \A p \in 0 .. n - 1 : K[p] <= K[0]
<1> SUFFICES ASSUME NEW x \in 0 .. n - 1, ~(K[x] <= K[0]) PROVE FALSE
    OBVIOUS
<1> DEFINE S == { p \in 0 .. n - 1 : ~(K[p] <= K[0]) }
<1>1. PICK p \in S : \A y \in S : p <= y
    <2>1. S \subseteq Nat /\ x \in S
        OBVIOUS
    <2> HIDE DEF S
    <2> QED
        BY <2>1, LeastOne
<1>2. p \in 0 .. n - 1 /\ ~(K[p] <= K[0]) /\ p # 0
    <2>1. p \in 0 .. n - 1 /\ ~(K[p] <= K[0])
        OBVIOUS
    <2>2. 0 \in 0 .. n - 1 /\ K[0] \in Int
        BY <2>1
    <2> QED
        BY <2>1, <2>2
<1>3. PICK q \in 0 .. n - 1 : Child(q, p) /\ q < p
    <2>1. (p - 1) \div 2 \in 0 .. n - 1 /\ (p - 1) \div 2 < p
        BY <1>2
    <2>2. Child((p - 1) \div 2, p)
        BY <1>2 DEF Child
    <2> QED
        BY <2>1, <2>2
<1>4. q \notin S
    BY <1>1, <1>2, <1>3
<1>5. K[q] <= K[0] /\ K[p] <= K[q]
    BY <1>2, <1>3, <1>4 DEF HeapFrom
<1>6. K[q] \in Int /\ K[p] \in Int /\ K[0] \in Int
    BY <1>2, <1>3
<1> QED
    BY <1>2, <1>5, <1>6

-----------------------------------------------------------------------------
(* The loop of SiftDown, turn by turn.                                     *)
KeysOf(a, base, n) == [p \in 0 .. n - 1 |-> Key(a[base + p])]

LargerChild(s, base, n) ==
    LET left == 2 * s.r + 1
    IN  IF left < n - 1 /\ Key(s.arr[base + left]) <= Key(s.arr[base + (left + 1)])
        THEN left + 1 ELSE left

AtRest(s, base, n) ==
    \/ 2 * s.r + 1 >= n
    \/ Key(s.arr[base + s.r]) > Key(s.arr[base + LargerChild(s, base, n)])

SiftOne(s, base, n) ==
    IF AtRest(s, base, n) THEN s
    ELSE [arr |-> Swap(s.arr, base + s.r, base + LargerChild(s, base, n)),
          r |-> LargerChild(s, base, n)]

SiftsTo(f, a, base, from, n) ==
    f = [k \in 0 .. n |-> IF k = 0 THEN [arr |-> a, r |-> from] ELSE SiftOne(f[k - 1], base, n)]

LEMMA SiftDownIs ==
    ASSUME NEW a, NEW base, NEW from, NEW n, \E f : SiftsTo(f, a, base, from, n)
    PROVE  \E f : SiftsTo(f, a, base, from, n) /\ SiftDown(a, base, from, n) = f[n].arr
<1>1. SiftDown(a, base, from, n) = (CHOOSE f : SiftsTo(f, a, base, from, n))[n].arr
    BY Zenon DEF SiftDown, SiftsTo, SiftOne, AtRest, LargerChild
<1>2. SiftsTo((CHOOSE f : SiftsTo(f, a, base, from, n)), a, base, from, n)
    OBVIOUS
<1> QED
    BY <1>1, <1>2

SiftStates(a, base, n, from, N) == [arr : Arranged(a, base, base + n - 1, N), r : from .. n - 1]

FitKeys(K, a, base, n, N) ==
    /\ K \in [0 .. n - 1 -> Int]
    /\ \A p \in 0 .. n - 1 : base + p \in 1 .. N /\ K[p] = Key(a[base + p])

LEMMA KeysOfRow ==
    ASSUME NEW N \in Nat, NEW a, HasKeys(a, N), NEW base \in Nat \ {0}, NEW n \in Nat, base + n - 1 <= N
    PROVE  FitKeys(KeysOf(a, base, n), a, base, n, N)
<1>1. \A p \in 0 .. n - 1 : base + p \in 1 .. N
    OBVIOUS
<1>2. \A p \in 0 .. n - 1 : Key(a[base + p]) \in Int
    BY <1>1 DEF HasKeys
<1> QED
    BY <1>1, <1>2 DEF KeysOf, FitKeys

LEMMA LargerSays ==
    ASSUME NEW N \in Nat, NEW base \in Nat \ {0}, NEW n \in Nat, base + n - 1 <= N,
           NEW s, HasKeys(s.arr, N), s.r \in 0 .. n - 1, 2 * s.r + 1 < n
    PROVE  /\ LargerChild(s, base, n) \in 0 .. n - 1
           /\ Child(s.r, LargerChild(s, base, n))
           /\ \A q \in 0 .. n - 1 : Child(s.r, q) =>
                 KeysOf(s.arr, base, n)[q] <= KeysOf(s.arr, base, n)[LargerChild(s, base, n)]
<1> DEFINE left == 2 * s.r + 1
           K == KeysOf(s.arr, base, n)
<1>1. PICK c : c = LargerChild(s, base, n)
    OBVIOUS
<1>2. left \in 0 .. n - 1 /\ (left < n - 1 => left + 1 \in 0 .. n - 1)
    OBVIOUS
<1>3. /\ K \in [0 .. n - 1 -> Int]
      /\ \A p \in 0 .. n - 1 : K[p] = Key(s.arr[base + p])
    <2>1. FitKeys(K, s.arr, base, n, N)
        BY KeysOfRow
    <2> QED
        BY <2>1 DEF FitKeys
<1>4. c = IF left < n - 1 /\ Key(s.arr[base + left]) <= Key(s.arr[base + (left + 1)])
          THEN left + 1 ELSE left
    BY <1>1 DEF LargerChild
<1>5. c = IF left < n - 1 /\ K[left] <= K[left + 1] THEN left + 1 ELSE left
    <2>1. CASE left < n - 1
        BY <1>2, <1>3, <1>4, <2>1
    <2>2. CASE ~(left < n - 1)
        BY <1>4, <2>2
    <2> QED
        BY <2>1, <2>2
<1> HIDE DEF K
<1>6. c \in 0 .. n - 1 /\ Child(s.r, c)
    BY <1>2, <1>5 DEF Child
<1>7. ASSUME NEW q \in 0 .. n - 1, Child(s.r, q) PROVE K[q] <= K[c]
    <2>1. q = left \/ (q = left + 1 /\ left < n - 1)
        <3>1. q = 2 * s.r + 1 \/ q = 2 * s.r + 2
            BY <1>7 DEF Child
        <3>2. \A r \in 0 .. n - 1 : 2 * r + 2 = (2 * r + 1) + 1 /\ (q = 2 * r + 2 => 2 * r + 1 < n - 1)
            OBVIOUS
        <3> QED
            BY <3>1, <3>2
    <2>2. K[q] \in Int /\ K[left] \in Int /\ K[c] \in Int
        BY <1>2, <1>3, <1>6
    <2>3. CASE q = left
        <3>1. CASE left < n - 1 /\ K[left] <= K[left + 1]
            BY <1>5, <2>3, <3>1
        <3>2. CASE ~(left < n - 1 /\ K[left] <= K[left + 1])
            BY <1>5, <2>2, <2>3, <3>2
        <3> QED
            BY <3>1, <3>2
    <2>4. CASE q = left + 1 /\ left < n - 1
        <3>1. CASE K[left] <= K[left + 1]
            BY <1>5, <2>2, <2>4, <3>1
        <3>2. CASE ~(K[left] <= K[left + 1])
            BY <1>5, <2>2, <2>4, <3>2
        <3> QED
            BY <3>1, <3>2
    <2> HIDE DEF left
    <2> QED
        BY <2>1, <2>3, <2>4
<1> QED
    BY <1>1, <1>6, <1>7 DEF K

LEMMA SiftOneKeeps ==
    ASSUME NEW N \in Nat, NEW a, HasKeys(a, N), NEW base \in Nat \ {0}, NEW n \in Nat, base + n - 1 <= N,
           NEW from \in Nat, NEW s \in SiftStates(a, base, n, from, N)
    PROVE  SiftOne(s, base, n) \in SiftStates(a, base, n, from, N)
<1>1. CASE AtRest(s, base, n)
    BY <1>1 DEF SiftOne
<1>2. CASE ~AtRest(s, base, n)
    <2>1. PICK c : c = LargerChild(s, base, n)
        OBVIOUS
    <2> DEFINE hi == base + n - 1
    <2>2. s.arr \in Arranged(a, base, hi, N) /\ s.r \in from .. n - 1 /\ s.r \in 0 .. n - 1
        BY DEF SiftStates
    <2>3. IsRow(s.arr, N) /\ HasKeys(s.arr, N)
        BY <2>2, ArrangedWhich, ArrangedKeys
    <2>4. 2 * s.r + 1 < n
        BY <1>2, <2>2 DEF AtRest
    <2>5. c \in 0 .. n - 1 /\ Child(s.r, c)
        BY <2>1, <2>2, <2>3, <2>4, LargerSays
    <2>6. c \in from .. n - 1
        BY <2>2, <2>5 DEF Child
    <2>7. /\ base + s.r \in 1 .. N /\ base + c \in 1 .. N
          /\ base + s.r \in base .. hi /\ base + c \in base .. hi /\ hi \in Int /\ base \in Int
        BY <2>2, <2>5
    <2> HIDE DEF hi
    <2>8. Swap(s.arr, base + s.r, base + c) \in Arranged(s.arr, base, hi, N)
        BY <2>3, <2>7, SwapArranged
    <2>9. Swap(s.arr, base + s.r, base + c) \in Arranged(a, base, hi, N)
        BY <2>2, <2>8, ArrangedAgain
    <2>10. SiftOne(s, base, n) = [arr |-> Swap(s.arr, base + s.r, base + c), r |-> c]
        BY <1>2, <2>1 DEF SiftOne
    <2> QED
        BY <2>6, <2>9, <2>10 DEF SiftStates, hi
<1> QED
    BY <1>1, <1>2

LEMMA SiftLoop ==
    ASSUME NEW N \in Nat, NEW a, IsRow(a, N), HasKeys(a, N), NEW base \in Nat \ {0},
           NEW n \in Nat, base + n - 1 <= N, NEW from \in 0 .. n - 1
    PROVE  /\ \E f : SiftsTo(f, a, base, from, n)
           /\ \A f : SiftsTo(f, a, base, from, n) =>
                 \A k \in 0 .. n : f[k] \in SiftStates(a, base, n, from, N)
<1> DEFINE S == SiftStates(a, base, n, from, N)
           first == [arr |-> a, r |-> from]
           step == [kx \in (1 .. n) \X S |-> SiftOne(kx[2], base, n)]
<1>1. first \in S
    <2>1. a \in Arranged(a, base, base + n - 1, N)
        BY SelfArranged
    <2>2. from \in from .. n - 1
        OBVIOUS
    <2> QED
        BY <2>1, <2>2 DEF SiftStates
<1>2. \A x \in S : SiftOne(x, base, n) \in S
    BY SiftOneKeeps
<1> HIDE DEF S, first
<1>3. step \in [(1 .. n) \X S -> S] /\ \A k \in 1 .. n, x \in S : step[<< k, x >>] = SiftOne(x, base, n)
    BY <1>2
<1> HIDE DEF step
<1>4. PICK f \in [0 .. n -> S] : IsLoop(f, first, n, step)
    BY <1>1, <1>3, LoopExists
<1>5. SiftsTo(f, a, base, from, n)
    <2>1. f = [k \in 0 .. n |-> f[k]]
        OBVIOUS
    <2>2. ASSUME NEW k \in 0 .. n
          PROVE  f[k] = IF k = 0 THEN [arr |-> a, r |-> from] ELSE SiftOne(f[k - 1], base, n)
        <3>1. CASE k = 0
            BY <1>4, <3>1 DEF IsLoop, first
        <3>2. CASE k # 0
            <4>1. k \in 1 .. n /\ f[k - 1] \in S
                BY <3>2
            <4> QED
                BY <1>3, <1>4, <3>2, <4>1 DEF IsLoop
        <3> QED
            BY <3>1, <3>2
    <2> QED
        BY <2>1, <2>2 DEF SiftsTo
<1>6. ASSUME NEW g, SiftsTo(g, a, base, from, n) PROVE \A k \in 0 .. n : g[k] \in S
    <2> DEFINE P == { k \in 0 .. n : g[k] \in S }
    <2>1. \A k \in 0 .. n : g[k] = IF k = 0 THEN first ELSE SiftOne(g[k - 1], base, n)
        BY <1>6 DEF SiftsTo, first
    <2>2. 0 \in P
        BY <1>1, <2>1
    <2>3. \A k \in 1 .. n : k - 1 \in P => k \in P
        BY <1>2, <2>1
    <2> HIDE DEF P
    <2>4. \A k \in 0 .. n : k \in P
        BY <2>2, <2>3, UpTo
    <2> QED
        BY <2>4 DEF P
<1> QED
    BY <1>5, <1>6 DEF S

LEMMA SiftDownHeaps ==
    ASSUME NEW N \in Nat, NEW a, IsRow(a, N), HasKeys(a, N), NEW base \in Nat \ {0},
           NEW n \in Nat, base + n - 1 <= N, NEW from \in 0 .. n - 1,
           HeapFrom(KeysOf(a, base, n), n, from + 1)
    PROVE  /\ SiftDown(a, base, from, n) \in Arranged(a, base, base + n - 1, N)
           /\ HeapFrom(KeysOf(SiftDown(a, base, from, n), base, n), n, from)
<1>1. /\ \E f : SiftsTo(f, a, base, from, n)
      /\ \A f : SiftsTo(f, a, base, from, n) =>
            \A k \in 0 .. n : f[k] \in SiftStates(a, base, n, from, N)
    BY SiftLoop
<1>2. PICK f : SiftsTo(f, a, base, from, n) /\ SiftDown(a, base, from, n) = f[n].arr
    BY <1>1, SiftDownIs
<1>3. \A k \in 0 .. n : f[k] = IF k = 0 THEN [arr |-> a, r |-> from] ELSE SiftOne(f[k - 1], base, n)
    BY <1>2 DEF SiftsTo
<1>4. ASSUME NEW k \in 0 .. n
      PROVE  /\ f[k].arr \in Arranged(a, base, base + n - 1, N)
             /\ f[k].r \in from .. n - 1 /\ f[k].r \in 0 .. n - 1
             /\ IsRow(f[k].arr, N) /\ HasKeys(f[k].arr, N)
             /\ KeysOf(f[k].arr, base, n) \in [0 .. n - 1 -> Int]
             /\ \A p \in 0 .. n - 1 : KeysOf(f[k].arr, base, n)[p] = Key(f[k].arr[base + p])
    <2>1. f[k].arr \in Arranged(a, base, base + n - 1, N) /\ f[k].r \in from .. n - 1
        BY <1>1, <1>2 DEF SiftStates
    <2>2. IsRow(f[k].arr, N) /\ HasKeys(f[k].arr, N)
        BY <2>1, ArrangedWhich, ArrangedKeys
    <2>3. FitKeys(KeysOf(f[k].arr, base, n), f[k].arr, base, n, N)
        BY <2>2, KeysOfRow
    <2> QED
        BY <2>1, <2>2, <2>3 DEF FitKeys
<1> DEFINE P == { k \in 0 .. n : /\ HeapBut(KeysOf(f[k].arr, base, n), n, from, f[k].r)
                                 /\ AtRest(f[k], base, n) \/ f[k].r >= k }
<1>5. 0 \in P
    <2>1. f[0].arr = a /\ f[0].r = from
        <3>1. 0 \in 0 .. n
            OBVIOUS
        <3>2. f[0] = [arr |-> a, r |-> from]
            BY <1>3, <3>1
        <3> QED
            BY ONLY <3>2
    <2>2. HeapBut(KeysOf(a, base, n), n, from, from)
        <3> DEFINE K == KeysOf(a, base, n)
        <3>1. \A p \in from .. n - 1, c \in 0 .. n - 1 : Child(p, c) /\ p # from => K[c] <= K[p]
            <4>1. \A p \in from .. n - 1 : p # from => p \in from + 1 .. n - 1
                OBVIOUS
            <4> QED
                BY <4>1 DEF HeapFrom
        <3>2. \A p \in from .. n - 1 : ~Child(p, from)
            BY DEF Child
        <3> QED
            BY <3>1, <3>2 DEF HeapBut
    <2>3. f[0].r >= 0
        BY <2>1
    <2> QED
        BY <2>1, <2>2, <2>3
<1>6. ASSUME NEW k \in 1 .. n, k - 1 \in P PROVE k \in P
    <2>1. PICK s : s = f[k - 1]
        OBVIOUS
    <2>2. k - 1 \in 0 .. n /\ k \in 0 .. n /\ f[k] = SiftOne(s, base, n)
        BY <1>3, <2>1
    <2>3. /\ HeapBut(KeysOf(s.arr, base, n), n, from, s.r)
          /\ AtRest(s, base, n) \/ s.r >= k - 1
        BY <1>6, <2>1
    <2>4. CASE AtRest(s, base, n)
        BY <2>2, <2>3, <2>4 DEF SiftOne
    <2>5. CASE ~AtRest(s, base, n)
        <3>1. PICK c : c = LargerChild(s, base, n)
            OBVIOUS
        <3>2. /\ s.r \in 0 .. n - 1 /\ IsRow(s.arr, N) /\ HasKeys(s.arr, N)
              /\ KeysOf(s.arr, base, n) \in [0 .. n - 1 -> Int]
              /\ \A p \in 0 .. n - 1 : KeysOf(s.arr, base, n)[p] = Key(s.arr[base + p])
            BY <1>4, <2>1, <2>2
        <3>3. 2 * s.r + 1 < n /\ ~(Key(s.arr[base + s.r]) > Key(s.arr[base + c]))
            BY <2>5, <3>1, <3>2 DEF AtRest
        <3>4. /\ c \in 0 .. n - 1 /\ Child(s.r, c)
              /\ \A q \in 0 .. n - 1 : Child(s.r, q) =>
                    KeysOf(s.arr, base, n)[q] <= KeysOf(s.arr, base, n)[c]
            BY <3>1, <3>2, <3>3, LargerSays
        <3>5. f[k].arr = Swap(s.arr, base + s.r, base + c) /\ f[k].r = c
            BY <2>2, <2>5, <3>1 DEF SiftOne
        <3> DEFINE K == KeysOf(s.arr, base, n)
                   L == KeysOf(f[k].arr, base, n)
                   r == s.r
        <3>6. \A p, q \in 0 .. n - 1 : base + p \in 1 .. N /\ (base + p = base + q <=> p = q)
            OBVIOUS
        <3>7. /\ f[k].arr[base + r] = s.arr[base + c] /\ f[k].arr[base + c] = s.arr[base + r]
              /\ \A p \in 0 .. n - 1 : p # r /\ p # c => f[k].arr[base + p] = s.arr[base + p]
            <4>1. PICK i, j, x : i = base + r /\ j = base + c /\ x = s.arr
                OBVIOUS
            <4>2. i \in 1 .. N /\ j \in 1 .. N /\ IsRow(x, N) /\ f[k].arr = Swap(x, i, j)
                BY <3>2, <3>4, <3>5, <3>6, <4>1
            <4>3. /\ Swap(x, i, j)[i] = x[j] /\ Swap(x, i, j)[j] = x[i]
                  /\ \A q \in 1 .. N \ { i, j } : Swap(x, i, j)[q] = x[q]
                BY <4>2, SwapRow
            <4>4. \A p \in 0 .. n - 1 : p # r /\ p # c => base + p \in 1 .. N \ { i, j }
                BY <3>2, <3>4, <3>6, <4>1
            <4> QED
                BY <4>1, <4>2, <4>3, <4>4
        <3>8. /\ L \in [0 .. n - 1 -> Int]
              /\ \A p \in 0 .. n - 1 : L[p] = Key(f[k].arr[base + p])
            BY <1>4, <2>2
        <3>9. K \in [0 .. n - 1 -> Int] /\ \A p \in 0 .. n - 1 : K[p] = Key(s.arr[base + p])
            BY <3>2
        <3>10. HeapBut(K, n, from, r) /\ \A q \in 0 .. n - 1 : Child(r, q) => K[q] <= K[c]
            BY <2>3, <3>4
        <3>11. r \in 0 .. n - 1 /\ Child(r, c)
            BY <3>2, <3>4
        <3>12. ~(Key(s.arr[base + r]) > Key(s.arr[base + c]))
            BY <3>3
        <3> HIDE DEF K, L, r
        <3>13. K[r] <= K[c]
            BY <3>4, <3>9, <3>11, <3>12
        <3>14. L[r] = K[c] /\ L[c] = K[r] /\ \A q \in 0 .. n - 1 : q # r /\ q # c => L[q] = K[q]
            BY <3>4, <3>7, <3>8, <3>9, <3>11
        <3>15. from \in Nat
            OBVIOUS
        <3>16. HeapBut(L, n, from, c) /\ r < c
            BY <3>4, <3>8, <3>9, <3>10, <3>11, <3>13, <3>14, <3>15, SiftKeys
        <3>17. r >= k - 1
            BY <2>3, <2>5 DEF r
        <3>18. c >= k
            BY <3>4, <3>11, <3>16, <3>17
        <3>19. HeapBut(KeysOf(f[k].arr, base, n), n, from, f[k].r) /\ f[k].r >= k
            BY <3>5, <3>16, <3>18 DEF L
        <3> QED
            BY <2>2, <3>19
    <2> QED
        BY <2>4, <2>5
<1> HIDE DEF P
<1>7. n \in P
    <2>1. \A k \in 0 .. n : k \in P
        BY <1>5, <1>6, UpTo
    <2> QED
        BY <2>1
<1>8. PICK s : s = f[n]
    OBVIOUS
<1>9. /\ HeapBut(KeysOf(s.arr, base, n), n, from, s.r)
      /\ AtRest(s, base, n) \/ s.r >= n
    BY <1>7, <1>8 DEF P
<1>10. /\ s.arr \in Arranged(a, base, base + n - 1, N)
       /\ s.r \in 0 .. n - 1 /\ HasKeys(s.arr, N)
       /\ KeysOf(s.arr, base, n) \in [0 .. n - 1 -> Int]
       /\ \A p \in 0 .. n - 1 : KeysOf(s.arr, base, n)[p] = Key(s.arr[base + p])
    <2>1. n \in 0 .. n
        OBVIOUS
    <2> QED
        BY <1>4, <1>8, <2>1
<1>11. \A c \in 0 .. n - 1 : Child(s.r, c) => KeysOf(s.arr, base, n)[c] <= KeysOf(s.arr, base, n)[s.r]
    <2>1. AtRest(s, base, n)
        BY <1>9, <1>10
    <2>2. CASE 2 * s.r + 1 >= n
        BY <1>10, <2>2 DEF Child
    <2>3. CASE 2 * s.r + 1 < n
        <3> DEFINE K == KeysOf(s.arr, base, n)
        <3>1. PICK c : c = LargerChild(s, base, n)
            OBVIOUS
        <3>2. c \in 0 .. n - 1 /\ \A q \in 0 .. n - 1 : Child(s.r, q) => K[q] <= K[c]
            BY <1>10, <2>3, <3>1, LargerSays
        <3>3. ~(2 * s.r + 1 >= n)
            BY <1>10, <2>3
        <3>4. Key(s.arr[base + s.r]) > Key(s.arr[base + c])
            BY <2>1, <3>1, <3>3 DEF AtRest
        <3>5. K[s.r] > K[c] /\ K[s.r] \in Int /\ K[c] \in Int /\ \A q \in 0 .. n - 1 : K[q] \in Int
            BY <1>10, <3>2, <3>4
        <3> HIDE DEF K
        <3> SUFFICES ASSUME NEW q \in 0 .. n - 1, Child(s.r, q) PROVE K[q] <= K[s.r]
            BY DEF K
        <3>6. K[q] <= K[c] /\ K[q] \in Int
            BY <3>2, <3>5
        <3> QED
            BY <3>5, <3>6
    <2> QED
        BY <1>10, <2>2, <2>3
<1>12. HeapFrom(KeysOf(s.arr, base, n), n, from)
    <2>1. from \in Nat
        OBVIOUS
    <2> QED
        BY <1>9, <1>10, <1>11, <2>1, SiftRests
<1> QED
    BY <1>2, <1>8, <1>10, <1>12

-----------------------------------------------------------------------------
LEMMA SiftDownArranged ==
    ASSUME NEW N \in Nat, NEW a, IsRow(a, N), HasKeys(a, N), NEW base \in Nat \ {0},
           NEW n \in Nat, base + n - 1 <= N, NEW from \in 0 .. n - 1
    PROVE  SiftDown(a, base, from, n) \in Arranged(a, base, base + n - 1, N)
<1>1. /\ \E f : SiftsTo(f, a, base, from, n)
      /\ \A f : SiftsTo(f, a, base, from, n) =>
            \A k \in 0 .. n : f[k] \in SiftStates(a, base, n, from, N)
    BY SiftLoop
<1>2. PICK f : SiftsTo(f, a, base, from, n) /\ SiftDown(a, base, from, n) = f[n].arr
    BY <1>1, SiftDownIs
<1>3. f[n] \in SiftStates(a, base, n, from, N)
    BY <1>1, <1>2
<1> QED
    BY <1>2, <1>3 DEF SiftStates

(* The two loops of the heap sort, turn by turn.                           *)
HeapsTo(h, a, base, n) ==
    h = [k \in 0 .. n \div 2 |->
            IF k = 0 THEN a ELSE SiftDown(h[k - 1], base, n \div 2 - k, n)]

TakeOne(x, base, n, k) == SiftDown(Swap(x, base, base + n - k), base, 0, n - k)

TakesTo(t, first, base, n) ==
    t = [k \in 0 .. n - 1 |-> IF k = 0 THEN first ELSE TakeOne(t[k - 1], base, n, k)]

LEMMA HeapSortIs ==
    ASSUME NEW a, NEW base, NEW n, n > 1,
           \E h : HeapsTo(h, a, base, n),
           \A h : HeapsTo(h, a, base, n) => \E t : TakesTo(t, h[n \div 2], base, n)
    PROVE  \E h, t : /\ HeapsTo(h, a, base, n)
                     /\ TakesTo(t, h[n \div 2], base, n)
                     /\ HeapSort(a, base, n) = t[n - 1]
<1> DEFINE h == CHOOSE h : HeapsTo(h, a, base, n)
           t == CHOOSE t : TakesTo(t, h[n \div 2], base, n)
<1>1. HeapSort(a, base, n) = IF n > 1 THEN t[n - 1] ELSE a
    BY Zenon DEF HeapSort, HeapsTo, TakesTo, TakeOne
<1>2. HeapsTo(h, a, base, n)
    OBVIOUS
<1>3. TakesTo(t, h[n \div 2], base, n)
    BY <1>2
<1> QED
    BY <1>1, <1>2, <1>3


LEMMA HeapLoop ==
    ASSUME NEW N \in Nat, NEW a, IsRow(a, N), HasKeys(a, N), NEW base \in Nat \ {0},
           NEW n \in Nat, n > 1, base + n - 1 <= N
    PROVE  /\ \E h : HeapsTo(h, a, base, n)
           /\ \A h : HeapsTo(h, a, base, n) =>
                 \A k \in 0 .. n \div 2 : h[k] \in Arranged(a, base, base + n - 1, N)
<1> DEFINE S == Arranged(a, base, base + n - 1, N)
           half == n \div 2
           step == [kx \in (1 .. half) \X S |-> SiftDown(kx[2], base, half - kx[1], n)]
<1>1. a \in S
    BY SelfArranged
<1>0. half \in Nat /\ \A k \in 1 .. half : half - k \in 0 .. n - 1
    OBVIOUS
<1>2. ASSUME NEW x \in S, NEW k \in 1 .. half PROVE SiftDown(x, base, half - k, n) \in S
    <2>1. IsRow(x, N) /\ HasKeys(x, N)
        BY ArrangedWhich, ArrangedKeys
    <2>2. PICK from \in 0 .. n - 1 : from = half - k
        BY <1>0
    <2>3. SiftDown(x, base, from, n) \in Arranged(x, base, base + n - 1, N)
        BY <2>1, SiftDownArranged
    <2> QED
        BY <2>2, <2>3, ArrangedAgain
<1> HIDE DEF S, half
<1>3. /\ step \in [(1 .. half) \X S -> S]
      /\ \A k \in 1 .. half, x \in S : step[<< k, x >>] = SiftDown(x, base, half - k, n)
    BY <1>2
<1> HIDE DEF step
<1>4. PICK f \in [0 .. half -> S] : IsLoop(f, a, half, step)
    BY <1>0, <1>1, <1>3, LoopExists
<1>5. HeapsTo(f, a, base, n)
    <2>1. f = [k \in 0 .. half |-> f[k]]
        OBVIOUS
    <2>2. ASSUME NEW k \in 0 .. half
          PROVE  f[k] = IF k = 0 THEN a ELSE SiftDown(f[k - 1], base, half - k, n)
        <3>1. CASE k = 0
            BY <1>4, <3>1 DEF IsLoop
        <3>2. CASE k # 0
            <4>1. k \in 1 .. half /\ f[k - 1] \in S
                BY <1>0, <3>2
            <4> QED
                BY <1>3, <1>4, <3>2, <4>1 DEF IsLoop
        <3> QED
            BY <3>1, <3>2
    <2> QED
        BY <2>1, <2>2 DEF HeapsTo, half
<1>6. ASSUME NEW g, HeapsTo(g, a, base, n) PROVE \A k \in 0 .. half : g[k] \in S
    <2> DEFINE P == { k \in 0 .. half : g[k] \in S }
    <2>1. \A k \in 0 .. half : g[k] = IF k = 0 THEN a ELSE SiftDown(g[k - 1], base, half - k, n)
        BY <1>6 DEF HeapsTo, half
    <2>2. 0 \in P
        BY <1>0, <1>1, <2>1
    <2>3. ASSUME NEW k \in 1 .. half, k - 1 \in P PROVE k \in P
        <3>1. k \in 0 .. half /\ k # 0 /\ g[k - 1] \in S
            BY <1>0, <2>3
        <3>2. SiftDown(g[k - 1], base, half - k, n) \in S
            BY <1>2, <3>1
        <3> QED
            BY <2>1, <3>1, <3>2
    <2> HIDE DEF P
    <2>4. \A k \in 0 .. half : k \in P
        BY <1>0, <2>2, <2>3, UpTo
    <2> QED
        BY <2>4 DEF P
<1> QED
    BY <1>5, <1>6 DEF S, half

LEMMA HeapIsMade ==
    ASSUME NEW N \in Nat, NEW a, IsRow(a, N), HasKeys(a, N), NEW base \in Nat \ {0},
           NEW n \in Nat, n > 1, base + n - 1 <= N, NEW h, HeapsTo(h, a, base, n)
    PROVE  /\ h[n \div 2] \in Arranged(a, base, base + n - 1, N)
           /\ HeapFrom(KeysOf(h[n \div 2], base, n), n, 0)
<1> DEFINE half == n \div 2
<1>0. half \in Nat /\ half \in 0 .. half /\ half - half = 0 /\ 2 * half + 1 >= n /\ half <= n - 1
    OBVIOUS
<1>1. \A k \in 0 .. half : h[k] \in Arranged(a, base, base + n - 1, N)
    BY HeapLoop
<1>2. \A k \in 0 .. half : IsRow(h[k], N) /\ HasKeys(h[k], N)
    BY <1>1, ArrangedWhich, ArrangedKeys
<1>3. \A k \in 0 .. half : h[k] = IF k = 0 THEN a ELSE SiftDown(h[k - 1], base, half - k, n)
    BY DEF HeapsTo
<1> DEFINE P == { k \in 0 .. half : HeapFrom(KeysOf(h[k], base, n), n, half - k) }
<1>4. 0 \in P
    <2>1. \A p \in half .. n - 1, c \in 0 .. n - 1 : ~Child(p, c)
        BY <1>0 DEF Child
    <2>2. HeapFrom(KeysOf(h[0], base, n), n, half - 0)
        BY <1>0, <2>1 DEF HeapFrom
    <2> QED
        BY <1>0, <2>2
<1>5. ASSUME NEW k \in 1 .. half, k - 1 \in P PROVE k \in P
    <2>1. PICK from \in 0 .. n - 1 : from = half - k
        BY <1>0
    <2>2. PICK x : x = h[k - 1]
        OBVIOUS
    <2>3. k - 1 \in 0 .. half /\ half - (k - 1) = from + 1 /\ k \in 0 .. half /\ k # 0
        BY <1>0, <2>1
    <2>4. IsRow(x, N) /\ HasKeys(x, N) /\ HeapFrom(KeysOf(x, base, n), n, from + 1)
        BY <1>2, <1>5, <2>2, <2>3
    <2>5. h[k] = SiftDown(x, base, from, n)
        BY <1>3, <2>1, <2>2, <2>3
    <2>6. HeapFrom(KeysOf(h[k], base, n), n, from)
        BY <2>4, <2>5, SiftDownHeaps
    <2> QED
        BY <2>1, <2>3, <2>6
<1> HIDE DEF P
<1>6. \A k \in 0 .. half : k \in P
    BY <1>0, <1>4, <1>5, UpTo
<1>7. half \in P
    BY <1>0, <1>6
<1>8. HeapFrom(KeysOf(h[half], base, n), n, half - half)
    BY <1>7 DEF P
<1> QED
    BY <1>0, <1>1, <1>8

LEMMA TakeOneArranged ==
    ASSUME NEW N \in Nat, NEW x, IsRow(x, N), HasKeys(x, N), NEW base \in Nat \ {0},
           NEW n \in Nat, base + n - 1 <= N, NEW k \in 1 .. n - 1
    PROVE  /\ TakeOne(x, base, n, k) \in Arranged(x, base, base + n - 1, N)
           /\ TakeOne(x, base, n, k) \in
                 Arranged(Swap(x, base, base + n - k), base, base + (n - k) - 1, N)
<1> DEFINE m == n - k
           last == base + n - k
           hi == base + n - 1
           y == Swap(x, base, last)
           z == SiftDown(y, base, 0, m)
<1>1. /\ m \in Nat /\ 0 \in 0 .. m - 1 /\ base + m - 1 <= N /\ base + m - 1 <= hi
      /\ base \in 1 .. N /\ last \in 1 .. N /\ base \in base .. hi /\ last \in base .. hi
      /\ base \in Int /\ hi \in Int /\ base + m - 1 \in Int
    OBVIOUS
<1>2. TakeOne(x, base, n, k) = z
    BY DEF TakeOne
<1> HIDE DEF m, last, hi
<1>3. y \in Arranged(x, base, hi, N)
    BY <1>1, SwapArranged
<1>4. IsRow(y, N) /\ HasKeys(y, N)
    BY <1>3, ArrangedWhich, ArrangedKeys
<1> HIDE DEF y
<1>5. z \in Arranged(y, base, base + m - 1, N)
    BY <1>1, <1>4, SiftDownArranged
<1>6. z \in Arranged(y, base, hi, N)
    <2> HIDE DEF z
    <2>1. PICK top : top = base + m - 1
        OBVIOUS
    <2>2. z \in Arranged(y, base, top, N) /\ top \in Int /\ top <= hi
        BY <1>1, <1>5, <2>1
    <2> QED
        BY <1>1, <2>2, ArrangedWider
<1>7. z \in Arranged(x, base, hi, N)
    BY <1>3, <1>6, ArrangedAgain
<1> QED
    BY <1>2, <1>5, <1>7 DEF y, last, hi, m

LEMMA TakeLoop ==
    ASSUME NEW N \in Nat, NEW a, IsRow(a, N), HasKeys(a, N), NEW base \in Nat \ {0},
           NEW n \in Nat, n > 1, base + n - 1 <= N
    PROVE  /\ \E t : TakesTo(t, a, base, n)
           /\ \A t : TakesTo(t, a, base, n) =>
                 \A k \in 0 .. n - 1 : t[k] \in Arranged(a, base, base + n - 1, N)
<1> DEFINE S == Arranged(a, base, base + n - 1, N)
           turns == n - 1
           step == [kx \in (1 .. turns) \X S |-> TakeOne(kx[2], base, n, kx[1])]
<1>1. a \in S
    BY SelfArranged
<1>0. turns \in Nat
    OBVIOUS
<1>2. ASSUME NEW x \in S, NEW k \in 1 .. turns PROVE TakeOne(x, base, n, k) \in S
    <2>1. IsRow(x, N) /\ HasKeys(x, N)
        BY ArrangedWhich, ArrangedKeys
    <2>3. TakeOne(x, base, n, k) \in Arranged(x, base, base + n - 1, N)
        BY <2>1, TakeOneArranged
    <2> QED
        BY <2>3, ArrangedAgain
<1> HIDE DEF S, turns
<1>3. /\ step \in [(1 .. turns) \X S -> S]
      /\ \A k \in 1 .. turns, x \in S : step[<< k, x >>] = TakeOne(x, base, n, k)
    BY <1>2
<1> HIDE DEF step
<1>4. PICK f \in [0 .. turns -> S] : IsLoop(f, a, turns, step)
    BY <1>0, <1>1, <1>3, LoopExists
<1>5. TakesTo(f, a, base, n)
    <2>1. f = [k \in 0 .. turns |-> f[k]]
        OBVIOUS
    <2>2. ASSUME NEW k \in 0 .. turns
          PROVE  f[k] = IF k = 0 THEN a ELSE TakeOne(f[k - 1], base, n, k)
        <3>1. CASE k = 0
            BY <1>4, <3>1 DEF IsLoop
        <3>2. CASE k # 0
            <4>1. k \in 1 .. turns /\ f[k - 1] \in S
                BY <1>0, <3>2
            <4> QED
                BY <1>3, <1>4, <3>2, <4>1 DEF IsLoop
        <3> QED
            BY <3>1, <3>2
    <2> QED
        BY <2>1, <2>2 DEF TakesTo, turns
<1>6. ASSUME NEW g, TakesTo(g, a, base, n) PROVE \A k \in 0 .. turns : g[k] \in S
    <2> DEFINE P == { k \in 0 .. turns : g[k] \in S }
    <2>1. \A k \in 0 .. turns : g[k] = IF k = 0 THEN a ELSE TakeOne(g[k - 1], base, n, k)
        BY <1>6 DEF TakesTo, turns
    <2>2. 0 \in P
        BY <1>0, <1>1, <2>1
    <2>3. \A k \in 1 .. turns : k - 1 \in P => k \in P
        BY <1>0, <1>2, <2>1
    <2> HIDE DEF P
    <2>4. \A k \in 0 .. turns : k \in P
        BY <1>0, <2>2, <2>3, UpTo
    <2> QED
        BY <2>4 DEF P
<1> QED
    BY <1>5, <1>6 DEF S, turns

(* The first m elements are a heap, and those behind it are in order and   *)
(* none smaller than one of the heap.                                      *)
Halfway(t, base, n, m) ==
    /\ HeapFrom(KeysOf(t, base, m), m, 0)
    /\ SortedIn(t, base + m, base + n - 1)
    /\ \A p \in 0 .. m - 1, q \in m .. n - 1 : Key(t[base + p]) <= Key(t[base + q])

LEMMA TakeOneSorts ==
    ASSUME NEW N \in Nat, NEW x, IsRow(x, N), HasKeys(x, N), NEW base \in Nat \ {0},
           NEW n \in Nat, base + n - 1 <= N, NEW k \in 1 .. n - 1,
           Halfway(x, base, n, n - k + 1)
    PROVE  Halfway(TakeOne(x, base, n, k), base, n, n - k)
<1> DEFINE m == n - k
           last == base + n - k
           y == Swap(x, base, last)
           z == SiftDown(y, base, 0, m)
<1>1. /\ m \in 1 .. n - 1 /\ m + 1 \in 1 .. n /\ 0 \in 0 .. m - 1 /\ base + m - 1 <= N
      /\ base + (m + 1) - 1 <= N
      /\ last = base + m /\ base \in 1 .. N /\ last \in 1 .. N /\ n - k + 1 = m + 1
      /\ base \in Int /\ last \in Int /\ base <= last /\ m \in Nat
    OBVIOUS
<1>2. TakeOne(x, base, n, k) = z
    BY DEF TakeOne
<1>3. Halfway(x, base, n, m + 1)
    BY <1>1
<1> HIDE DEF m, last
<1>4. y \in Arranged(x, base, last, N)
    <2>1. base \in base .. last /\ last \in base .. last
        BY <1>1
    <2> QED
        BY <1>1, <2>1, SwapArranged
<1>5. IsRow(y, N) /\ HasKeys(y, N)
    BY <1>4, ArrangedWhich, ArrangedKeys
<1>6. y[base] = x[last] /\ y[last] = x[base] /\ \A i \in 1 .. N \ { base, last } : y[i] = x[i]
    BY <1>1, SwapRow
<1> HIDE DEF y
<1> DEFINE K == KeysOf(x, base, m + 1)
           L == KeysOf(y, base, m)
<1>7. /\ K \in [0 .. (m + 1) - 1 -> Int]
      /\ \A p \in 0 .. (m + 1) - 1 : base + p \in 1 .. N /\ K[p] = Key(x[base + p])
    <2>1. FitKeys(KeysOf(x, base, m + 1), x, base, m + 1, N)
        BY <1>1, KeysOfRow
    <2> QED
        BY <2>1 DEF FitKeys
<1>8. /\ L \in [0 .. m - 1 -> Int]
      /\ \A p \in 0 .. m - 1 : base + p \in 1 .. N /\ L[p] = Key(y[base + p])
    <2>1. FitKeys(KeysOf(y, base, m), y, base, m, N)
        BY <1>1, <1>5, KeysOfRow
    <2> QED
        BY <2>1 DEF FitKeys
<1>9. HeapFrom(K, m + 1, 0)
    BY <1>3 DEF Halfway
<1>10. \A p \in 0 .. m : K[p] <= K[0]
    <2>1. m + 1 \in Nat /\ \A p \in 0 .. m : p \in 0 .. (m + 1) - 1
        BY <1>1
    <2> HIDE DEF K
    <2>2. \A p \in 0 .. (m + 1) - 1 : K[p] <= K[0]
        BY <1>7, <1>9, <2>1, RootIsLargest
    <2> QED
        BY <2>1, <2>2
<1> HIDE DEF K, L
<1>11. \A p \in 1 .. m - 1 : L[p] = K[p]
    <2>1. \A p \in 1 .. m - 1 : /\ p \in 0 .. m - 1 /\ p \in 0 .. (m + 1) - 1
                                /\ base + p \in 1 .. N \ { base, last }
        BY <1>1
    <2> QED
        BY <1>6, <1>7, <1>8, <2>1
<1>12. HeapFrom(L, m, 0 + 1)
    <2> SUFFICES ASSUME NEW p \in 0 + 1 .. m - 1, NEW c \in 0 .. m - 1, Child(p, c)
                 PROVE  L[c] <= L[p]
        BY DEF HeapFrom
    <2>1. /\ p \in 1 .. m - 1 /\ c \in 1 .. m - 1
          /\ p \in 0 .. (m + 1) - 1 /\ c \in 0 .. (m + 1) - 1
        BY <1>1 DEF Child
    <2>2. K[c] <= K[p]
        BY <1>9, <2>1 DEF HeapFrom
    <2> QED
        BY <1>11, <2>1, <2>2
<1>13. /\ z \in Arranged(y, base, base + m - 1, N)
       /\ HeapFrom(KeysOf(z, base, m), m, 0)
    BY <1>1, <1>5, <1>12, SiftDownHeaps DEF L
<1> HIDE DEF z
<1>14. /\ \A i \in 1 .. N \ base .. base + m - 1 : z[i] = y[i]
       /\ \A i \in 1 .. N : i \in base .. base + m - 1 =>
             \E j \in base .. base + m - 1 : j \in 1 .. N /\ z[i] = y[j]
    <2>1. PICK top : top = base + m - 1
        OBVIOUS
    <2>2. z \in Arranged(y, base, top, N) /\ N \in Nat
        BY <1>13, <2>1
    <2>3. /\ \A i \in 1 .. N \ base .. top : z[i] = y[i]
          /\ \A i \in 1 .. N : i \in base .. top => \E j \in base .. top : j \in 1 .. N /\ z[i] = y[j]
        BY <2>2, ArrangedFrom
    <2> QED
        BY <2>1, <2>3
<1>15. z[last] = x[base]
    <2>1. last \in 1 .. N \ base .. base + m - 1
        BY <1>1
    <2> QED
        BY <1>6, <1>14, <2>1
<1>16. \A i \in last + 1 .. base + n - 1 : z[i] = x[i]
    <2>1. \A i \in last + 1 .. base + n - 1 :
             i \in 1 .. N \ base .. base + m - 1 /\ i \in 1 .. N \ { base, last }
        BY <1>1
    <2> QED
        BY <1>6, <1>14, <2>1
<1>17. /\ SortedIn(x, last + 1, base + n - 1)
       /\ \A p \in 0 .. m, q \in m + 1 .. n - 1 : Key(x[base + p]) <= Key(x[base + q])
    <2>1. base + (m + 1) = last + 1 /\ \A p \in 0 .. m : p \in 0 .. (m + 1) - 1
        BY <1>1
    <2> QED
        BY <1>3, <2>1 DEF Halfway
<1>18. \A i \in last + 1 .. base + n - 1, p \in 0 .. m : Key(x[base + p]) <= Key(x[i])
    <2>1. \A i \in last + 1 .. base + n - 1 : i - base \in m + 1 .. n - 1 /\ base + (i - base) = i
        BY <1>1
    <2> QED
        BY <1>17, <2>1
<1>19. Key(x[base]) <= Key(x[base])
    <2>1. Key(x[base]) \in Int
        BY <1>1 DEF HasKeys
    <2> QED
        BY <2>1
<1>20. SortedIn(z, last, base + n - 1)
    <2> SUFFICES ASSUME NEW i \in last .. base + n - 1, NEW j \in last .. base + n - 1, i <= j
                 PROVE  Key(z[i]) <= Key(z[j])
        BY DEF SortedIn
    <2>1. CASE i = last /\ j = last
        BY <1>15, <1>19, <2>1
    <2>2. CASE i = last /\ j # last
        <3>1. j \in last + 1 .. base + n - 1 /\ 0 \in 0 .. m /\ base + 0 = base
            BY <1>1, <2>2
        <3>2. Key(x[base + 0]) <= Key(x[j])
            BY <1>18, <3>1
        <3> QED
            BY <1>15, <1>16, <2>2, <3>1, <3>2
    <2>3. CASE i # last
        <3>1. i \in last + 1 .. base + n - 1 /\ j \in last + 1 .. base + n - 1
            BY <1>1, <2>3
        <3> QED
            BY <1>16, <1>17, <3>1 DEF SortedIn
    <2> QED
        BY <2>1, <2>2, <2>3
<1>21. \A p \in 0 .. m - 1 : \E r \in 0 .. m : z[base + p] = x[base + r]
    <2> SUFFICES ASSUME NEW p \in 0 .. m - 1 PROVE \E r \in 0 .. m : z[base + p] = x[base + r]
        OBVIOUS
    <2>1. base + p \in 1 .. N /\ base + p \in base .. base + m - 1
        BY <1>1
    <2>2. PICK j \in base .. base + m - 1 : j \in 1 .. N /\ z[base + p] = y[j]
        BY <1>14, <2>1
    <2>3. CASE j = base
        <3>1. m \in 0 .. m /\ last = base + m
            BY <1>1
        <3> QED
            BY <1>6, <2>2, <2>3, <3>1
    <2>4. CASE j # base
        <3>1. j \in 1 .. N \ { base, last } /\ j - base \in 0 .. m /\ base + (j - base) = j
            BY <1>1, <2>2, <2>4
        <3> QED
            BY <1>6, <2>2, <3>1
    <2> QED
        BY <2>3, <2>4
<1>22. ASSUME NEW p \in 0 .. m - 1, NEW q \in m .. n - 1
       PROVE  Key(z[base + p]) <= Key(z[base + q])
    <2>1. PICK r \in 0 .. m : z[base + p] = x[base + r]
        BY <1>21
    <2>2. CASE q = m
        <3>1. base + q = last /\ r \in 0 .. (m + 1) - 1 /\ 0 \in 0 .. (m + 1) - 1 /\ base + 0 = base
            BY <1>1, <2>2
        <3>2. K[r] = Key(x[base + r]) /\ K[0] = Key(x[base])
            BY <1>7, <3>1
        <3> QED
            BY <1>10, <1>15, <2>1, <3>1, <3>2
    <2>3. CASE q # m
        <3>1. base + q \in last + 1 .. base + n - 1
            BY <1>1, <2>3
        <3> QED
            BY <1>16, <1>18, <2>1, <3>1
    <2> QED
        BY <2>2, <2>3
<1> QED
    BY <1>1, <1>2, <1>13, <1>20, <1>22 DEF Halfway, m

LEMMA HeapSorts ==
    ASSUME NEW N \in Nat, NEW a, IsRow(a, N), HasKeys(a, N), NEW base \in Nat \ {0},
           NEW n \in Nat, n > 1, base + n - 1 <= N
    PROVE  /\ HeapSort(a, base, n) \in Arranged(a, base, base + n - 1, N)
           /\ SortedIn(HeapSort(a, base, n), base, base + n - 1)
<1>1. \E h : HeapsTo(h, a, base, n)
    BY HeapLoop
<1>2. \A h : HeapsTo(h, a, base, n) =>
         /\ h[n \div 2] \in Arranged(a, base, base + n - 1, N)
         /\ HeapFrom(KeysOf(h[n \div 2], base, n), n, 0)
    BY HeapIsMade
<1>3. \A x \in Arranged(a, base, base + n - 1, N) : \E t : TakesTo(t, x, base, n)
    <2> SUFFICES ASSUME NEW x \in Arranged(a, base, base + n - 1, N)
                 PROVE  \E t : TakesTo(t, x, base, n)
        OBVIOUS
    <2>1. IsRow(x, N) /\ HasKeys(x, N)
        BY ArrangedWhich, ArrangedKeys
    <2> QED
        BY <2>1, TakeLoop
<1>4. PICK h, t : /\ HeapsTo(h, a, base, n)
                  /\ TakesTo(t, h[n \div 2], base, n)
                  /\ HeapSort(a, base, n) = t[n - 1]
    <2>1. \A h : HeapsTo(h, a, base, n) => \E t : TakesTo(t, h[n \div 2], base, n)
        BY <1>2, <1>3
    <2> QED
        BY <1>1, <2>1, HeapSortIs
<1>5. PICK first : first = h[n \div 2]
    OBVIOUS
<1>6. /\ first \in Arranged(a, base, base + n - 1, N)
      /\ HeapFrom(KeysOf(first, base, n), n, 0)
      /\ TakesTo(t, first, base, n)
    BY <1>2, <1>4, <1>5
<1>7. IsRow(first, N) /\ HasKeys(first, N)
    BY <1>6, ArrangedWhich, ArrangedKeys
<1>8. \A k \in 0 .. n - 1 : t[k] \in Arranged(first, base, base + n - 1, N)
    BY <1>6, <1>7, TakeLoop
<1>9. \A k \in 0 .. n - 1 : IsRow(t[k], N) /\ HasKeys(t[k], N)
    BY <1>7, <1>8, ArrangedWhich, ArrangedKeys
<1>10. \A k \in 0 .. n - 1 : t[k] = IF k = 0 THEN first ELSE TakeOne(t[k - 1], base, n, k)
    BY <1>6 DEF TakesTo
<1> DEFINE P == { k \in 0 .. n - 1 : Halfway(t[k], base, n, n - k) }
<1>11. 0 \in P
    <2>1. 0 \in 0 .. n - 1 /\ t[0] = first /\ n - 0 = n
        BY <1>10
    <2>2. SortedIn(first, base + n, base + n - 1) /\ \A q \in n .. n - 1 : FALSE
        BY DEF SortedIn
    <2>3. Halfway(first, base, n, n)
        BY <1>6, <2>2 DEF Halfway
    <2> QED
        BY <2>1, <2>3
<1>12. ASSUME NEW k \in 1 .. n - 1, k - 1 \in P PROVE k \in P
    <2>1. PICK x : x = t[k - 1]
        OBVIOUS
    <2>2. k - 1 \in 0 .. n - 1 /\ k \in 0 .. n - 1 /\ k # 0 /\ n - (k - 1) = n - k + 1
        OBVIOUS
    <2>3. IsRow(x, N) /\ HasKeys(x, N) /\ Halfway(x, base, n, n - k + 1)
        BY <1>9, <1>12, <2>1, <2>2
    <2>4. Halfway(TakeOne(x, base, n, k), base, n, n - k)
        BY <2>3, TakeOneSorts
    <2> QED
        BY <1>10, <2>1, <2>2, <2>4
<1>13. n - 1 \in Nat /\ n - 1 \in 0 .. n - 1 /\ n - (n - 1) = 1
    OBVIOUS
<1> HIDE DEF P
<1>14. n - 1 \in P
    <2>1. \A k \in 0 .. n - 1 : k \in P
        BY <1>11, <1>12, <1>13, UpTo
    <2> QED
        BY <1>13, <2>1
<1>15. PICK s : s = t[n - 1]
    OBVIOUS
<1>16. Halfway(s, base, n, 1) /\ HasKeys(s, N) /\ s \in Arranged(first, base, base + n - 1, N)
    BY <1>8, <1>9, <1>13, <1>14, <1>15 DEF P
<1>17. SortedIn(s, base, base + n - 1)
    <2> SUFFICES ASSUME NEW i \in base .. base + n - 1, NEW j \in base .. base + n - 1, i <= j
                 PROVE  Key(s[i]) <= Key(s[j])
        BY DEF SortedIn
    <2>1. CASE i # base
        <3>1. i \in base + 1 .. base + n - 1 /\ j \in base + 1 .. base + n - 1
            BY <2>1
        <3> QED
            BY <1>16, <3>1 DEF Halfway, SortedIn
    <2>2. CASE i = base /\ j = base
        <3>1. Key(s[base]) \in Int
            BY <1>16 DEF HasKeys
        <3> QED
            BY <2>2, <3>1
    <2>3. CASE i = base /\ j # base
        <3>1. 0 \in 0 .. 1 - 1 /\ j - base \in 1 .. n - 1 /\ base + 0 = base /\ base + (j - base) = j
            BY <2>3
        <3>2. Key(s[base + 0]) <= Key(s[base + (j - base)])
            BY <1>16, <3>1 DEF Halfway
        <3> QED
            BY <2>3, <3>1, <3>2
    <2> QED
        BY <2>1, <2>2, <2>3
<1>18. s \in Arranged(a, base, base + n - 1, N)
    BY <1>6, <1>16, ArrangedAgain
<1> QED
    BY <1>4, <1>15, <1>17, <1>18

-----------------------------------------------------------------------------
(* Two elements change places.                                             *)
Swapped(b, a, i, j, n) ==
    /\ b[i] = a[j] /\ b[j] = a[i]
    /\ \A k \in 1 .. n \ { i, j } : b[k] = a[k]

LEMMA SwapSays ==
    ASSUME NEW n \in Nat, NEW a, IsRow(a, n), NEW i \in 1 .. n, NEW j \in 1 .. n
    PROVE  Swapped(Swap(a, i, j), a, i, j, n)
<1>1. /\ Swap(a, i, j)[i] = a[j] /\ Swap(a, i, j)[j] = a[i]
      /\ \A k \in 1 .. n \ { i, j } : Swap(a, i, j)[k] = a[k]
    BY SwapRow
<1> QED
    BY <1>1 DEF Swapped

(* The partition: equal to the pivot, smaller, not looked at yet, larger,  *)
(* and again equal.                                                        *)
Parted(a, base, top, lt, i, j, gt) ==
    /\ base \in Int /\ top \in Int /\ lt \in Int /\ i \in Int /\ j \in Int /\ gt \in Int
    /\ base < lt /\ lt <= i /\ i <= j /\ j <= gt /\ gt <= top
    /\ \A k \in base .. lt - 1 : Key(a[k]) = Key(a[base])
    /\ \A k \in lt .. i - 1 : Key(a[k]) < Key(a[base])
    /\ \A k \in j .. gt - 1 : Key(a[k]) > Key(a[base])
    /\ \A k \in gt .. top - 1 : Key(a[k]) = Key(a[base])

LEMMA PartUpEqual ==
    ASSUME NEW N \in Nat, NEW a, IsRow(a, N), HasKeys(a, N),
           NEW base \in 1 .. N, NEW top \in Int, top - 1 <= N, NEW lt, NEW i, NEW j, NEW gt,
           Parted(a, base, top, lt, i, j, gt), i < j, Key(a[i]) = Key(a[base])
    PROVE  Parted(Swap(a, lt, i), base, top, lt + 1, i + 1, j, gt)
<1>1. PICK b : b = Swap(a, lt, i)
    OBVIOUS
<1>2. /\ lt \in Int /\ i \in Int /\ j \in Int /\ gt \in Int /\ base \in Int
      /\ base < lt /\ lt <= i /\ i <= j /\ j <= gt /\ gt <= top
      /\ lt \in 1 .. N /\ i \in 1 .. N
    BY DEF Parted
<1>3. /\ b[lt] = a[i] /\ b[i] = a[lt]
      /\ \A k \in 1 .. N \ { lt, i } : b[k] = a[k]
    <2>1. Swapped(Swap(a, lt, i), a, lt, i, N)
        BY <1>2, SwapSays
    <2> QED
        BY <1>1, <2>1 DEF Swapped
<1>4. b[base] = a[base]
    BY <1>2, <1>3
<1>5. \A k \in base .. lt : Key(b[k]) = Key(b[base])
    <2> SUFFICES ASSUME NEW k \in base .. lt PROVE Key(b[k]) = Key(b[base])
        OBVIOUS
    <2>1. CASE k = lt
        BY <1>3, <1>4, <2>1
    <2>2. CASE k # lt
        <3>1. k \in base .. lt - 1 /\ k \in 1 .. N \ { lt, i }
            BY <1>2, <2>2
        <3> QED
            BY <1>3, <1>4, <3>1 DEF Parted
    <2> QED
        BY <2>1, <2>2
<1>6. \A k \in lt + 1 .. i : Key(b[k]) < Key(b[base])
    <2> SUFFICES ASSUME NEW k \in lt + 1 .. i PROVE Key(b[k]) < Key(b[base])
        OBVIOUS
    <2>1. CASE k = i
        <3>1. lt \in lt .. i - 1
            BY <1>2, <2>1
        <3> QED
            BY <1>3, <1>4, <2>1, <3>1 DEF Parted
    <2>2. CASE k # i
        <3>1. k \in lt .. i - 1 /\ k \in 1 .. N \ { lt, i }
            BY <1>2, <2>2
        <3> QED
            BY <1>3, <1>4, <3>1 DEF Parted
    <2> QED
        BY <2>1, <2>2
<1>7. /\ \A k \in j .. gt - 1 : b[k] = a[k]
      /\ \A k \in gt .. top - 1 : b[k] = a[k]
    <2>1. /\ \A k \in j .. gt - 1 : k \in 1 .. N \ { lt, i }
          /\ \A k \in gt .. top - 1 : k \in 1 .. N \ { lt, i }
        BY <1>2
    <2> QED
        BY <1>3, <2>1
<1>8. /\ \A k \in j .. gt - 1 : Key(b[k]) > Key(b[base])
      /\ \A k \in gt .. top - 1 : Key(b[k]) = Key(b[base])
    BY <1>4, <1>7 DEF Parted
<1>9. (lt + 1) - 1 = lt /\ (i + 1) - 1 = i /\ base < lt + 1 /\ lt + 1 <= i + 1 /\ i + 1 <= j
      /\ lt + 1 \in Int /\ i + 1 \in Int
    BY <1>2
<1>10. Parted(b, base, top, lt + 1, i + 1, j, gt)
    BY <1>2, <1>5, <1>6, <1>8, <1>9 DEF Parted
<1> QED
    BY <1>1, <1>10

LEMMA PartUpLess ==
    ASSUME NEW N \in Nat, NEW a,
           NEW base, NEW top, NEW lt, NEW i, NEW j, NEW gt,
           Parted(a, base, top, lt, i, j, gt), i < j, Key(a[i]) < Key(a[base])
    PROVE  Parted(a, base, top, lt, i + 1, j, gt)
<1>1. lt \in Int /\ i \in Int /\ j \in Int /\ lt <= i
    BY DEF Parted
<1>2. \A k \in lt .. (i + 1) - 1 : k = i \/ k \in lt .. i - 1
    BY <1>1
<1>3. \A k \in lt .. (i + 1) - 1 : Key(a[k]) < Key(a[base])
    BY <1>2 DEF Parted
<1>4. i + 1 \in Int /\ lt <= i + 1 /\ i + 1 <= j
    BY <1>1
<1> QED
    BY <1>3, <1>4 DEF Parted

LEMMA PartDownEqual ==
    ASSUME NEW N \in Nat, NEW a, IsRow(a, N), HasKeys(a, N),
           NEW base \in 1 .. N, NEW top \in Int, top - 1 <= N, NEW lt, NEW i, NEW j, NEW gt,
           Parted(a, base, top, lt, i, j, gt), i < j - 1, Key(a[j - 1]) = Key(a[base])
    PROVE  /\ Parted(Swap(a, gt - 1, j - 1), base, top, lt, i, j - 1, gt - 1)
           /\ Swap(a, gt - 1, j - 1)[i] = a[i]
           /\ Swap(a, gt - 1, j - 1)[base] = a[base]
<1>0. PICK g, h : g = gt - 1 /\ h = j - 1
    OBVIOUS
<1>1. PICK b : b = Swap(a, g, h)
    OBVIOUS
<1>2. /\ lt \in Int /\ i \in Int /\ h \in Int /\ g \in Int /\ base \in Int
      /\ base < lt /\ lt <= i /\ i < h /\ h <= g /\ g < top
      /\ g \in 1 .. N /\ h \in 1 .. N /\ i \in 1 .. N
      /\ gt = g + 1 /\ j = h + 1
    BY <1>0 DEF Parted
<1>3. /\ b[g] = a[h] /\ b[h] = a[g]
      /\ \A k \in 1 .. N \ { g, h } : b[k] = a[k]
    <2>1. Swapped(Swap(a, g, h), a, g, h, N)
        BY <1>2, SwapSays
    <2> QED
        BY <1>1, <2>1 DEF Swapped
<1>4. b[base] = a[base] /\ b[i] = a[i]
    BY <1>2, <1>3
<1>5. \A k \in g .. top - 1 : Key(b[k]) = Key(b[base])
    <2> SUFFICES ASSUME NEW k \in g .. top - 1 PROVE Key(b[k]) = Key(b[base])
        OBVIOUS
    <2>1. CASE k = g
        BY <1>0, <1>3, <1>4, <2>1
    <2>2. CASE k # g
        <3>1. k \in gt .. top - 1 /\ k \in 1 .. N \ { g, h }
            BY <1>2, <2>2
        <3> QED
            BY <1>3, <1>4, <3>1 DEF Parted
    <2> QED
        BY <2>1, <2>2
<1>6. \A k \in h .. g - 1 : Key(b[k]) > Key(b[base])
    <2> SUFFICES ASSUME NEW k \in h .. g - 1 PROVE Key(b[k]) > Key(b[base])
        OBVIOUS
    <2>1. CASE k = h
        <3>1. g \in j .. gt - 1
            BY <1>2, <2>1
        <3> QED
            BY <1>3, <1>4, <2>1, <3>1 DEF Parted
    <2>2. CASE k # h
        <3>1. k \in j .. gt - 1 /\ k \in 1 .. N \ { g, h }
            BY <1>2, <2>2
        <3> QED
            BY <1>3, <1>4, <3>1 DEF Parted
    <2> QED
        BY <2>1, <2>2
<1>7. /\ \A k \in base .. lt - 1 : b[k] = a[k]
      /\ \A k \in lt .. i - 1 : b[k] = a[k]
    <2>1. /\ \A k \in base .. lt - 1 : k \in 1 .. N \ { g, h }
          /\ \A k \in lt .. i - 1 : k \in 1 .. N \ { g, h }
        BY <1>2
    <2> QED
        BY <1>3, <2>1
<1>8. /\ \A k \in base .. lt - 1 : Key(b[k]) = Key(b[base])
      /\ \A k \in lt .. i - 1 : Key(b[k]) < Key(b[base])
    BY <1>4, <1>7 DEF Parted
<1>9. i <= h /\ g <= top
    BY <1>2
<1>10. Parted(b, base, top, lt, i, h, g)
    BY <1>2, <1>5, <1>6, <1>8, <1>9 DEF Parted
<1> QED
    BY <1>0, <1>1, <1>4, <1>10

LEMMA PartDownMore ==
    ASSUME NEW N \in Nat, NEW a,
           NEW base, NEW top, NEW lt, NEW i, NEW j, NEW gt,
           Parted(a, base, top, lt, i, j, gt), i <= j - 1, Key(a[j - 1]) > Key(a[base])
    PROVE  Parted(a, base, top, lt, i, j - 1, gt)
<1>1. gt \in Int /\ i \in Int /\ j \in Int /\ j <= gt
    BY DEF Parted
<1>2. \A k \in j - 1 .. gt - 1 : k = j - 1 \/ k \in j .. gt - 1
    BY <1>1
<1>3. \A k \in j - 1 .. gt - 1 : Key(a[k]) > Key(a[base])
    BY <1>2 DEF Parted
<1>4. j - 1 \in Int /\ j - 1 <= gt
    BY <1>1
<1> QED
    BY <1>3, <1>4 DEF Parted

LEMMA PartExchange ==
    ASSUME NEW N \in Nat, NEW a, IsRow(a, N), HasKeys(a, N),
           NEW base \in 1 .. N, NEW top \in Int, top - 1 <= N, NEW lt, NEW i, NEW j, NEW gt,
           Parted(a, base, top, lt, i, j, gt), i < j - 1,
           Key(a[j - 1]) < Key(a[base]), Key(a[i]) > Key(a[base])
    PROVE  Parted(Swap(a, i, j - 1), base, top, lt, i + 1, j - 1, gt)
<1>0. PICK h : h = j - 1
    OBVIOUS
<1>1. PICK b : b = Swap(a, i, h)
    OBVIOUS
<1>2. /\ lt \in Int /\ i \in Int /\ h \in Int /\ gt \in Int /\ base \in Int
      /\ base < lt /\ lt <= i /\ i < h /\ h < gt /\ gt <= top
      /\ h \in 1 .. N /\ i \in 1 .. N /\ j = h + 1
    BY <1>0 DEF Parted
<1>3. /\ b[i] = a[h] /\ b[h] = a[i]
      /\ \A k \in 1 .. N \ { i, h } : b[k] = a[k]
    <2>1. Swapped(Swap(a, i, h), a, i, h, N)
        BY <1>2, SwapSays
    <2> QED
        BY <1>1, <2>1 DEF Swapped
<1>4. b[base] = a[base]
    BY <1>2, <1>3
<1>5. \A k \in lt .. (i + 1) - 1 : Key(b[k]) < Key(b[base])
    <2> SUFFICES ASSUME NEW k \in lt .. (i + 1) - 1 PROVE Key(b[k]) < Key(b[base])
        OBVIOUS
    <2>1. CASE k = i
        BY <1>0, <1>3, <1>4, <2>1
    <2>2. CASE k # i
        <3>1. k \in lt .. i - 1 /\ k \in 1 .. N \ { i, h }
            BY <1>2, <2>2
        <3> QED
            BY <1>3, <1>4, <3>1 DEF Parted
    <2> QED
        BY <2>1, <2>2
<1>6. \A k \in h .. gt - 1 : Key(b[k]) > Key(b[base])
    <2> SUFFICES ASSUME NEW k \in h .. gt - 1 PROVE Key(b[k]) > Key(b[base])
        OBVIOUS
    <2>1. CASE k = h
        BY <1>3, <1>4, <2>1
    <2>2. CASE k # h
        <3>1. k \in j .. gt - 1 /\ k \in 1 .. N \ { i, h }
            BY <1>2, <2>2
        <3> QED
            BY <1>3, <1>4, <3>1 DEF Parted
    <2> QED
        BY <2>1, <2>2
<1>7. /\ \A k \in base .. lt - 1 : b[k] = a[k]
      /\ \A k \in gt .. top - 1 : b[k] = a[k]
    <2>1. /\ \A k \in base .. lt - 1 : k \in 1 .. N \ { i, h }
          /\ \A k \in gt .. top - 1 : k \in 1 .. N \ { i, h }
        BY <1>2
    <2> QED
        BY <1>3, <2>1
<1>8. /\ \A k \in base .. lt - 1 : Key(b[k]) = Key(b[base])
      /\ \A k \in gt .. top - 1 : Key(b[k]) = Key(b[base])
    BY <1>4, <1>7 DEF Parted
<1>9. i + 1 \in Int /\ lt <= i + 1 /\ i + 1 <= h /\ h <= gt
    BY <1>2
<1>10. Parted(b, base, top, lt, i + 1, h, gt)
    BY <1>2, <1>5, <1>6, <1>8, <1>9 DEF Parted
<1> QED
    BY <1>0, <1>1, <1>10

LEMMA PartMeets ==
    ASSUME NEW a, NEW base, NEW top, NEW lt, NEW i, NEW j, NEW gt,
           Parted(a, base, top, lt, i, j, gt), i >= j - 1,
           i < j => Key(a[i]) > Key(a[base])
    PROVE  Parted(a, base, top, lt, i, i, gt)
<1>1. gt \in Int /\ i \in Int /\ j \in Int /\ i <= j /\ j <= gt
    BY DEF Parted
<1>2. \A k \in i .. gt - 1 : (k = i /\ i < j) \/ k \in j .. gt - 1
    BY <1>1
<1>3. \A k \in i .. gt - 1 : Key(a[k]) > Key(a[base])
    BY <1>2 DEF Parted
<1>4. i <= gt /\ i <= i
    BY <1>1
<1> QED
    BY <1>3, <1>4 DEF Parted

-----------------------------------------------------------------------------
(* The smaller one of two neighbouring blocks is exchanged with as many    *)
(* elements at the far end of the other: the blocks have changed places.   *)
Shorter(x, y) == IF x > y THEN y ELSE x

Exchanged(b, a, s, t, e, n) ==
    /\ IsRow(b, n)
    /\ b \in Arranged(a, s, e - 1, n)
    /\ \A k \in s .. s + (e - t) - 1 : \E l \in t .. e - 1 : b[k] = a[l]
    /\ \A k \in s + (e - t) .. e - 1 : \E l \in s .. t - 1 : b[k] = a[l]
    /\ \A k \in 1 .. n \ s .. e - 1 : b[k] = a[k]

LEMMA BlocksTurn ==
    ASSUME NEW N \in Nat, NEW a, IsRow(a, N), NEW s \in Nat \ {0}, NEW t \in Int, NEW e \in Int,
           s <= t, t <= e, e - 1 <= N,
           NEW m, m = Shorter(t - s, e - t)
    PROVE  Exchanged(SwapBlock(a, s, e - m, m), a, s, t, e, N)
<1>1. /\ m \in Nat /\ m <= t - s /\ m <= e - t /\ (m = t - s \/ m = e - t)
      /\ s + m <= e - m /\ e - m \in Int
    BY DEF Shorter
<1>2. PICK b : b = SwapBlock(a, s, e - m, m)
    OBVIOUS
<1>3. DOMAIN a = 1 .. N
    BY DEF IsRow
<1>4. b = [k \in 1 .. N |-> CASE k \in s .. s + m - 1 -> a[k - s + (e - m)]
                              [] k \in e - m .. (e - m) + m - 1 -> a[k - (e - m) + s]
                              [] OTHER -> a[k]]
    BY <1>2, <1>3 DEF SwapBlock
<1>5. \A k \in s .. s + m - 1 : b[k] = a[k - s + (e - m)]
    <2>1. \A k \in s .. s + m - 1 : k \in 1 .. N /\ ~(k \in e - m .. (e - m) + m - 1)
        BY <1>1
    <2> QED
        BY <1>4, <2>1
<1>6. \A k \in e - m .. e - 1 : b[k] = a[k - (e - m) + s]
    <2>1. \A k \in e - m .. e - 1 : k \in 1 .. N /\ k \notin s .. s + m - 1 /\ k \in e - m .. (e - m) + m - 1
        BY <1>1
    <2> QED
        BY <1>4, <2>1
<1>7. \A k \in 1 .. N : k \notin s .. s + m - 1 /\ k \notin e - m .. e - 1 => b[k] = a[k]
    <2>1. e - 1 = (e - m) + m - 1
        BY <1>1
    <2> SUFFICES ASSUME NEW k \in 1 .. N, k \notin s .. s + m - 1, k \notin e - m .. e - 1
                 PROVE  b[k] = a[k]
        OBVIOUS
    <2>2. k \notin e - m .. (e - m) + m - 1
        BY <2>1
    <2> QED
        BY <1>4, <2>2
<1>8. IsRow(b, N)
    BY <1>4 DEF IsRow
<1>9. b \in Arranged(a, s, e - 1, N)
    <2>1. CASE s \in 1 .. N
        <3>1. PICK hi, j : hi = e - 1 /\ j = e - m
            OBVIOUS
        <3>2. hi \in Int /\ hi <= N /\ s \in Int /\ j \in Int /\ s <= s /\ s + m <= j /\ j + m - 1 <= hi
            BY <1>1, <3>1
        <3>3. SwapBlock(a, s, j, m) \in Arranged(a, s, hi, N)
            BY <1>1, <2>1, <3>2, SwapBlockArranged
        <3> QED
            BY <1>2, <3>1, <3>3
    <2>2. CASE s \notin 1 .. N
        <3>1. m = 0 /\ \A k \in 1 .. N : b[k] = a[k]
            <4>1. m = 0
                BY <1>1, <2>2
            <4>2. \A k \in 1 .. N : k \notin s .. s + m - 1 /\ k \notin e - m .. e - 1
                BY <2>2, <4>1
            <4> QED
                BY <1>7, <4>1, <4>2
        <3>2. b = a
            BY <1>8, <3>1 DEF IsRow
        <3> QED
            BY <3>2, SelfArranged
    <2> QED
        BY <2>1, <2>2
<1>10. ASSUME NEW k \in s .. s + (e - t) - 1 PROVE \E l \in t .. e - 1 : b[k] = a[l]
    <2>1. CASE k \in s .. s + m - 1
        <3>1. k - s + (e - m) \in t .. e - 1
            BY <1>1, <2>1
        <3> QED
            BY <1>5, <2>1, <3>1
    <2>2. CASE k \notin s .. s + m - 1
        <3>1. m = t - s /\ k \in t .. e - 1 /\ k \in 1 .. N /\ k \notin e - m .. e - 1
            BY <1>1, <2>2
        <3> QED
            BY <1>7, <2>2, <3>1
    <2> QED
        BY <2>1, <2>2
<1>11. ASSUME NEW k \in s + (e - t) .. e - 1 PROVE \E l \in s .. t - 1 : b[k] = a[l]
    <2>1. CASE k \in e - m .. e - 1
        <3>1. k - (e - m) + s \in s .. t - 1
            BY <1>1, <2>1
        <3> QED
            BY <1>6, <2>1, <3>1
    <2>2. CASE k \notin e - m .. e - 1
        <3>1. m = e - t /\ k \in s .. t - 1 /\ k \in 1 .. N /\ k \notin s .. s + m - 1
            BY <1>1, <2>2
        <3> QED
            BY <1>7, <2>2, <3>1
    <2> QED
        BY <2>1, <2>2
<1>12. ASSUME NEW k \in 1 .. N \ s .. e - 1 PROVE b[k] = a[k]
    <2>1. k \notin s .. s + m - 1 /\ k \notin e - m .. e - 1
        BY <1>1
    <2> QED
        BY <1>7, <2>1
<1> QED
    BY <1>2, <1>8, <1>9, <1>10, <1>11, <1>12 DEF Exchanged

-----------------------------------------------------------------------------
(* The smaller are below, the larger above, the equal between them.        *)
GatheredTo(g, a, base, top, lt, i, gt, N) ==
    /\ g \in Arranged(a, base, top - 1, N)
    /\ \A k \in base .. base + (i - lt) - 1 : Key(g[k]) < Key(a[base])
    /\ \A k \in base + (i - lt) .. top - (gt - i) - 1 : Key(g[k]) = Key(a[base])
    /\ \A k \in top - (gt - i) .. top - 1 : Key(g[k]) > Key(a[base])

LEMMA GatherParts ==
    ASSUME NEW N \in Nat, NEW a, IsRow(a, N), NEW base \in 1 .. N, NEW top, NEW lt, NEW i, NEW gt,
           Parted(a, base, top, lt, i, i, gt), top - 1 <= N,
           NEW low, low = Shorter(lt - base, i - lt),
           NEW high, high = Shorter(top - gt, gt - i),
           NEW g, g = SwapBlock(SwapBlock(a, base, i - low, low), i, top - high, high)
    PROVE  GatheredTo(g, a, base, top, lt, i, gt, N)
<1>1. /\ base \in Int /\ top \in Int /\ lt \in Int /\ i \in Int /\ gt \in Int
      /\ base < lt /\ lt <= i /\ i <= gt /\ gt <= top
    BY DEF Parted
<1>2. PICK b : b = SwapBlock(a, base, i - low, low)
    OBVIOUS
<1>3. /\ IsRow(b, N)
      /\ b \in Arranged(a, base, i - 1, N)
      /\ \A k \in base .. base + (i - lt) - 1 : \E l \in lt .. i - 1 : b[k] = a[l]
      /\ \A k \in base + (i - lt) .. i - 1 : \E l \in base .. lt - 1 : b[k] = a[l]
      /\ \A k \in 1 .. N \ base .. i - 1 : b[k] = a[k]
    <2>1. base \in Nat \ {0} /\ base <= lt /\ i - 1 <= N
        BY <1>1
    <2>2. Exchanged(SwapBlock(a, base, i - low, low), a, base, lt, i, N)
        BY <1>1, <2>1, BlocksTurn
    <2> QED
        BY <1>2, <2>2 DEF Exchanged
<1>4. g = SwapBlock(b, i, top - high, high)
    BY <1>2
<1>5. /\ g \in Arranged(b, i, top - 1, N)
      /\ \A k \in i .. i + (top - gt) - 1 : \E l \in gt .. top - 1 : g[k] = b[l]
      /\ \A k \in i + (top - gt) .. top - 1 : \E l \in i .. gt - 1 : g[k] = b[l]
      /\ \A k \in 1 .. N \ i .. top - 1 : g[k] = b[k]
    <2>1. i \in Nat \ {0} /\ high = Shorter(gt - i, top - gt)
        BY <1>1 DEF Shorter
    <2>2. Exchanged(SwapBlock(b, i, top - high, high), b, i, gt, top, N)
        BY <1>1, <1>3, <2>1, BlocksTurn
    <2> QED
        BY <1>4, <2>2 DEF Exchanged
<1>6. /\ \A k \in base .. i - 1 : k \in 1 .. N \ i .. top - 1
      /\ \A l \in i .. top - 1 : l \in 1 .. N \ base .. i - 1
      /\ \A l \in gt .. top - 1 : l \in i .. top - 1
      /\ \A l \in i .. gt - 1 : l \in i .. top - 1
    BY <1>1
<1>7. \A k \in base .. base + (i - lt) - 1 : Key(g[k]) < Key(a[base])
    <2> SUFFICES ASSUME NEW k \in base .. base + (i - lt) - 1 PROVE Key(g[k]) < Key(a[base])
        OBVIOUS
    <2>1. k \in base .. i - 1
        BY <1>1
    <2>2. PICK l \in lt .. i - 1 : b[k] = a[l]
        BY <1>3
    <2> QED
        BY <1>5, <1>6, <2>1, <2>2 DEF Parted
<1>8. ASSUME NEW k \in base + (i - lt) .. top - (gt - i) - 1 PROVE Key(g[k]) = Key(a[base])
    <2>1. CASE k \in base .. i - 1
        <3>1. k \in base + (i - lt) .. i - 1
            BY <1>1, <2>1
        <3>2. PICK l \in base .. lt - 1 : b[k] = a[l]
            BY <1>3, <3>1
        <3> QED
            BY <1>5, <1>6, <2>1, <3>2 DEF Parted
    <2>2. CASE k \notin base .. i - 1
        <3>1. k \in i .. i + (top - gt) - 1
            BY <1>1, <2>2
        <3>2. PICK l \in gt .. top - 1 : g[k] = b[l]
            BY <1>5, <3>1
        <3> QED
            BY <1>3, <1>6, <3>2 DEF Parted
    <2> QED
        BY <2>1, <2>2
<1>9. ASSUME NEW k \in top - (gt - i) .. top - 1 PROVE Key(g[k]) > Key(a[base])
    <2>1. k \in i + (top - gt) .. top - 1
        BY <1>1
    <2>2. PICK l \in i .. gt - 1 : g[k] = b[l]
        BY <1>5, <2>1
    <2> QED
        BY <1>3, <1>6, <2>2 DEF Parted
<1>10. g \in Arranged(a, base, top - 1, N)
    <2>1. PICK hi, mid : hi = top - 1 /\ mid = i - 1
        OBVIOUS
    <2>2. hi \in Int /\ mid \in Int /\ mid <= hi /\ base <= i /\ base <= base
        BY <1>1, <2>1
    <2>3. b \in Arranged(a, base, mid, N) /\ g \in Arranged(b, i, hi, N)
        BY <1>3, <1>5, <2>1
    <2>4. b \in Arranged(a, base, hi, N)
        BY <1>1, <2>2, <2>3, ArrangedWider
    <2>5. hi <= hi
        BY <2>2
    <2>6. g \in Arranged(b, base, hi, N)
        BY <1>1, <2>2, <2>3, <2>5, ArrangedWider
    <2> QED
        BY <2>1, <2>4, <2>6, ArrangedAgain
<1> QED
    BY <1>7, <1>8, <1>9, <1>10, Zenon DEF GatheredTo

-----------------------------------------------------------------------------
(* P are the fragments that are still to be sorted: two elements may stand *)
(* the wrong way round only if both are in one of them.                    *)
OrderedBut(a, n, P) ==
    \A i, j \in 1 .. n : i < j =>
        Key(a[i]) <= Key(a[j]) \/ \E S \in P : i \in S /\ j \in S

Apart(P) == \A S, T \in P : S # T => S \cap T = {}

LEMMA OrderWithin ==
    ASSUME NEW N \in Nat, NEW a, NEW P, Apart(P), OrderedBut(a, N, P),
           NEW lo \in Int, NEW hi \in Int, lo .. hi \in P, 1 <= lo, hi <= N,
           NEW b \in Arranged(a, lo, hi, N), NEW Q,
           \A S \in P : S # lo .. hi => S \in Q,
           \A i, j \in lo .. hi : i < j =>
               Key(b[i]) <= Key(b[j]) \/ \E S \in Q : i \in S /\ j \in S
    PROVE  OrderedBut(b, N, Q)
<1>1. /\ \A i \in 1 .. N \ lo .. hi : b[i] = a[i]
      /\ \A i \in 1 .. N : i \in lo .. hi => \E j \in lo .. hi : j \in 1 .. N /\ b[i] = a[j]
    <2>1. Within(b, a, lo, hi, N)
        BY ArrangedSays
    <2> QED
        BY <2>1 DEF Within
<1> SUFFICES ASSUME NEW i \in 1 .. N, NEW j \in 1 .. N, i < j
             PROVE  Key(b[i]) <= Key(b[j]) \/ \E S \in Q : i \in S /\ j \in S
    BY DEF OrderedBut
<1>2. CASE i \in lo .. hi /\ j \in lo .. hi
    BY <1>2
<1>3. CASE i \notin lo .. hi /\ j \notin lo .. hi
    <2>1. b[i] = a[i] /\ b[j] = a[j]
        BY <1>1, <1>3
    <2>2. Key(a[i]) <= Key(a[j]) \/ \E S \in P : i \in S /\ j \in S
        BY DEF OrderedBut
    <2>3. \A S \in P : i \in S => S \in Q
        BY <1>3
    <2> QED
        BY <2>1, <2>2, <2>3
<1>4. CASE i \in lo .. hi /\ j \notin lo .. hi
    <2>1. PICK k \in lo .. hi : k \in 1 .. N /\ b[i] = a[k]
        BY <1>1, <1>4
    <2>2. k < j /\ b[j] = a[j]
        BY <1>1, <1>4
    <2>3. ~\E S \in P : k \in S /\ j \in S
        BY <1>4, <2>1 DEF Apart
    <2>4. Key(a[k]) <= Key(a[j])
        BY <2>1, <2>2, <2>3 DEF OrderedBut
    <2> QED
        BY <2>1, <2>2, <2>4
<1>5. CASE i \notin lo .. hi /\ j \in lo .. hi
    <2>1. PICK k \in lo .. hi : k \in 1 .. N /\ b[j] = a[k]
        BY <1>1, <1>5
    <2>2. i < k /\ b[i] = a[i]
        BY <1>1, <1>5
    <2>3. ~\E S \in P : i \in S /\ k \in S
        BY <1>5, <2>1 DEF Apart
    <2>4. Key(a[i]) <= Key(a[k])
        BY <2>1, <2>2, <2>3 DEF OrderedBut
    <2> QED
        BY <2>1, <2>2, <2>4
<1> QED
    BY <1>2, <1>3, <1>4, <1>5

-----------------------------------------------------------------------------
(* What rqsort is given: elements whose keys are numbers.                  *)
Elements(x) == Len(x) \in Nat /\ IsRow(x, Len(x)) /\ HasKeys(x, Len(x))

Total == Len(given)
Parts(n) ==
    { f \in [base : Nat \ {0}, count : Nat, depth : Nat] : f.base + f.count - 1 <= n }
Span(f) == f.base .. f.base + f.count - 1

(* The fragments that are still to be sorted: those on the stack and the   *)
(* one in work.                                                            *)
InWork == sorting \notin { "pop", "done" }
Waiting == { Span(segments[k]) : k \in 1 .. Len(segments) }
Pending == Waiting \union (IF InWork THEN { Span(fragment) } ELSE {})

NoneTwice ==
    /\ \A k, l \in 1 .. Len(segments) : k # l => Span(segments[k]) \cap Span(segments[l]) = {}
    /\ InWork => \A k \in 1 .. Len(segments) : Span(segments[k]) \cap Span(fragment) = {}

PARTING == { "up", "down", "gather" }

InParts ==
    /\ fragment.count > InsertionMax
    /\ cursor \in [lt : Int, i : Int, j : Int, gt : Int]
    /\ Parted(array, fragment.base, fragment.base + fragment.count, cursor.lt, cursor.i,
              IF sorting = "gather" THEN cursor.i ELSE cursor.j, cursor.gt)
    /\ sorting = "down" /\ cursor.i < cursor.j => Key(array[cursor.i]) > Key(array[fragment.base])

SortTypes ==
    /\ Elements(given)
    /\ sorting \in { "pop", "split", "done" } \union PARTING
    /\ segments \in Seq(Parts(Total))
    /\ fragment \in Parts(Total)
    /\ sorting = "done" => segments = << >>

SortInv ==
    /\ SortTypes
    /\ array \in Arranged(given, 1, Total, Total)
    /\ NoneTwice
    /\ OrderedBut(array, Total, Pending)
    /\ sorting \in PARTING => InParts

LEMMA SortFacts ==
    ASSUME SortInv
    PROVE  /\ Total \in Nat /\ IsRow(array, Total) /\ HasKeys(array, Total)
           /\ Len(segments) \in Nat
           /\ \A k \in 1 .. Len(segments) : segments[k] \in Parts(Total)
           /\ fragment.base \in Nat \ {0} /\ fragment.count \in Nat
           /\ fragment.base + fragment.count - 1 <= Total
           /\ Apart(Pending)
<1>1. Total \in Nat /\ HasKeys(given, Total)
    BY DEF SortInv, SortTypes, Elements, Total
<1>2. IsRow(array, Total) /\ HasKeys(array, Total)
    BY <1>1, ArrangedWhich, ArrangedKeys DEF SortInv
<1>3. segments \in Seq(Parts(Total)) /\ fragment \in Parts(Total)
    BY DEF SortInv, SortTypes
<1>4. Len(segments) \in Nat /\ \A k \in 1 .. Len(segments) : segments[k] \in Parts(Total)
    BY <1>3, LenProperties, ElementOfSeq
<1>5. Apart(Pending)
    <2>1. NoneTwice
        BY DEF SortInv
    <2> SUFFICES ASSUME NEW S \in Pending, NEW T \in Pending, S # T PROVE S \cap T = {}
        BY DEF Apart
    <2>2. CASE S \in Waiting /\ T \in Waiting
        BY <2>1, <2>2 DEF Waiting, NoneTwice
    <2>3. CASE InWork /\ S = Span(fragment) /\ T \in Waiting
        BY <2>1, <2>3 DEF Waiting, NoneTwice
    <2>4. CASE InWork /\ T = Span(fragment) /\ S \in Waiting
        BY <2>1, <2>4 DEF Waiting, NoneTwice
    <2> QED
        BY <2>2, <2>3, <2>4 DEF Pending
<1> QED
    BY <1>1, <1>2, <1>3, <1>4, <1>5 DEF Parts

LEMMA SameSort == ASSUME SortInv, UNCHANGED sortVars PROVE SortInv'
BY DEF SortInv, SortTypes, sortVars, Elements, Total, InWork, Waiting, Pending, NoneTwice, InParts, OrderedBut,
       Parted, Span, IsRow, HasKeys

(* A step that rearranges the fragment in work.                            *)
LEMMA Rearranged ==
    ASSUME SortInv, InWork, given' = given,
           array' \in Arranged(array, fragment.base, fragment.base + fragment.count - 1, Total),
           Waiting \subseteq Pending',
           \A i, j \in Span(fragment) : i < j =>
               Key(array'[i]) <= Key(array'[j]) \/ \E S \in Pending' : i \in S /\ j \in S
    PROVE  /\ array' \in Arranged(given', 1, Total', Total')
           /\ OrderedBut(array', Total', Pending')
<1>0. Total' = Total
    BY DEF Total
<1>1. /\ Total \in Nat /\ IsRow(array, Total) /\ HasKeys(array, Total)
      /\ fragment.base \in Nat \ {0} /\ fragment.count \in Nat
      /\ fragment.base + fragment.count - 1 <= Total
      /\ Apart(Pending)
    BY SortFacts
<1>2. PICK lo, hi : lo = fragment.base /\ hi = fragment.base + fragment.count - 1
    OBVIOUS
<1>3. /\ lo \in Int /\ hi \in Int /\ 1 <= lo /\ hi <= Total /\ 1 \in Int /\ Total \in Int
      /\ Span(fragment) = lo .. hi /\ array' \in Arranged(array, lo, hi, Total)
    BY <1>1, <1>2 DEF Span
<1>4. array' \in Arranged(array, 1, Total, Total)
    BY <1>1, <1>3, ArrangedWider
<1>5. array' \in Arranged(given, 1, Total, Total)
    BY <1>1, <1>4, ArrangedAgain DEF SortInv
<1>6. lo .. hi \in Pending
    BY <1>3 DEF Pending
<1>7. \A S \in Pending : S # lo .. hi => S \in Pending'
    BY <1>3 DEF Pending
<1>8. \A i, j \in lo .. hi : i < j =>
               Key(array'[i]) <= Key(array'[j]) \/ \E S \in Pending' : i \in S /\ j \in S
    BY <1>3
<1>9. OrderedBut(array, Total, Pending)
    BY DEF SortInv
<1>11. OrderedBut(array', Total, Pending')
    <2>1. PICK b, Q, P : b = array' /\ Q = Pending' /\ P = Pending
        OBVIOUS
    <2>2. /\ Apart(P) /\ OrderedBut(array, Total, P) /\ lo .. hi \in P
          /\ b \in Arranged(array, lo, hi, Total)
          /\ \A S \in P : S # lo .. hi => S \in Q
          /\ \A i, j \in lo .. hi : i < j =>
               Key(b[i]) <= Key(b[j]) \/ \E S \in Q : i \in S /\ j \in S
        BY <1>1, <1>3, <1>6, <1>7, <1>8, <1>9, <2>1
    <2>3. OrderedBut(b, Total, Q)
        BY <1>1, <1>3, <2>2, OrderWithin
    <2> QED
        BY <2>1, <2>3
<1> QED
    BY <1>0, <1>5, <1>11

LEMMA PopSorts == ASSUME SortInv, Pop PROVE SortInv'
<1>1. /\ Len(segments) \in Nat /\ Len(segments) >= 1
      /\ \A k \in 1 .. Len(segments) : segments[k] \in Parts(Total)
    <2>1. segments \in Seq(Parts(Total)) /\ segments # << >>
        BY DEF Pop, SortInv, SortTypes
    <2>2. Len(segments) \in Nat \ {0}
        BY <2>1, EmptySeq
    <2> QED
        BY <2>1, <2>2, ElementOfSeq
<1>2. PICK n : n = Len(segments) - 1
    OBVIOUS
<1>3. n \in Nat /\ Len(segments) = n + 1
    BY <1>1, <1>2
<1>4. /\ segments' \in Seq(Parts(Total))
      /\ Len(segments') = n
      /\ \A k \in 1 .. n : segments'[k] = segments[k]
    <2> DEFINE rest == SubSeq(segments, 1, n)
    <2>1. \A k \in 1 .. n : segments[k] \in Parts(Total)
        BY <1>1, <1>3
    <2>2. segments' = rest
        BY <1>2 DEF Pop, Front
    <2>3. /\ rest \in Seq(Parts(Total))
          /\ Len(rest) = IF 1 <= n THEN n - 1 + 1 ELSE 0
          /\ \A k \in 1 .. n - 1 + 1 : rest[k] = segments[1 + k - 1]
        BY <1>3, <2>1, SubSeqProperties
    <2> HIDE DEF rest
    <2>5. Len(rest) = n
        BY <1>3, <2>3
    <2>6. \A k \in 1 .. n : rest[k] = segments[k]
        BY <1>3, <2>3
    <2> QED
        BY <2>2, <2>3, <2>5, <2>6
<1>5. /\ fragment' = segments[n + 1] /\ sorting = "pop" /\ sorting' = "split"
      /\ UNCHANGED << array, given, cursor >> /\ Total' = Total
    BY <1>3 DEF Pop, Last, Total
<1>6. SortTypes'
    <2>1. fragment' \in Parts(Total)
        BY <1>1, <1>3, <1>5
    <2> QED
        BY <1>4, <1>5, <2>1 DEF SortInv, SortTypes, Elements, IsRow, HasKeys
<1>7. NoneTwice'
    <2>1. \A k, l \in 1 .. n + 1 : k # l => Span(segments[k]) \cap Span(segments[l]) = {}
        BY <1>3 DEF SortInv, NoneTwice
    <2>2. \A k \in 1 .. n : k \in 1 .. n + 1 /\ k # n + 1 /\ n + 1 \in 1 .. n + 1
        BY <1>3
    <2> QED
        BY <1>4, <1>5, <2>1, <2>2 DEF NoneTwice, Span
<1>8. Pending' = Pending
    <2>1. \A k \in 1 .. n + 1 : k \in 1 .. n \/ k = n + 1
        BY <1>3
    <2>2. n + 1 \in 1 .. n + 1 /\ \A k \in 1 .. n : k \in 1 .. n + 1
        BY <1>3
    <2>3. Pending = { Span(segments[k]) : k \in 1 .. n + 1 }
        BY <1>3, <1>5 DEF Pending, Waiting, InWork
    <2>4. Pending' = { Span(segments[k]) : k \in 1 .. n } \union { Span(segments[n + 1]) }
        <3>1. Waiting' = { Span(segments[k]) : k \in 1 .. n }
            BY <1>4 DEF Waiting, Span
        <3> QED
            BY <1>5, <3>1 DEF Pending, InWork, Span
    <2> QED
        BY <2>1, <2>2, <2>3, <2>4
<1>9. OrderedBut(array, Total, Pending)'
    <2>1. OrderedBut(array, Total, Pending)
        BY DEF SortInv
    <2> QED
        BY <1>5, <1>8, <2>1
<1>10. array' \in Arranged(given', 1, Total', Total')
    BY <1>5 DEF SortInv
<1> QED
    BY <1>5, <1>6, <1>7, <1>9, <1>10 DEF SortInv, PARTING

LEMMA DoneSorts == ASSUME SortInv, Done PROVE SortInv'
<1>1. UNCHANGED << array, given, segments, fragment, cursor >> /\ sorting = "pop" /\ sorting' = "done"
      /\ segments = << >>
    BY DEF Done
<1> QED
    BY <1>1 DEF SortInv, SortTypes, Elements, Total, InWork, Waiting, Pending, NoneTwice,
       OrderedBut, Span, IsRow, HasKeys, PARTING

-----------------------------------------------------------------------------
(* A step within the fragment in work, which stays in work.                *)
LEMMA WorkGoesOn ==
    ASSUME SortInv, InWork, given' = given, segments' = segments,
           fragment' \in Parts(Total), Span(fragment') = Span(fragment),
           array' \in Arranged(array, fragment.base, fragment.base + fragment.count - 1, Total),
           sorting' \in { "split" } \union PARTING,
           sorting' \in PARTING => InParts'
    PROVE  SortInv'
<1>1. Total' = Total /\ InWork'
    BY DEF Total, InWork, PARTING
<1>2. Waiting' = Waiting /\ Pending' = Pending
    <2>1. Waiting' = Waiting
        BY DEF Waiting, Span
    <2>2. Span(fragment)' = Span(fragment)
        BY DEF Span
    <2> QED
        BY <1>1, <2>1, <2>2 DEF Pending
<1>3. SortTypes'
    <2>1. /\ Elements(given) /\ segments \in Seq(Parts(Total))
        BY DEF SortInv, SortTypes
    <2>2. Elements(given')
        BY <2>1
    <2>3. sorting' # "done"
        BY DEF PARTING
    <2> QED
        BY <1>1, <2>1, <2>2, <2>3 DEF SortTypes, Elements, IsRow, HasKeys, PARTING
<1>4. NoneTwice'
    <2>1. /\ \A k, l \in 1 .. Len(segments) : k # l => Span(segments[k]) \cap Span(segments[l]) = {}
          /\ \A k \in 1 .. Len(segments) : Span(segments[k]) \cap Span(fragment) = {}
        BY DEF SortInv, NoneTwice
    <2>2. Span(fragment)' = Span(fragment)
        BY DEF Span
    <2> QED
        BY <2>1, <2>2 DEF NoneTwice, Span
<1>5. /\ array' \in Arranged(given', 1, Total', Total')
      /\ OrderedBut(array', Total', Pending')
    <2>1. Waiting \subseteq Pending'
        BY <1>2 DEF Pending
    <2>2. \A i, j \in Span(fragment) : i < j =>
             Key(array'[i]) <= Key(array'[j]) \/ \E S \in Pending' : i \in S /\ j \in S
        BY <1>2 DEF Pending
    <2> QED
        BY <2>1, <2>2, Rearranged
<1>6. OrderedBut(array, Total, Pending)'
    BY <1>5
<1> QED
    BY <1>3, <1>4, <1>5, <1>6 DEF SortInv

(* What the partition keeps is told of the fragment in work.               *)
LEMMA PartFacts ==
    ASSUME SortInv, sorting \in PARTING
    PROVE  /\ InWork
           /\ fragment.base \in 1 .. Total
           /\ fragment.base + fragment.count \in Int
           /\ fragment.base + fragment.count - 1 <= Total
           /\ cursor.lt \in Int /\ cursor.i \in Int /\ cursor.j \in Int /\ cursor.gt \in Int
           /\ cursor = [lt |-> cursor.lt, i |-> cursor.i, j |-> cursor.j, gt |-> cursor.gt]
           /\ Parted(array, fragment.base, fragment.base + fragment.count, cursor.lt, cursor.i,
                     IF sorting = "gather" THEN cursor.i ELSE cursor.j, cursor.gt)
           /\ Span(fragment) = fragment.base .. fragment.base + fragment.count - 1
<1>1. InParts /\ InWork
    BY DEF SortInv, InWork, PARTING
<1>2. fragment.base \in Nat \ {0} /\ fragment.count \in Nat /\ Total \in Nat
      /\ fragment.base + fragment.count - 1 <= Total
    BY SortFacts
<1>3. InsertionMax \in Nat \ {0}
    BY RqsortAssumption
<1>4. fragment.count > 1
    BY <1>1, <1>2, <1>3 DEF InParts
<1>5. fragment.base \in 1 .. Total /\ fragment.base + fragment.count \in Int
    BY <1>2, <1>4
<1> QED
    BY <1>1, <1>2, <1>5 DEF InParts, Span

(* The step of a partition: where the cursor stands afterwards.            *)
LEMMA PartGoesOn ==
    ASSUME SortInv, sorting \in PARTING, given' = given, segments' = segments, fragment' = fragment,
           NEW lt \in Int, NEW i \in Int, NEW j \in Int, NEW gt \in Int,
           cursor' = [lt |-> lt, i |-> i, j |-> j, gt |-> gt],
           array' \in Arranged(array, fragment.base, fragment.base + fragment.count - 1, Total),
           sorting' \in PARTING,
           Parted(array', fragment.base, fragment.base + fragment.count, lt, i,
                  IF sorting' = "gather" THEN i ELSE j, gt),
           sorting' = "down" /\ i < j => Key(array'[i]) > Key(array'[fragment.base])
    PROVE  SortInv'
<1>1. cursor'.lt = lt /\ cursor'.i = i /\ cursor'.j = j /\ cursor'.gt = gt
    OBVIOUS
<1>2. fragment.count > InsertionMax
    BY DEF SortInv, InParts
<1>3. cursor' \in [lt : Int, i : Int, j : Int, gt : Int]
    OBVIOUS
<1>4. Parted(array', fragment'.base, fragment'.base + fragment'.count, cursor'.lt, cursor'.i,
             IF sorting' = "gather" THEN cursor'.i ELSE cursor'.j, cursor'.gt)
    BY <1>1
<1>5. InParts'
    BY <1>1, <1>2, <1>3, <1>4 DEF InParts, Parted
<1>6. fragment' \in Parts(Total) /\ Span(fragment') = Span(fragment)
    BY DEF SortInv, SortTypes
<1>7. InWork
    BY PartFacts
<1> QED
    BY <1>5, <1>6, <1>7, WorkGoesOn

LEMMA Unmoved ==
    ASSUME SortInv
    PROVE  array \in Arranged(array, fragment.base, fragment.base + fragment.count - 1, Total)
BY SortFacts, SelfArranged

LEMMA SwappedWithin ==
    ASSUME SortInv, NEW i \in Int, NEW j \in Int,
           fragment.base <= i, i < fragment.base + fragment.count,
           fragment.base <= j, j < fragment.base + fragment.count
    PROVE  Swap(array, i, j) \in
              Arranged(array, fragment.base, fragment.base + fragment.count - 1, Total)
<1>1. /\ Total \in Nat /\ IsRow(array, Total)
      /\ fragment.base \in Nat \ {0} /\ fragment.count \in Nat
      /\ fragment.base + fragment.count - 1 <= Total
    BY SortFacts
<1>2. PICK lo, hi, count : /\ lo = fragment.base /\ count = fragment.count
                          /\ hi = fragment.base + fragment.count - 1
    OBVIOUS
<1>21. /\ lo \in Nat \ {0} /\ count \in Nat /\ hi = lo + count - 1 /\ hi <= Total
       /\ lo <= i /\ i < lo + count /\ lo <= j /\ j < lo + count
    BY <1>1, <1>2
<1>3. /\ lo \in Int /\ hi \in Int /\ i \in 1 .. Total /\ j \in 1 .. Total
      /\ i \in lo .. hi /\ j \in lo .. hi
    BY <1>1, <1>21
<1>4. Swap(array, i, j) \in Arranged(array, lo, hi, Total)
    BY <1>1, <1>3, SwapArranged
<1> QED
    BY <1>2, <1>4

LEMMA UpSorts == ASSUME SortInv, Up PROVE SortInv'
<1> DEFINE base == fragment.base
           top == fragment.base + fragment.count
<1>1. /\ sorting = "up" /\ sorting \in PARTING /\ sorting # "gather"
      /\ UNCHANGED << given, segments, fragment >>
    BY DEF Up, PARTING
<1>2. PICK lt, i, j, gt : lt = cursor.lt /\ i = cursor.i /\ j = cursor.j /\ gt = cursor.gt
    OBVIOUS
<1>3. /\ lt \in Int /\ i \in Int /\ j \in Int /\ gt \in Int
      /\ cursor = [lt |-> lt, i |-> i, j |-> j, gt |-> gt]
      /\ Parted(array, base, top, lt, i, j, gt)
      /\ base \in 1 .. Total /\ top \in Int /\ top - 1 <= Total
      /\ Total \in Nat /\ IsRow(array, Total) /\ HasKeys(array, Total)
    BY <1>1, <1>2, PartFacts, SortFacts
<1> HIDE DEF base, top
<1>4. base < lt /\ lt <= i /\ i <= j /\ j <= gt /\ gt <= top /\ base \in Int
    BY <1>3 DEF Parted
<1>5. i < j => i \in 1 .. Total /\ Key(array[i]) \in Int
    <2>1. i < j => i \in 1 .. Total
        BY <1>3, <1>4
    <2> QED
        BY <1>3, <2>1 DEF HasKeys
<1>6. Key(array[base]) \in Int
    BY <1>3 DEF HasKeys
<1>7. CASE i < j /\ Key(array[i]) = Key(array[base])
    <2>1. /\ array' = Swap(array, lt, i) /\ sorting' = "up"
          /\ cursor' = [lt |-> lt + 1, i |-> i + 1, j |-> j, gt |-> gt]
        <3>1. i < j /\ Key(array[i]) <= Pivot /\ Key(array[i]) = Pivot
            BY <1>5, <1>6, <1>7 DEF Pivot, base
        <3>2. /\ array' = Swap(array, cursor.lt, i)
              /\ cursor' = [cursor EXCEPT !.i = i + 1, !.lt = @ + 1]
              /\ sorting' = "up"
            BY <1>2, <3>1 DEF Up
        <3> QED
            BY <1>2, <1>3, <3>2
    <2>2. Parted(Swap(array, lt, i), base, top, lt + 1, i + 1, j, gt)
        BY <1>3, <1>7, PartUpEqual
    <2>3. array' \in Arranged(array, fragment.base, fragment.base + fragment.count - 1, Total)
        <3>1. /\ fragment.base <= lt /\ lt < fragment.base + fragment.count
              /\ fragment.base <= i /\ i < fragment.base + fragment.count
            BY <1>3, <1>4, <1>7 DEF base, top
        <3> QED
            BY <1>3, <2>1, <3>1, SwappedWithin
    <2>4. lt + 1 \in Int /\ i + 1 \in Int /\ sorting' \in PARTING /\ sorting' # "gather" /\ sorting' # "down"
        BY <1>3, <2>1 DEF PARTING
    <2>5. Parted(array', fragment.base, fragment.base + fragment.count, lt + 1, i + 1,
                 IF sorting' = "gather" THEN i + 1 ELSE j, gt)
        BY <2>1, <2>2, <2>4 DEF base, top
    <2> QED
        BY <1>1, <1>3, <2>1, <2>3, <2>4, <2>5, PartGoesOn
<1>8. CASE i < j /\ Key(array[i]) < Key(array[base])
    <2>1. /\ array' = array /\ sorting' = "up"
          /\ cursor' = [lt |-> lt, i |-> i + 1, j |-> j, gt |-> gt]
        <3>1. i < j /\ Key(array[i]) <= Pivot /\ ~(Key(array[i]) = Pivot)
            BY <1>5, <1>6, <1>8 DEF Pivot, base
        <3>2. /\ array' = array
              /\ cursor' = [cursor EXCEPT !.i = i + 1, !.lt = @]
              /\ sorting' = "up"
            BY <1>2, <3>1 DEF Up
        <3> QED
            BY <1>2, <1>3, <3>2
    <2>2. Parted(array, base, top, lt, i + 1, j, gt)
        BY <1>3, <1>8, PartUpLess
    <2>3. array' \in Arranged(array, fragment.base, fragment.base + fragment.count - 1, Total)
        BY <2>1, Unmoved
    <2>4. i + 1 \in Int /\ sorting' \in PARTING /\ sorting' # "gather" /\ sorting' # "down"
        BY <1>3, <2>1 DEF PARTING
    <2>5. Parted(array', fragment.base, fragment.base + fragment.count, lt, i + 1,
                 IF sorting' = "gather" THEN i + 1 ELSE j, gt)
        BY <2>1, <2>2, <2>4 DEF base, top
    <2> QED
        BY <1>1, <1>3, <2>1, <2>3, <2>4, <2>5, PartGoesOn
<1>9. CASE ~(i < j /\ Key(array[i]) <= Key(array[base]))
    <2>1. /\ array' = array /\ sorting' = "down" /\ cursor' = cursor
        <3>1. ~(i < j /\ Key(array[i]) <= Pivot)
            BY <1>9 DEF Pivot, base
        <3> QED
            BY <1>2, <3>1 DEF Up
    <2>2. i < j => Key(array'[i]) > Key(array'[fragment.base])
        BY <1>5, <1>6, <1>9, <2>1 DEF base
    <2>3. array' \in Arranged(array, fragment.base, fragment.base + fragment.count - 1, Total)
        BY <2>1, Unmoved
    <2>4. sorting' \in PARTING /\ sorting' # "gather"
        BY <2>1 DEF PARTING
    <2>5. Parted(array', fragment.base, fragment.base + fragment.count, lt, i,
                 IF sorting' = "gather" THEN i ELSE j, gt)
        BY <1>3, <2>1, <2>4 DEF base, top
    <2>6. cursor' = [lt |-> lt, i |-> i, j |-> j, gt |-> gt]
        BY <1>3, <2>1
    <2> QED
        BY <1>1, <1>3, <2>2, <2>3, <2>4, <2>5, <2>6, PartGoesOn
<1>10. i < j => Key(array[i]) = Key(array[base]) \/ Key(array[i]) < Key(array[base])
                \/ ~(Key(array[i]) <= Key(array[base]))
    BY <1>5, <1>6
<1> QED
    BY <1>7, <1>8, <1>9, <1>10

LEMMA DownSorts == ASSUME SortInv, Down \/ Exchange PROVE SortInv'
<1> DEFINE base == fragment.base
           top == fragment.base + fragment.count
<1>1. /\ sorting = "down" /\ sorting \in PARTING /\ sorting # "gather"
      /\ UNCHANGED << given, segments, fragment >>
    BY DEF Down, Exchange, PARTING
<1>2. PICK lt, i, j, gt : lt = cursor.lt /\ i = cursor.i /\ j = cursor.j /\ gt = cursor.gt
    OBVIOUS
<1>3. /\ lt \in Int /\ i \in Int /\ j \in Int /\ gt \in Int
      /\ cursor = [lt |-> lt, i |-> i, j |-> j, gt |-> gt]
      /\ Parted(array, base, top, lt, i, j, gt)
      /\ base \in 1 .. Total /\ top \in Int /\ top - 1 <= Total
      /\ Total \in Nat /\ IsRow(array, Total) /\ HasKeys(array, Total)
    BY <1>1, <1>2, PartFacts, SortFacts
<1>4. i < j - 1
    BY <1>2 DEF Down, Exchange
<1>5. Key(array[i]) > Key(array[base])
    <2>1. i < j
        BY <1>3, <1>4
    <2> QED
        BY <1>1, <1>2, <2>1 DEF SortInv, InParts
<1> HIDE DEF base, top
<1>6. base < lt /\ lt <= i /\ i <= j /\ j <= gt /\ gt <= top /\ base \in Int
    BY <1>3 DEF Parted
<1>7. j - 1 \in 1 .. Total /\ Key(array[j - 1]) \in Int /\ Key(array[base]) \in Int
    <2>1. j - 1 \in 1 .. Total
        BY <1>3, <1>4, <1>6
    <2> QED
        BY <1>3, <2>1 DEF HasKeys
<1>8. /\ fragment.base <= i /\ i < fragment.base + fragment.count
      /\ fragment.base <= j - 1 /\ j - 1 < fragment.base + fragment.count
      /\ fragment.base <= gt - 1 /\ gt - 1 < fragment.base + fragment.count
      /\ j - 1 \in Int /\ gt - 1 \in Int /\ i + 1 \in Int
    BY <1>3, <1>4, <1>6 DEF base, top
<1>9. CASE Down /\ Key(array[j - 1]) = Key(array[base])
    <2>1. /\ array' = Swap(array, gt - 1, j - 1) /\ sorting' = "down"
          /\ cursor' = [lt |-> lt, i |-> i, j |-> j - 1, gt |-> gt - 1]
        <3>1. Key(array[cursor.j - 1]) = Pivot
            BY <1>2, <1>9 DEF Pivot, base
        <3>2. /\ array' = Swap(array, cursor.gt - 1, cursor.j - 1)
              /\ cursor' = [cursor EXCEPT !.j = cursor.j - 1, !.gt = @ - 1]
              /\ sorting' = sorting
            BY <1>9, <3>1 DEF Down
        <3> QED
            BY <1>1, <1>2, <1>3, <3>2
    <2>2. /\ Parted(Swap(array, gt - 1, j - 1), base, top, lt, i, j - 1, gt - 1)
          /\ Swap(array, gt - 1, j - 1)[i] = array[i]
          /\ Swap(array, gt - 1, j - 1)[base] = array[base]
        BY <1>3, <1>4, <1>9, PartDownEqual
    <2>3. array' \in Arranged(array, fragment.base, fragment.base + fragment.count - 1, Total)
        BY <1>8, <2>1, SwappedWithin
    <2>4. sorting' \in PARTING /\ sorting' # "gather"
        BY <2>1 DEF PARTING
    <2>5. Parted(array', fragment.base, fragment.base + fragment.count, lt, i,
                 IF sorting' = "gather" THEN i ELSE j - 1, gt - 1)
        BY <2>1, <2>2, <2>4 DEF base, top
    <2>6. Key(array'[i]) > Key(array'[fragment.base])
        BY <1>5, <2>1, <2>2 DEF base
    <2> QED
        BY <1>1, <1>3, <1>8, <2>1, <2>3, <2>4, <2>5, <2>6, PartGoesOn
<1>10. CASE Down /\ Key(array[j - 1]) > Key(array[base])
    <2>1. /\ array' = array /\ sorting' = "down"
          /\ cursor' = [lt |-> lt, i |-> i, j |-> j - 1, gt |-> gt]
        <3>1. ~(Key(array[cursor.j - 1]) = Pivot)
            BY <1>2, <1>7, <1>10 DEF Pivot, base
        <3>2. /\ array' = array
              /\ cursor' = [cursor EXCEPT !.j = cursor.j - 1, !.gt = @]
              /\ sorting' = sorting
            BY <1>10, <3>1 DEF Down
        <3> QED
            BY <1>1, <1>2, <1>3, <3>2
    <2>2. Parted(array, base, top, lt, i, j - 1, gt)
        <3>1. i <= j - 1
            BY <1>3, <1>4
        <3> QED
            BY <1>3, <1>10, <3>1, PartDownMore
    <2>3. array' \in Arranged(array, fragment.base, fragment.base + fragment.count - 1, Total)
        BY <2>1, Unmoved
    <2>4. sorting' \in PARTING /\ sorting' # "gather"
        BY <2>1 DEF PARTING
    <2>5. Parted(array', fragment.base, fragment.base + fragment.count, lt, i,
                 IF sorting' = "gather" THEN i ELSE j - 1, gt)
        BY <2>1, <2>2, <2>4 DEF base, top
    <2>6. Key(array'[i]) > Key(array'[fragment.base])
        BY <1>5, <2>1 DEF base
    <2> QED
        BY <1>1, <1>3, <1>8, <2>1, <2>3, <2>4, <2>5, <2>6, PartGoesOn
<1>11. CASE Exchange
    <2>1. /\ array' = Swap(array, i, j - 1) /\ sorting' = "up"
          /\ cursor' = [lt |-> lt, i |-> i + 1, j |-> j - 1, gt |-> gt]
          /\ Key(array[j - 1]) < Key(array[base])
        <3>1. /\ array' = Swap(array, cursor.i, cursor.j - 1)
              /\ cursor' = [cursor EXCEPT !.i = @ + 1, !.j = cursor.j - 1]
              /\ sorting' = "up"
              /\ Key(array[cursor.j - 1]) < Pivot
            BY <1>11 DEF Exchange
        <3> QED
            BY <1>2, <1>3, <3>1 DEF Pivot, base
    <2>2. Parted(Swap(array, i, j - 1), base, top, lt, i + 1, j - 1, gt)
        BY <1>3, <1>4, <1>5, <2>1, PartExchange
    <2>3. array' \in Arranged(array, fragment.base, fragment.base + fragment.count - 1, Total)
        BY <1>3, <1>8, <2>1, SwappedWithin
    <2>4. sorting' \in PARTING /\ sorting' # "gather" /\ sorting' # "down"
        BY <2>1 DEF PARTING
    <2>5. Parted(array', fragment.base, fragment.base + fragment.count, lt, i + 1,
                 IF sorting' = "gather" THEN i + 1 ELSE j - 1, gt)
        BY <2>1, <2>2, <2>4 DEF base, top
    <2> QED
        BY <1>1, <1>3, <1>8, <2>1, <2>3, <2>4, <2>5, PartGoesOn
<1>12. Down => Key(array[j - 1]) = Key(array[base]) \/ Key(array[j - 1]) > Key(array[base])
    <2>1. Down => Key(array[j - 1]) >= Key(array[base])
        BY <1>2 DEF Down, Pivot, base
    <2> QED
        BY <1>7, <2>1
<1> QED
    BY <1>9, <1>10, <1>11, <1>12

LEMMA MeetSorts == ASSUME SortInv, Meet PROVE SortInv'
<1> DEFINE base == fragment.base
           top == fragment.base + fragment.count
<1>1. /\ sorting = "down" /\ sorting \in PARTING /\ sorting # "gather"
      /\ UNCHANGED << array, given, segments, fragment >> /\ sorting' = "gather"
    BY DEF Meet, PARTING
<1>2. PICK lt, i, j, gt : lt = cursor.lt /\ i = cursor.i /\ j = cursor.j /\ gt = cursor.gt
    OBVIOUS
<1>3. /\ lt \in Int /\ i \in Int /\ j \in Int /\ gt \in Int
      /\ cursor = [lt |-> lt, i |-> i, j |-> j, gt |-> gt]
      /\ Parted(array, base, top, lt, i, j, gt)
    BY <1>1, <1>2, PartFacts
<1>4. i >= j - 1 /\ cursor' = [lt |-> lt, i |-> i, j |-> j - 1, gt |-> gt]
    BY <1>2, <1>3 DEF Meet
<1>5. i < j => Key(array[i]) > Key(array[base])
    BY <1>1, <1>2 DEF SortInv, InParts
<1> HIDE DEF base, top
<1>6. Parted(array, base, top, lt, i, i, gt)
    BY <1>3, <1>4, <1>5, PartMeets
<1>7. Parted(array', fragment.base, fragment.base + fragment.count, lt, i,
             IF sorting' = "gather" THEN i ELSE j - 1, gt)
    BY <1>1, <1>6 DEF base, top
<1>8. array' \in Arranged(array, fragment.base, fragment.base + fragment.count - 1, Total)
    BY <1>1, Unmoved
<1>9. j - 1 \in Int /\ sorting' \in PARTING /\ sorting' # "down"
    BY <1>1, <1>3 DEF PARTING
<1> QED
    BY <1>1, <1>3, <1>4, <1>7, <1>8, <1>9, PartGoesOn

-----------------------------------------------------------------------------
LEMMA ChoosePivotSorts == ASSUME SortInv, ChoosePivot PROVE SortInv'
<1>1. PICK base, n : base = fragment.base /\ n = fragment.count
    OBVIOUS
<1>2. /\ base \in Nat \ {0} /\ n \in Nat /\ base + n - 1 <= Total /\ Total \in Nat
      /\ IsRow(array, Total) /\ HasKeys(array, Total) /\ fragment \in Parts(Total)
    BY <1>1, SortFacts DEF SortInv, SortTypes
<1>3. n > InsertionMax /\ InsertionMax \in Nat \ {0}
    BY <1>1, RqsortAssumption DEF ChoosePivot
<1>4. PICK m : /\ m \in { base + n \div 4, base + 2 * (n \div 4), base + 3 * (n \div 4) }
               /\ array' = Swap(array, base, m)
    BY <1>1 DEF ChoosePivot, Med3
<1>5. /\ sorting = "split" /\ sorting' = "up" /\ UNCHANGED << given, segments >>
      /\ fragment' = [fragment EXCEPT !.depth = @ + 1]
      /\ cursor' = [lt |-> base + 1, i |-> base + 1, j |-> base + n, gt |-> base + n]
    BY <1>1 DEF ChoosePivot
<1>6. base \in 1 .. Total /\ m \in 1 .. Total /\ base <= m /\ m < base + n /\ m \in Int /\ base \in Int /\ base < base + n
    BY <1>2, <1>3, <1>4
<1>7. array' \in Arranged(array, fragment.base, fragment.base + fragment.count - 1, Total)
    BY <1>1, <1>4, <1>6, SwappedWithin
<1>8. /\ fragment' \in Parts(Total) /\ Span(fragment') = Span(fragment)
      /\ fragment'.base = base /\ fragment'.count = n
    <2>1. fragment \in [base : Nat \ {0}, count : Nat, depth : Nat]
        BY <1>2 DEF Parts
    <2>2. fragment' \in [base : Nat \ {0}, count : Nat, depth : Nat]
          /\ fragment'.base = base /\ fragment'.count = n
        BY <1>1, <1>5, <2>1
    <2> QED
        BY <1>1, <1>2, <2>2 DEF Parts, Span
<1>9. Key(array'[base]) \in Int
    <2>1. HasKeys(array', Total)
        BY <1>2, <1>7, ArrangedKeys
    <2> QED
        BY <1>6, <2>1 DEF HasKeys
<1>10. Parted(array', base, base + n, base + 1, base + 1, base + n, base + n)
    <2>1. base + 1 \in Int /\ base + n \in Int /\ base < base + 1 /\ base + 1 <= base + n
        BY <1>2, <1>3, <1>6
    <2>2. \A k \in base .. (base + 1) - 1 : k = base
        BY <1>6
    <2>3. /\ \A k \in base + 1 .. (base + 1) - 1 : FALSE
          /\ \A k \in base + n .. (base + n) - 1 : FALSE
        BY <1>2, <1>6
    <2> QED
        BY <1>6, <2>1, <2>2, <2>3 DEF Parted
<1>11. InParts'
    <2>1. /\ cursor' \in [lt : Int, i : Int, j : Int, gt : Int]
          /\ cursor'.lt = base + 1 /\ cursor'.i = base + 1 /\ cursor'.j = base + n /\ cursor'.gt = base + n
        BY <1>2, <1>5
    <2> QED
        BY <1>3, <1>5, <1>8, <1>10, <2>1 DEF InParts
<1>12. InWork /\ sorting' \in { "split" } \union PARTING
    BY <1>5 DEF InWork, PARTING
<1> QED
    BY <1>5, <1>7, <1>8, <1>11, <1>12, WorkGoesOn

(* The fragment is sorted, and is not waited for any longer.               *)
LEMMA FragmentSorted ==
    ASSUME SortInv, sorting = "split", given' = given, segments' = segments, fragment' \in Parts(Total),
           sorting' = "pop",
           array' \in Arranged(array, fragment.base, fragment.base + fragment.count - 1, Total),
           SortedIn(array', fragment.base, fragment.base + fragment.count - 1)
    PROVE  SortInv'
<1>1. Total' = Total /\ InWork /\ ~InWork' /\ sorting' \notin PARTING /\ sorting' # "done"
    BY DEF Total, InWork, PARTING
<1>2. Pending' = Waiting
    BY <1>1 DEF Pending, Waiting, Span
<1>3. SortTypes'
    <2>1. /\ Elements(given) /\ segments \in Seq(Parts(Total))
        BY DEF SortInv, SortTypes
    <2>2. Elements(given')
        BY <2>1
    <2> QED
        BY <1>1, <2>1, <2>2 DEF SortTypes, Elements, IsRow, HasKeys
<1>4. NoneTwice'
    BY <1>1 DEF SortInv, NoneTwice, Span
<1>5. /\ array' \in Arranged(given', 1, Total', Total')
      /\ OrderedBut(array', Total', Pending')
    <2>1. Waiting \subseteq Pending'
        BY <1>2
    <2>2. /\ \A i \in Span(fragment), j \in Span(fragment) : i < j =>
                 i <= j /\ i \in fragment.base .. fragment.base + fragment.count - 1
                        /\ j \in fragment.base .. fragment.base + fragment.count - 1
        BY SortFacts DEF Span
    <2>3. \A i, j \in Span(fragment) : i < j =>
             Key(array'[i]) <= Key(array'[j]) \/ \E S \in Pending' : i \in S /\ j \in S
        BY <2>2 DEF SortedIn
    <2> QED
        BY <1>1, <2>1, <2>3, Rearranged
<1>6. OrderedBut(array, Total, Pending)'
    BY <1>5
<1> QED
    BY <1>1, <1>3, <1>4, <1>5, <1>6 DEF SortInv

LEMMA InsertSorts == ASSUME SortInv, Insert PROVE SortInv'
<1>1. /\ sorting = "split" /\ sorting' = "pop" /\ UNCHANGED << given, segments, fragment >>
      /\ array' = InsertionSort(array, fragment.base, fragment.count)
    BY DEF Insert
<1>2. PICK base, n : base = fragment.base /\ n = fragment.count
    OBVIOUS
<1>3. /\ base \in Nat \ {0} /\ n \in Nat /\ base + n - 1 <= Total /\ Total \in Nat
      /\ IsRow(array, Total) /\ HasKeys(array, Total) /\ fragment \in Parts(Total)
    BY <1>2, SortFacts DEF SortInv, SortTypes
<1>4. /\ InsertionSort(array, base, n) \in Arranged(array, base, base + n - 1, Total)
      /\ SortedIn(InsertionSort(array, base, n), base, base + n - 1)
    BY <1>3, InsertionSorts
<1> QED
    BY <1>1, <1>2, <1>3, <1>4, FragmentSorted

LEMMA TooDeepSorts == ASSUME SortInv, TooDeep PROVE SortInv'
<1>1. /\ sorting = "split" /\ sorting' = "pop" /\ UNCHANGED << given, segments >>
      /\ array' = HeapSort(array, fragment.base, fragment.count)
      /\ fragment' = [fragment EXCEPT !.count = 0, !.depth = @ + 1]
      /\ fragment.count > InsertionMax
    BY DEF TooDeep
<1>2. PICK base, n : base = fragment.base /\ n = fragment.count
    OBVIOUS
<1>3. /\ base \in Nat \ {0} /\ n \in Nat /\ base + n - 1 <= Total /\ Total \in Nat
      /\ IsRow(array, Total) /\ HasKeys(array, Total) /\ fragment \in Parts(Total)
    BY <1>2, SortFacts DEF SortInv, SortTypes
<1>4. n > 1
    BY <1>1, <1>2, <1>3, RqsortAssumption
<1>5. /\ HeapSort(array, base, n) \in Arranged(array, base, base + n - 1, Total)
      /\ SortedIn(HeapSort(array, base, n), base, base + n - 1)
    BY <1>3, <1>4, HeapSorts
<1>6. fragment' \in Parts(Total)
    <2>1. fragment \in [base : Nat \ {0}, count : Nat, depth : Nat]
        BY <1>3 DEF Parts
    <2>2. fragment' \in [base : Nat \ {0}, count : Nat, depth : Nat]
          /\ fragment'.base = base /\ fragment'.count = 0
        <3>1. fragment' = [base |-> fragment.base, count |-> 0, depth |-> fragment.depth + 1]
            BY <1>1, <2>1
        <3>2. fragment.depth + 1 \in Nat /\ fragment.base \in Nat \ {0} /\ 0 \in Nat
            BY <2>1
        <3> QED
            BY <1>2, <3>1, <3>2
    <2>3. fragment'.base + fragment'.count - 1 <= Total
        BY <1>3, <2>2
    <2> QED
        BY <2>2, <2>3 DEF Parts
<1> QED
    BY <1>1, <1>2, <1>5, <1>6, FragmentSorted

LEMMA GatherSorts == ASSUME SortInv, Gather PROVE SortInv'
<1>1. /\ sorting = "gather" /\ sorting \in PARTING /\ sorting' = "split" /\ UNCHANGED << given >>
    BY DEF Gather, PARTING
<1>2. PICK base, top, lt, i, gt : /\ base = fragment.base /\ top = fragment.base + fragment.count
                                  /\ lt = cursor.lt /\ i = cursor.i /\ gt = cursor.gt
    OBVIOUS
<1>3. /\ lt \in Int /\ i \in Int /\ gt \in Int
      /\ Parted(array, base, top, lt, i, i, gt)
      /\ base \in 1 .. Total /\ top \in Int /\ top - 1 <= Total
      /\ Total \in Nat /\ IsRow(array, Total) /\ HasKeys(array, Total)
      /\ Span(fragment) = base .. top - 1 /\ InWork
      /\ top - fragment.count = base
    <2>1. base \in Int /\ fragment.count \in Int
        BY <1>2, SortFacts
    <2>2. Span(fragment) = base .. top - 1 /\ top - fragment.count = base
        BY <1>2, <2>1 DEF Span
    <2> QED
        BY <1>1, <1>2, <2>2, PartFacts, SortFacts
<1>4. base < lt /\ lt <= i /\ i <= gt /\ gt <= top /\ base \in Int
    BY <1>3 DEF Parted
<1> DEFINE low == Shorter(lt - base, i - lt)
           high == Shorter(top - gt, gt - i)
           g == SwapBlock(SwapBlock(array, base, i - low, low), i, top - high, high)
<1>5. array' = g
    BY <1>2 DEF Gather, Gathered, Shorter
<1>6. /\ array' \in Arranged(array, base, top - 1, Total)
      /\ \A k \in base .. base + (i - lt) - 1 : Key(array'[k]) < Key(array[base])
      /\ \A k \in base + (i - lt) .. top - (gt - i) - 1 : Key(array'[k]) = Key(array[base])
      /\ \A k \in top - (gt - i) .. top - 1 : Key(array'[k]) > Key(array[base])
    <2>1. PICK l, h, s : l = low /\ h = high /\ s = g
        OBVIOUS
    <2>2. /\ l = Shorter(lt - base, i - lt) /\ h = Shorter(top - gt, gt - i)
          /\ s = SwapBlock(SwapBlock(array, base, i - l, l), i, top - h, h)
        BY <2>1
    <2> HIDE DEF low, high, g
    <2>3. /\ s \in Arranged(array, base, top - 1, Total)
          /\ \A k \in base .. base + (i - lt) - 1 : Key(s[k]) < Key(array[base])
          /\ \A k \in base + (i - lt) .. top - (gt - i) - 1 : Key(s[k]) = Key(array[base])
          /\ \A k \in top - (gt - i) .. top - 1 : Key(s[k]) > Key(array[base])
        <3>1. GatheredTo(s, array, base, top, lt, i, gt, Total)
            BY <1>3, <2>2, GatherParts
        <3> QED
            BY <3>1, Zenon DEF GatheredTo
    <2> QED
        BY <1>5, <2>1, <2>3
<1> HIDE DEF low, high, g
<1>7. PICK below, above :
         /\ below = Fragment(base, i - lt, fragment.depth)
         /\ above = Fragment(top - (gt - i), gt - i, fragment.depth)
         /\ \/ segments' = Append(segments, below) /\ fragment' = above
            \/ segments' = Append(segments, above) /\ fragment' = below
    <2> DEFINE b == Fragment(base, i - lt, fragment.depth)
               c == Fragment(top - (gt - i), gt - i, fragment.depth)
    <2> DEFINE x == Fragment(fragment.base, cursor.i - cursor.lt, fragment.depth)
               y == Fragment(fragment.base + fragment.count - (cursor.gt - cursor.i),
                             cursor.gt - cursor.i, fragment.depth)
    <2>1. segments' = Append(segments, IF x.count > y.count THEN x ELSE y)
        BY Zenon DEF Gather
    <2>2. fragment' = IF x.count > y.count THEN y ELSE x
        BY Zenon DEF Gather
    <2>3. x = b /\ y = c
        <3>1. fragment.base \in Int /\ fragment.count \in Int
            BY SortFacts
        <3>2. cursor.i - cursor.lt = i - lt
            BY <1>2, Zenon
        <3>3. cursor.gt - cursor.i = gt - i
            BY <1>2, Zenon
        <3>4. fragment.base + fragment.count - (cursor.gt - cursor.i) = top - (gt - i)
            <4>1. PICK f, m, d : f = fragment.base /\ m = fragment.count /\ d = cursor.gt - cursor.i
                OBVIOUS
            <4>2. f \in Int /\ m \in Int /\ d \in Int /\ d = gt - i /\ top = f + m
                BY <1>2, <1>3, <3>1, <3>3, <4>1
            <4>3. f + m - d = top - d
                BY <4>2
            <4> QED
                BY <4>1, <4>2, <4>3, Zenon
        <3> QED
            BY <1>2, <3>2, <3>3, <3>4, Zenon
    <2> QED
        BY <2>1, <2>2, <2>3
<1>8. /\ below \in Parts(Total) /\ above \in Parts(Total)
      /\ Span(below) = base .. base + (i - lt) - 1
      /\ Span(above) = top - (gt - i) .. top - 1
    <2>1. fragment.depth \in Nat
        BY DEF SortInv, SortTypes, Parts
    <2>2. /\ below.base = base /\ below.count = i - lt
          /\ above.base = top - (gt - i) /\ above.count = gt - i
        BY <1>7 DEF Fragment
    <2>3. /\ base \in Nat \ {0} /\ i - lt \in Nat /\ base + (i - lt) - 1 <= Total
          /\ top - (gt - i) \in Nat \ {0} /\ gt - i \in Nat
          /\ (top - (gt - i)) + (gt - i) - 1 = top - 1 /\ top - 1 <= Total
        BY <1>3, <1>4
    <2>4. below \in Parts(Total) /\ above \in Parts(Total)
        BY <1>7, <2>1, <2>3 DEF Parts, Fragment
    <2> QED
        BY <2>2, <2>3, <2>4 DEF Span
<1>9. /\ Span(below) \subseteq Span(fragment) /\ Span(above) \subseteq Span(fragment)
      /\ Span(below) \cap Span(above) = {}
    BY <1>3, <1>4, <1>8
<1>10. PICK larger, smaller :
          /\ segments' = Append(segments, larger) /\ fragment' = smaller
          /\ larger \in Parts(Total) /\ smaller \in Parts(Total)
          /\ Span(larger) \subseteq Span(fragment) /\ Span(smaller) \subseteq Span(fragment)
          /\ Span(larger) \cap Span(smaller) = {}
          /\ { Span(larger), Span(smaller) } = { Span(below), Span(above) }
    BY <1>7, <1>8, <1>9
<1>11. PICK n : n = Len(segments)
    OBVIOUS
<1>12. /\ n \in Nat /\ segments' \in Seq(Parts(Total)) /\ Len(segments') = n + 1
       /\ \A k \in 1 .. n : segments'[k] = segments[k]
       /\ segments'[n + 1] = larger
    <2>1. segments \in Seq(Parts(Total))
        BY DEF SortInv, SortTypes
    <2> QED
        BY <1>10, <1>11, <2>1, AppendProperties, LenProperties
<1>13. Total' = Total /\ InWork' /\ sorting' \notin PARTING /\ sorting' # "done"
    BY <1>1 DEF Total, InWork, PARTING
<1>14. SortTypes'
    <2>1. Elements(given)
        BY DEF SortInv, SortTypes
    <2>2. Elements(given')
        BY <1>1, <2>1
    <2>3. fragment' \in Parts(Total)
        BY <1>10
    <2> QED
        BY <1>1, <1>12, <1>13, <2>2, <2>3 DEF SortTypes, Elements, IsRow, HasKeys
<1>15. /\ \A k, l \in 1 .. n : k # l => Span(segments[k]) \cap Span(segments[l]) = {}
       /\ \A k \in 1 .. n : Span(segments[k]) \cap Span(fragment) = {}
    BY <1>3, <1>11 DEF SortInv, NoneTwice
<1>16. NoneTwice'
    <2>1. \A k \in 1 .. n : /\ Span(segments'[k]) \cap Span(larger) = {}
                            /\ Span(segments'[k]) \cap Span(smaller) = {}
        BY <1>10, <1>12, <1>15
    <2>2. \A k \in 1 .. n + 1 : k \in 1 .. n \/ k = n + 1
        BY <1>12
    <2>3. \A k \in 1 .. n + 1 : Span(segments'[k]) \cap Span(smaller) = {}
        BY <1>10, <1>12, <2>1, <2>2
    <2>4. ASSUME NEW k \in 1 .. n + 1, NEW l \in 1 .. n + 1, k # l
          PROVE  Span(segments'[k]) \cap Span(segments'[l]) = {}
        <3>1. CASE k \in 1 .. n /\ l \in 1 .. n
            BY <1>12, <1>15, <2>4, <3>1
        <3>2. CASE k \in 1 .. n /\ l = n + 1
            BY <1>12, <2>1, <3>2
        <3>3. CASE k = n + 1 /\ l \in 1 .. n
            BY <1>12, <2>1, <3>3
        <3> QED
            BY <2>2, <2>4, <3>1, <3>2, <3>3
    <2> QED
        BY <1>10, <1>12, <2>3, <2>4 DEF NoneTwice, Span
<1>17. Waiting \subseteq Pending' /\ Span(below) \in Pending' /\ Span(above) \in Pending'
    <2>1. \A k \in 1 .. n : k \in 1 .. n + 1 /\ n + 1 \in 1 .. n + 1
        BY <1>12
    <2>2. Waiting' = { Span(segments'[k]) : k \in 1 .. n + 1 }
        BY <1>12 DEF Waiting, Span
    <2>3. n + 1 \in 1 .. n + 1
        BY <1>12
    <2>4. Waiting \subseteq Waiting' /\ Span(larger) \in Waiting'
        BY <1>11, <1>12, <2>1, <2>2, <2>3 DEF Waiting
    <2>5. Span(smaller) \in Pending' /\ Waiting' \subseteq Pending'
        BY <1>10, <1>13 DEF Pending, Span
    <2> QED
        BY <1>10, <2>4, <2>5
<1>18. \A k, l \in Span(fragment) : k < l =>
          Key(array'[k]) <= Key(array'[l]) \/ \E S \in Pending' : k \in S /\ l \in S
    <2> SUFFICES ASSUME NEW k \in base .. top - 1, NEW l \in base .. top - 1, k < l
                 PROVE  Key(array'[k]) <= Key(array'[l]) \/ \E S \in Pending' : k \in S /\ l \in S
        BY <1>3
    <2>1. Key(array'[k]) \in Int /\ Key(array'[l]) \in Int /\ Key(array[base]) \in Int
        <3>1. HasKeys(array', Total)
            BY <1>3, <1>6, ArrangedKeys
        <3>2. k \in 1 .. Total /\ l \in 1 .. Total
            BY <1>3
        <3> QED
            BY <1>3, <3>1, <3>2 DEF HasKeys
    <2>2. CASE k \in Span(below) /\ l \in Span(below)
        BY <1>17, <2>2
    <2>3. CASE k \in Span(above) /\ l \in Span(above)
        BY <1>17, <2>3
    <2>4. CASE k \notin Span(above) /\ l \notin Span(below)
        <3>1. Key(array'[k]) <= Key(array[base])
            <4>1. CASE k \in Span(below)
                BY <1>6, <1>8, <2>1, <4>1
            <4>2. CASE k \notin Span(below)
                <5>1. k \in base + (i - lt) .. top - (gt - i) - 1
                    BY <1>3, <1>4, <1>8, <2>4, <4>2
                <5> QED
                    BY <1>6, <2>1, <5>1
            <4> QED
                BY <4>1, <4>2
        <3>2. Key(array[base]) <= Key(array'[l])
            <4>1. CASE l \in Span(above)
                BY <1>6, <1>8, <2>1, <4>1
            <4>2. CASE l \notin Span(above)
                <5>1. l \in base + (i - lt) .. top - (gt - i) - 1
                    BY <1>3, <1>4, <1>8, <2>4, <4>2
                <5> QED
                    BY <1>6, <2>1, <5>1
            <4> QED
                BY <4>1, <4>2
        <3> QED
            BY <2>1, <3>1, <3>2
    <2>5. (k \in Span(above) => l \in Span(above)) /\ (l \in Span(below) => k \in Span(below))
        BY <1>3, <1>4, <1>8
    <2> QED
        BY <2>2, <2>3, <2>4, <2>5
<1>19. /\ array' \in Arranged(given', 1, Total', Total')
       /\ OrderedBut(array', Total', Pending')
    <2>1. array' \in Arranged(array, fragment.base, fragment.base + fragment.count - 1, Total)
        <3>1. array' \in Arranged(array, base, top - 1, Total)
            BY <1>6
        <3>2. PICK hi : hi = top - 1
            OBVIOUS
        <3>3. hi = fragment.base + fragment.count - 1
            BY <1>2, <1>3, <3>2, SortFacts
        <3> QED
            BY <1>2, <3>1, <3>2, <3>3, Zenon
    <2> QED
        BY <1>1, <1>3, <1>17, <1>18, <2>1, Rearranged
<1>20. OrderedBut(array, Total, Pending)'
    BY <1>19
<1> QED
    BY <1>13, <1>14, <1>16, <1>19, <1>20 DEF SortInv

-----------------------------------------------------------------------------
(* How a call begins: one fragment holds all the elements that are still   *)
(* to be sorted, if there are any.                                         *)
BegunWith(x) ==
    LET n == Len(x)
        whole == Whole(x)
    IN  /\ whole \in Seq(Parts(n))
        /\ NoFragment \in Parts(n)
        /\ FirstPhase(x) \in { "pop", "done" }
        /\ FirstPhase(x) = "done" => whole = << >>
        /\ \A k, l \in 1 .. Len(whole) : k = l
        /\ x \in Arranged(x, 1, n, n)
        /\ OrderedBut(x, n, { Span(whole[k]) : k \in 1 .. Len(whole) })

LEMMA WholeBegins == ASSUME NEW x, Elements(x) PROVE BegunWith(x)
<1>1. PICK n : n = Len(x)
    OBVIOUS
<1>2. n \in Nat
    BY <1>1 DEF Elements
<1>3. NoFragment \in Parts(n)
    <2>1. 1 + 0 - 1 <= n /\ 1 \in Nat \ {0} /\ 0 \in Nat
        BY <1>2
    <2> QED
        BY <1>2, <2>1 DEF Parts, NoFragment, Fragment
<1>4. x \in Arranged(x, 1, n, n)
    BY <1>1, <1>2, SelfArranged DEF Elements
<1>5. CASE n < 2
    <2>1. Whole(x) = << >> /\ FirstPhase(x) = "done" /\ Len(Whole(x)) = 0
        BY <1>1, <1>5 DEF Whole, FirstPhase
    <2>2. \A P : OrderedBut(x, n, P)
        BY <1>2, <1>5 DEF OrderedBut
    <2> QED
        BY <1>1, <1>3, <1>4, <2>1, <2>2 DEF BegunWith
<1>6. CASE ~(n < 2)
    <2>1. PICK f : f = Fragment(1, n, 0)
        OBVIOUS
    <2>2. Whole(x) = << f >> /\ FirstPhase(x) = "pop"
        BY <1>1, <1>6, <2>1 DEF Whole, FirstPhase
    <2>3. f \in Parts(n) /\ Span(f) = 1 .. n
        <3>1. 1 + n - 1 = n /\ n <= n /\ 1 \in Nat \ {0} /\ 0 \in Nat
            BY <1>2
        <3> QED
            BY <1>2, <2>1, <3>1 DEF Parts, Fragment, Span
    <2>4. Len(Whole(x)) = 1 /\ Whole(x)[1] = f /\ Whole(x) \in Seq(Parts(n))
        BY <2>2, <2>3
    <2>5. \A k, l \in 1 .. Len(Whole(x)) : k = l
        BY <2>4
    <2>6. PICK P : P = { Span(Whole(x)[k]) : k \in 1 .. Len(Whole(x)) }
        OBVIOUS
    <2>7. 1 .. n \in P
        <3>1. 1 \in 1 .. Len(Whole(x))
            BY <2>4
        <3> QED
            BY <2>3, <2>4, <2>6, <3>1
    <2>8. OrderedBut(x, n, P)
        BY <1>2, <2>7 DEF OrderedBut
    <2> QED
        BY <1>1, <1>3, <1>4, <2>2, <2>4, <2>5, <2>6, <2>8 DEF BegunWith
<1> QED
    BY <1>5, <1>6

LEMMA BeginsSorts == ASSUME NEW x, Elements(x), Begins(x) PROVE SortInv
<1>1. BegunWith(x)
    BY WholeBegins
<1>2. /\ given = x /\ array = x /\ segments = Whole(x)
      /\ fragment = NoFragment /\ sorting = FirstPhase(x)
    BY DEF Begins
<1>3. sorting \in { "pop", "done" } /\ ~InWork /\ sorting \notin PARTING
    BY <1>1, <1>2 DEF BegunWith, InWork, PARTING
<1>4. Total = Len(x) /\ Pending = { Span(Whole(x)[k]) : k \in 1 .. Len(Whole(x)) }
    BY <1>2, <1>3 DEF Total, Pending, Waiting
<1>5. SortTypes
    BY <1>1, <1>2, <1>3, <1>4 DEF SortTypes, BegunWith
<1>6. NoneTwice
    BY <1>1, <1>2, <1>3 DEF NoneTwice, BegunWith
<1> QED
    BY <1>1, <1>2, <1>3, <1>4, <1>5, <1>6 DEF SortInv, BegunWith

LEMMA CallSorts == ASSUME NEW x, Elements(x), Call(x) PROVE SortInv'
<1>1. BegunWith(x)
    BY WholeBegins
<1>2. /\ given' = x /\ array' = x /\ segments' = Whole(x)
      /\ fragment' = NoFragment /\ sorting' = FirstPhase(x)
    BY DEF Call
<1>3. sorting' \in { "pop", "done" } /\ ~InWork' /\ sorting' \notin PARTING
    BY <1>1, <1>2 DEF BegunWith, InWork, PARTING
<1>4. Total' = Len(x) /\ Pending' = { Span(Whole(x)[k]) : k \in 1 .. Len(Whole(x)) }
    BY <1>2, <1>3 DEF Total, Pending, Waiting, Span
<1>5. SortTypes'
    BY <1>1, <1>2, <1>3, <1>4 DEF SortTypes, BegunWith
<1>6. NoneTwice'
    BY <1>1, <1>2, <1>3 DEF NoneTwice, BegunWith
<1>7. OrderedBut(array, Total, Pending)'
    BY <1>1, <1>2, <1>4 DEF BegunWith
<1> QED
    BY <1>1, <1>2, <1>3, <1>4, <1>5, <1>6, <1>7 DEF SortInv, BegunWith

LEMMA SortStepSorts == ASSUME SortInv, SortStep PROVE SortInv'
BY PopSorts, DoneSorts, ChoosePivotSorts, TooDeepSorts, UpSorts, DownSorts, MeetSorts,
   GatherSorts, InsertSorts DEF SortStep

(* No element is lost or gained when they are moved around.                *)
LEMMA ArrangedOccurs ==
    ASSUME NEW n \in Nat, NEW a, IsRow(a, n), NEW b \in Arranged(a, 1, n, n), NEW e
    PROVE  Occurrences(b, e) = Occurrences(a, e)
<1>0. PICK lo, hi : lo = 1 /\ hi = n
    OBVIOUS
<1>10. b \in Arranged(a, lo, hi, n)
    BY <1>0
<1>1. PICK p \in Perms(lo, hi, n) : \A i \in 1 .. n : b[i] = a[p[i]]
    BY <1>10, ArrangedWhich
<1>2. IsRow(b, n)
    BY <1>10, ArrangedWhich
<1>3. PICK A, B : A = { i \in 1 .. n : a[i] = e } /\ B = { i \in 1 .. n : b[i] = e }
    OBVIOUS
<1>4. DOMAIN a = 1 .. n /\ DOMAIN b = 1 .. n
    BY <1>2 DEF IsRow
<1>5. Occurrences(a, e) = Cardinality(A) /\ Occurrences(b, e) = Cardinality(B)
    BY <1>3, <1>4 DEF Occurrences
<1>6. /\ p \in [1 .. n -> 1 .. n]
      /\ \A i, j \in 1 .. n : p[i] = p[j] => i = j
      /\ \A k \in 1 .. n : \E i \in 1 .. n : p[i] = k
    BY <1>1 DEF Perms
<1> DEFINE g == [i \in B |-> p[i]]
<1>7. g \in Bijection(B, A)
    <2>1. \A i \in B : i \in 1 .. n /\ p[i] \in A
        BY <1>1, <1>3, <1>6
    <2>2. g \in [B -> A] /\ \A i \in B : g[i] = p[i]
        BY <2>1
    <2>3. \A k \in A : \E i \in B : g[i] = k
        <3> SUFFICES ASSUME NEW k \in A PROVE \E i \in B : g[i] = k
            OBVIOUS
        <3>1. PICK i \in 1 .. n : p[i] = k
            BY <1>3, <1>6
        <3>2. i \in B
            BY <1>1, <1>3, <3>1
        <3> QED
            BY <2>2, <3>1, <3>2
    <2>4. \A i, j \in B : g[i] = g[j] => i = j
        BY <1>6, <2>1, <2>2
    <2> HIDE DEF g
    <2>5. g \in Injection(B, A)
        BY <2>2, <2>4 DEF Injection, IsInjective
    <2>6. g \in Surjection(B, A)
        BY <2>2, <2>3 DEF Surjection
    <2> QED
        BY <2>5, <2>6 DEF Bijection
<1>8. IsFiniteSet(B)
    <2>1. IsFiniteSet(1 .. n)
        BY FS_Interval
    <2>2. B \subseteq 1 .. n
        BY <1>3
    <2> QED
        BY <2>1, <2>2, FS_Subset
<1>9. Cardinality(B) = Cardinality(A)
    BY <1>7, <1>8, FS_Bijection DEF ExistsBijection
<1> QED
    BY <1>5, <1>9

LEMMA SortInvSays == ASSUME SortInv PROVE SortsArray
<1> SUFFICES ASSUME sorting = "done" PROVE SortsArray
    BY DEF SortsArray
<1>1. PICK n : n = Len(given)
    OBVIOUS
<1>2. n \in Nat /\ IsRow(given, n) /\ array \in Arranged(given, 1, n, n) /\ IsRow(array, n)
    BY <1>1, SortFacts DEF SortInv, SortTypes, Elements, Total
<1>3. DOMAIN given = 1 .. n
    BY <1>2 DEF IsRow
<1>4. Len(array) = n
    BY <1>2 DEF IsRow
<1>5. Pending = {}
    <2>1. segments = << >> /\ ~InWork
        BY DEF SortInv, SortTypes, InWork
    <2>2. Len(segments) = 0
        BY <2>1
    <2>3. 1 .. 0 = {}
        OBVIOUS
    <2> QED
        BY <2>1, <2>2, <2>3 DEF Pending, Waiting
<1>6. ASSUME NEW i \in 1 .. n - 1 PROVE Key(array[i]) <= Key(array[i + 1])
    <2>1. i \in 1 .. n /\ i + 1 \in 1 .. n /\ i < i + 1
        BY <1>2
    <2>2. OrderedBut(array, n, {})
        BY <1>1, <1>5 DEF SortInv, Total
    <2> QED
        BY <2>1, <2>2 DEF OrderedBut
<1>7. \A i \in DOMAIN given : Occurrences(array, given[i]) = Occurrences(given, given[i])
    BY <1>2, ArrangedOccurs
<1> QED
    BY <1>1, <1>4, <1>6, <1>7 DEF SortsArray

-----------------------------------------------------------------------------
(* A call of rqsort, for any elements whose keys are numbers: when it ends *)
(* the array holds every element it was given, as often as it was given,   *)
(* and in order.                                                           *)
THEOREM RqsortSorts ==
    ASSUME NEW CONSTANT elements, Elements(elements)
    PROVE  Begins(elements) /\ [][SortStep]_sortVars => []SortsArray
<1>1. Begins(elements) => SortInv
    BY BeginsSorts
<1>2. SortInv /\ [SortStep]_sortVars => SortInv'
    BY SortStepSorts, SameSort DEF sortVars
<1>3. SortInv => SortsArray
    BY SortInvSays
<1> QED
    BY <1>1, <1>2, <1>3, PTL
=============================================================================
