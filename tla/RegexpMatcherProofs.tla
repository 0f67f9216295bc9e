------------------------ MODULE RegexpMatcherProofs ------------------------
(***************************************************************************)
(* Proofs about RegexpMatcher: whatever well-formed program it is given    *)
(* and whatever text, the matcher stays within the text, the captures, its *)
(* stack and its code (InBounds).                                          *)
(*                                                                         *)
(* Induction over numbers is done by looking at the least counterexample   *)
(* (LeastOne), since a set needs no operator as a parameter.               *)
(***************************************************************************)
EXTENDS RegexpMatcher, FiniteSetTheorems, SequenceTheorems, WellFoundedInduction, TLAPS

LEMMA LeastOne ==
    ASSUME NEW S, S \subseteq Nat, S # {}
    PROVE  \E x \in S : \A y \in S : x <= y
<1>1. IsWellFoundedOn(OpToRel(<, Nat), Nat)
  BY NatLessThanWellFounded
<1>2. PICK x \in S : \A y \in S : ~(<< y, x >> \in OpToRel(<, Nat))
  BY <1>1, WFMin
<1>3. \A y \in S : ~(y < x)
  BY <1>2 DEF OpToRel
<1> QED
  BY <1>3

-----------------------------------------------------------------------------
(* The places of a text, and how many of them are before one. These are    *)
(* Places and CharsBefore with the job as an argument.                     *)
InPairOf(j, p) ==
    /\ j.type = 1 /\ j.prog.unicode
    /\ 0 < p /\ p < Len(j.input)
    /\ IsLow(j.input[p + 1]) /\ IsHigh(j.input[p])

PlacesOf(j) == { p \in 0 .. Len(j.input) : ~InPairOf(j, p) }
Below(j, p) == { q \in PlacesOf(j) : q < p }
CharsBelow(j, p) == Cardinality(Below(j, p))

LEMMA JobFacts ==
    ASSUME NEW j \in Jobs
    PROVE  /\ WellFormed(j.prog)
           /\ j.prog.captures \in 1 .. CapturesMax
           /\ j.from \in 0 .. Len(j.input)
           /\ j.input \in Seq(Nat)
           /\ Len(j.input) \in Nat
           /\ j.prog.unicode \in BOOLEAN
           /\ j.type \in 0 .. 1
BY JobsAssumption

LEMMA PlacesAgree ==
    /\ Places = PlacesOf(job)
    /\ \A p : InPair(p) <=> InPairOf(job, p)
    /\ \A p : CharsBefore(p) = CharsBelow(job, p)
<1>1. \A p : InPair(p) <=> InPairOf(job, p)
  BY DEF InPair, InPairOf, Utf16, is_unicode, prog, clen, input
<1>2. Places = PlacesOf(job)
  BY <1>1 DEF Places, PlacesOf, clen, input
<1> QED
  BY <1>1, <1>2 DEF CharsBefore, CharsBelow, Below

LEMMA CountsBelow ==
    ASSUME NEW j \in Jobs, NEW p \in Nat
    PROVE  /\ IsFiniteSet(Below(j, p))
           /\ CharsBelow(j, p) \in Nat
           /\ CharsBelow(j, 0) = 0
<1>1. Below(j, p) \subseteq 0 .. Len(j.input) /\ Below(j, 0) = {}
  BY JobFacts DEF Below, PlacesOf
<1>2. IsFiniteSet(0 .. Len(j.input))
  BY JobFacts, FS_Interval
<1>3. IsFiniteSet(Below(j, p))
  BY <1>1, <1>2, FS_Subset
<1> QED
  BY <1>1, <1>3, FS_CardinalityType, FS_EmptySet DEF CharsBelow

(* Two places with none between them.                                      *)
LEMMA NextPlace ==
    ASSUME NEW j \in Jobs, NEW p \in PlacesOf(j), NEW q \in PlacesOf(j), p < q,
           \A x \in PlacesOf(j) : x <= p \/ q <= x
    PROVE  CharsBelow(j, q) = CharsBelow(j, p) + 1
<1>1. p \in Nat /\ q \in Nat
  BY JobFacts DEF PlacesOf
<1>2. Below(j, q) = Below(j, p) \union { p }
  <2>1. \A x \in PlacesOf(j) : x \in Nat
    BY JobFacts DEF PlacesOf
  <2>2. \A x \in PlacesOf(j) : x < q <=> x < p \/ x = p
    BY <1>1, <2>1
  <2> QED
    BY <2>2 DEF Below
<1>3. p \notin Below(j, p)
  BY <1>1 DEF Below
<1>4. IsFiniteSet(Below(j, p))
  BY <1>1, CountsBelow
<1> QED
  BY <1>2, <1>3, <1>4, FS_AddElement DEF CharsBelow

(* GET_CHAR and GET_PREV_CHAR go from a place to the next one.             *)
LEMMA CharAtStep ==
    ASSUME job \in Jobs, NEW a \in PlacesOf(job), NEW e \in PlacesOf(job), a < e
    PROVE  /\ CharAt(a, e).p \in PlacesOf(job)
           /\ CharsBelow(job, CharAt(a, e).p) = CharsBelow(job, a) + 1
<1> DEFINE n == Len(job.input)
           q == CharAt(a, e).p
           wide == job.type = 1 /\ job.prog.unicode
<1>1. n \in Nat /\ a \in 0 .. n /\ e \in 0 .. n
  BY JobFacts DEF PlacesOf
<1>2. a \in Int /\ e \in Int /\ a >= 0 /\ e <= n
  BY <1>1
<1>3. ~InPairOf(job, a) /\ ~InPairOf(job, e)
  BY DEF PlacesOf
<1>4. \A c \in Nat : ~(IsLow(c) /\ IsHigh(c))
  BY DEF IsLow, IsHigh
<1>5. \A i \in 1 .. n : job.input[i] \in Nat
  BY JobFacts
<1> HIDE DEF n
<1>6. CASE wide /\ IsHigh(job.input[a + 1]) /\ a + 1 < e /\ IsLow(job.input[a + 2])
  <2>1. q = a + 2
    BY <1>6 DEF CharAt, Utf16, is_unicode, prog, input
  <2>2. a + 2 \in 0 .. n
    BY <1>6, <1>2, <1>1
  <2>3. ~IsHigh(job.input[a + 2])
    BY <1>6, <1>4, <1>5, <1>2, <1>1
  <2>4. a + 2 \in PlacesOf(job)
    BY <2>2, <2>3 DEF PlacesOf, InPairOf, n
  <2>5. InPairOf(job, a + 1)
    <3>1. 0 < a + 1 /\ a + 1 < n /\ (a + 1) + 1 = a + 2
      BY <1>6, <1>2, <1>1
    <3> QED
      BY <3>1, <1>6 DEF InPairOf, n
  <2>6. \A x \in PlacesOf(job) : x <= a \/ a + 2 <= x
    <3>1. \A x \in PlacesOf(job) : x \in Int /\ x # a + 1
      BY <2>5, JobFacts DEF PlacesOf
    <3> QED
      BY <3>1, <1>2
  <2>7. CharsBelow(job, a + 2) = CharsBelow(job, a) + 1
    BY <2>4, <2>6, <1>2, NextPlace
  <2> HIDE DEF q
  <2> QED
    BY <2>1, <2>4, <2>7 DEF q
<1>7. CASE ~(wide /\ IsHigh(job.input[a + 1]) /\ a + 1 < e /\ IsLow(job.input[a + 2]))
  <2>1. q = a + 1
    BY <1>7 DEF CharAt, Utf16, is_unicode, prog, input
  <2>2. a + 1 \in 0 .. n
    BY <1>2, <1>1
  <2>3. ~InPairOf(job, a + 1)
    <3> SUFFICES ASSUME InPairOf(job, a + 1) PROVE FALSE
      OBVIOUS
    <3>1. (a + 1) + 1 = a + 2
      BY <1>2
    <3>2. wide /\ IsHigh(job.input[a + 1]) /\ IsLow(job.input[a + 2])
      BY <3>1 DEF InPairOf
    <3>3. ~(a + 1 < e)
      BY <3>2, <1>7
    <3>4. e = a + 1
      BY <3>3, <1>2
    <3> QED
      BY <3>4, <1>3
  <2>4. a + 1 \in PlacesOf(job)
    BY <2>2, <2>3 DEF PlacesOf, n
  <2>5. \A x \in PlacesOf(job) : x <= a \/ a + 1 <= x
    <3>1. \A x \in PlacesOf(job) : x \in Int
      BY JobFacts DEF PlacesOf
    <3> QED
      BY <3>1, <1>2
  <2>6. CharsBelow(job, a + 1) = CharsBelow(job, a) + 1
    BY <2>4, <2>5, <1>2, NextPlace
  <2> HIDE DEF q
  <2> QED
    BY <2>1, <2>4, <2>6 DEF q
<1> HIDE DEF q, wide
<1> QED
  BY <1>6, <1>7 DEF q

LEMMA CharBeforeStep ==
    ASSUME job \in Jobs, NEW a \in PlacesOf(job), NEW e \in PlacesOf(job), e < a
    PROVE  /\ CharBefore(a, e).p \in PlacesOf(job)
           /\ CharsBelow(job, a) = CharsBelow(job, CharBefore(a, e).p) + 1
<1> DEFINE n == Len(job.input)
           q == CharBefore(a, e).p
           wide == job.type = 1 /\ job.prog.unicode
<1>1. n \in Nat /\ a \in 0 .. n /\ e \in 0 .. n
  BY JobFacts DEF PlacesOf
<1>2. a \in Int /\ e \in Int /\ a <= n /\ e >= 0
  BY <1>1
<1>3. ~InPairOf(job, a) /\ ~InPairOf(job, e)
  BY DEF PlacesOf
<1>4. \A c \in Nat : ~(IsLow(c) /\ IsHigh(c))
  BY DEF IsLow, IsHigh
<1>5. \A i \in 1 .. n : job.input[i] \in Nat
  BY JobFacts
<1> HIDE DEF n
<1>6. CASE wide /\ IsLow(job.input[a]) /\ a - 1 > e /\ IsHigh(job.input[a - 1])
  <2>1. q = a - 2
    BY <1>6 DEF CharBefore, Utf16, is_unicode, prog, input
  <2>2. a - 2 \in 0 .. n
    BY <1>6, <1>2, <1>1
  <2>3. ~InPairOf(job, a - 2)
    <3>1. (a - 2) + 1 = a - 1 /\ a - 1 \in 1 .. n
      BY <2>2, <1>6, <1>2, <1>1
    <3>2. ~IsLow(job.input[a - 1])
      BY <3>1, <1>6, <1>4, <1>5
    <3> QED
      BY <3>1, <3>2 DEF InPairOf
  <2>4. a - 2 \in PlacesOf(job)
    BY <2>2, <2>3 DEF PlacesOf, n
  <2>5. InPairOf(job, a - 1)
    <3>1. 0 < a - 1 /\ a - 1 < n /\ (a - 1) + 1 = a
      BY <1>6, <1>2, <1>1
    <3> QED
      BY <3>1, <1>6 DEF InPairOf, n
  <2>6. \A x \in PlacesOf(job) : x <= a - 2 \/ a <= x
    <3>1. \A x \in PlacesOf(job) : x \in Int /\ x # a - 1
      BY <2>5, JobFacts DEF PlacesOf
    <3> QED
      BY <3>1, <1>2
  <2>7. CharsBelow(job, a) = CharsBelow(job, a - 2) + 1
    BY <2>4, <2>6, <1>2, NextPlace
  <2> HIDE DEF q
  <2> QED
    BY <2>1, <2>4, <2>7 DEF q
<1>7. CASE ~(wide /\ IsLow(job.input[a]) /\ a - 1 > e /\ IsHigh(job.input[a - 1]))
  <2>1. q = a - 1
    BY <1>7 DEF CharBefore, Utf16, is_unicode, prog, input
  <2>2. a - 1 \in 0 .. n
    BY <1>2, <1>1
  <2>3. ~InPairOf(job, a - 1)
    <3> SUFFICES ASSUME InPairOf(job, a - 1) PROVE FALSE
      OBVIOUS
    <3>1. (a - 1) + 1 = a
      BY <1>2
    <3>2. wide /\ IsHigh(job.input[a - 1]) /\ IsLow(job.input[a])
      BY <3>1 DEF InPairOf
    <3>3. ~(a - 1 > e)
      BY <3>2, <1>7
    <3>4. e = a - 1
      BY <3>3, <1>2
    <3> QED
      BY <3>4, <1>3
  <2>4. a - 1 \in PlacesOf(job)
    BY <2>2, <2>3 DEF PlacesOf, n
  <2>5. \A x \in PlacesOf(job) : x <= a - 1 \/ a <= x
    <3>1. \A x \in PlacesOf(job) : x \in Int
      BY JobFacts DEF PlacesOf
    <3> QED
      BY <3>1, <1>2
  <2>6. CharsBelow(job, a) = CharsBelow(job, a - 1) + 1
    BY <2>4, <2>5, <1>2, NextPlace
  <2> HIDE DEF q
  <2> QED
    BY <2>1, <2>4, <2>6 DEF q
<1> HIDE DEF q, wide
<1> QED
  BY <1>6, <1>7 DEF q

(* PREV_CHAR, n times, from a place that has so many characters before it. *)
StepsBack(f, p, n) ==
    f = [k \in 0 .. n |-> IF k = 0 THEN p ELSE CharBefore(f[k - 1], 0).p]

LEMMA StepsExist ==
    ASSUME NEW p
    PROVE  \A n \in Nat : \E f : StepsBack(f, p, n)
<1> DEFINE S == { n \in Nat : ~\E f : StepsBack(f, p, n) }
<1> SUFFICES ASSUME S # {} PROVE FALSE
  OBVIOUS
<1>1. PICK n \in S : \A m \in S : n <= m
  <2>1. S \subseteq Nat
    OBVIOUS
  <2> HIDE DEF S
  <2> QED
    BY <2>1, LeastOne
<1>2. n \in Nat /\ ~\E f : StepsBack(f, p, n)
  OBVIOUS
<1>3. CASE n = 0
  <2> DEFINE f == [k \in 0 .. 0 |-> p]
  <2>1. f = [k \in 0 .. 0 |-> IF k = 0 THEN p ELSE CharBefore(f[k - 1], 0).p]
    OBVIOUS
  <2> QED
    BY <1>2, <1>3, <2>1 DEF StepsBack
<1>4. CASE n > 0
  <2>1. n - 1 \in Nat /\ ~(n <= n - 1)
    BY <1>2, <1>4
  <2>2. n - 1 \notin S
    BY <1>1, <2>1
  <2>3. PICK f : StepsBack(f, p, n - 1)
    BY <2>1, <2>2
  <2> DEFINE g == [k \in 0 .. n |-> IF k = n THEN CharBefore(f[n - 1], 0).p ELSE f[k]]
  <2>4. \A k \in 0 .. n : g[k] = IF k = 0 THEN p ELSE CharBefore(g[k - 1], 0).p
    <3> SUFFICES ASSUME NEW k \in 0 .. n
                 PROVE  g[k] = IF k = 0 THEN p ELSE CharBefore(g[k - 1], 0).p
      OBVIOUS
    <3>1. \A i \in 0 .. n - 1 : f[i] = IF i = 0 THEN p ELSE CharBefore(f[i - 1], 0).p
      BY <2>3 DEF StepsBack
    <3>2. CASE k = n
      <4>1. n - 1 \in 0 .. n /\ n - 1 # n /\ n \in 0 .. n /\ n # 0
        BY <1>2, <1>4
      <4> QED
        BY <3>2, <4>1
    <3>3. CASE k = 0
      <4>1. 0 \in 0 .. n - 1 /\ 0 # n
        BY <1>2, <1>4
      <4> QED
        BY <3>1, <3>3, <4>1
    <3>4. CASE k # 0 /\ k # n
      <4>1. k \in 0 .. n - 1 /\ k - 1 \in 0 .. n /\ k - 1 # n
        BY <1>2, <3>4
      <4> QED
        BY <3>1, <3>4, <4>1
    <3> QED
      BY <3>2, <3>3, <3>4
  <2>5. g = [k \in 0 .. n |-> IF k = 0 THEN p ELSE CharBefore(g[k - 1], 0).p]
    <3>1. g = [k \in 0 .. n |-> g[k]]
      OBVIOUS
    <3> HIDE DEF g
    <3> QED
      BY <2>4, <3>1
  <2> HIDE DEF g
  <2> QED
    BY <1>2, <2>5 DEF StepsBack
<1> QED
  BY <1>2, <1>3, <1>4

LEMMA StepsCount ==
    ASSUME job \in Jobs, NEW p \in PlacesOf(job), NEW n \in Nat, n <= CharsBelow(job, p),
           NEW f, StepsBack(f, p, n)
    PROVE  f[n] \in PlacesOf(job) /\ CharsBelow(job, f[n]) = CharsBelow(job, p) - n
<1> DEFINE Good(k) == f[k] \in PlacesOf(job) /\ CharsBelow(job, f[k]) = CharsBelow(job, p) - k
           S == { k \in 0 .. n : ~Good(k) }
<1>1. \A k \in 0 .. n : f[k] = IF k = 0 THEN p ELSE CharBefore(f[k - 1], 0).p
  BY DEF StepsBack
<1>2. \A x \in PlacesOf(job) : x \in Nat /\ CharsBelow(job, x) \in Nat
  BY JobFacts, CountsBelow DEF PlacesOf
<1>3. S = {}
  <2> SUFFICES ASSUME S # {} PROVE FALSE
    OBVIOUS
  <2>1. PICK k \in S : \A m \in S : k <= m
    <3>1. S \subseteq Nat
      OBVIOUS
    <3> HIDE DEF S
    <3> QED
      BY <3>1, LeastOne
  <2>2. k \in 0 .. n /\ ~Good(k)
    OBVIOUS
  <2>3. k # 0
    <3>1. 0 \in 0 .. n
      OBVIOUS
    <3>2. f[0] = p
      BY <1>1, <3>1
    <3>3. CharsBelow(job, p) = CharsBelow(job, p) - 0
      BY <1>2
    <3> QED
      BY <2>2, <3>2, <3>3
  <2>4. k - 1 \in 0 .. n /\ ~(k <= k - 1) /\ k \in Nat /\ k <= n
    BY <2>2, <2>3
  <2>5. Good(k - 1)
    <3>1. k - 1 \notin S
      BY <2>1, <2>4
    <3> QED
      BY <2>4, <3>1
  <2> DEFINE x == f[k - 1]
  <2>6. x \in PlacesOf(job) /\ CharsBelow(job, x) = CharsBelow(job, p) - (k - 1)
    BY <2>5
  <2>7. f[k] = CharBefore(x, 0).p
    BY <1>1, <2>2, <2>3
  <2> HIDE DEF x
  <2>8. 0 \in PlacesOf(job)
    BY JobFacts DEF PlacesOf, InPairOf
  <2>9. 0 < x
    <3>1. CharsBelow(job, 0) = 0
      BY CountsBelow
    <3>2. CharsBelow(job, x) # 0
      BY <2>6, <2>4, <1>2
    <3>3. x # 0
      BY <3>1, <3>2
    <3> QED
      BY <3>3, <2>6, <1>2
  <2>10. /\ CharBefore(x, 0).p \in PlacesOf(job)
         /\ CharsBelow(job, x) = CharsBelow(job, CharBefore(x, 0).p) + 1
    BY <2>6, <2>8, <2>9, CharBeforeStep
  <2>11. f[k] \in PlacesOf(job) /\ CharsBelow(job, x) = CharsBelow(job, f[k]) + 1
    BY <2>7, <2>10
  <2>12. CharsBelow(job, f[k]) = CharsBelow(job, p) - k
    BY <2>11, <2>6, <2>4, <1>2
  <2> QED
    BY <2>2, <2>11, <2>12
<1>4. n \in 0 .. n
  OBVIOUS
<1> QED
  BY <1>3, <1>4

LEMMA BackStep ==
    ASSUME job \in Jobs, NEW p \in PlacesOf(job), NEW n \in Nat, n <= CharsBelow(job, p)
    PROVE  /\ Back(p, n) \in PlacesOf(job)
           /\ CharsBelow(job, Back(p, n)) = CharsBelow(job, p) - n
<1>1. CASE Utf16
  <2>1. \E f : StepsBack(f, p, n)
    BY StepsExist
  <2>2. \E f : StepsBack(f, p, n) /\ Back(p, n) = f[n]
    BY <1>1, <2>1 DEF Back, StepsBack
  <2> QED
    BY <2>2, StepsCount
<1>2. CASE ~Utf16
  <2>1. Back(p, n) = p - n
    BY <1>2 DEF Back
  <2>2. PlacesOf(job) = 0 .. Len(job.input)
    BY <1>2 DEF PlacesOf, InPairOf, Utf16, is_unicode, prog
  <2>3. \A x \in 0 .. Len(job.input) : CharsBelow(job, x) = x
    <3> SUFFICES ASSUME NEW x \in 0 .. Len(job.input) PROVE CharsBelow(job, x) = x
      OBVIOUS
    <3>1. Below(job, x) = 0 .. x - 1
      BY <2>2, JobFacts DEF Below
    <3>2. x \in Nat
      BY JobFacts
    <3>3. Cardinality(0 .. x - 1) = x
      <4>1. 0 \in Int /\ x - 1 \in Int
        BY <3>2
      <4>2. Cardinality(0 .. x - 1) = IF 0 > x - 1 THEN 0 ELSE (x - 1) - 0 + 1
        BY <4>1, FS_Interval
      <4> QED
        BY <3>2, <4>2
    <3> QED
      BY <3>1, <3>3 DEF CharsBelow
  <2>4. p \in 0 .. Len(job.input) /\ CharsBelow(job, p) = p
    BY <2>2, <2>3
  <2>5. p - n \in 0 .. Len(job.input)
    BY <2>4, JobFacts
  <2> QED
    BY <2>1, <2>2, <2>3, <2>4, <2>5
<1> QED
  BY <1>1, <1>2

-----------------------------------------------------------------------------
(* What well-formed programs promise, one kind of instruction at a time.   *)
Code(j) == j.prog.code
HeadsOf(j) == Heads(Code(j))
Depth(j, p) == StackDepth(Code(j))[p]
Taken(j, p) == CharsTaken(Code(j))[p]
AtomSize(j, p) == Code(j)[p].args[4]
Op(j, p) == Code(j)[p].op
Arg(j, p, k) == Code(j)[p].args[k]
Next_(j, p) == Follow(Code(j), p)
To(j, p) == Target(Code(j), p)
Ends == { "goto", "match", "simple_greedy_quant" }

(* A program is a sequence of instructions, and its heads are numbers.     *)
LEMMA CodeType ==
    ASSUME NEW j \in Jobs
    PROVE  /\ Code(j) \in Seq([op : STRING, args : Seq(Int)])
           /\ HeadsOf(j) \subseteq 1 .. Len(Code(j))
           /\ j.prog.stack \in Nat
           /\ Len(Code(j)) \in Nat
<1>1. Code(j) \in Seq([op : STRING, args : Seq(Int)]) /\ j.prog.stack \in Nat
  BY JobFacts DEF WellFormed, Code
<1> QED
  BY <1>1 DEF HeadsOf, Heads

(* An instruction takes at least a byte.                                   *)
LEMMA SizePositive ==
    ASSUME NEW i \in [op : STRING, args : Seq(Int)]
    PROVE  Size(i) \in Nat \ { 0 }
<1>1. Len(i.args) \in Nat
  OBVIOUS
<1> QED
  BY <1>1 DEF Size

LEMMA FollowsBehind ==
    ASSUME NEW j \in Jobs, NEW p \in HeadsOf(j)
    PROVE  p \in Nat /\ Next_(j, p) \in Nat /\ p < Next_(j, p)
<1>1. p \in 1 .. Len(Code(j)) /\ Code(j)[p] \in [op : STRING, args : Seq(Int)]
  <2> DEFINE S == [op : STRING, args : Seq(Int)]
  <2>1. Code(j) \in Seq(S) /\ p \in 1 .. Len(Code(j))
    BY CodeType
  <2> HIDE DEF S
  <2>2. Code(j)[p] \in S
    BY <2>1, ElementOfSeq
  <2> QED
    BY <2>1, <2>2 DEF S
<1>2. Size(Code(j)[p]) \in Nat \ { 0 }
  BY <1>1, SizePositive
<1> QED
  BY <1>1, <1>2 DEF Next_, Follow

(* The instruction behind one that is no jump of its own.                  *)
LEMMA FallsThrough ==
    ASSUME NEW j \in Jobs, NEW p \in HeadsOf(j), Op(j, p) \notin Ends
    PROVE  /\ Next_(j, p) \in HeadsOf(j)
           /\ Depth(j, Next_(j, p)) = Depth(j, p) + Effect(Op(j, p))
           /\ Taken(j, Next_(j, p)) = Taken(j, p) + (IF Op(j, p) \in CHARS THEN 1 ELSE 0)
BY JobFacts DEF WellFormed, Code, HeadsOf, Depth, Taken, Op, Next_, Ends

LEMMA DepthFits ==
    ASSUME NEW j \in Jobs, NEW p \in HeadsOf(j)
    PROVE  Depth(j, p) \in 0 .. j.prog.stack
BY JobFacts DEF WellFormed, Code, HeadsOf, Depth

LEMMA JumpsTo ==
    ASSUME NEW j \in Jobs, NEW p \in HeadsOf(j), Op(j, p) \in JUMPS
    PROVE  To(j, p) \in HeadsOf(j) /\ Depth(j, To(j, p)) = Depth(j, p)
BY JobFacts DEF WellFormed, Code, HeadsOf, Depth, Op, To

LEMMA PopsSome ==
    ASSUME NEW j \in Jobs, NEW p \in HeadsOf(j),
           Op(j, p) \in { "loop", "drop", "check_advance" }
    PROVE  Depth(j, p) >= 1
BY JobFacts DEF WellFormed, Code, HeadsOf, Depth, Op

LEMMA ArgumentsFit ==
    ASSUME NEW j \in Jobs, NEW p \in HeadsOf(j)
    PROVE  /\ Op(j, p) = "push_i32" => Arg(j, p, 1) \in Int
           /\ Op(j, p) \in { "save_start", "save_end" } =>
                  Arg(j, p, 1) \in 0 .. j.prog.captures - 1
           /\ Op(j, p) \in REFERENCES => Arg(j, p, 1) \in Nat
<1>1. /\ Op(j, p) = "push_i32" => Arg(j, p, 1) \in 1 .. Infinite
      /\ Op(j, p) \in { "save_start", "save_end" } =>
             Arg(j, p, 1) \in 0 .. j.prog.captures - 1
      /\ Op(j, p) \in REFERENCES => Arg(j, p, 1) \in Nat
  BY JobFacts DEF WellFormed, Code, HeadsOf, Op, Arg
<1>2. \A x : x \in 1 .. Infinite => x \in Int
  OBVIOUS
<1> QED
  BY <1>1, <1>2

(* Where the matcher may go from an instruction outside of atoms.          *)
Goes(j, p, s) ==
    /\ s \notin InAtoms(Code(j))
    /\ s \in InLooks(Code(j)) =>
          p \in InLooks(Code(j)) \/ (Op(j, p) \in LOOKS /\ s # To(j, p))
    /\ Op(j, s) = "match" /\ s \notin InLooks(Code(j)) =>
          Op(j, p) = "save_end" /\ Arg(j, p, 1) = 0

LEMMA GoesOn ==
    ASSUME NEW j \in Jobs, NEW p \in HeadsOf(j) \ InAtoms(Code(j))
    PROVE  /\ Op(j, p) \notin Ends => Goes(j, p, Next_(j, p))
           /\ Op(j, p) \in JUMPS => Goes(j, p, To(j, p))
<1>0. \A q \in Heads(j.prog.code) \ InAtoms(j.prog.code) : \A s \in Successors(j.prog.code, q) :
         /\ s \notin InAtoms(j.prog.code)
         /\ s \in InLooks(j.prog.code) =>
               \/ q \in InLooks(j.prog.code)
               \/ j.prog.code[q].op \in LOOKS /\ s # Target(j.prog.code, q)
         /\ j.prog.code[s].op = "match" /\ s \notin InLooks(j.prog.code) =>
               j.prog.code[q].op = "save_end" /\ j.prog.code[q].args[1] = 0
  <2>1. WellFormed(j.prog)
    BY JobFacts
  <2> QED
    BY ONLY <2>1 DEF WellFormed
<1>1. \A s \in Successors(Code(j), p) : Goes(j, p, s)
  BY <1>0 DEF Code, HeadsOf, Op, To, Arg, Goes
<1>2. Op(j, p) \notin Ends => Next_(j, p) \in Successors(Code(j), p)
  BY DEF Successors, Op, Next_, Ends
<1>3. Op(j, p) \in JUMPS => To(j, p) \in Successors(Code(j), p)
  BY DEF Successors, Op, To
<1> QED
  BY <1>1, <1>2, <1>3

LEMMA StartsOutside ==
    ASSUME NEW j \in Jobs
    PROVE  /\ 1 \in HeadsOf(j)
           /\ 1 \notin InAtoms(Code(j)) /\ 1 \notin InLooks(Code(j))
           /\ Op(j, 1) # "match"
           /\ Depth(j, 1) = 0
<1>1. /\ 1 \in HeadsOf(j)
      /\ 1 \notin InAtoms(Code(j)) /\ 1 \notin InLooks(Code(j))
      /\ Op(j, 1) # "match"
  BY JobFacts DEF WellFormed, Code, HeadsOf, Op
<1>2. \A ops : Above(Code(j), 1, ops) = 0
  <2> SUFFICES ASSUME NEW ops PROVE Above(Code(j), 1, ops) = 0
    OBVIOUS
  <2>1. { q \in 1 .. 1 - 1 : Code(j)[q].op \in ops } = {}
    OBVIOUS
  <2> QED
    BY <2>1, FS_EmptySet DEF Above
<1>3. 1 \in 1 .. Len(Code(j)) + 1
  BY CodeType
<1> QED
  BY <1>1, <1>2, <1>3 DEF Depth, StackDepth

(* The number of characters taken is a number.                             *)
LEMMA TakenType ==
    ASSUME NEW j \in Jobs, NEW p \in 1 .. Len(Code(j)) + 1
    PROVE  Taken(j, p) \in Nat
<1>1. p \in Int
  BY CodeType
<1>2. { q \in 1 .. p - 1 : Code(j)[q].op \in CHARS } \subseteq 1 .. p - 1
  OBVIOUS
<1>3. IsFiniteSet(1 .. p - 1)
  BY <1>1, FS_Interval
<1>4. Above(Code(j), p, CHARS) \in Nat
  BY <1>2, <1>3, FS_Subset, FS_CardinalityType DEF Above
<1> QED
  BY <1>4 DEF Taken, CharsTaken

-----------------------------------------------------------------------------
(* The atom of a quantifier: it begins behind it, ends in a match, and in  *)
(* between there are only tests of characters.                             *)
AtomOf(j, p) == { h \in HeadsOf(j) : Next_(j, p) <= h /\ h < To(j, p) }

LEMMA AtomFacts ==
    ASSUME NEW j \in Jobs, NEW p \in HeadsOf(j), Op(j, p) = "simple_greedy_quant"
    PROVE  /\ Arg(j, p, 2) \in Nat /\ Arg(j, p, 3) \in Nat
           /\ Next_(j, p) \in HeadsOf(j) /\ To(j, p) - 1 \in HeadsOf(j)
           /\ Next_(j, p) <= To(j, p) - 1
           /\ Op(j, To(j, p) - 1) = "match"
           /\ AtomSize(j, p) = Taken(j, To(j, p) - 1) - Taken(j, Next_(j, p))
           /\ AtomSize(j, p) >= 1
           /\ \A h \in AtomOf(j, p) : h # To(j, p) - 1 =>
                  Op(j, h) \in CHARS \union TESTS /\ Next_(j, h) <= To(j, p) - 1
BY JobFacts DEF WellFormed, Code, HeadsOf, Op, Next_, To, Arg, Taken, AtomSize, AtomOf

LEMMA AtomType ==
    ASSUME NEW j \in Jobs, NEW p \in HeadsOf(j), Op(j, p) = "simple_greedy_quant"
    PROVE  AtomSize(j, p) \in Nat \ { 0 }
<1>1. To(j, p) - 1 \in 1 .. Len(Code(j)) + 1 /\ Next_(j, p) \in 1 .. Len(Code(j)) + 1
  <2>1. To(j, p) - 1 \in HeadsOf(j) /\ Next_(j, p) \in HeadsOf(j)
    BY AtomFacts
  <2>2. 1 .. Len(Code(j)) \subseteq 1 .. Len(Code(j)) + 1
    BY CodeType
  <2> QED
    BY <2>1, <2>2, CodeType
<1>2. Taken(j, To(j, p) - 1) \in Nat /\ Taken(j, Next_(j, p)) \in Nat
  BY <1>1, TakenType
<1> QED
  BY <1>2, AtomFacts

-----------------------------------------------------------------------------
(* The invariant, with the job as an argument.  The program is inside of a *)
(* lookahead only when the state of one is there to be come back to.       *)
Final(j, p) == Op(j, p) = "match" /\ p \notin InLooks(Code(j))
Looked(s) == \E k \in 1 .. Len(s) : s[k].type \in LOOKS

CapturesOf(j) == [0 .. 2 * j.prog.captures - 1 -> PlacesOf(j) \union { None }]
StackOk(j, st, p) == st \in Seq(Int) /\ Len(st) = Depth(j, p) /\ Len(st) <= j.prog.stack

(* A state to be come back to.                                             *)
StateOk(j, rs) ==
    /\ rs.type \in LOOKS \union { "split", "greedy_quant" }
    /\ rs.pc \in HeadsOf(j) \ InAtoms(Code(j))
    /\ ~Final(j, rs.pc)
    /\ rs.cptr \in PlacesOf(j)
    /\ rs.capture \in CapturesOf(j)
    /\ StackOk(j, rs.stack, rs.pc)
    /\ rs.type = "greedy_quant" =>
          /\ Op(j, rs.pc) = "simple_greedy_quant"
          /\ rs.count \in Nat \ { 0 }
          /\ rs.count * AtomSize(j, rs.pc) <= CharsBelow(j, rs.cptr)
StateRecords(j) ==
    [type : LOOKS \union { "split", "greedy_quant" }, pc : Nat, cptr : Nat, count : Nat,
     capture : CapturesOf(j), stack : Seq(Int)]
Kept(j) == { rs \in StateRecords(j) : StateOk(j, rs) }

LooksBelow(j, s) ==
    \A i \in 1 .. Len(s) : s[i].pc \in InLooks(Code(j)) =>
        \E k \in 1 .. i - 1 : s[k].type \in LOOKS
Pile(j, s, r) ==
    s \in Seq(Kept(j)) /\ LooksBelow(j, s) /\ r \in Nat /\ Len(s) <= r

(* Running at p outside of atoms.                                          *)
Here(j, p, st, cap, s) ==
    /\ p \notin InAtoms(Code(j))
    /\ StackOk(j, st, p)
    /\ p \in InLooks(Code(j)) => Looked(s)
    /\ Final(j, p) => cap[1] # None

(* Counting an atom, and being inside of it.                               *)
Counting(j, qu, st, s) ==
    /\ qu \in [pc : Nat, q : Nat, cptr : Nat]
    /\ qu.pc \in HeadsOf(j) \ InAtoms(Code(j))
    /\ Op(j, qu.pc) = "simple_greedy_quant"
    /\ qu.cptr \in PlacesOf(j)
    /\ qu.q * AtomSize(j, qu.pc) <= CharsBelow(j, qu.cptr)
    /\ StackOk(j, st, qu.pc)
    /\ qu.pc \in InLooks(Code(j)) => Looked(s)
InAtom(j, qu, p, c) ==
    /\ p \in AtomOf(j, qu.pc)
    /\ CharsBelow(j, c) =
          CharsBelow(j, qu.cptr) + (Taken(j, p) - Taken(j, Next_(j, qu.pc)))

Text(j, po, c, p) ==
    j \in Jobs /\ po \in 0 .. Len(j.input) /\ c \in PlacesOf(j) /\ p \in HeadsOf(j)
RefOk(j, r, p) ==
    /\ r \in [at : PlacesOf(j), start : PlacesOf(j), end : PlacesOf(j), forward : BOOLEAN]
    /\ Op(j, p) \in REFERENCES

MODES == { "idle", "run", "quant", "counted", "compare", "unwind", "returned", "done" }

MatchInv ==
    /\ Text(job, pos, cptr, pc)
    /\ Pile(job, states, room)
    /\ mode \in MODES
    /\ mode \notin { "idle", "done" } => capture \in CapturesOf(job)
    /\ mode = "run" /\ quant = NoQuant => Here(job, pc, stack, capture, states)
    /\ mode = "compare" =>
          quant = NoQuant /\ Here(job, pc, stack, capture, states) /\ RefOk(job, ref, pc)
    /\ mode = "run" /\ quant # NoQuant =>
          Counting(job, quant, stack, states) /\ InAtom(job, quant, pc, cptr)
    /\ mode \in { "quant", "counted" } => quant # NoQuant /\ Counting(job, quant, stack, states)
    /\ mode \in { "idle", "unwind", "returned", "done" } => quant = NoQuant
    /\ mode = "unwind" /\ ret = Matched => capture[1] # None \/ Looked(states)
    /\ mode = "returned" /\ ret = Matched => capture[1] # None

-----------------------------------------------------------------------------
(* The stack of states: pushing one, taking one off, replacing the last.   *)
LEMMA PushPile ==
    ASSUME NEW j \in Jobs, NEW s, NEW r, Pile(j, s, r), NEW x \in Kept(j),
           x.pc \in InLooks(Code(j)) => Looked(s),
           NEW r2 \in Nat, Len(s) + 1 <= r2
    PROVE  /\ Pile(j, Append(s, x), r2)
           /\ Looked(s) \/ x.type \in LOOKS => Looked(Append(s, x))
<1> DEFINE a == Append(s, x)
<1>1. s \in Seq(Kept(j)) /\ LooksBelow(j, s)
  BY DEF Pile
<1>2. PICK n \in Nat : n = Len(s)
  BY <1>1
<1>3. /\ a \in Seq(Kept(j)) /\ Len(a) = n + 1
      /\ \A i \in 1 .. n : a[i] = s[i]
      /\ a[n + 1] = x
  BY <1>1, <1>2
<1> HIDE DEF a
<1>4. LooksBelow(j, a)
  <2> SUFFICES ASSUME NEW i \in 1 .. n + 1, a[i].pc \in InLooks(Code(j))
               PROVE  \E k \in 1 .. i - 1 : a[k].type \in LOOKS
    BY <1>3 DEF LooksBelow
  <2>1. CASE i = n + 1
    <3>1. PICK k \in 1 .. n : s[k].type \in LOOKS
      BY <2>1, <1>2, <1>3 DEF Looked
    <3>2. k \in 1 .. i - 1 /\ a[k].type \in LOOKS
      BY <2>1, <3>1, <1>3
    <3> QED
      BY <3>2
  <2>2. CASE i # n + 1
    <3>1. i \in 1 .. n
      BY <2>2
    <3>2. PICK k \in 1 .. i - 1 : s[k].type \in LOOKS
      BY <3>1, <1>1, <1>2, <1>3 DEF LooksBelow
    <3>3. k \in 1 .. n
      BY <3>1, <3>2
    <3> QED
      BY <3>2, <3>3, <1>3
  <2> QED
    BY <2>1, <2>2
<1>5. Looked(s) \/ x.type \in LOOKS => Looked(a)
  <2>1. CASE Looked(s)
    <3>1. PICK k \in 1 .. n : s[k].type \in LOOKS
      BY <2>1, <1>2 DEF Looked
    <3>2. k \in 1 .. n + 1 /\ a[k].type \in LOOKS
      BY <3>1, <1>3
    <3> QED
      BY <3>2, <1>3 DEF Looked
  <2>2. CASE x.type \in LOOKS
    <3>1. n + 1 \in 1 .. n + 1
      OBVIOUS
    <3> QED
      BY <2>2, <3>1, <1>3 DEF Looked
  <2> QED
    BY <2>1, <2>2
<1>6. Len(a) <= r2
  BY <1>2, <1>3
<1> QED
  BY <1>3, <1>4, <1>5, <1>6 DEF Pile, a

LEMMA PopPile ==
    ASSUME NEW j \in Jobs, NEW s, NEW r, Pile(j, s, r), s # << >>
    PROVE  /\ Pile(j, Front(s), r)
           /\ Last(s) \in Kept(j)
           /\ Last(s).pc \in InLooks(Code(j)) => Looked(Front(s))
           /\ Looked(s) /\ Last(s).type \notin LOOKS => Looked(Front(s))
           /\ Looked(Front(s)) => Looked(s)
<1> DEFINE a == Front(s)
           x == Last(s)
<1>1. s \in Seq(Kept(j)) /\ LooksBelow(j, s) /\ r \in Nat /\ Len(s) <= r
  BY DEF Pile
<1>2. PICK n \in Nat : n = Len(s)
  BY <1>1
<1>3. n >= 1 /\ n \in 1 .. n
  BY <1>1, <1>2
<1>4. /\ a \in Seq(Kept(j)) /\ Len(a) = n - 1
      /\ \A i \in 1 .. n - 1 : a[i] = s[i]
  BY <1>1, <1>2, <1>3 DEF Front
<1>5. x = s[n] /\ x \in Kept(j)
  BY <1>1, <1>2, <1>3, ElementOfSeq DEF Last
<1> HIDE DEF a, x
<1>6. LooksBelow(j, a)
  <2> SUFFICES ASSUME NEW i \in 1 .. n - 1, a[i].pc \in InLooks(Code(j))
               PROVE  \E k \in 1 .. i - 1 : a[k].type \in LOOKS
    BY <1>4 DEF LooksBelow
  <2>1. i \in 1 .. n /\ s[i].pc \in InLooks(Code(j))
    BY <1>4
  <2>2. PICK k \in 1 .. i - 1 : s[k].type \in LOOKS
    BY <2>1, <1>1, <1>2 DEF LooksBelow
  <2>3. k \in 1 .. n - 1
    BY <2>2
  <2> QED
    BY <2>2, <2>3, <1>4
<1>7. x.pc \in InLooks(Code(j)) => Looked(a)
  <2> SUFFICES ASSUME x.pc \in InLooks(Code(j)) PROVE Looked(a)
    OBVIOUS
  <2>1. PICK k \in 1 .. n - 1 : s[k].type \in LOOKS
    BY <1>1, <1>2, <1>3, <1>5 DEF LooksBelow
  <2> QED
    BY <2>1, <1>4 DEF Looked
<1>8. Looked(s) /\ x.type \notin LOOKS => Looked(a)
  <2> SUFFICES ASSUME Looked(s), x.type \notin LOOKS PROVE Looked(a)
    OBVIOUS
  <2>1. PICK k \in 1 .. n : s[k].type \in LOOKS
    BY <1>2 DEF Looked
  <2>2. k \in 1 .. n - 1
    BY <2>1, <1>5
  <2> QED
    BY <2>1, <2>2, <1>4 DEF Looked
<1>9. Len(a) <= r
  BY <1>1, <1>2, <1>4
<1>10. Looked(a) => Looked(s)
  <2> SUFFICES ASSUME Looked(a) PROVE Looked(s)
    OBVIOUS
  <2>1. PICK k \in 1 .. n - 1 : a[k].type \in LOOKS
    BY <1>4 DEF Looked
  <2>2. k \in 1 .. n /\ s[k].type \in LOOKS
    BY <2>1, <1>4
  <2> QED
    BY <1>2, <2>2 DEF Looked
<1> QED
  BY <1>1, <1>4, <1>5, <1>6, <1>7, <1>8, <1>9, <1>10 DEF Pile, a, x

LEMMA ReplaceInPile ==
    ASSUME NEW j \in Jobs, NEW s, NEW r, Pile(j, s, r), s # << >>,
           NEW x \in Kept(j), x.pc = Last(s).pc, x.type = Last(s).type
    PROVE  /\ Pile(j, [s EXCEPT ![Len(s)] = x], r)
           /\ Looked(s) => Looked([s EXCEPT ![Len(s)] = x])
<1> DEFINE a == [s EXCEPT ![Len(s)] = x]
<1>1. s \in Seq(Kept(j)) /\ LooksBelow(j, s) /\ r \in Nat /\ Len(s) <= r
  BY DEF Pile
<1>2. PICK n \in Nat : n = Len(s)
  BY <1>1
<1>3. n \in 1 .. n
  BY <1>1, <1>2
<1>4. a \in Seq(Kept(j)) /\ Len(a) = n
  BY <1>1, <1>2, <1>3
<1>5. \A i \in 1 .. n : a[i].pc = s[i].pc /\ a[i].type = s[i].type
  <2>1. \A i \in 1 .. n : a[i] = IF i = n THEN x ELSE s[i]
    BY <1>1, <1>2
  <2>2. s[n] = Last(s)
    BY <1>2 DEF Last
  <2> HIDE DEF a
  <2> QED
    BY <2>1, <2>2
<1> HIDE DEF a
<1>6. LooksBelow(j, a)
  <2> SUFFICES ASSUME NEW i \in 1 .. n, a[i].pc \in InLooks(Code(j))
               PROVE  \E k \in 1 .. i - 1 : a[k].type \in LOOKS
    BY <1>4 DEF LooksBelow
  <2>1. PICK k \in 1 .. i - 1 : s[k].type \in LOOKS
    BY <1>1, <1>2, <1>5 DEF LooksBelow
  <2>2. k \in 1 .. n
    BY <2>1
  <2> QED
    BY <2>1, <2>2, <1>5
<1>7. Looked(s) => Looked(a)
  BY <1>2, <1>4, <1>5 DEF Looked
<1> QED
  BY <1>1, <1>2, <1>4, <1>6, <1>7 DEF Pile, a

-----------------------------------------------------------------------------
(* Names of the model for what the invariant says of the program.          *)
LEMMA Names ==
    /\ code = Code(job) /\ Heads(code) = HeadsOf(job)
    /\ instr.op = Op(job, pc)
    /\ next = Next_(job, pc) /\ target = To(job, pc)
    /\ \A k : instr.args[k] = Arg(job, pc, k)
BY DEF code, prog, Code, HeadsOf, instr, Op, Arg, next, target, Next_, To

(* What the ops do to the stack.                                           *)
LEMMA Effects ==
    /\ \A op \in CHARS \union TESTS : op \notin Ends /\ op \notin LOOKS /\ op # "save_end"
    /\ \A op : op \notin PUSHES \union POPS => Effect(op) = 0
    /\ \A op \in PUSHES : Effect(op) = 1
    /\ \A op \in POPS : Effect(op) = -1
    /\ \A op \in CHARS \union TESTS \union JUMPS \union REFERENCES
                \union { "prev", "save_start", "save_end", "save_reset" } : Effect(op) = 0
BY DEF CHARS, TESTS, Ends, LOOKS, PUSHES, POPS, Effect, JUMPS, REFERENCES

(* Inside of an atom there are tests, and the match at its end.            *)
LEMMA InAtomOps ==
    ASSUME MatchInv, mode = "run", quant # NoQuant
    PROVE  Op(job, pc) \in CHARS \union TESTS \/
             (Op(job, pc) = "match" /\ pc = To(job, quant.pc) - 1)
<1>1. /\ job \in Jobs /\ quant.pc \in HeadsOf(job)
      /\ Op(job, quant.pc) = "simple_greedy_quant" /\ pc \in AtomOf(job, quant.pc)
  BY DEF MatchInv, Text, Counting, InAtom
<1> QED
  BY <1>1, AtomFacts

(* goto no_match.                                                          *)
LEMMA FailStep ==
    ASSUME MatchInv, mode = "run" \/ mode = "compare", Fail,
           UNCHANGED << job, pos, capture, stack, states, room, quant >>
    PROVE  MatchInv'
<1>1. CASE quant = NoQuant
  <2>1. mode' = "unwind" /\ ret' # Matched /\ UNCHANGED << pc, cptr >>
    BY <1>1 DEF Fail, NoMatch, Matched
  <2> QED
    BY <1>1, <2>1 DEF MatchInv, MODES
<1>2. CASE quant # NoQuant
  <2>1. mode' = "counted" /\ UNCHANGED << pc, cptr >>
    BY <1>2 DEF Fail
  <2>2. mode = "run"
    BY <1>2 DEF MatchInv
  <2> QED
    BY <1>2, <2>1, <2>2 DEF MatchInv, MODES
<1> QED
  BY <1>1, <1>2

(* Going on to a place in the program, outside of atoms.                   *)
LEMMA MoveStep ==
    ASSUME MatchInv, mode = "run" \/ mode = "compare", quant = NoQuant,
           mode' = "run", UNCHANGED << job, pos, quant >>,
           pc' \in HeadsOf(job), Goes(job, pc, pc'), pc' \in InLooks(Code(job)) => Looked(states'),
           StackOk(job, stack', pc'), capture' \in CapturesOf(job),
           Op(job, pc) = "save_end" /\ Arg(job, pc, 1) = 0 => capture'[1] # None,
           cptr' \in PlacesOf(job), Pile(job, states', room')
    PROVE  MatchInv'
<1>1. Text(job', pos', cptr', pc')
  BY DEF MatchInv, Text
<1>2. Here(job', pc', stack', capture', states')
  BY DEF Goes, Here, Final
<1> QED
  BY <1>1, <1>2 DEF MatchInv, MODES

(* An instruction that only tests, inside of an atom or not.               *)
LEMMA TestStep ==
    ASSUME MatchInv, mode = "run", Op(job, pc) \in CHARS \union TESTS,
           Proceed(next, cptr'), cptr' \in PlacesOf(job),
           CharsBelow(job, cptr') =
               CharsBelow(job, cptr) + (IF Op(job, pc) \in CHARS THEN 1 ELSE 0),
           UNCHANGED << job, pos, capture, stack, states, room, quant >>
    PROVE  MatchInv'
<1>1. job \in Jobs /\ pc \in HeadsOf(job) /\ Op(job, pc) \notin Ends /\ Op(job, pc) # "save_end"
      /\ Op(job, pc) \notin LOOKS
  BY Effects DEF MatchInv, Text
<1>2. pc' = Next_(job, pc) /\ mode' = "run"
  BY Names DEF Proceed
<1>3. pc' \in HeadsOf(job) /\ Depth(job, pc') = Depth(job, pc)
      /\ Taken(job, pc') = Taken(job, pc) + (IF Op(job, pc) \in CHARS THEN 1 ELSE 0)
  <2>1. Effect(Op(job, pc)) = 0 /\ Depth(job, pc) \in Int
    BY <1>1, Effects, DepthFits, CodeType
  <2> QED
    BY <1>1, <1>2, <2>1, FallsThrough
<1>4. CASE quant = NoQuant
  <2>1. Here(job, pc, stack, capture, states)
    BY <1>4 DEF MatchInv
  <2>2. Goes(job, pc, pc')
    BY <1>1, <1>2, <2>1, GoesOn DEF Here
  <2>3. pc' \in InLooks(Code(job)) => Looked(states')
    BY <1>1, <2>1, <2>2 DEF Goes, Here
  <2>4. StackOk(job, stack', pc') /\ capture' \in CapturesOf(job) /\ Pile(job, states', room')
    BY <2>1, <1>3 DEF Here, StackOk, MatchInv
  <2> QED
    BY <1>1, <1>2, <1>3, <1>4, <2>2, <2>3, <2>4, MoveStep
<1>5. CASE quant # NoQuant
  <2>1. Counting(job, quant, stack, states) /\ InAtom(job, quant, pc, cptr)
    BY <1>5 DEF MatchInv
  <2>2. quant.pc \in HeadsOf(job) /\ Op(job, quant.pc) = "simple_greedy_quant"
    BY <2>1 DEF Counting
  <2>3. pc # To(job, quant.pc) - 1
    <3>1. Op(job, pc) # "match"
      BY <1>1 DEF Ends
    <3> QED
      BY <1>1, <2>2, <3>1, AtomFacts
  <2>4. pc' <= To(job, quant.pc) - 1
    BY <1>1, <1>2, <2>1, <2>2, <2>3, AtomFacts DEF InAtom
  <2>5. pc' \in AtomOf(job, quant.pc)
    <3>1. pc \in Nat /\ pc' \in Nat /\ pc < pc' /\ Next_(job, quant.pc) \in Nat
      BY <1>1, <1>2, <2>2, FollowsBehind
    <3>2. Next_(job, quant.pc) <= pc
      BY <2>1 DEF InAtom, AtomOf
    <3>3. To(job, quant.pc) - 1 \in Nat /\ To(job, quant.pc) \in Int
      <4>1. To(job, quant.pc) - 1 \in HeadsOf(job) /\ To(job, quant.pc) \in HeadsOf(job)
        BY <1>1, <2>2, AtomFacts, JumpsTo DEF JUMPS
      <4> QED
        BY <1>1, <4>1, FollowsBehind
    <3> QED
      BY <1>3, <2>4, <3>1, <3>2, <3>3 DEF AtomOf
  <2>6. InAtom(job, quant, pc', cptr')
    <3>1. Taken(job, pc) \in Int /\ Taken(job, Next_(job, quant.pc)) \in Int
      <4>1. 1 .. Len(Code(job)) \subseteq 1 .. Len(Code(job)) + 1
        BY <1>1, CodeType
      <4>2. Next_(job, quant.pc) \in HeadsOf(job)
        BY <1>1, <2>2, AtomFacts
      <4> QED
        BY <1>1, <4>1, <4>2, CodeType, TakenType
    <3>2. CharsBelow(job, quant.cptr) \in Int
      BY <1>1, <2>1, JobFacts, CountsBelow DEF Counting, PlacesOf
    <3>3. CharsBelow(job, cptr) =
             CharsBelow(job, quant.cptr) + (Taken(job, pc) - Taken(job, Next_(job, quant.pc)))
      BY <2>1 DEF InAtom
    <3> QED
      BY <1>3, <2>5, <3>1, <3>2, <3>3 DEF InAtom
  <2> QED
    BY <1>1, <1>2, <1>3, <1>5, <2>1, <2>6 DEF MatchInv, Text, MODES
<1> QED
  BY <1>4, <1>5

(* What tests nothing is not in an atom.                                   *)
LEMMA OutsideAtoms ==
    ASSUME MatchInv, mode = "run", Op(job, pc) \notin CHARS \union TESTS \union { "match" }
    PROVE  quant = NoQuant /\ Here(job, pc, stack, capture, states)
<1>1. quant = NoQuant
  BY InAtomOps
<1> QED
  BY <1>1 DEF MatchInv

(* Going on behind the instruction.                                        *)
LEMMA StraightStep ==
    ASSUME MatchInv, mode = "run", quant = NoQuant, Op(job, pc) \notin Ends \union LOOKS,
           Proceed(next, cptr'), cptr' \in PlacesOf(job),
           UNCHANGED << job, pos, quant, states, room >>,
           stack' \in Seq(Int), Len(stack') = Len(stack) + Effect(Op(job, pc)),
           capture' \in CapturesOf(job),
           Op(job, pc) = "save_end" /\ Arg(job, pc, 1) = 0 => capture'[1] # None
    PROVE  MatchInv'
<1>1. job \in Jobs /\ pc \in HeadsOf(job) /\ Here(job, pc, stack, capture, states)
  BY DEF MatchInv, Text
<1>2. pc' = Next_(job, pc) /\ mode' = "run"
  BY Names DEF Proceed
<1>3. pc' \in HeadsOf(job) /\ Depth(job, pc') = Depth(job, pc) + Effect(Op(job, pc))
  BY <1>1, <1>2, FallsThrough
<1>4. Goes(job, pc, pc')
  BY <1>1, <1>2, GoesOn DEF Here
<1>5. pc' \in InLooks(Code(job)) => Looked(states')
  BY <1>1, <1>4 DEF Goes, Here
<1>6. StackOk(job, stack', pc')
  <2>1. Len(stack') = Depth(job, pc')
    BY <1>1, <1>3 DEF Here, StackOk
  <2>2. Depth(job, pc') \in 0 .. job.prog.stack
    BY <1>1, <1>3, DepthFits
  <2> QED
    BY <1>1, <2>1, <2>2, CodeType DEF StackOk
<1>7. Pile(job, states', room')
  BY DEF MatchInv
<1> QED
  BY <1>2, <1>3, <1>4, <1>5, <1>6, <1>7, MoveStep

(* Going on where the instruction jumps to.                                *)
LEMMA JumpStep ==
    ASSUME MatchInv, mode = "run", quant = NoQuant, Op(job, pc) \in JUMPS \ LOOKS,
           Proceed(target, cptr), UNCHANGED << job, pos, quant, capture, states, room >>,
           stack' \in Seq(Int), Len(stack') = Len(stack)
    PROVE  MatchInv'
<1>1. job \in Jobs /\ pc \in HeadsOf(job) /\ Here(job, pc, stack, capture, states)
  BY DEF MatchInv, Text
<1>2. pc' = To(job, pc) /\ mode' = "run" /\ cptr' = cptr
  BY Names DEF Proceed
<1>3. pc' \in HeadsOf(job) /\ Depth(job, pc') = Depth(job, pc)
  BY <1>1, <1>2, JumpsTo
<1>4. Goes(job, pc, pc')
  BY <1>1, <1>2, GoesOn DEF Here
<1>5. pc' \in InLooks(Code(job)) => Looked(states')
  BY <1>1, <1>4 DEF Goes, Here
<1>6. StackOk(job, stack', pc')
  BY <1>1, <1>3 DEF Here, StackOk
<1>7. Op(job, pc) # "save_end"
  BY DEF JUMPS
<1>8. Pile(job, states', room') /\ capture' \in CapturesOf(job) /\ cptr' \in PlacesOf(job)
  BY <1>2 DEF MatchInv, Text
<1> QED
  BY <1>2, <1>3, <1>4, <1>5, <1>6, <1>7, <1>8, MoveStep

-----------------------------------------------------------------------------
(* The instructions, one by one.                                           *)
LEMMA CharsStep ==
    ASSUME MatchInv, Char \/ AnyChar \/ Range16or32
    PROVE  MatchInv'
<1>1. /\ mode = "run" /\ Op(job, pc) \in CHARS
      /\ \/ cptr # clen /\ Proceed(next, CharAt(cptr, clen).p)
         \/ Fail
      /\ UNCHANGED << job, pos, capture, stack, states, room, quant >>
  <2>1. clen \in Nat /\ cptr \in 0 .. clen
    BY JobFacts DEF MatchInv, Text, PlacesOf, clen, input
  <2>2. CASE Char
    BY <2>1, <2>2, Names DEF Char, At, Test, CHARS
  <2>3. CASE AnyChar
    BY <2>3, Names DEF AnyChar, At, Test, CHARS
  <2>4. CASE Range16or32
    BY <2>1, <2>4, Names DEF Range16or32, At, Test, CHARS
  <2> QED
    BY <2>2, <2>3, <2>4
<1>2. CASE Fail
  BY <1>1, <1>2, FailStep
<1>3. CASE cptr # clen /\ Proceed(next, CharAt(cptr, clen).p)
  <2>1. job \in Jobs /\ cptr \in PlacesOf(job)
    BY DEF MatchInv, Text
  <2>2. clen \in PlacesOf(job) /\ cptr < clen
    <3>1. clen = Len(job.input) /\ clen \in Nat
      BY <2>1, JobFacts DEF clen, input
    <3>2. clen \in PlacesOf(job)
      BY <3>1 DEF PlacesOf, InPairOf
    <3>3. cptr \in 0 .. clen
      BY <2>1, <3>1 DEF PlacesOf
    <3> QED
      BY <1>3, <3>1, <3>2, <3>3
  <2>3. cptr' = CharAt(cptr, clen).p
    BY <1>3 DEF Proceed
  <2>4. cptr' \in PlacesOf(job) /\ CharsBelow(job, cptr') = CharsBelow(job, cptr) + 1
    BY <2>1, <2>2, <2>3, CharAtStep
  <2> QED
    BY <1>1, <1>3, <2>3, <2>4, TestStep
<1> QED
  BY <1>1, <1>2, <1>3

LEMMA AssertionsStep ==
    ASSUME MatchInv, LineStart \/ LineEnd \/ WordBoundary
    PROVE  MatchInv'
<1>1. /\ mode = "run" /\ Op(job, pc) \in TESTS
      /\ Proceed(next, cptr) \/ Fail
      /\ UNCHANGED << job, pos, capture, stack, states, room, quant >>
  <2>1. CASE LineStart
    BY <2>1, Names DEF LineStart, At, Test, TESTS
  <2>2. CASE LineEnd
    BY <2>2, Names DEF LineEnd, At, Test, TESTS
  <2>3. CASE WordBoundary
    BY <2>3, Names DEF WordBoundary, At, Test, TESTS
  <2> QED
    BY <2>1, <2>2, <2>3
<1>2. CASE Fail
  BY <1>1, <1>2, FailStep
<1>3. CASE Proceed(next, cptr)
  <2>1. Op(job, pc) \notin CHARS
    BY <1>1 DEF CHARS, TESTS
  <2>2. cptr' = cptr
    BY <1>3 DEF Proceed
  <2>3. cptr \in PlacesOf(job) /\ CharsBelow(job, cptr) = CharsBelow(job, cptr) + 0
    BY JobFacts, CountsBelow DEF MatchInv, Text, PlacesOf
  <2> QED
    BY <1>1, <1>3, <2>1, <2>2, <2>3, TestStep
<1> QED
  BY <1>1, <1>2, <1>3

LEMMA PrevStep ==
    ASSUME MatchInv, Prev
    PROVE  MatchInv'
<1>1. /\ mode = "run" /\ Op(job, pc) = "prev"
      /\ IF cptr = 0 THEN Fail ELSE Proceed(next, CharBefore(cptr, 0).p)
      /\ UNCHANGED << job, pos, capture, stack, states, room, quant >>
  BY Names DEF Prev, At, Test
<1>2. CASE cptr = 0
  BY <1>1, <1>2, FailStep
<1>3. CASE cptr # 0
  <2>1. quant = NoQuant /\ Here(job, pc, stack, capture, states)
    BY <1>1, OutsideAtoms DEF CHARS, TESTS
  <2>2. job \in Jobs /\ cptr \in PlacesOf(job) /\ capture \in CapturesOf(job)
    BY <1>1 DEF MatchInv, Text
  <2>3. 0 \in PlacesOf(job) /\ 0 < cptr
    <3>1. cptr \in Nat
      BY <2>2, JobFacts DEF PlacesOf
    <3> QED
      BY <1>3, <2>2, <3>1, JobFacts DEF PlacesOf, InPairOf
  <2>4. cptr' = CharBefore(cptr, 0).p
    BY <1>1, <1>3 DEF Proceed
  <2>5. cptr' \in PlacesOf(job)
    BY <2>2, <2>3, <2>4, CharBeforeStep
  <2>6. Op(job, pc) \notin Ends \union LOOKS /\ Op(job, pc) # "save_end" /\ Effect(Op(job, pc)) = 0
    BY <1>1, Effects DEF Ends, LOOKS
  <2>7. stack \in Seq(Int) /\ Len(stack) = Len(stack) + 0
    BY <2>1 DEF Here, StackOk
  <2> QED
    BY <1>1, <1>3, <2>1, <2>2, <2>4, <2>5, <2>6, <2>7, StraightStep
<1> QED
  BY <1>2, <1>3

LEMMA SaveStep ==
    ASSUME MatchInv, Save \/ SaveReset
    PROVE  MatchInv'
<1>1. /\ mode = "run" /\ Op(job, pc) \in { "save_start", "save_end", "save_reset" }
      /\ Proceed(next, cptr)
      /\ UNCHANGED << job, pos, stack, states, room, quant >>
  BY Names DEF Save, SaveReset, At
<1>2. quant = NoQuant /\ Here(job, pc, stack, capture, states)
  BY <1>1, OutsideAtoms DEF CHARS, TESTS
<1>3. job \in Jobs /\ pc \in HeadsOf(job) /\ cptr \in PlacesOf(job) /\ capture \in CapturesOf(job)
  BY <1>1 DEF MatchInv, Text
<1>4. Op(job, pc) \notin Ends \union LOOKS /\ Effect(Op(job, pc)) = 0
  BY <1>1, Effects DEF Ends, LOOKS
<1>5. stack \in Seq(Int) /\ Len(stack) = Len(stack) + 0
  BY <1>2 DEF Here, StackOk
<1>6. cptr' = cptr
  BY <1>1 DEF Proceed
<1>7. capture' \in CapturesOf(job) /\
        (Op(job, pc) = "save_end" /\ Arg(job, pc, 1) = 0 => capture'[1] # None)
  <2>1. CASE Save
    <3>1. PICK place : /\ place = 2 * Arg(job, pc, 1) + (IF Op(job, pc) = "save_end" THEN 1 ELSE 0)
                       /\ capture' = [capture EXCEPT ![place] = cptr]
      BY <2>1, Names DEF Save
    <3>2. capture' \in CapturesOf(job)
      BY <1>3, <3>1 DEF CapturesOf
    <3>3. ASSUME Op(job, pc) = "save_end", Arg(job, pc, 1) = 0
          PROVE  capture'[1] # None
      <4>1. capture' = [capture EXCEPT ![2 * 0 + 1] = cptr]
        BY <2>1, <3>3, Names DEF Save
      <4>2. 2 * 0 + 1 = 1 /\ 1 \in 0 .. 2 * job.prog.captures - 1
        <5>1. \A n \in 1 .. CapturesMax : 1 \in 0 .. 2 * n - 1
          OBVIOUS
        <5> QED
          BY <1>3, <5>1, JobFacts
      <4>3. capture'[1] = cptr
        BY <1>3, <4>1, <4>2 DEF CapturesOf
      <4>4. cptr \in Nat
        BY <1>3, JobFacts DEF PlacesOf
      <4> QED
        BY <4>3, <4>4 DEF None
    <3> QED
      BY <3>2, <3>3
  <2>2. CASE SaveReset
    <3>1. Op(job, pc) = "save_reset"
      BY <2>2, Names DEF SaveReset, At
    <3>2. \E S : capture' = [i \in DOMAIN capture |-> IF i \in S THEN None ELSE capture[i]]
      BY <2>2 DEF SaveReset
    <3> QED
      BY <1>3, <3>1, <3>2 DEF CapturesOf
  <2> QED
    BY <2>1, <2>2
<1> QED
  BY <1>1, <1>2, <1>3, <1>4, <1>5, <1>6, <1>7, StraightStep

LEMMA StackStep ==
    ASSUME MatchInv, Push \/ Drop \/ CheckAdvance
    PROVE  MatchInv'
<1>1. /\ mode = "run"
      /\ Op(job, pc) \in { "push_i32", "push_char_pos", "drop", "check_advance" }
      /\ UNCHANGED << job, pos, capture, states, room, quant >>
  BY Names DEF Push, Drop, CheckAdvance, At, Counters
<1>2. quant = NoQuant /\ Here(job, pc, stack, capture, states)
  BY <1>1, OutsideAtoms DEF CHARS, TESTS
<1>3. job \in Jobs /\ pc \in HeadsOf(job) /\ cptr \in PlacesOf(job) /\ capture \in CapturesOf(job)
  BY <1>1 DEF MatchInv, Text
<1>4. Op(job, pc) \notin Ends \union LOOKS /\ Op(job, pc) # "save_end"
  BY <1>1 DEF Ends, LOOKS
<1>5. stack \in Seq(Int) /\ Len(stack) = Depth(job, pc)
  BY <1>2 DEF Here, StackOk
<1>6. cptr \in Int
  BY <1>3, JobFacts DEF PlacesOf
<1>7. CASE Push
  <2>1. PICK v \in Int : stack' = Append(stack, v)
    <3>1. Op(job, pc) \in { "push_i32", "push_char_pos" }
      BY <1>7, Names DEF Push, At
    <3>2. stack' = Append(stack, IF Op(job, pc) = "push_i32" THEN Arg(job, pc, 1) ELSE cptr)
      BY <1>7, Names DEF Push
    <3> QED
      BY <1>3, <1>6, <3>1, <3>2, ArgumentsFit
  <2>2. Effect(Op(job, pc)) = 1
    BY <1>7, Effects, Names DEF Push, At, PUSHES
  <2>3. stack' \in Seq(Int) /\ Len(stack') = Len(stack) + 1
    BY <1>5, <2>1
  <2>4. Proceed(next, cptr) /\ cptr' = cptr
    BY <1>7 DEF Push, Proceed
  <2> QED
    BY <1>1, <1>2, <1>3, <1>4, <2>2, <2>3, <2>4, StraightStep
<1>8. CASE Drop \/ CheckAdvance
  <2>1. Op(job, pc) \in { "drop", "check_advance" } /\ stack' = Front(stack)
    BY <1>8, Names DEF Drop, CheckAdvance, At
  <2>2. Effect(Op(job, pc)) = -1
    BY <2>1, Effects DEF POPS
  <2>3. Len(stack) >= 1
    BY <1>3, <1>5, <2>1, PopsSome
  <2>4. stack' \in Seq(Int) /\ Len(stack') = Len(stack) - 1
    BY <1>5, <2>1, <2>3 DEF Front
  <2>5. Proceed(next, cptr) \/ Fail
    BY <1>8 DEF Drop, CheckAdvance
  <2>6. CASE Proceed(next, cptr)
    <3>1. cptr' = cptr /\ Len(stack') = Len(stack) + Effect(Op(job, pc))
      <4>1. Len(stack) \in Nat
        BY <1>5
      <4> QED
        BY <2>2, <2>4, <2>6, <4>1 DEF Proceed
    <3> QED
      BY <1>1, <1>2, <1>3, <1>4, <2>4, <2>6, <3>1, StraightStep
  <2>7. CASE Fail
    <3>1. mode' = "unwind" /\ ret' # Matched /\ UNCHANGED << pc, cptr >>
      BY <1>2, <2>7 DEF Fail, NoMatch, Matched
    <3> QED
      BY <1>1, <1>2, <3>1 DEF MatchInv, MODES
  <2> QED
    BY <2>5, <2>6, <2>7
<1> QED
  BY <1>7, <1>8

LEMMA LoopStep ==
    ASSUME MatchInv, Goto \/ Loop
    PROVE  MatchInv'
<1>1. /\ mode = "run"
      /\ Op(job, pc) \in { "goto", "loop" }
      /\ UNCHANGED << job, pos, capture, states, room, quant >>
  BY Names DEF Goto, Loop, At, Counters
<1>2. quant = NoQuant /\ Here(job, pc, stack, capture, states)
  BY <1>1, OutsideAtoms DEF CHARS, TESTS
<1>3. job \in Jobs /\ pc \in HeadsOf(job) /\ cptr \in PlacesOf(job) /\ capture \in CapturesOf(job)
  BY <1>1 DEF MatchInv, Text
<1>4. stack \in Seq(Int) /\ Len(stack) = Depth(job, pc)
  BY <1>2 DEF Here, StackOk
<1>5. Op(job, pc) \in JUMPS \ LOOKS
  BY <1>1 DEF JUMPS, LOOKS
<1>6. CASE Goto
  <2>1. Proceed(target, cptr) /\ stack' = stack
    BY <1>6 DEF Goto
  <2> QED
    BY <1>1, <1>2, <1>4, <1>5, <2>1, JumpStep
<1>7. CASE Loop
  <2>1. Op(job, pc) = "loop"
    BY <1>7, Names DEF Loop, At
  <2>2. stack' \in Seq(Int) /\ Len(stack') = Len(stack)
    <3>1. Len(stack) \in 1 .. Len(stack)
      BY <1>3, <1>4, <2>1, PopsSome
    <3>2. Last(stack) \in Int
      BY <1>4, <3>1, ElementOfSeq DEF Last
    <3>3. stack' = [stack EXCEPT ![Len(stack)] = Last(stack) - 1]
      BY <1>7 DEF Loop
    <3>4. Last(stack) - 1 \in Int
      BY <3>2
    <3> QED
      BY <1>4, <3>1, <3>3, <3>4
  <2>3. Proceed(target, cptr) \/ Proceed(next, cptr)
    BY <1>7 DEF Loop
  <2>4. CASE Proceed(target, cptr)
    BY <1>1, <1>2, <1>5, <2>2, <2>4, JumpStep
  <2>5. CASE Proceed(next, cptr)
    <3>1. Op(job, pc) \notin Ends \union LOOKS /\ Op(job, pc) # "save_end" /\ Effect(Op(job, pc)) = 0
      BY <2>1, <1>5, Effects DEF Ends, LOOKS
    <3>2. cptr' = cptr /\ Len(stack') = Len(stack) + 0
      BY <1>4, <2>2, <2>5 DEF Proceed
    <3> QED
      BY <1>1, <1>2, <1>3, <2>2, <2>5, <3>1, <3>2, StraightStep
  <2> QED
    BY <2>3, <2>4, <2>5
<1> QED
  BY <1>6, <1>7

-----------------------------------------------------------------------------
(* Pushing a state.                                                        *)
LEMMA Grows ==
    ASSUME room \in Nat, Len(states) \in Nat, Len(states) <= room, Grow
    PROVE  room' \in Nat /\ Len(states) + 1 <= room'
<1>1. StateChunk \in Nat /\ StateChunk >= 2
  BY LimitsAssumption
<1>2. PICK n \in Nat : n = Len(states)
  OBVIOUS
<1>3. CASE n + 1 > room
  <2>1. room' = Larger /\ room = n
    BY <1>2, <1>3 DEF Grow
  <2>2. Larger \in Nat /\ Larger >= n + 1
    <3> DEFINE grown == (room * 3) \div 2
    <3>1. grown \in Nat
      OBVIOUS
    <3>2. room >= 2 => grown >= room + 1
      OBVIOUS
    <3>3. Larger = IF grown < StateChunk THEN StateChunk ELSE grown
      BY DEF Larger
    <3> HIDE DEF grown
    <3> QED
      BY <1>1, <2>1, <3>1, <3>2, <3>3
  <2> QED
    BY <1>2, <2>1, <2>2
<1>4. CASE ~(n + 1 > room)
  BY <1>2, <1>4 DEF Grow
<1> QED
  BY <1>3, <1>4

LEMMA MakesState ==
    ASSUME job \in Jobs, NEW type \in LOOKS \union { "split" },
           NEW p \in HeadsOf(job) \ InAtoms(Code(job)), ~Final(job, p),
           cptr \in PlacesOf(job), capture \in CapturesOf(job), StackOk(job, stack, p)
    PROVE  State(type, p, 0) \in Kept(job)
<1> DEFINE rs == State(type, p, 0)
<1>1. rs = [type |-> type, pc |-> p, cptr |-> cptr, count |-> 0,
            capture |-> capture, stack |-> stack]
  BY DEF State
<1>2. p \in Nat /\ cptr \in Nat
  BY FollowsBehind, JobFacts DEF PlacesOf
<1>3. type \in LOOKS \union { "split", "greedy_quant" } /\ type # "greedy_quant"
  BY DEF LOOKS
<1>4. rs \in StateRecords(job)
  BY <1>1, <1>2, <1>3 DEF StateRecords, StackOk
<1>5. StateOk(job, rs)
  BY <1>1, <1>3 DEF StateOk
<1> HIDE DEF rs
<1> QED
  BY <1>4, <1>5 DEF Kept, rs

(* Where the program may go from an instruction that is no save_end.       *)
LEMMA GoesKept ==
    ASSUME NEW j \in Jobs, NEW p \in HeadsOf(j), NEW q \in HeadsOf(j),
           Goes(j, p, q), Op(j, p) # "save_end"
    PROVE  q \notin InAtoms(Code(j)) /\ ~Final(j, q)
BY DEF Goes, Final

LEMMA SplitStep ==
    ASSUME MatchInv, Split
    PROVE  MatchInv'
<1>1. /\ mode = "run" /\ Op(job, pc) \in { "split_goto_first", "split_next_first" }
      /\ Grow /\ UNCHANGED << job, pos, capture, stack, quant >>
  BY Names DEF Split, At
<1>2. quant = NoQuant /\ Here(job, pc, stack, capture, states)
  BY <1>1, OutsideAtoms DEF CHARS, TESTS
<1>3. /\ job \in Jobs /\ pc \in HeadsOf(job) /\ cptr \in PlacesOf(job)
      /\ capture \in CapturesOf(job) /\ Pile(job, states, room)
  BY <1>1 DEF MatchInv, Text
<1>4. /\ Op(job, pc) \in JUMPS /\ Op(job, pc) \notin LOOKS /\ Op(job, pc) \notin Ends
      /\ Op(job, pc) # "save_end" /\ Effect(Op(job, pc)) = 0
  BY <1>1, Effects DEF JUMPS, LOOKS, Ends
<1>5. PICK p, q : /\ { p, q } = { next, target }
                  /\ states' = Append(states, State("split", q, 0))
                  /\ Proceed(p, cptr)
  BY DEF Split
<1>6. /\ next \in HeadsOf(job) /\ target \in HeadsOf(job)
      /\ Depth(job, next) = Depth(job, pc) /\ Depth(job, target) = Depth(job, pc)
      /\ Goes(job, pc, next) /\ Goes(job, pc, target)
  <2>1. Depth(job, pc) \in Int
    BY <1>3, DepthFits, CodeType
  <2> QED
    BY <1>2, <1>3, <1>4, <2>1, FallsThrough, JumpsTo, GoesOn, Names DEF Here
<1>7. /\ p \in HeadsOf(job) /\ Depth(job, p) = Depth(job, pc) /\ Goes(job, pc, p)
      /\ q \in HeadsOf(job) /\ Depth(job, q) = Depth(job, pc) /\ Goes(job, pc, q)
  BY <1>5, <1>6
<1>8. StackOk(job, stack, p) /\ StackOk(job, stack, q)
  BY <1>2, <1>7 DEF Here, StackOk
<1>9. State("split", q, 0) \in Kept(job)
  <2>1. q \notin InAtoms(Code(job)) /\ ~Final(job, q)
    BY <1>3, <1>4, <1>7, GoesKept
  <2> QED
    BY <1>3, <1>7, <1>8, <2>1, MakesState
<1>10. State("split", q, 0).pc = q
  BY DEF State
<1>11. \A x \in { p, q } : x \in InLooks(Code(job)) => Looked(states)
  BY <1>2, <1>4, <1>7 DEF Goes, Here
<1>12. room' \in Nat /\ Len(states) + 1 <= room'
  BY <1>1, <1>3, Grows DEF Pile
<1>13. Pile(job, states', room') /\ (Looked(states) => Looked(states'))
  BY <1>3, <1>5, <1>9, <1>10, <1>11, <1>12, PushPile
<1>14. pc' = p /\ mode' = "run" /\ cptr' = cptr
  BY <1>1, <1>5 DEF Proceed
<1> QED
  BY <1>1, <1>2, <1>3, <1>4, <1>7, <1>8, <1>11, <1>13, <1>14, MoveStep

LEMMA LookaheadStep ==
    ASSUME MatchInv, Lookahead
    PROVE  MatchInv'
<1>1. /\ mode = "run" /\ Op(job, pc) \in LOOKS
      /\ Grow /\ UNCHANGED << job, pos, capture, stack, quant >>
      /\ states' = Append(states, State(Op(job, pc), target, 0))
      /\ Proceed(next, cptr)
  BY Names DEF Lookahead, At, LOOKS
<1>2. quant = NoQuant /\ Here(job, pc, stack, capture, states)
  BY <1>1, OutsideAtoms DEF CHARS, TESTS, LOOKS
<1>3. /\ job \in Jobs /\ pc \in HeadsOf(job) /\ cptr \in PlacesOf(job)
      /\ capture \in CapturesOf(job) /\ Pile(job, states, room)
  BY <1>1 DEF MatchInv, Text
<1>4. /\ Op(job, pc) \in JUMPS /\ Op(job, pc) \notin Ends
      /\ Op(job, pc) # "save_end" /\ Effect(Op(job, pc)) = 0
  BY <1>1, Effects DEF JUMPS, LOOKS, Ends
<1>5. /\ next \in HeadsOf(job) /\ target \in HeadsOf(job)
      /\ Depth(job, next) = Depth(job, pc) /\ Depth(job, target) = Depth(job, pc)
      /\ Goes(job, pc, next) /\ Goes(job, pc, target)
  <2>1. Depth(job, pc) \in Int
    BY <1>3, DepthFits, CodeType
  <2> QED
    BY <1>2, <1>3, <1>4, <2>1, FallsThrough, JumpsTo, GoesOn, Names DEF Here
<1>6. StackOk(job, stack, next) /\ StackOk(job, stack, target)
  BY <1>2, <1>5 DEF Here, StackOk
<1> DEFINE rs == State(Op(job, pc), target, 0)
<1>7. rs \in Kept(job)
  <2>1. target \notin InAtoms(Code(job)) /\ ~Final(job, target)
    BY <1>3, <1>4, <1>5, GoesKept
  <2>2. Op(job, pc) \in LOOKS \union { "split" }
    BY <1>1
  <2> QED
    BY <1>3, <1>5, <1>6, <2>1, <2>2, MakesState
<1>8. rs.pc = target /\ rs.type \in LOOKS
  BY <1>1 DEF State
<1>9. target \in InLooks(Code(job)) => Looked(states)
  BY <1>2, <1>5, Names DEF Goes, Here
<1>10. room' \in Nat /\ Len(states) + 1 <= room'
  BY <1>1, <1>3, Grows DEF Pile
<1> HIDE DEF rs
<1>11. Pile(job, states', room') /\ Looked(states')
  <2>1. states' = Append(states, rs)
    BY <1>1 DEF rs
  <2> QED
    BY <1>3, <1>7, <1>8, <1>9, <1>10, <2>1, PushPile
<1>12. pc' = next /\ mode' = "run" /\ cptr' = cptr
  BY <1>1 DEF Proceed
<1> QED
  BY <1>1, <1>2, <1>3, <1>4, <1>5, <1>6, <1>11, <1>12, MoveStep

-----------------------------------------------------------------------------
(* The quantifier whose atom is counted.                                   *)
LEMMA RecordsAreNot ==
    ASSUME NEW a, NEW b, NEW c
    PROVE  [pc |-> a, q |-> b, cptr |-> c] # NoQuant
<1>1. "pc" \in DOMAIN [pc |-> a, q |-> b, cptr |-> c] /\ DOMAIN NoQuant = {}
  BY DEF NoQuant
<1> QED
  BY <1>1

LEMMA SimpleQuantStep ==
    ASSUME MatchInv, SimpleQuant
    PROVE  MatchInv'
<1>1. /\ mode = "run" /\ Op(job, pc) = "simple_greedy_quant" /\ mode' = "quant"
      /\ quant' = [pc |-> pc, q |-> 0, cptr |-> cptr]
      /\ UNCHANGED << job, pos, pc, cptr, capture, stack, states, room >>
  BY Names DEF SimpleQuant, At
<1>2. quant = NoQuant /\ Here(job, pc, stack, capture, states)
  BY <1>1, OutsideAtoms DEF CHARS, TESTS
<1>3. job \in Jobs /\ pc \in HeadsOf(job) /\ cptr \in PlacesOf(job)
  BY DEF MatchInv, Text
<1>4. pc \in Nat /\ cptr \in Nat /\ AtomSize(job, pc) \in Nat /\ CharsBelow(job, cptr) \in Nat
  BY <1>1, <1>3, FollowsBehind, JobFacts, AtomType, CountsBelow DEF PlacesOf
<1>5. quant'.pc = pc /\ quant'.q = 0 /\ quant'.cptr = cptr
      /\ quant' \in [pc : Nat, q : Nat, cptr : Nat] /\ quant' # NoQuant
  BY <1>1, <1>4, RecordsAreNot
<1>6. 0 * AtomSize(job, pc) <= CharsBelow(job, cptr)
  BY <1>4
<1>7. Counting(job, quant', stack, states)
  BY <1>1, <1>2, <1>3, <1>5, <1>6 DEF Counting, Here
<1> QED
  BY <1>1, <1>5, <1>7 DEF MatchInv, MODES

LEMMA QuantTurnStep ==
    ASSUME MatchInv, QuantTurn
    PROVE  MatchInv'
<1>1. /\ mode = "quant" /\ mode' = "run"
      /\ pc' = Next_(job, quant.pc) /\ cptr' = quant.cptr
      /\ UNCHANGED << job, pos, capture, stack, states, room, quant >>
  BY Names DEF QuantTurn, Next_
<1>2. quant # NoQuant /\ Counting(job, quant, stack, states) /\ job \in Jobs
  BY <1>1 DEF MatchInv, Text
<1>3. /\ quant.pc \in HeadsOf(job) /\ Op(job, quant.pc) = "simple_greedy_quant"
      /\ quant.cptr \in PlacesOf(job)
  BY <1>2 DEF Counting
<1>4. pc' \in HeadsOf(job) /\ pc' <= To(job, quant.pc) - 1 /\ To(job, quant.pc) - 1 \in HeadsOf(job)
  BY <1>1, <1>2, <1>3, AtomFacts
<1>5. pc' \in AtomOf(job, quant.pc)
  <2>1. pc' \in Nat /\ To(job, quant.pc) - 1 \in Nat
    BY <1>2, <1>4, FollowsBehind
  <2>2. To(job, quant.pc) \in Nat
    <3>1. To(job, quant.pc) \in HeadsOf(job)
      BY <1>2, <1>3, JumpsTo DEF JUMPS
    <3> QED
      BY <1>2, <3>1, FollowsBehind
  <2>3. pc' < To(job, quant.pc) /\ Next_(job, quant.pc) <= pc'
    BY <1>1, <1>4, <2>1, <2>2
  <2> QED
    BY <1>4, <2>3 DEF AtomOf
<1>6. InAtom(job, quant, pc', cptr')
  <2>1. CharsBelow(job, quant.cptr) \in Nat
    BY <1>2, <1>3, JobFacts, CountsBelow DEF PlacesOf
  <2>2. Taken(job, pc') \in Nat
    <3>1. pc' \in 1 .. Len(Code(job)) + 1
      BY <1>2, <1>4, CodeType
    <3> QED
      BY <1>2, <3>1, TakenType
  <2> QED
    BY <1>1, <1>5, <2>1, <2>2 DEF InAtom
<1> QED
  BY <1>1, <1>2, <1>3, <1>4, <1>6 DEF MatchInv, Text, MODES

(* One more match of the atom: as many characters more as it takes.        *)
LEMMA AtomMatchedStep ==
    ASSUME MatchInv, AtomMatched
    PROVE  MatchInv'
<1>1. /\ mode = "run" /\ Op(job, pc) = "match" /\ quant # NoQuant
      /\ quant' = [quant EXCEPT !.q = @ + 1, !.cptr = cptr]
      /\ mode' \in { "quant", "counted" }
      /\ UNCHANGED << job, pos, pc, cptr, capture, stack, states, room >>
  BY Names DEF AtomMatched, At
<1>2. /\ Counting(job, quant, stack, states) /\ InAtom(job, quant, pc, cptr)
      /\ job \in Jobs /\ cptr \in PlacesOf(job)
  BY <1>1 DEF MatchInv, Text
<1>3. /\ quant \in [pc : Nat, q : Nat, cptr : Nat]
      /\ quant.pc \in HeadsOf(job) /\ Op(job, quant.pc) = "simple_greedy_quant"
      /\ quant.cptr \in PlacesOf(job)
      /\ quant.q * AtomSize(job, quant.pc) <= CharsBelow(job, quant.cptr)
  BY <1>2 DEF Counting
<1>4. pc = To(job, quant.pc) - 1
  <2>1. "match" \notin CHARS \union TESTS
    BY DEF CHARS, TESTS
  <2> QED
    BY <1>1, <2>1, InAtomOps
<1>5. CharsBelow(job, cptr) = CharsBelow(job, quant.cptr) + AtomSize(job, quant.pc)
  BY <1>2, <1>3, <1>4, AtomFacts DEF InAtom
<1>6. /\ cptr \in Nat /\ quant.cptr \in Nat /\ quant.q \in Nat
      /\ CharsBelow(job, cptr) \in Nat /\ CharsBelow(job, quant.cptr) \in Nat
      /\ AtomSize(job, quant.pc) \in Nat
  BY <1>2, <1>3, JobFacts, CountsBelow, AtomType DEF PlacesOf
<1>7. (quant.q + 1) * AtomSize(job, quant.pc) <= CharsBelow(job, cptr)
  <2>1. \A x, y \in Nat : (x + 1) * y = x * y + y
    OBVIOUS
  <2>2. (quant.q + 1) * AtomSize(job, quant.pc) = quant.q * AtomSize(job, quant.pc) + AtomSize(job, quant.pc)
    BY <1>6, <2>1
  <2>3. \A x, y \in Nat : x * y \in Nat
    OBVIOUS
  <2>4. PICK m \in Nat : m = quant.q * AtomSize(job, quant.pc)
    BY <1>6, <2>3
  <2>5. m + AtomSize(job, quant.pc) <= CharsBelow(job, cptr)
    BY <1>3, <1>5, <1>6, <2>4
  <2>6. (quant.q + 1) * AtomSize(job, quant.pc) = m + AtomSize(job, quant.pc)
    BY <2>2, <2>4
  <2> QED
    BY <2>5, <2>6
<1>8. /\ quant' \in [pc : Nat, q : Nat, cptr : Nat]
      /\ quant'.pc = quant.pc /\ quant'.q = quant.q + 1 /\ quant'.cptr = cptr
  <2>1. quant.q + 1 \in Nat
    BY <1>6
  <2>2. quant' = [pc |-> quant.pc, q |-> quant.q + 1, cptr |-> cptr]
    BY <1>1, <1>3
  <2> QED
    BY <1>3, <1>6, <2>1, <2>2
<1>9. quant' # NoQuant
  <2>1. quant' = [pc |-> quant'.pc, q |-> quant'.q, cptr |-> quant'.cptr]
    BY <1>8
  <2> QED
    BY <2>1, RecordsAreNot
<1>10. Counting(job, quant', stack, states)
  BY <1>2, <1>7, <1>8 DEF Counting
<1> QED
  BY <1>1, <1>9, <1>10 DEF MatchInv, MODES

(* The count is over: the state that is kept can give back the matches     *)
(* beyond the least number.                                                *)
LEMMA KeepsGreedy ==
    ASSUME job \in Jobs, capture \in CapturesOf(job), Counting(job, quant, stack, states),
           NEW m \in Nat, m < quant.q
    PROVE  [type |-> "greedy_quant", pc |-> quant.pc, cptr |-> quant.cptr,
            count |-> quant.q - m, capture |-> capture, stack |-> stack] \in Kept(job)
<1> DEFINE rs == [type |-> "greedy_quant", pc |-> quant.pc, cptr |-> quant.cptr,
                  count |-> quant.q - m, capture |-> capture, stack |-> stack]
<1>1. /\ quant.pc \in HeadsOf(job) \ InAtoms(Code(job))
      /\ Op(job, quant.pc) = "simple_greedy_quant"
      /\ quant.cptr \in PlacesOf(job) /\ StackOk(job, stack, quant.pc)
      /\ quant.q * AtomSize(job, quant.pc) <= CharsBelow(job, quant.cptr)
      /\ quant.q \in Nat /\ quant.pc \in Nat /\ quant.cptr \in Nat
  BY DEF Counting
<1>2. quant.q - m \in Nat \ { 0 }
  BY <1>1
<1>3. AtomSize(job, quant.pc) \in Nat /\ CharsBelow(job, quant.cptr) \in Nat
  BY <1>1, AtomType, CountsBelow
<1>4. (quant.q - m) * AtomSize(job, quant.pc) <= CharsBelow(job, quant.cptr)
  <2>1. PICK x \in Nat : x = quant.q - m
    BY <1>2
  <2>2. PICK a \in Nat : a = AtomSize(job, quant.pc)
    BY <1>3
  <2>3. quant.q * a = x * a + m * a
    <3>1. \A u, v, w \in Nat : (u + v) * w = u * w + v * w
      OBVIOUS
    <3>2. quant.q = x + m
      BY <1>1, <2>1
    <3> QED
      BY <3>1, <3>2
  <2>4. \A u, v \in Nat : u * v \in Nat
    OBVIOUS
  <2>5. PICK y \in Nat, z \in Nat : y = x * a /\ z = m * a
    BY <2>4
  <2>6. y + z <= CharsBelow(job, quant.cptr)
    BY <1>1, <2>2, <2>3, <2>5
  <2>7. y <= CharsBelow(job, quant.cptr)
    BY <1>3, <2>5, <2>6
  <2> QED
    BY <2>1, <2>2, <2>5, <2>7
<1>5. ~Final(job, quant.pc)
  BY <1>1 DEF Final
<1>6. /\ rs.type = "greedy_quant" /\ rs.pc = quant.pc /\ rs.cptr = quant.cptr
      /\ rs.count = quant.q - m /\ rs.capture = capture /\ rs.stack = stack
  OBVIOUS
<1>7. rs \in StateRecords(job)
  BY <1>1, <1>2 DEF StateRecords, StackOk
<1> HIDE DEF rs
<1>8. StateOk(job, rs)
  BY <1>1, <1>2, <1>4, <1>5, <1>6 DEF StateOk
<1> QED
  BY <1>7, <1>8 DEF Kept, rs

LEMMA QuantDoneStep ==
    ASSUME MatchInv, QuantDone
    PROVE  MatchInv'
<1>1. /\ mode = "counted" /\ quant' = NoQuant
      /\ UNCHANGED << job, pos, capture, stack >>
  BY DEF QuantDone
<1>2. /\ quant # NoQuant /\ Counting(job, quant, stack, states) /\ job \in Jobs
      /\ capture \in CapturesOf(job) /\ Pile(job, states, room)
  BY <1>1 DEF MatchInv, Text
<1>3. /\ quant.pc \in HeadsOf(job) \ InAtoms(Code(job)) /\ Op(job, quant.pc) = "simple_greedy_quant"
      /\ quant.cptr \in PlacesOf(job) /\ StackOk(job, stack, quant.pc)
      /\ quant.pc \in InLooks(Code(job)) => Looked(states)
      /\ quant.q \in Nat
  BY <1>2 DEF Counting
<1> DEFINE least == Arg(job, quant.pc, 2)
           kept == [type |-> "greedy_quant", pc |-> quant.pc, cptr |-> quant.cptr,
                    count |-> quant.q - least, capture |-> capture, stack |-> stack]
<1>4. least \in Nat
  BY <1>2, <1>3, AtomFacts
<1>5. \/ /\ mode' = "unwind" /\ ret' = NoMatch
         /\ UNCHANGED << pc, cptr, states, room >>
      \/ /\ mode' = "run" /\ pc' = To(job, quant.pc) /\ cptr' = quant.cptr
         /\ IF quant.q > least THEN states' = Append(states, kept) /\ Grow
            ELSE UNCHANGED << states, room >>
  <2>1. code[quant.pc].args[2] = least /\ Target(code, quant.pc) = To(job, quant.pc)
    BY Names DEF Arg, To
  <2>2. [State("greedy_quant", quant.pc, quant.q - least) EXCEPT !.cptr = quant.cptr] = kept
    BY DEF State
  <2> HIDE DEF least, kept
  <2> QED
    BY <2>1, <2>2 DEF QuantDone
<1> HIDE DEF least
<1>6. CASE mode' = "unwind" /\ ret' = NoMatch /\ UNCHANGED << pc, cptr, states, room >>
  BY <1>1, <1>6 DEF MatchInv, MODES, NoMatch, Matched
<1>7. CASE /\ mode' = "run" /\ pc' = To(job, quant.pc) /\ cptr' = quant.cptr
           /\ IF quant.q > least THEN states' = Append(states, kept) /\ Grow
              ELSE UNCHANGED << states, room >>
  <2>1. pc' \in HeadsOf(job) /\ Depth(job, pc') = Depth(job, quant.pc) /\ Goes(job, quant.pc, pc')
    BY <1>2, <1>3, <1>7, JumpsTo, GoesOn DEF JUMPS
  <2>2. Pile(job, states', room') /\ (Looked(states) => Looked(states'))
    <3>1. CASE quant.q > least
      <4>1. kept \in Kept(job)
        BY <1>2, <1>3, <1>4, <3>1, KeepsGreedy
      <4>2. room' \in Nat /\ Len(states) + 1 <= room'
        BY <1>2, <1>7, <3>1, Grows DEF Pile
      <4>3. kept.pc = quant.pc
        OBVIOUS
      <4> HIDE DEF kept
      <4> QED
        BY <1>2, <1>3, <1>7, <3>1, <4>1, <4>2, <4>3, PushPile
    <3>2. CASE ~(quant.q > least)
      BY <1>2, <1>7, <3>2
    <3> QED
      BY <3>1, <3>2
  <2>3. pc' \in InLooks(Code(job)) => Looked(states')
    BY <1>3, <2>1, <2>2 DEF Goes, LOOKS
  <2>4. Here(job, pc', stack, capture, states')
    BY <1>3, <2>1, <2>3 DEF Here, Goes, Final, StackOk
  <2> HIDE DEF kept
  <2> QED
    BY <1>1, <1>2, <1>3, <1>7, <2>1, <2>2, <2>4 DEF MatchInv, Text, MODES
<1> HIDE DEF kept
<1> QED
  BY <1>5, <1>6, <1>7

-----------------------------------------------------------------------------
(* References to groups.                                                   *)
LEMMA BackReferenceStep ==
    ASSUME MatchInv, BackReference
    PROVE  MatchInv'
<1>1. /\ mode = "run" /\ Op(job, pc) \in REFERENCES
      /\ UNCHANGED << job, pos, capture, stack, states, room, quant >>
  BY Names DEF BackReference, At
<1>2. quant = NoQuant /\ Here(job, pc, stack, capture, states)
  BY <1>1, OutsideAtoms DEF CHARS, TESTS, REFERENCES
<1>3. /\ job \in Jobs /\ pc \in HeadsOf(job) /\ cptr \in PlacesOf(job)
      /\ capture \in CapturesOf(job) /\ pos \in 0 .. Len(job.input) /\ Pile(job, states, room)
  BY <1>1 DEF MatchInv, Text
<1> DEFINE group == Arg(job, pc, 1)
           start == capture[2 * group]
           end == capture[2 * group + 1]
<1>4. \/ Fail
      \/ Proceed(next, cptr)
      \/ /\ group < job.prog.captures /\ start # None /\ end # None
         /\ mode' = "compare" /\ UNCHANGED << pc, cptr >>
         /\ \E f \in BOOLEAN : ref' = [at |-> IF f THEN start ELSE end,
                                      start |-> start, end |-> end, forward |-> f]
  <2>1. group = instr.args[1] /\ prog.captures = job.prog.captures
    BY Names DEF prog
  <2>2. ~(group >= prog.captures) => group < job.prog.captures
    BY <1>1, <1>3, <2>1, ArgumentsFit, JobFacts
  <2> DEFINE forward == instr.op \in { "back_reference", "back_reference_i" }
             begun == [at |-> IF forward THEN start ELSE end,
                       start |-> start, end |-> end, forward |-> forward]
  <2>3. \/ Fail
        \/ Proceed(next, cptr)
        \/ /\ ~(group >= prog.captures) /\ start # None /\ end # None
           /\ mode' = "compare" /\ UNCHANGED << pc, cptr >>
           /\ ref' = begun
    BY <2>1 DEF BackReference
  <2>4. \E f \in BOOLEAN : begun = [at |-> IF f THEN start ELSE end,
                                  start |-> start, end |-> end, forward |-> f]
    <3>1. forward \in BOOLEAN
      OBVIOUS
    <3> HIDE DEF forward
    <3> QED
      BY <3>1
  <2> HIDE DEF group, start, end, begun
  <2> QED
    BY <2>2, <2>3, <2>4
<1>5. CASE Fail
  BY <1>1, <1>5, FailStep
<1>6. CASE Proceed(next, cptr)
  <2>1. Op(job, pc) \notin Ends \union LOOKS /\ Op(job, pc) # "save_end" /\ Effect(Op(job, pc)) = 0
    BY <1>1, Effects DEF Ends, LOOKS, REFERENCES
  <2>2. cptr' = cptr /\ stack \in Seq(Int) /\ Len(stack) = Len(stack) + 0
    BY <1>2, <1>6 DEF Here, StackOk, Proceed
  <2> QED
    BY <1>1, <1>2, <1>3, <1>6, <2>1, <2>2, StraightStep
<1>7. CASE /\ group < job.prog.captures /\ start # None /\ end # None
           /\ mode' = "compare" /\ UNCHANGED << pc, cptr >>
           /\ \E f \in BOOLEAN : ref' = [at |-> IF f THEN start ELSE end,
                                        start |-> start, end |-> end, forward |-> f]
  <2>1. start \in PlacesOf(job) /\ end \in PlacesOf(job)
    <3>1. group \in Nat /\ job.prog.captures \in Nat
      <4>1. \A x \in 1 .. CapturesMax : x \in Nat
        OBVIOUS
      <4> QED
        BY <1>1, <1>3, <4>1, ArgumentsFit, JobFacts
    <3>2. \A g, n \in Nat : g < n => 2 * g \in 0 .. 2 * n - 1 /\ 2 * g + 1 \in 0 .. 2 * n - 1
      OBVIOUS
    <3>3. 2 * group \in 0 .. 2 * job.prog.captures - 1 /\ 2 * group + 1 \in 0 .. 2 * job.prog.captures - 1
      BY <1>7, <3>1, <3>2
    <3> HIDE DEF group
    <3> QED
      BY <1>3, <1>7, <3>3 DEF CapturesOf
  <2> HIDE DEF start, end
  <2>2. RefOk(job, ref', pc)
    BY <1>1, <1>7, <2>1 DEF RefOk
  <2> QED
    BY <1>1, <1>2, <1>3, <1>7, <2>2 DEF MatchInv, Text, MODES
<1> QED
  BY <1>4, <1>5, <1>6, <1>7

LEMMA CompareStep ==
    ASSUME MatchInv, Compare
    PROVE  MatchInv'
<1>1. /\ mode = "compare"
      /\ UNCHANGED << job, pos, capture, stack, states, room, quant >>
  BY DEF Compare
<1>2. /\ quant = NoQuant /\ Here(job, pc, stack, capture, states) /\ RefOk(job, ref, pc)
      /\ job \in Jobs /\ pc \in HeadsOf(job) /\ cptr \in PlacesOf(job)
      /\ capture \in CapturesOf(job) /\ Pile(job, states, room)
  BY <1>1 DEF MatchInv, Text
<1>3. /\ ref \in [at : PlacesOf(job), start : PlacesOf(job), end : PlacesOf(job),
                  forward : BOOLEAN]
      /\ ref.at \in PlacesOf(job) /\ ref.start \in PlacesOf(job) /\ ref.end \in PlacesOf(job)
      /\ Op(job, pc) \in REFERENCES
  BY <1>2 DEF RefOk
<1>4. Op(job, pc) \notin Ends \union LOOKS /\ Op(job, pc) # "save_end" /\ Effect(Op(job, pc)) = 0
  BY <1>3, Effects DEF Ends, LOOKS, REFERENCES
<1>5. /\ 0 \in PlacesOf(job) /\ clen \in PlacesOf(job)
      /\ \A x \in PlacesOf(job) : x \in Nat
  BY <1>2, JobFacts DEF PlacesOf, InPairOf, clen, input
<1>6. CASE mode' = "run" /\ pc' = next /\ cptr' = cptr
  <2>1. pc' \in HeadsOf(job) /\ Depth(job, pc') = Depth(job, pc) + 0 /\ Goes(job, pc, pc')
    BY <1>2, <1>4, <1>6, FallsThrough, GoesOn, Names DEF Here
  <2>2. Depth(job, pc) \in Int
    BY <1>2, DepthFits, CodeType
  <2>3. StackOk(job, stack', pc')
    BY <1>1, <1>2, <2>1, <2>2 DEF Here, StackOk
  <2>4. pc' \in InLooks(Code(job)) => Looked(states')
    BY <1>1, <1>2, <1>4, <2>1 DEF Goes, Here
  <2> QED
    BY <1>1, <1>2, <1>4, <1>6, <2>1, <2>3, <2>4, MoveStep
<1>7. CASE Fail
  BY <1>1, <1>7, FailStep
<1>8. CASE \E p, q \in PlacesOf(job) :
               ref' = [ref EXCEPT !.at = p] /\ cptr' = q /\ UNCHANGED << mode, pc >>
  <2>1. PICK p, q \in PlacesOf(job) :
               ref' = [ref EXCEPT !.at = p] /\ cptr' = q /\ UNCHANGED << mode, pc >>
    BY <1>8
  <2>2. RefOk(job, ref', pc)
    BY <1>3, <2>1 DEF RefOk
  <2> QED
    BY <1>1, <1>2, <2>1, <2>2 DEF MatchInv, Text, MODES
<1>9. CASE ref.forward
  <2>1. \/ mode' = "run" /\ pc' = next /\ cptr' = cptr
        \/ Fail
        \/ /\ ref.at < ref.end /\ ~(cptr >= clen)
           /\ cptr' = CharAt(cptr, clen).p
           /\ ref' = [ref EXCEPT !.at = CharAt(ref.at, ref.end).p]
           /\ UNCHANGED << mode, pc >>
    BY <1>9 DEF Compare
  <2>2. ref.at < ref.end => CharAt(ref.at, ref.end).p \in PlacesOf(job)
    BY <1>2, <1>3, CharAtStep
  <2>3. ~(cptr >= clen) => CharAt(cptr, clen).p \in PlacesOf(job)
    <3>1. ~(cptr >= clen) => cptr < clen
      BY <1>2, <1>5
    <3> QED
      BY <1>2, <1>5, <3>1, CharAtStep
  <2> QED
    BY <1>6, <1>7, <1>8, <2>1, <2>2, <2>3
<1>10. CASE ~ref.forward
  <2>1. \/ mode' = "run" /\ pc' = next /\ cptr' = cptr
        \/ Fail
        \/ /\ ref.at > ref.start /\ cptr # 0
           /\ cptr' = CharBefore(cptr, 0).p
           /\ ref' = [ref EXCEPT !.at = CharBefore(ref.at, ref.start).p]
           /\ UNCHANGED << mode, pc >>
    BY <1>10 DEF Compare
  <2>2. ref.at > ref.start => CharBefore(ref.at, ref.start).p \in PlacesOf(job)
    BY <1>2, <1>3, <1>5, CharBeforeStep
  <2>3. cptr # 0 => CharBefore(cptr, 0).p \in PlacesOf(job)
    <3>1. cptr # 0 => 0 < cptr
      BY <1>2, <1>5
    <3> QED
      BY <1>2, <1>5, <3>1, CharBeforeStep
  <2> QED
    BY <1>6, <1>7, <1>8, <2>1, <2>2, <2>3
<1> QED
  BY <1>9, <1>10

-----------------------------------------------------------------------------
(* The end of a match, and taking states off.                              *)
LEMMA MatchStep ==
    ASSUME MatchInv, Match
    PROVE  MatchInv'
<1>1. /\ mode = "run" /\ Op(job, pc) = "match" /\ quant = NoQuant
      /\ mode' = "unwind" /\ ret' = Matched
      /\ UNCHANGED << job, pos, pc, cptr, capture, stack, states, room, quant >>
  BY Names DEF Match, At
<1>2. Here(job, pc, stack, capture, states)
  BY <1>1 DEF MatchInv
<1>3. capture[1] # None \/ Looked(states)
  BY <1>1, <1>2 DEF Here, Final
<1> QED
  BY <1>1, <1>3 DEF MatchInv, MODES

LEMMA BottomStep ==
    ASSUME MatchInv, Bottom
    PROVE  MatchInv'
<1>1. /\ mode = "unwind" /\ states = << >> /\ mode' = "returned"
      /\ UNCHANGED << job, pos, pc, cptr, capture, stack, states, room, quant, ret >>
  BY DEF Bottom, Unwinding
<1>2. ~Looked(states)
  BY <1>1 DEF Looked
<1> QED
  BY <1>1, <1>2 DEF MatchInv, MODES

LEMMA DiscardStep ==
    ASSUME MatchInv, Discard
    PROVE  MatchInv'
<1>1. /\ mode = "unwind" /\ states # << >> /\ states' = Front(states)
      /\ UNCHANGED << job, pos, mode, pc, cptr, capture, stack, room, quant >>
  BY DEF Discard, Unwinding
<1>2. job \in Jobs /\ Pile(job, states, room)
  BY DEF MatchInv, Text
<1>3. Pile(job, states', room)
  BY <1>1, <1>2, PopPile
<1>4. ret' = Matched => ret = Matched /\ Last(states).type \notin LOOKS
  BY DEF Discard, LOOKS, NoMatch, Matched
<1>5. ret' = Matched => capture[1] # None \/ Looked(states')
  BY <1>1, <1>2, <1>4, PopPile DEF MatchInv
<1> QED
  BY <1>1, <1>3, <1>5 DEF MatchInv, MODES

LEMMA KeptFacts ==
    ASSUME NEW j \in Jobs, NEW rs \in Kept(j)
    PROVE  /\ rs \in StateRecords(j) /\ StateOk(j, rs)
           /\ rs.pc \in HeadsOf(j) \ InAtoms(Code(j)) /\ ~Final(j, rs.pc)
           /\ rs.cptr \in PlacesOf(j) /\ rs.capture \in CapturesOf(j)
           /\ StackOk(j, rs.stack, rs.pc)
BY DEF Kept, StateOk

LEMMA ResumeStep ==
    ASSUME MatchInv, Resume
    PROVE  MatchInv'
<1> DEFINE rs == Last(states)
<1>1. /\ mode = "unwind" /\ states # << >> /\ states' = Front(states) /\ mode' = "run"
      /\ pc' = rs.pc /\ cptr' = rs.cptr /\ stack' = rs.stack
      /\ capture' \in { capture, rs.capture }
      /\ UNCHANGED << job, pos, room, quant >>
  BY DEF Resume, Unwinding
<1>2. job \in Jobs /\ Pile(job, states, room) /\ quant = NoQuant /\ capture \in CapturesOf(job)
      /\ pos \in 0 .. Len(job.input)
  BY <1>1 DEF MatchInv, Text
<1>3. Pile(job, states', room) /\ rs \in Kept(job)
      /\ (rs.pc \in InLooks(Code(job)) => Looked(states'))
  BY <1>1, <1>2, PopPile
<1> HIDE DEF rs
<1>4. /\ rs.pc \in HeadsOf(job) \ InAtoms(Code(job)) /\ ~Final(job, rs.pc)
      /\ rs.cptr \in PlacesOf(job) /\ rs.capture \in CapturesOf(job)
      /\ StackOk(job, rs.stack, rs.pc)
  BY <1>2, <1>3, KeptFacts
<1>5. Here(job, pc', stack', capture', states')
  BY <1>1, <1>3, <1>4 DEF Here
<1>6. Text(job, pos, cptr', pc') /\ capture' \in CapturesOf(job)
  BY <1>1, <1>2, <1>4 DEF Text
<1> QED
  BY <1>1, <1>2, <1>3, <1>5, <1>6 DEF MatchInv, MODES

(* Giving back a match takes as many characters back as the atom takes.    *)
LEMMA GivesOneBack ==
    ASSUME job \in Jobs, NEW rs \in Kept(job), rs.type = "greedy_quant"
    PROVE  /\ Back(rs.cptr, AtomSize(job, rs.pc)) \in PlacesOf(job)
           /\ rs.count # 1 =>
                 [rs EXCEPT !.cptr = Back(rs.cptr, AtomSize(job, rs.pc)), !.count = @ - 1]
                     \in Kept(job)
<1> DEFINE a == AtomSize(job, rs.pc)
           b == Back(rs.cptr, a)
<1>1. /\ rs \in StateRecords(job) /\ StateOk(job, rs)
      /\ rs.pc \in HeadsOf(job) \ InAtoms(Code(job)) /\ rs.cptr \in PlacesOf(job)
  BY KeptFacts
<1>2. /\ Op(job, rs.pc) = "simple_greedy_quant" /\ rs.count \in Nat \ { 0 }
      /\ rs.count * a <= CharsBelow(job, rs.cptr)
  BY <1>1 DEF StateOk
<1>3. a \in Nat /\ rs.cptr \in Nat /\ CharsBelow(job, rs.cptr) \in Nat
  BY <1>1, <1>2, AtomType, CountsBelow, JobFacts DEF PlacesOf
<1> HIDE DEF a
<1>4. PICK k \in Nat : rs.count = k + 1
  BY <1>2
<1>5. PICK m \in Nat : m = k * a
  <2>1. \A x, y \in Nat : x * y \in Nat
    OBVIOUS
  <2> QED
    BY <1>3, <2>1
<1>6. m + a <= CharsBelow(job, rs.cptr)
  <2>1. \A x, y \in Nat : (x + 1) * y = x * y + y
    OBVIOUS
  <2>2. rs.count * a = m + a
    BY <1>3, <1>4, <1>5, <2>1
  <2> QED
    BY <1>2, <2>2
<1>7. b \in PlacesOf(job) /\ CharsBelow(job, b) = CharsBelow(job, rs.cptr) - a
  <2>1. a <= CharsBelow(job, rs.cptr)
    BY <1>3, <1>6
  <2> QED
    BY <1>1, <1>3, <2>1, BackStep
<1> HIDE DEF b
<1>8. ASSUME rs.count # 1
      PROVE  [rs EXCEPT !.cptr = b, !.count = @ - 1] \in Kept(job)
  <2> DEFINE y == [rs EXCEPT !.cptr = b, !.count = @ - 1]
  <2>1. rs.count - 1 = k /\ k \in Nat \ { 0 }
    BY <1>4, <1>8
  <2>2. k * a <= CharsBelow(job, b)
    BY <1>3, <1>5, <1>6, <1>7
  <2>3. b \in Nat
    BY <1>7, JobFacts DEF PlacesOf
  <2>4. /\ y \in StateRecords(job)
        /\ y.type = rs.type /\ y.pc = rs.pc /\ y.cptr = b /\ y.count = k
        /\ y.capture = rs.capture /\ y.stack = rs.stack
    BY <1>1, <2>1, <2>3 DEF StateRecords
  <2> HIDE DEF y
  <2>5. StateOk(job, y)
    BY <1>1, <1>7, <2>1, <2>2, <2>4 DEF StateOk, a
  <2> QED
    BY <2>4, <2>5 DEF Kept, y
<1> QED
  BY <1>7, <1>8 DEF a, b

LEMMA GiveBackStep ==
    ASSUME MatchInv, GiveBack
    PROVE  MatchInv'
<1> DEFINE rs == Last(states)
           back == Back(rs.cptr, AtomSize(job, rs.pc))
           less == [rs EXCEPT !.cptr = back, !.count = @ - 1]
<1>1. /\ mode = "unwind" /\ states # << >> /\ mode' = "run" /\ rs.type = "greedy_quant"
      /\ UNCHANGED << job, pos, room, quant >>
  BY DEF GiveBack, Unwinding
<1>2. /\ pc' = To(job, rs.pc) /\ cptr' = back /\ stack' = rs.stack /\ capture' = rs.capture
      /\ states' = IF rs.count = 1 THEN Front(states)
                   ELSE [states EXCEPT ![Len(states)] = less]
  <2>1. code[rs.pc].args[4] = AtomSize(job, rs.pc) /\ Target(code, rs.pc) = To(job, rs.pc)
    BY Names DEF AtomSize, To
  <2> QED
    BY <2>1 DEF GiveBack
<1>3. job \in Jobs /\ Pile(job, states, room) /\ quant = NoQuant /\ pos \in 0 .. Len(job.input)
  BY <1>1 DEF MatchInv, Text
<1>4. /\ Pile(job, Front(states), room) /\ rs \in Kept(job)
      /\ rs.pc \in InLooks(Code(job)) => Looked(Front(states))
      /\ Looked(Front(states)) => Looked(states)
  BY <1>1, <1>3, PopPile
<1>5. back \in PlacesOf(job) /\ (rs.count # 1 => less \in Kept(job))
  BY <1>1, <1>3, <1>4, GivesOneBack
<1>6. less.pc = rs.pc /\ less.type = rs.type
  <2>1. rs \in StateRecords(job)
    BY <1>3, <1>4, KeptFacts
  <2> HIDE DEF rs, back
  <2> QED
    BY <2>1 DEF StateRecords
<1> HIDE DEF back, less
<1>7. Pile(job, states', room) /\ (rs.pc \in InLooks(Code(job)) => Looked(states'))
  <2>1. CASE rs.count = 1
    BY <1>2, <1>4, <2>1
  <2>2. CASE rs.count # 1
    BY <1>1, <1>2, <1>3, <1>4, <1>5, <1>6, <2>2, ReplaceInPile
  <2> QED
    BY <2>1, <2>2
<1> HIDE DEF rs
<1>8. /\ rs.pc \in HeadsOf(job) \ InAtoms(Code(job)) /\ rs.capture \in CapturesOf(job)
      /\ StackOk(job, rs.stack, rs.pc) /\ Op(job, rs.pc) = "simple_greedy_quant"
  BY <1>1, <1>3, <1>4, KeptFacts DEF StateOk
<1>9. pc' \in HeadsOf(job) /\ Depth(job, pc') = Depth(job, rs.pc) /\ Goes(job, rs.pc, pc')
  BY <1>2, <1>3, <1>8, JumpsTo, GoesOn DEF JUMPS
<1>10. Here(job, pc', stack', capture', states')
  BY <1>2, <1>7, <1>8, <1>9 DEF Here, Goes, Final, StackOk, LOOKS
<1> QED
  BY <1>1, <1>2, <1>3, <1>5, <1>7, <1>8, <1>9, <1>10 DEF MatchInv, Text, MODES

-----------------------------------------------------------------------------
(* Calls, and giving up.                                                   *)
LEMMA GivingUpStep ==
    ASSUME MatchInv, TimeIsUp \/ OutOfMemory
    PROVE  MatchInv'
<1>1. /\ mode \notin { "idle", "done" } /\ mode' = "returned" /\ ret' # Matched /\ quant' = NoQuant
      /\ UNCHANGED << job, pos, pc, cptr, capture, stack, states, room >>
  <2>1. CASE TimeIsUp
    BY <2>1 DEF TimeIsUp, GiveUp, At, Timeout, Matched
  <2>2. CASE OutOfMemory
    BY <2>2 DEF OutOfMemory, GiveUp, At, MemoryError, Matched
  <2> QED
    BY <2>1, <2>2
<1> QED
  BY <1>1 DEF MatchInv, MODES

LEMMA EmptyPile ==
    ASSUME NEW j PROVE Pile(j, << >>, 0) /\ ~Looked(<< >>)
<1>1. << >> \in Seq(Kept(j)) /\ Len(<< >>) = 0
  OBVIOUS
<1> QED
  BY <1>1 DEF Pile, LooksBelow, Looked

LEMMA ExecStep ==
    ASSUME MatchInv, Exec
    PROVE  MatchInv'
<1>1. /\ mode = "idle" /\ mode' = "run" /\ pc' = 1
      /\ cptr' = IF InPairOf(job, pos) THEN pos - 1 ELSE pos
      /\ capture' = [i \in 0 .. 2 * job.prog.captures - 1 |-> None]
      /\ stack' = << >> /\ states' = << >> /\ room' = 0
      /\ UNCHANGED << job, pos, quant >>
  BY PlacesAgree DEF Exec, prog
<1>2. job \in Jobs /\ pos \in 0 .. Len(job.input) /\ quant = NoQuant
  BY <1>1 DEF MatchInv, Text
<1>3. cptr' \in PlacesOf(job)
  <2>1. CASE ~InPairOf(job, pos)
    BY <1>1, <1>2, <2>1 DEF PlacesOf
  <2>2. CASE InPairOf(job, pos)
    <3>1. pos \in 1 .. Len(job.input) /\ pos - 1 \in 0 .. Len(job.input) /\ (pos - 1) + 1 = pos
      BY <1>2, <2>2, JobFacts DEF InPairOf
    <3>2. job.input[pos] \in Nat
      BY <1>2, <3>1, JobFacts, ElementOfSeq
    <3>3. ~IsLow(job.input[pos])
      <4>1. \A c \in Nat : ~(IsLow(c) /\ IsHigh(c))
        BY DEF IsLow, IsHigh
      <4> QED
        BY <2>2, <3>2, <4>1 DEF InPairOf
    <3>4. ~InPairOf(job, pos - 1)
      BY <3>1, <3>3 DEF InPairOf
    <3> QED
      BY <1>1, <2>2, <3>1, <3>4 DEF PlacesOf
  <2> QED
    BY <2>1, <2>2
<1>4. capture' \in CapturesOf(job)
  BY <1>1 DEF CapturesOf
<1>5. Pile(job, states', room')
  BY <1>1, EmptyPile
<1>6. StackOk(job, stack', 1)
  BY <1>1, <1>2, StartsOutside, CodeType DEF StackOk
<1>7. Here(job, pc', stack', capture', states')
  BY <1>1, <1>2, <1>6, StartsOutside DEF Here, Final
<1> QED
  BY <1>1, <1>2, <1>3, <1>4, <1>5, <1>7, StartsOutside DEF MatchInv, Text, MODES

LEMMA ReturnStep ==
    ASSUME MatchInv, Return
    PROVE  MatchInv'
<1>1. /\ mode = "returned" /\ mode' \in { "idle", "done" }
      /\ states' = << >> /\ room' = 0
      /\ pos' = pos \/ (ret = Matched /\ pos' = capture[1])
      /\ UNCHANGED << job, pc, cptr, capture, stack, quant >>
  BY DEF Return
<1>2. Text(job, pos, cptr, pc) /\ capture \in CapturesOf(job) /\ quant = NoQuant
      /\ (ret = Matched => capture[1] # None)
  BY <1>1 DEF MatchInv
<1>3. pos' \in 0 .. Len(job.input)
  <2>1. capture[1] # None => capture[1] \in 0 .. Len(job.input)
    <3>1. 1 \in 0 .. 2 * job.prog.captures - 1
      <4>1. \A n \in 1 .. CapturesMax : 1 \in 0 .. 2 * n - 1
        OBVIOUS
      <4> QED
        BY <1>2, <4>1, JobFacts DEF Text
    <3> QED
      BY <1>2, <3>1 DEF CapturesOf, PlacesOf
  <2> QED
    BY <1>1, <1>2, <2>1 DEF Text
<1>4. Pile(job, states', room')
  BY <1>1, EmptyPile
<1> QED
  BY <1>1, <1>2, <1>3, <1>4 DEF MatchInv, Text, MODES

-----------------------------------------------------------------------------
LEMMA MatchInit ==
    ASSUME Init
    PROVE  MatchInv
<1>1. /\ job \in Jobs /\ pos = job.from /\ mode = "idle" /\ pc = 1 /\ cptr = 0
      /\ states = << >> /\ room = 0 /\ quant = NoQuant
  BY DEF Init
<1>2. Text(job, pos, cptr, pc)
  BY <1>1, JobFacts, StartsOutside DEF Text, PlacesOf, InPairOf
<1>3. Pile(job, states, room)
  BY <1>1, EmptyPile
<1> QED
  BY <1>1, <1>2, <1>3 DEF MatchInv, MODES

LEMMA MatchStutter ==
    ASSUME MatchInv, UNCHANGED vars
    PROVE  MatchInv'
BY DEF MatchInv, vars

LEMMA MatchNext ==
    ASSUME MatchInv, [Next]_vars
    PROVE  MatchInv'
<1>1. ASSUME Step PROVE MatchInv'
  <2>1. CASE Exec \/ Return \/ TimeIsUp \/ OutOfMemory
    BY <2>1, ExecStep, ReturnStep, GivingUpStep
  <2>2. CASE Char \/ AnyChar \/ Range16or32 \/ LineStart \/ LineEnd \/ WordBoundary \/ Prev
    BY <2>2, CharsStep, AssertionsStep, PrevStep
  <2>3. CASE Save \/ SaveReset \/ Push \/ Drop \/ CheckAdvance \/ Goto \/ Loop
    BY <2>3, SaveStep, StackStep, LoopStep
  <2>4. CASE \/ Split \/ Lookahead \/ SimpleQuant \/ QuantTurn \/ AtomMatched \/ QuantDone
             \/ BackReference \/ Compare
    BY <2>4, SplitStep, LookaheadStep, SimpleQuantStep, QuantTurnStep, AtomMatchedStep,
       QuantDoneStep, BackReferenceStep, CompareStep
  <2>5. CASE Match \/ Bottom \/ Discard \/ Resume \/ GiveBack
    BY <2>5, MatchStep, BottomStep, DiscardStep, ResumeStep, GiveBackStep
  <2> QED
    BY <1>1, <2>1, <2>2, <2>3, <2>4, <2>5 DEF Step
<1>2. CASE Done \/ UNCHANGED vars
  BY <1>2, MatchStutter DEF Done
<1> QED
  BY <1>1, <1>2 DEF Next

LEMMA MatchInvInBounds == MatchInv => InBounds
<1> SUFFICES ASSUME MatchInv PROVE InBounds
  OBVIOUS
<1>1. /\ Text(job, pos, cptr, pc) /\ Pile(job, states, room)
      /\ job \in Jobs
  BY DEF MatchInv, Text
<1>2. pos \in 0 .. clen /\ cptr \in Places /\ pc \in Heads(code)
  BY <1>1, PlacesAgree, Names DEF Text, clen, input
<1>3. \A c : c \in CapturesOf(job) => CapturesFit(c)
  BY PlacesAgree DEF CapturesOf, CapturesFit, prog
<1>4. \A st, p : StackOk(job, st, p) => StackFits(st, p)
  BY Names DEF StackOk, StackFits, Depth, prog
<1>5. ASSUME mode \in { "run", "quant", "counted", "compare" }
      PROVE  CapturesFit(capture) /\ StackFits(stack, IF quant = NoQuant THEN pc ELSE quant.pc)
  <2>1. capture \in CapturesOf(job)
    BY <1>5 DEF MatchInv
  <2>2. CASE quant = NoQuant
    BY <1>3, <1>4, <1>5, <2>1, <2>2 DEF MatchInv, Here
  <2>3. CASE quant # NoQuant
    BY <1>3, <1>4, <1>5, <2>1, <2>3 DEF MatchInv, Counting
  <2> QED
    BY <2>2, <2>3
<1>6. mode = "compare" => { ref.at, ref.start, ref.end } \subseteq Places
  BY PlacesAgree DEF MatchInv, RefOk
<1>7. \A i \in DOMAIN states : StateFits(states[i]) /\ GreedyFits(states[i])
  <2> SUFFICES ASSUME NEW i \in DOMAIN states
               PROVE  StateFits(states[i]) /\ GreedyFits(states[i])
    OBVIOUS
  <2>1. states[i] \in Kept(job)
    BY <1>1 DEF Pile
  <2>2. StateFits(states[i])
    BY <1>1, <1>3, <1>4, <2>1, KeptFacts, PlacesAgree, Names DEF StateFits
  <2>3. StateOk(job, states[i])
    BY <1>1, <2>1, KeptFacts
  <2>4. /\ code[states[i].pc].op = Op(job, states[i].pc)
        /\ code[states[i].pc].args[4] = AtomSize(job, states[i].pc)
        /\ CharsBefore(states[i].cptr) = CharsBelow(job, states[i].cptr)
    BY PlacesAgree, Names DEF Op, AtomSize
  <2>5. GreedyFits(states[i])
    BY <2>3, <2>4 DEF StateOk, GreedyFits
  <2> QED
    BY <2>2, <2>5
<1>8. Len(states) <= room
  BY <1>1 DEF Pile
<1> QED
  BY <1>2, <1>5, <1>6, <1>7, <1>8 DEF InBounds

(* Whatever well-formed program it runs, on whatever text, lre_exec stays  *)
(* inside of the text, between characters, within the captures and the     *)
(* stack it allocated, and on instructions of the program                  *)
(* (lre_exec_backtrack checks none of this).                               *)
THEOREM MatcherInBounds == Spec => []InBounds
<1>1. Init => MatchInv
  BY MatchInit
<1>2. MatchInv /\ [Next]_vars => MatchInv'
  BY MatchNext
<1> QED
  BY <1>1, <1>2, MatchInvInBounds, PTL DEF Spec
=============================================================================
