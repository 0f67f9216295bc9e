------------------------- MODULE UnicodeSetsProofs -------------------------
(***************************************************************************)
(* Theorems about sets of code points.  First the merge of cr_op, as an    *)
(* operator on any two sets (CharRange); then the stack of rqsort (Rqsort) *)
(* while the calls of UnicodeSets sort with it; then, for all calls of     *)
(* UnicodeSets and all that can fail in them, that the sets they keep are  *)
(* in order and in pairs, phase by phase: from this the merge of every     *)
(* call is right, every array gets sorted, and every set has an owner.     *)
(* At last what these points mean: what each operator on sets holds, what  *)
(* the table of case conversions says of a code point, what the sets of a  *)
(* call hold at every place inside it, and so that UnicodeSets implements  *)
(* CodePointSets.                                                          *)
(***************************************************************************)
EXTENDS UnicodeSets, RqsortProofs

(***************************************************************************)
(* cr_op merges two sets of code points, point by point.  Here is proved,  *)
(* for all sets and all four operations, that what it has written when the *)
(* points of both sets are used up is the set its name says, and in order. *)
(***************************************************************************)

(* A sequence of points, in order.                                         *)
IsOrdered(points) ==
    /\ points \in Seq(Nat)
    /\ \A i, j \in 1 .. Len(points) : i <= j => points[i] <= points[j]

(* n points are up to c, and all the others are above.                     *)
Splits(c, points, n) ==
    /\ \A i \in 1 .. n : points[i] <= c
    /\ \A i \in n + 1 .. Len(points) : c < points[i]

(* Where a merge stands, with respect to a code point c.                   *)
Past(s, c) ==
    /\ \A i \in 1 .. s.ai : s.a[i] <= c
    /\ \A i \in 1 .. s.bi : s.b[i] <= c
    /\ \A i \in 1 .. Len(s.out) : s.out[i] <= c

Below(s, c) ==
    /\ \A i \in s.ai + 1 .. Len(s.a) : c < s.a[i]
    /\ \A i \in s.bi + 1 .. Len(s.b) : c < s.b[i]

(* The invariant of the loop of cr_op: what is written is open exactly if  *)
(* the operation says so of the sets that are open, nothing written lies   *)
(* above a point to come, and below these the result is right.             *)
WellFormedMerge(s) ==
    /\ IsOrdered(s.a) /\ IsOrdered(s.b) /\ IsOrdered(s.out)
    /\ s.ai \in 0 .. Len(s.a) /\ s.bi \in 0 .. Len(s.b)
    /\ s = [a |-> s.a, b |-> s.b, op |-> s.op, ai |-> s.ai, bi |-> s.bi, out |-> s.out]

OpenAsSaid(s) == Len(s.out) % 2 = 1 <=> IsIn(s.op, s.ai % 2 = 1, s.bi % 2 = 1)

InOrder(s) ==
    /\ \A i \in s.ai + 1 .. Len(s.a) : Past(s, s.a[i])
    /\ \A i \in s.bi + 1 .. Len(s.b) : Past(s, s.b[i])

RightSoFar(s) ==
    \A c \in Nat : Below(s, c) =>
        (Holds(c, s.out) <=> IsIn(s.op, Holds(c, s.a), Holds(c, s.b)))

Merging(s) == WellFormedMerge(s) /\ OpenAsSaid(s) /\ InOrder(s) /\ RightSoFar(s)

-----------------------------------------------------------------------------
(* What a sequence of points means can be told by counting: c is in it     *)
(* exactly if the number of points up to c is odd.                         *)
LEMMA HoldsByCount ==
    ASSUME NEW points, IsOrdered(points), NEW c \in Nat,
           NEW n \in 0 .. Len(points), Splits(c, points, n)
    PROVE  Holds(c, points) <=> n % 2 = 1
<1>1. /\ Len(points) \in Nat /\ DOMAIN points = 1 .. Len(points)
      /\ \A i \in 1 .. Len(points) : points[i] \in Nat
    BY LenProperties, ElementOfSeq DEF IsOrdered
<1>2. ASSUME n % 2 = 1 PROVE Holds(c, points)
    <2>1. n \in 1 .. Len(points)
        BY <1>1, <1>2
    <2>2. points[n] <= c
        BY <1>1, <2>1 DEF Splits
    <2>3. n < Len(points) => c < points[n + 1]
        BY <1>1, <2>1 DEF Splits
    <2> QED
        BY <1>1, <1>2, <2>1, <2>2, <2>3 DEF Holds
<1>3. ASSUME Holds(c, points) PROVE n % 2 = 1
    <2>1. PICK i \in 1 .. Len(points) :
             /\ i % 2 = 1
             /\ points[i] <= c
             /\ i < Len(points) => c < points[i + 1]
        BY <1>1, <1>3 DEF Holds
    <2>2. i <= n
        BY <1>1, <2>1 DEF Splits
    <2>3. ~ (i < n)
        <3> SUFFICES ASSUME i < n PROVE FALSE
            OBVIOUS
        <3>1. i + 1 \in 1 .. n /\ i < Len(points)
            BY <1>1, <2>1
        <3>2. points[i + 1] <= c
            BY <3>1 DEF Splits
        <3> QED
            BY <1>1, <2>1, <3>1, <3>2
    <2>4. i = n
        BY <1>1, <2>1, <2>2, <2>3
    <2> QED
        BY <2>1, <2>4
<1> QED
    BY <1>2, <1>3

LEMMA OrderedPoints ==
    ASSUME NEW points, IsOrdered(points)
    PROVE  /\ points \in Seq(Nat)
           /\ Len(points) \in Nat /\ DOMAIN points = 1 .. Len(points)
           /\ \A i \in 1 .. Len(points) : points[i] \in Nat
BY LenProperties, ElementOfSeq DEF IsOrdered

(* A point that is written behind the others leaves them in order, and     *)
(* changes nothing below it.                                               *)
LEMMA AppendPoint ==
    ASSUME NEW points, IsOrdered(points), NEW p \in Nat,
           \A i \in 1 .. Len(points) : points[i] <= p
    PROVE  /\ IsOrdered(Append(points, p))
           /\ Len(Append(points, p)) = Len(points) + 1
           /\ \A i \in 1 .. Len(points) + 1 : Append(points, p)[i] <= p
           /\ \A c \in Nat : c < p => (Holds(c, Append(points, p)) <=> Holds(c, points))
<1> DEFINE longer == Append(points, p)
<1>1. /\ Len(points) \in Nat /\ DOMAIN points = 1 .. Len(points)
      /\ \A i \in 1 .. Len(points) : points[i] \in Nat
    BY OrderedPoints
<1>2. /\ longer \in Seq(Nat)
      /\ Len(longer) = Len(points) + 1
      /\ \A i \in 1 .. Len(points) : longer[i] = points[i]
      /\ longer[Len(points) + 1] = p
    BY AppendProperties, OrderedPoints
<1>3. DOMAIN longer = 1 .. Len(points) + 1
    BY <1>2, LenProperties
<1> HIDE DEF longer
<1>4. \A i \in 1 .. Len(points) + 1 : longer[i] <= p
    BY <1>1, <1>2
<1>5. IsOrdered(longer)
    <2> SUFFICES ASSUME NEW i \in 1 .. Len(longer), NEW j \in 1 .. Len(longer), i <= j
                 PROVE  longer[i] <= longer[j]
        BY <1>2 DEF IsOrdered
    <2>1. CASE j = Len(points) + 1
        <3>1. longer[j] = p /\ i \in 1 .. Len(points) + 1
            BY <2>1, <1>2
        <3>2. longer[i] <= p
            BY <3>1, <1>4
        <3> QED
            BY <3>1, <3>2
    <2>2. CASE j \in 1 .. Len(points)
        <3>1. i \in 1 .. Len(points)
            BY <2>2, <1>1, <1>2
        <3>2. points[i] <= points[j]
            BY <2>2, <3>1 DEF IsOrdered
        <3> QED
            BY <2>2, <3>1, <3>2, <1>2
    <2> QED
        BY <2>1, <2>2, <1>1, <1>2
<1>6. ASSUME NEW c \in Nat, c < p PROVE Holds(c, longer) <=> Holds(c, points)
    <2>1. ASSUME Holds(c, points) PROVE Holds(c, longer)
        <3>1. PICK i \in 1 .. Len(points) :
                 /\ i % 2 = 1
                 /\ points[i] <= c
                 /\ i < Len(points) => c < points[i + 1]
            BY <2>1, <1>1 DEF Holds
        <3>2. i \in 1 .. Len(longer) /\ longer[i] <= c
            BY <3>1, <1>1, <1>2
        <3>3. i < Len(longer) => c < longer[i + 1]
            BY <3>1, <1>1, <1>2, <1>6
        <3> QED
            BY <3>1, <3>2, <3>3, <1>2, <1>3 DEF Holds
    <2>2. ASSUME Holds(c, longer) PROVE Holds(c, points)
        <3>1. PICK i \in 1 .. Len(points) + 1 :
                 /\ i % 2 = 1
                 /\ longer[i] <= c
                 /\ i < Len(points) + 1 => c < longer[i + 1]
            BY <2>2, <1>2, <1>3 DEF Holds
        <3>2. i \in 1 .. Len(points) /\ points[i] <= c
            BY <3>1, <1>1, <1>2, <1>6
        <3>3. i < Len(points) => c < points[i + 1]
            BY <3>1, <3>2, <1>1, <1>2
        <3> QED
            BY <3>1, <3>2, <3>3, <1>1 DEF Holds
    <2> QED
        BY <2>1, <2>2
<1> QED
    BY <1>2, <1>4, <1>5, <1>6 DEF longer

-----------------------------------------------------------------------------
(* The next point, and what is known of it.                                *)
LEMMA NextPoint ==
    ASSUME NEW s, Merging(s), ~Ended(s)
    PROVE  /\ Point(s) \in Nat
           /\ Past(s, Point(s))
           /\ \A i \in s.ai + 1 .. Len(s.a) : Point(s) <= s.a[i]
           /\ \A i \in s.bi + 1 .. Len(s.b) : Point(s) <= s.b[i]
           /\ TakesA(s) => s.ai < Len(s.a) /\ s.a[s.ai + 1] = Point(s)
           /\ TakesB(s) => s.bi < Len(s.b) /\ s.b[s.bi + 1] = Point(s)
           /\ TakesA(s) \/ TakesB(s)
<1>1. /\ Len(s.a) \in Nat /\ \A i \in 1 .. Len(s.a) : s.a[i] \in Nat
      /\ Len(s.b) \in Nat /\ \A i \in 1 .. Len(s.b) : s.b[i] \in Nat
      /\ s.ai \in 0 .. Len(s.a) /\ s.bi \in 0 .. Len(s.b)
    BY OrderedPoints DEF Merging, WellFormedMerge
<1>2. /\ \A i, j \in 1 .. Len(s.a) : i <= j => s.a[i] <= s.a[j]
      /\ \A i, j \in 1 .. Len(s.b) : i <= j => s.b[i] <= s.b[j]
    BY DEF Merging, WellFormedMerge, IsOrdered
<1>3. TakesA(s) \/ TakesB(s)
    <2>1. CASE MoreA(s) /\ MoreB(s)
        <3>1. s.ai + 1 \in 1 .. Len(s.a) /\ s.bi + 1 \in 1 .. Len(s.b)
            BY <1>1, <2>1 DEF MoreA, MoreB
        <3>2. s.a[s.ai + 1] \in Nat /\ s.b[s.bi + 1] \in Nat
            BY <1>1, <3>1
        <3>3. s.a[s.ai + 1] <= s.b[s.bi + 1] \/ s.b[s.bi + 1] <= s.a[s.ai + 1]
            BY <3>2
        <3> QED
            BY <2>1, <3>3 DEF TakesA, TakesB
    <2>2. CASE ~(MoreA(s) /\ MoreB(s))
        BY <2>2 DEF TakesA, TakesB, Ended
    <2> QED
        BY <2>1, <2>2
<1>4. CASE TakesA(s)
    <2>1. Point(s) = s.a[s.ai + 1] /\ s.ai < Len(s.a)
        BY <1>4 DEF Point, TakesA, MoreA
    <2>2. s.ai + 1 \in 1 .. Len(s.a) /\ s.ai + 1 \in s.ai + 1 .. Len(s.a)
        BY <1>1, <2>1
    <2>3. Point(s) \in Nat /\ Past(s, Point(s))
        BY <1>1, <2>1, <2>2 DEF Merging, InOrder
    <2>4. \A i \in s.ai + 1 .. Len(s.a) : Point(s) <= s.a[i]
        BY <1>1, <1>2, <2>1, <2>2
    <2>5. \A i \in s.bi + 1 .. Len(s.b) : Point(s) <= s.b[i]
        <3> SUFFICES ASSUME NEW i \in s.bi + 1 .. Len(s.b)
                     PROVE  Point(s) <= s.b[i]
            OBVIOUS
        <3>1. s.bi + 1 \in 1 .. Len(s.b) /\ i \in 1 .. Len(s.b) /\ s.bi + 1 <= i
            BY <1>1
        <3>2. s.b[s.bi + 1] <= s.b[i]
            BY <1>2, <3>1
        <3>3. MoreB(s)
            BY <1>1, <3>1 DEF MoreB
        <3>4. s.a[s.ai + 1] <= s.b[s.bi + 1]
            BY <1>4, <3>3 DEF TakesA
        <3>5. /\ s.a[s.ai + 1] \in Nat
              /\ s.b[s.bi + 1] \in Nat
              /\ s.b[i] \in Nat
            BY <1>1, <2>2, <3>1
        <3> QED
            BY <2>1, <3>2, <3>4, <3>5
    <2>6. TakesB(s) => s.bi < Len(s.b) /\ s.b[s.bi + 1] = Point(s)
        <3> SUFFICES ASSUME TakesB(s)
                     PROVE  s.bi < Len(s.b) /\ s.b[s.bi + 1] = Point(s)
            OBVIOUS
        <3>1. MoreA(s) /\ MoreB(s) /\ s.bi < Len(s.b)
            BY <2>1 DEF TakesB, MoreA, MoreB
        <3>2. s.b[s.bi + 1] \in Nat
            BY <1>1, <3>1
        <3>3. s.a[s.ai + 1] <= s.b[s.bi + 1] /\ s.b[s.bi + 1] <= s.a[s.ai + 1]
            BY <1>4, <3>1 DEF TakesA, TakesB
        <3> QED
            BY <2>1, <2>3, <3>1, <3>2, <3>3
    <2> QED
        BY <1>4, <2>1, <2>3, <2>4, <2>5, <2>6
<1>5. CASE ~TakesA(s)
    <2>1. Point(s) = s.b[s.bi + 1] /\ s.bi < Len(s.b) /\ TakesB(s)
        BY <1>3, <1>5 DEF Point, TakesB, MoreB
    <2>2. s.bi + 1 \in 1 .. Len(s.b) /\ s.bi + 1 \in s.bi + 1 .. Len(s.b)
        BY <1>1, <2>1
    <2>3. Point(s) \in Nat /\ Past(s, Point(s))
        BY <1>1, <2>1, <2>2 DEF Merging, InOrder
    <2>4. \A i \in s.bi + 1 .. Len(s.b) : Point(s) <= s.b[i]
        BY <1>1, <1>2, <2>1, <2>2
    <2>5. \A i \in s.ai + 1 .. Len(s.a) : Point(s) <= s.a[i]
        <3> SUFFICES ASSUME NEW i \in s.ai + 1 .. Len(s.a)
                     PROVE  Point(s) <= s.a[i]
            OBVIOUS
        <3>1. s.ai + 1 \in 1 .. Len(s.a) /\ i \in 1 .. Len(s.a) /\ s.ai + 1 <= i
            BY <1>1
        <3>2. s.a[s.ai + 1] <= s.a[i]
            BY <1>2, <3>1
        <3>3. MoreA(s)
            BY <1>1, <3>1 DEF MoreA
        <3>4. s.b[s.bi + 1] <= s.a[s.ai + 1]
            BY <2>1, <3>3 DEF TakesB
        <3>5. /\ s.b[s.bi + 1] \in Nat
              /\ s.a[s.ai + 1] \in Nat
              /\ s.a[i] \in Nat
            BY <1>1, <2>2, <3>1
        <3> QED
            BY <2>1, <3>2, <3>4, <3>5
    <2> QED
        BY <1>5, <2>1, <2>3, <2>4, <2>5
<1> QED
    BY <1>4, <1>5

(* What a turn does to the merge.  Agrees says that nothing has to be      *)
(* written to what s has written.                                          *)
Agrees(t, s) == IsIn(t.op, t.ai % 2 = 1, t.bi % 2 = 1) <=> Len(s.out) % 2 = 1

LEMMA TurnOf ==
    ASSUME NEW s, Merging(s), ~Ended(s), NEW t, t = Turn(s)
    PROVE  /\ t.a = s.a /\ t.b = s.b /\ t.op = s.op
           /\ t.ai = (IF TakesA(s) THEN s.ai + 1 ELSE s.ai)
           /\ t.bi = (IF TakesB(s) THEN s.bi + 1 ELSE s.bi)
           /\ \/ t.out = s.out /\ Agrees(t, s)
              \/ t.out = Append(s.out, Point(s)) /\ ~Agrees(t, s)
           /\ t = [a |-> t.a, b |-> t.b, op |-> t.op, ai |-> t.ai, bi |-> t.bi, out |-> t.out]
<1>1. s = [a |-> s.a, b |-> s.b, op |-> s.op, ai |-> s.ai, bi |-> s.bi, out |-> s.out]
    BY DEF Merging, WellFormedMerge
<1> DEFINE ai == IF TakesA(s) THEN s.ai + 1 ELSE s.ai
           bi == IF TakesB(s) THEN s.bi + 1 ELSE s.bi
           out == IF IsIn(s.op, ai % 2 = 1, bi % 2 = 1) # (Len(s.out) % 2 = 1)
                  THEN Append(s.out, Point(s)) ELSE s.out
<1>2. t = [s EXCEPT !.ai = ai, !.bi = bi, !.out = out]
    BY DEF Turn
<1> HIDE DEF ai, bi, out
<1>3. t = [a |-> s.a, b |-> s.b, op |-> s.op, ai |-> ai, bi |-> bi, out |-> out]
    BY <1>1, <1>2
<1>4. /\ t.a = s.a /\ t.b = s.b /\ t.op = s.op /\ t.ai = ai /\ t.bi = bi /\ t.out = out
      /\ t = [a |-> t.a, b |-> t.b, op |-> t.op, ai |-> t.ai, bi |-> t.bi, out |-> t.out]
    BY <1>3
<1>5. \/ t.out = s.out /\ Agrees(t, s)
      \/ t.out = Append(s.out, Point(s)) /\ ~Agrees(t, s)
    <2>1. IsIn(s.op, ai % 2 = 1, bi % 2 = 1) \in BOOLEAN
        BY DEF IsIn
    <2>2. CASE IsIn(s.op, ai % 2 = 1, bi % 2 = 1) = (Len(s.out) % 2 = 1)
        BY <1>4, <2>2 DEF out, Agrees
    <2>3. CASE IsIn(s.op, ai % 2 = 1, bi % 2 = 1) # (Len(s.out) % 2 = 1)
        BY <1>4, <2>1, <2>3, Zenon DEF out, Agrees
    <2> QED
        BY <2>2, <2>3
<1> QED
    BY <1>4, <1>5 DEF ai, bi

-----------------------------------------------------------------------------
LEMMA Parity ==
    ASSUME NEW n \in Nat
    PROVE  /\ (n + 1) % 2 = 1 <=> ~(n % 2 = 1)
           /\ n % 2 = 0 \/ n % 2 = 1
OBVIOUS

LEMMA TurnWellFormed ==
    ASSUME NEW s, Merging(s), ~Ended(s), NEW t, t = Turn(s)
    PROVE  /\ WellFormedMerge(t)
           /\ Past(t, Point(s))
           /\ OpenAsSaid(t)
           /\ \A c \in Nat : c < Point(s) => (Holds(c, t.out) <=> Holds(c, s.out))
<1>1. /\ Point(s) \in Nat
      /\ Past(s, Point(s))
      /\ TakesA(s) => s.ai < Len(s.a) /\ s.a[s.ai + 1] = Point(s)
      /\ TakesB(s) => s.bi < Len(s.b) /\ s.b[s.bi + 1] = Point(s)
    BY NextPoint
<1>2. /\ IsOrdered(s.a) /\ IsOrdered(s.b) /\ IsOrdered(s.out)
      /\ s.ai \in 0 .. Len(s.a) /\ s.bi \in 0 .. Len(s.b)
    BY DEF Merging, WellFormedMerge
<1>3. Len(s.a) \in Nat /\ Len(s.b) \in Nat /\ Len(s.out) \in Nat
    BY <1>2, OrderedPoints
<1>4. /\ t.a = s.a /\ t.b = s.b /\ t.op = s.op
      /\ t.ai = (IF TakesA(s) THEN s.ai + 1 ELSE s.ai)
      /\ t.bi = (IF TakesB(s) THEN s.bi + 1 ELSE s.bi)
      /\ \/ t.out = s.out /\ Agrees(t, s)
         \/ t.out = Append(s.out, Point(s)) /\ ~Agrees(t, s)
      /\ t = [a |-> t.a, b |-> t.b, op |-> t.op, ai |-> t.ai, bi |-> t.bi, out |-> t.out]
    BY TurnOf
<1>5. t.ai \in 0 .. Len(t.a) /\ t.bi \in 0 .. Len(t.b)
    BY <1>1, <1>2, <1>3, <1>4
<1>6. /\ \A i \in 1 .. t.ai : t.a[i] <= Point(s)
      /\ \A i \in 1 .. t.bi : t.b[i] <= Point(s)
    <2>1. \A i \in 1 .. t.ai : i \in 1 .. s.ai \/ (TakesA(s) /\ i = s.ai + 1)
        BY <1>2, <1>3, <1>4
    <2>2. \A i \in 1 .. t.bi : i \in 1 .. s.bi \/ (TakesB(s) /\ i = s.bi + 1)
        BY <1>2, <1>3, <1>4
    <2>3. \A i \in 1 .. t.ai : s.a[i] <= Point(s)
        BY <1>1, <2>1 DEF Past
    <2>4. \A i \in 1 .. t.bi : s.b[i] <= Point(s)
        BY <1>1, <2>2 DEF Past
    <2> QED
        BY <1>4, <2>3, <2>4
<1>7. \A i \in 1 .. Len(s.out) : s.out[i] <= Point(s)
    BY <1>1 DEF Past
<1>71. /\ IsOrdered(Append(s.out, Point(s)))
       /\ Len(Append(s.out, Point(s))) = Len(s.out) + 1
       /\ \A i \in 1 .. Len(s.out) + 1 : Append(s.out, Point(s))[i] <= Point(s)
       /\ \A c \in Nat : c < Point(s) =>
             (Holds(c, Append(s.out, Point(s))) <=> Holds(c, s.out))
    <2> DEFINE o == s.out
               p == Point(s)
    <2>1. IsOrdered(o) /\ p \in Nat /\ \A i \in 1 .. Len(o) : o[i] <= p
        BY <1>1, <1>2, <1>7
    <2> HIDE DEF o, p
    <2>2. /\ IsOrdered(Append(o, p))
          /\ Len(Append(o, p)) = Len(o) + 1
          /\ \A i \in 1 .. Len(o) + 1 : Append(o, p)[i] <= p
          /\ \A c \in Nat : c < p => (Holds(c, Append(o, p)) <=> Holds(c, o))
        BY <2>1, AppendPoint
    <2> QED
        BY <2>2 DEF o, p
<1>8. /\ IsOrdered(t.out)
      /\ \A i \in 1 .. Len(t.out) : t.out[i] <= Point(s)
      /\ \A c \in Nat : c < Point(s) => (Holds(c, t.out) <=> Holds(c, s.out))
    <2>1. CASE t.out = s.out
        BY <1>2, <1>7, <2>1
    <2>2. CASE t.out = Append(s.out, Point(s))
        BY <1>71, <2>2
    <2> QED
        BY <1>4, <2>1, <2>2
<1>9. OpenAsSaid(t)
    <2>1. CASE t.out = s.out /\ Agrees(t, s)
        BY <2>1 DEF OpenAsSaid, Agrees
    <2>2. CASE t.out = Append(s.out, Point(s)) /\ ~Agrees(t, s)
        <3>1. Len(t.out) = Len(s.out) + 1
            BY <1>71, <2>2
        <3>2. Len(t.out) % 2 = 1 <=> ~(Len(s.out) % 2 = 1)
            BY <1>3, <3>1, Parity
        <3> QED
            BY <2>2, <3>2 DEF OpenAsSaid, Agrees
    <2> QED
        BY <1>4, <2>1, <2>2
<1> QED
    BY <1>2, <1>4, <1>5, <1>6, <1>8, <1>9 DEF WellFormedMerge, Past

(* The points still to come after the turn are not below the one that was  *)
(* taken, and they come in order.                                          *)
LEMMA TurnInOrder ==
    ASSUME NEW s, Merging(s), ~Ended(s), NEW t, t = Turn(s)
    PROVE  /\ \A i \in t.ai + 1 .. Len(t.a) : Point(s) <= t.a[i] /\ t.a[i] \in Nat
           /\ \A i \in t.bi + 1 .. Len(t.b) : Point(s) <= t.b[i] /\ t.b[i] \in Nat
           /\ InOrder(t)
<1>1. /\ Point(s) \in Nat
      /\ \A i \in s.ai + 1 .. Len(s.a) : Point(s) <= s.a[i]
      /\ \A i \in s.bi + 1 .. Len(s.b) : Point(s) <= s.b[i]
    BY NextPoint
<1>2. /\ Len(s.a) \in Nat /\ \A i \in 1 .. Len(s.a) : s.a[i] \in Nat
      /\ Len(s.b) \in Nat /\ \A i \in 1 .. Len(s.b) : s.b[i] \in Nat
      /\ s.ai \in 0 .. Len(s.a) /\ s.bi \in 0 .. Len(s.b)
    BY OrderedPoints DEF Merging, WellFormedMerge
<1>3. /\ t.a = s.a /\ t.b = s.b
      /\ t.ai = (IF TakesA(s) THEN s.ai + 1 ELSE s.ai)
      /\ t.bi = (IF TakesB(s) THEN s.bi + 1 ELSE s.bi)
    BY TurnOf
<1>4. /\ \A i \in t.ai + 1 .. Len(t.a) : Point(s) <= t.a[i] /\ t.a[i] \in Nat
      /\ \A i \in t.bi + 1 .. Len(t.b) : Point(s) <= t.b[i] /\ t.b[i] \in Nat
    <2>1. \A i \in t.ai + 1 .. Len(t.a) : i \in s.ai + 1 .. Len(s.a) /\ i \in 1 .. Len(s.a)
        BY <1>2, <1>3
    <2>2. \A i \in t.bi + 1 .. Len(t.b) : i \in s.bi + 1 .. Len(s.b) /\ i \in 1 .. Len(s.b)
        BY <1>2, <1>3
    <2> QED
        BY <1>1, <1>2, <1>3, <2>1, <2>2
<1>5. Past(t, Point(s)) /\ WellFormedMerge(t)
    BY TurnWellFormed
<1>6. ASSUME NEW c \in Nat, Point(s) <= c PROVE Past(t, c)
    <2>1. /\ \A i \in 1 .. Len(t.a) : t.a[i] \in Nat
          /\ \A i \in 1 .. Len(t.b) : t.b[i] \in Nat
          /\ \A i \in 1 .. Len(t.out) : t.out[i] \in Nat
          /\ t.ai \in 0 .. Len(t.a) /\ t.bi \in 0 .. Len(t.b)
          /\ Len(t.a) \in Nat /\ Len(t.b) \in Nat
        BY <1>5, OrderedPoints DEF WellFormedMerge
    <2>2. /\ \A i \in 1 .. t.ai : t.a[i] \in Nat
          /\ \A i \in 1 .. t.bi : t.b[i] \in Nat
        BY <2>1
    <2>3. /\ \A i \in 1 .. t.ai : t.a[i] <= Point(s)
          /\ \A i \in 1 .. t.bi : t.b[i] <= Point(s)
          /\ \A i \in 1 .. Len(t.out) : t.out[i] <= Point(s)
        BY <1>5 DEF Past
    <2>4. /\ \A i \in 1 .. t.ai : t.a[i] <= c
          /\ \A i \in 1 .. t.bi : t.b[i] <= c
          /\ \A i \in 1 .. Len(t.out) : t.out[i] <= c
        BY <1>1, <1>6, <2>1, <2>2, <2>3
    <2> QED
        BY <2>4 DEF Past
<1> QED
    BY <1>4, <1>6 DEF InOrder

(* Below the points to come the result is right again: below the point     *)
(* that was taken nothing has changed, and from there on all three sets    *)
(* are told by the number of their points.                                 *)
LEMMA TurnRightSoFar ==
    ASSUME NEW s, Merging(s), ~Ended(s), NEW t, t = Turn(s)
    PROVE  RightSoFar(t)
<1> SUFFICES ASSUME NEW c \in Nat, Below(t, c)
             PROVE  Holds(c, t.out) <=> IsIn(t.op, Holds(c, t.a), Holds(c, t.b))
    BY DEF RightSoFar
<1>1. /\ Point(s) \in Nat
      /\ \A i \in s.ai + 1 .. Len(s.a) : Point(s) <= s.a[i]
      /\ \A i \in s.bi + 1 .. Len(s.b) : Point(s) <= s.b[i]
    BY NextPoint
<1>2. t.a = s.a /\ t.b = s.b /\ t.op = s.op
    BY TurnOf
<1>3. /\ WellFormedMerge(t)
      /\ Past(t, Point(s))
      /\ OpenAsSaid(t)
      /\ c < Point(s) => (Holds(c, t.out) <=> Holds(c, s.out))
    BY TurnWellFormed
<1>4. /\ Len(t.a) \in Nat /\ \A i \in 1 .. Len(t.a) : t.a[i] \in Nat
      /\ Len(t.b) \in Nat /\ \A i \in 1 .. Len(t.b) : t.b[i] \in Nat
      /\ Len(t.out) \in Nat /\ \A i \in 1 .. Len(t.out) : t.out[i] \in Nat
      /\ t.ai \in 0 .. Len(t.a) /\ t.bi \in 0 .. Len(t.b)
    BY <1>3, OrderedPoints DEF WellFormedMerge
<1>5. CASE c < Point(s)
    <2>1. /\ s.ai \in 0 .. Len(s.a) /\ s.bi \in 0 .. Len(s.b)
        BY DEF Merging, WellFormedMerge
    <2>2. /\ \A i \in s.ai + 1 .. Len(s.a) : s.a[i] \in Nat
          /\ \A i \in s.bi + 1 .. Len(s.b) : s.b[i] \in Nat
        BY <1>2, <1>4, <2>1
    <2>3. Below(s, c)
        BY <1>1, <1>5, <2>2 DEF Below
    <2>4. Holds(c, s.out) <=> IsIn(s.op, Holds(c, s.a), Holds(c, s.b))
        BY <2>3 DEF Merging, RightSoFar
    <2> QED
        BY <1>2, <1>3, <1>5, <2>4
<1>6. CASE Point(s) <= c
    <2>1. /\ Splits(c, t.a, t.ai) /\ Splits(c, t.b, t.bi)
          /\ Splits(c, t.out, Len(t.out))
        <3>1. /\ \A i \in 1 .. t.ai : t.a[i] \in Nat /\ t.a[i] <= Point(s)
              /\ \A i \in 1 .. t.bi : t.b[i] \in Nat /\ t.b[i] <= Point(s)
              /\ \A i \in 1 .. Len(t.out) : t.out[i] \in Nat /\ t.out[i] <= Point(s)
            BY <1>3, <1>4 DEF Past
        <3>2. /\ \A i \in 1 .. t.ai : t.a[i] <= c
              /\ \A i \in 1 .. t.bi : t.b[i] <= c
              /\ \A i \in 1 .. Len(t.out) : t.out[i] <= c
            BY <1>1, <1>6, <3>1
        <3>3. Len(t.out) + 1 .. Len(t.out) = {}
            BY <1>4
        <3> QED
            BY <3>2, <3>3 DEF Splits, Below
    <2>2. Holds(c, t.a) <=> t.ai % 2 = 1
        BY <1>3, <1>4, <2>1, HoldsByCount DEF WellFormedMerge
    <2>3. Holds(c, t.b) <=> t.bi % 2 = 1
        BY <1>3, <1>4, <2>1, HoldsByCount DEF WellFormedMerge
    <2>4. Holds(c, t.out) <=> Len(t.out) % 2 = 1
        <3>1. IsOrdered(t.out) /\ Len(t.out) \in 0 .. Len(t.out)
            BY <1>3, <1>4 DEF WellFormedMerge
        <3> QED
            BY <2>1, <3>1, HoldsByCount
    <2>5. Len(t.out) % 2 = 1 <=> IsIn(t.op, t.ai % 2 = 1, t.bi % 2 = 1)
        BY <1>3 DEF OpenAsSaid
    <2> QED
        BY <2>2, <2>3, <2>4, <2>5 DEF IsIn
<1> QED
    BY <1>1, <1>5, <1>6

-----------------------------------------------------------------------------
(* cr_op begins right: with nothing written and nothing read.              *)
THEOREM MergeStarts ==
    ASSUME NEW a, IsOrdered(a), NEW b, IsOrdered(b), NEW op
    PROVE  Merging(Start(a, b, op))
<1> DEFINE s == Start(a, b, op)
<1>1. /\ s.a = a /\ s.b = b /\ s.op = op /\ s.ai = 0 /\ s.bi = 0 /\ s.out = << >>
      /\ s = [a |-> s.a, b |-> s.b, op |-> s.op, ai |-> s.ai, bi |-> s.bi, out |-> s.out]
    BY DEF Start
<1> HIDE DEF s
<1>2. << >> \in Seq(Nat) /\ Len(<< >>) = 0
    BY EmptySeq
<1>3. IsOrdered(<< >>)
    BY <1>2 DEF IsOrdered
<1>4. Len(a) \in Nat /\ Len(b) \in Nat
    BY OrderedPoints
<1>5. WellFormedMerge(s)
    BY <1>1, <1>3, <1>4 DEF WellFormedMerge
<1>6. OpenAsSaid(s)
    BY <1>1, <1>2 DEF OpenAsSaid, IsIn
<1>7. InOrder(s)
    BY <1>1, <1>2 DEF InOrder, Past
<1>8. RightSoFar(s)
    <2> SUFFICES ASSUME NEW c \in Nat, Below(s, c)
                 PROVE  Holds(c, s.out) <=> IsIn(s.op, Holds(c, s.a), Holds(c, s.b))
        BY DEF RightSoFar
    <2>1. Splits(c, a, 0) /\ Splits(c, b, 0) /\ Splits(c, << >>, 0)
        BY <1>1, <1>2 DEF Splits, Below
    <2>2. ~Holds(c, a) /\ ~Holds(c, b) /\ ~Holds(c, << >>)
        <3>1. ~(0 % 2 = 1) /\ 0 \in 0 .. Len(a) /\ 0 \in 0 .. Len(b) /\ 0 \in 0 .. Len(<< >>)
            BY <1>2, <1>4
        <3> QED
            BY <1>3, <2>1, <3>1, HoldsByCount
    <2> QED
        BY <1>1, <2>2 DEF IsIn
<1> QED
    BY <1>5, <1>6, <1>7, <1>8 DEF Merging, s

(* Each turn of its loop keeps it right, and takes a point.                *)
THEOREM MergeGoesOn ==
    ASSUME NEW s, Merging(s), ~Ended(s)
    PROVE  /\ Merging(Turn(s))
           /\ Turn(s).ai + Turn(s).bi > s.ai + s.bi
<1> DEFINE t == Turn(s)
<1>1. Merging(t)
    BY TurnWellFormed, TurnInOrder, TurnRightSoFar DEF Merging
<1>2. /\ t.ai = (IF TakesA(s) THEN s.ai + 1 ELSE s.ai)
      /\ t.bi = (IF TakesB(s) THEN s.bi + 1 ELSE s.bi)
    BY TurnOf
<1>3. TakesA(s) \/ TakesB(s)
    BY NextPoint
<1>4. s.ai \in Nat /\ s.bi \in Nat
    BY OrderedPoints DEF Merging, WellFormedMerge
<1> QED
    BY <1>1, <1>2, <1>3, <1>4

(* And when it ends the result is, for every code point, what the name of  *)
(* the operation says of the two sets; it is in order, and it is in pairs  *)
(* if they were, so that the next operation can read it.                   *)
THEOREM MergeIsRight ==
    ASSUME NEW s, Merging(s), Ended(s)
    PROVE  /\ IsOrdered(s.out)
           /\ \A c \in Nat :
                 Holds(c, s.out) <=> IsIn(s.op, Holds(c, s.a), Holds(c, s.b))
           /\ Len(s.a) % 2 = 0 /\ Len(s.b) % 2 = 0 => Len(s.out) % 2 = 0
<1>1. /\ Len(s.a) \in Nat /\ Len(s.b) \in Nat /\ Len(s.out) \in Nat
      /\ s.ai \in 0 .. Len(s.a) /\ s.bi \in 0 .. Len(s.b)
    BY OrderedPoints DEF Merging, WellFormedMerge
<1>2. s.ai = Len(s.a) /\ s.bi = Len(s.b)
    BY <1>1 DEF Ended, MoreA, MoreB
<1>3. \A c \in Nat : Below(s, c)
    <2>1. s.ai + 1 .. Len(s.a) = {} /\ s.bi + 1 .. Len(s.b) = {}
        BY <1>1, <1>2
    <2> QED
        BY <2>1 DEF Below
<1>4. Len(s.a) % 2 = 0 /\ Len(s.b) % 2 = 0 => ~(Len(s.out) % 2 = 1)
    <2> SUFFICES ASSUME Len(s.a) % 2 = 0, Len(s.b) % 2 = 0
                 PROVE  ~(Len(s.out) % 2 = 1)
        OBVIOUS
    <2>1. Len(s.out) % 2 = 1 <=> IsIn(s.op, s.ai % 2 = 1, s.bi % 2 = 1)
        BY DEF Merging, OpenAsSaid
    <2>2. ~(s.ai % 2 = 1) /\ ~(s.bi % 2 = 1)
        <3>1. s.ai % 2 = 0 /\ s.bi % 2 = 0
            BY <1>2
        <3> QED
            BY <3>1
    <2> QED
        BY <2>1, <2>2 DEF IsIn
<1>5. Len(s.out) % 2 = 0 \/ Len(s.out) % 2 = 1
    BY <1>1, Parity
<1> QED
    BY <1>3, <1>4, <1>5 DEF Merging, RightSoFar, WellFormedMerge
-----------------------------------------------------------------------------
(***************************************************************************)
(* The stack of rqsort has a fixed number of entries, and the code pushes  *)
(* to it without a test.  That it never overflows is proved here for every *)
(* array, every depth limit that is at most the number of entries, and for *)
(* all the calls that a client of UnicodeSets makes, whatever fails.       *)
(***************************************************************************)

(* A fragment is pushed with the depth at which it was split off, and a    *)
(* fragment that is split further lies deeper than everything that waits.  *)
IsSegment(f) == f = Fragment(f.base, f.count, f.depth) /\ f.depth \in Nat

StackedByDepth ==
    /\ \E S : segments \in Seq(S)
    /\ Len(segments) <= StackSlots
    /\ \A k \in 1 .. Len(segments) :
          IsSegment(segments[k]) /\ segments[k].depth >= k - 1

DeeperThanStack ==
    /\ IsSegment(fragment)
    /\ sorting = "split" => fragment.depth >= Len(segments)
    /\ sorting \in { "up", "down", "gather" } =>
          fragment.depth > Len(segments) /\ fragment.depth <= DepthMax

StackInv == StackedByDepth /\ DeeperThanStack

-----------------------------------------------------------------------------
LEMMA FragmentIsSegment ==
    ASSUME NEW base, NEW count, NEW depth \in Nat
    PROVE  /\ IsSegment(Fragment(base, count, depth))
           /\ Fragment(base, count, depth).depth = depth
BY DEF IsSegment, Fragment

(* A step that touches neither the stack nor the fragment, and stays in    *)
(* the partition, keeps the invariant.                                     *)
LEMMA SameStack ==
    ASSUME StackInv, UNCHANGED << segments, fragment >>,
           \/ sorting' \in { "pop", "done" }
           \/ sorting' = sorting
           \/ /\ sorting \in { "up", "down", "gather" }
              /\ sorting' \in { "up", "down", "gather" }
    PROVE  StackInv'
BY DEF StackInv, StackedByDepth, DeeperThanStack, IsSegment

LEMMA PushedLen ==
    ASSUME NEW S, NEW s \in Seq(S), NEW e
    PROVE  /\ \E T : Append(s, e) \in Seq(T)
           /\ Len(s) \in Nat
           /\ Len(Append(s, e)) = Len(s) + 1
           /\ \A k \in 1 .. Len(s) : Append(s, e)[k] = s[k]
           /\ Append(s, e)[Len(s) + 1] = e
<1> DEFINE T == S \union { e }
<1>1. s \in Seq(T) /\ e \in T
    BY SeqMonotonic
<1>2. Append(s, e) \in Seq(T)
    BY <1>1, AppendProperties
<1> QED
    BY <1>1, <1>2, AppendProperties, LenProperties

(* The next fragment is the last one of the stack.                         *)
LEMMA PopKeeps == ASSUME StackInv, Pop PROVE StackInv'
<1>1. PICK S : segments \in Seq(S)
    BY DEF StackInv, StackedByDepth
<1>2. /\ Len(segments) \in Nat /\ Len(segments) >= 1
      /\ \A k \in 1 .. Len(segments) : segments[k] \in S
    <2>1. segments # << >>
        BY DEF Pop
    <2>2. Len(segments) \in Nat \ {0}
        BY <1>1, <2>1, EmptySeq
    <2> QED
        BY <1>1, <2>2, ElementOfSeq
<1>3. /\ segments' \in Seq(S)
      /\ Len(segments') = Len(segments) - 1
      /\ \A k \in 1 .. Len(segments') : segments'[k] = segments[k]
    <2> DEFINE n == Len(segments) - 1
               rest == SubSeq(segments, 1, n)
    <2>1. n \in Nat /\ \A k \in 1 .. n : segments[k] \in S
        BY <1>2
    <2>2. segments' = rest
        BY DEF Pop, Front
    <2>3. /\ rest \in Seq(S)
          /\ Len(rest) = IF 1 <= n THEN n - 1 + 1 ELSE 0
          /\ \A k \in 1 .. n - 1 + 1 : rest[k] = segments[1 + k - 1]
        BY <2>1, SubSeqProperties
    <2>4. n = Len(segments) - 1
        OBVIOUS
    <2> HIDE DEF n, rest
    <2>5. Len(rest) = n
        BY <2>1, <2>3
    <2>6. \A k \in 1 .. n : rest[k] = segments[k]
        BY <2>1, <2>3
    <2> QED
        BY <2>2, <2>3, <2>4, <2>5, <2>6
<1>4. fragment' = segments[Len(segments)] /\ sorting' = "split"
    BY DEF Pop, Last
<1>5. StackSlots \in Nat
    BY RqsortAssumption
<1>6. StackedByDepth'
    BY <1>2, <1>3, <1>5 DEF StackInv, StackedByDepth, IsSegment
<1>7. DeeperThanStack'
    BY <1>2, <1>3, <1>4 DEF StackInv, StackedByDepth, DeeperThanStack, IsSegment
<1> QED
    BY <1>6, <1>7 DEF StackInv

(* The depth is counted and found not to be too large.                     *)
LEMMA ChoosePivotKeeps == ASSUME StackInv, ChoosePivot PROVE StackInv'
<1>1. fragment' = [fragment EXCEPT !.depth = @ + 1] /\ segments' = segments
    BY DEF ChoosePivot
<1>2. sorting = "split" /\ sorting' = "up" /\ ~Deep
    BY DEF ChoosePivot
<1>3. IsSegment(fragment) /\ fragment.depth >= Len(segments)
    BY <1>2 DEF StackInv, DeeperThanStack
<1>4. fragment' = Fragment(fragment.base, fragment.count, fragment.depth + 1)
    BY <1>1, <1>3 DEF IsSegment, Fragment
<1>5. PICK S : segments \in Seq(S)
    BY DEF StackInv, StackedByDepth
<1>6. Len(segments) \in Nat
    BY <1>5, LenProperties
<1>7. DepthMax \in Nat
    BY RqsortAssumption
<1>8. DeeperThanStack'
    BY <1>1, <1>2, <1>3, <1>4, <1>6, <1>7
       DEF DeeperThanStack, IsSegment, Fragment, Deep
<1>9. StackedByDepth'
    BY <1>1 DEF StackInv, StackedByDepth, IsSegment
<1> QED
    BY <1>8, <1>9 DEF StackInv

LEMMA TooDeepKeeps == ASSUME StackInv, TooDeep PROVE StackInv'
<1>1. /\ fragment' = [fragment EXCEPT !.count = 0, !.depth = @ + 1]
      /\ segments' = segments
      /\ sorting' = "pop"
    BY DEF TooDeep
<1>2. IsSegment(fragment)
    BY DEF StackInv, DeeperThanStack
<1>3. fragment' = Fragment(fragment.base, 0, fragment.depth + 1)
    BY <1>1, <1>2 DEF IsSegment, Fragment
<1>4. IsSegment(fragment')
    BY <1>2, <1>3, FragmentIsSegment DEF IsSegment
<1>5. DeeperThanStack'
    BY <1>1, <1>4 DEF DeeperThanStack, IsSegment
<1>6. StackedByDepth'
    BY <1>1 DEF StackInv, StackedByDepth, IsSegment
<1> QED
    BY <1>5, <1>6 DEF StackInv

(* The one push: the fragment is deeper than the stack is high, and not    *)
(* deeper than the stack has entries.                                      *)
LEMMA GatherKeeps == ASSUME StackInv, Gather PROVE StackInv'
<1>1. PICK e, f :
         /\ IsSegment(e) /\ e.depth = fragment.depth
         /\ IsSegment(f) /\ f.depth = fragment.depth
         /\ segments' = Append(segments, e)
         /\ fragment' = f
    <2>1. fragment.depth \in Nat
        BY DEF StackInv, DeeperThanStack, IsSegment
    <2>2. \A b, c : /\ IsSegment(Fragment(b, c, fragment.depth))
                    /\ Fragment(b, c, fragment.depth).depth = fragment.depth
        BY <2>1, FragmentIsSegment
    <2>3. \E b1, c1, b2, c2 :
             /\ segments' = Append(segments, Fragment(b1, c1, fragment.depth))
             /\ fragment' = Fragment(b2, c2, fragment.depth)
        BY DEF Gather, Fragment
    <2> QED
        BY <2>2, <2>3
<1>2. sorting = "gather" /\ sorting' = "split"
    BY DEF Gather
<1>3. /\ fragment.depth > Len(segments)
      /\ fragment.depth <= DepthMax
      /\ fragment.depth \in Nat
    BY <1>2 DEF StackInv, DeeperThanStack, IsSegment
<1>4. PICK S : segments \in Seq(S)
    BY DEF StackInv, StackedByDepth
<1>5. /\ \E T : segments' \in Seq(T)
      /\ Len(segments) \in Nat
      /\ Len(segments') = Len(segments) + 1
      /\ \A k \in 1 .. Len(segments) : segments'[k] = segments[k]
      /\ segments'[Len(segments) + 1] = e
    <2>1. /\ \E T : Append(segments, e) \in Seq(T)
          /\ Len(segments) \in Nat
          /\ Len(Append(segments, e)) = Len(segments) + 1
          /\ \A k \in 1 .. Len(segments) : Append(segments, e)[k] = segments[k]
          /\ Append(segments, e)[Len(segments) + 1] = e
        BY <1>4, PushedLen
    <2> QED
        BY <1>1, <2>1
<1>6. Len(segments') <= StackSlots
    BY <1>3, <1>5, RqsortAssumption
<1>7. \A k \in 1 .. Len(segments') :
         IsSegment(segments'[k]) /\ segments'[k].depth >= k - 1
    <2> SUFFICES ASSUME NEW k \in 1 .. Len(segments')
                 PROVE  IsSegment(segments'[k]) /\ segments'[k].depth >= k - 1
        OBVIOUS
    <2>1. CASE k \in 1 .. Len(segments)
        BY <2>1, <1>5 DEF StackInv, StackedByDepth
    <2>2. CASE k = Len(segments) + 1
        BY <2>2, <1>1, <1>3, <1>5
    <2> QED
        BY <2>1, <2>2, <1>5
<1>8. StackedByDepth'
    BY <1>5, <1>6, <1>7 DEF StackedByDepth, IsSegment
<1>9. DeeperThanStack'
    BY <1>1, <1>2, <1>3, <1>5 DEF DeeperThanStack, IsSegment
<1> QED
    BY <1>8, <1>9 DEF StackInv

(* A call starts with at most one fragment.                                *)
LEMMA WholeFits ==
    ASSUME NEW elements
    PROVE  /\ \E S : Whole(elements) \in Seq(S)
           /\ Len(Whole(elements)) <= StackSlots
           /\ \A k \in 1 .. Len(Whole(elements)) :
                 /\ IsSegment(Whole(elements)[k])
                 /\ Whole(elements)[k].depth >= k - 1
<1>1. CASE Whole(elements) = << >>
    <2>1. << >> \in Seq({}) /\ Len(<< >>) = 0
        BY EmptySeq
    <2> QED
        BY <1>1, <2>1, RqsortAssumption
<1>2. CASE Whole(elements) = << Fragment(1, Len(elements), 0) >>
    <2> DEFINE f == Fragment(1, Len(elements), 0)
    <2>1. IsSegment(f) /\ f.depth = 0
        BY DEF IsSegment, Fragment
    <2> HIDE DEF f
    <2>2. << f >> \in Seq({ f }) /\ Len(<< f >>) = 1 /\ << f >>[1] = f
        OBVIOUS
    <2>3. Whole(elements) = << f >>
        BY <1>2 DEF f
    <2>4. \E S : Whole(elements) \in Seq(S)
        BY <2>2, <2>3
    <2>5. Len(Whole(elements)) <= StackSlots
        BY <2>2, <2>3, RqsortAssumption
    <2> QED
        BY <2>1, <2>2, <2>3, <2>4, <2>5
<1> QED
    BY <1>1, <1>2 DEF Whole

LEMMA CallKeeps == ASSUME NEW elements, Call(elements) PROVE StackInv'
<1>1. StackedByDepth'
    BY WholeFits DEF Call, StackedByDepth, IsSegment
<1>2. DeeperThanStack'
    BY DEF Call, FirstPhase, DeeperThanStack, NoFragment, IsSegment, Fragment
<1> QED
    BY <1>1, <1>2 DEF StackInv

-----------------------------------------------------------------------------
LEMMA StackInvInit == Init => StackInv
<1> SUFFICES ASSUME NEW elements, Begins(elements) PROVE StackInv
    BY DEF Init
<1>1. StackedByDepth
    BY WholeFits DEF Begins, StackedByDepth
<1>2. DeeperThanStack
    BY DEF Begins, FirstPhase, DeeperThanStack, NoFragment, IsSegment, Fragment
<1> QED
    BY <1>1, <1>2 DEF StackInv

LEMMA StackInvSortStep == ASSUME StackInv, SortStep PROVE StackInv'
<1>1. CASE Pop
    BY <1>1, PopKeeps
<1>2. CASE Done
    BY <1>2, SameStack DEF Done
<1>3. CASE ChoosePivot
    BY <1>3, ChoosePivotKeeps
<1>4. CASE TooDeep
    BY <1>4, TooDeepKeeps
<1>5. CASE Up
    BY <1>5, SameStack DEF Up
<1>6. CASE Down
    BY <1>6, SameStack DEF Down
<1>7. CASE Exchange
    BY <1>7, SameStack DEF Exchange
<1>8. CASE Meet
    BY <1>8, SameStack DEF Meet
<1>9. CASE Gather
    BY <1>9, GatherKeeps
<1>10. CASE Insert
    BY <1>10, SameStack DEF Insert
<1> QED
    BY <1>1, <1>2, <1>3, <1>4, <1>5, <1>6, <1>7, <1>8, <1>9, <1>10 DEF SortStep

(* The steps of the client and of the sets leave the sort alone, or call   *)
(* it.                                                                     *)
LEMMA StackInvNext ==
    StackInv /\ [Next]_<< setVars, sortVars >> => StackInv'
<1> SUFFICES ASSUME StackInv, [Next]_<< setVars, sortVars >> PROVE StackInv'
    OBVIOUS
<1>1. ASSUME UNCHANGED sortVars PROVE StackInv'
    BY <1>1, SameStack DEF sortVars
<1>2. CASE SortStep
    BY <1>2, StackInvSortStep
<1>3. CASE FoldEnds
    BY <1>3, CallKeeps DEF FoldEnds
<1>4. CASE Sorted
    BY <1>4, CallKeeps DEF Sorted
<1>5. CASE Op1 \/ AddBehind \/ CallInvert \/ CallCanonicalize
    BY <1>1, <1>5 DEF Op1, AddBehind, CallInvert, CallCanonicalize, Calls
<1>6. CASE MergeTurn \/ MergeEnds \/ Add \/ InvertSet \/ MaskTurn \/ MaskEnds \/ FoldTurn
    BY <1>1, <1>6 DEF MergeTurn, MergeEnds, Add, InvertSet, MaskTurn, MaskEnds,
                      FoldTurn, Inside
<1>7. CASE OutOfMemory \/ IntervalDropped \/ ClientFrees
    BY <1>1, <1>7 DEF OutOfMemory, IntervalDropped, ClientFrees
<1>8. CASE UNCHANGED << setVars, sortVars >>
    BY <1>1, <1>8
<1> QED
    BY <1>2, <1>3, <1>4, <1>5, <1>6, <1>7, <1>8 DEF Next

(* rqsort stays within its stack: in every state of every sort that the    *)
(* sets of code points or a client ask for, for all arrays and limits that *)
(* RqsortAssumption admits.                                                *)
THEOREM StackNeverOverflows == Spec => []StackFits
<1>1. StackInv => StackFits
    BY DEF StackInv, StackedByDepth, StackFits
<1> QED
    BY <1>1, StackInvInit, StackInvNext, PTL DEF Spec

-----------------------------------------------------------------------------
(***************************************************************************)
(* What the operations on a whole set leave behind: points in order, in    *)
(* pairs and not above Infinity.                                           *)
(***************************************************************************)
IsEven(points) == Len(points) % 2 = 0

Bounded(points) == \A i \in 1 .. Len(points) : points[i] <= Infinity

IsCodeSet(points) == IsOrdered(points) /\ IsEven(points) /\ Bounded(points)

(* All of p is below all of q.                                             *)
InFront(p, q) == \A i \in 1 .. Len(p), j \in 1 .. Len(q) : p[i] <= q[j]

LEMMA Joined ==
    ASSUME NEW p \in Seq(Nat), NEW q \in Seq(Nat)
    PROVE  /\ p \o q \in Seq(Nat) /\ Len(p \o q) = Len(p) + Len(q)
           /\ Len(p) \in Nat /\ Len(q) \in Nat
           /\ \A i \in 1 .. Len(p) : (p \o q)[i] = p[i]
           /\ \A j \in 1 .. Len(q) : (p \o q)[Len(p) + j] = q[j]
           /\ \A i \in 1 .. Len(p) + Len(q) :
                 \/ i \in 1 .. Len(p)
                 \/ i - Len(p) \in 1 .. Len(q) /\ i = Len(p) + (i - Len(p))
<1>1. Len(p) \in Nat /\ Len(q) \in Nat
    BY LenProperties
<1>2. /\ p \o q \in Seq(Nat) /\ Len(p \o q) = Len(p) + Len(q)
      /\ \A i \in 1 .. Len(p) + Len(q) :
            (p \o q)[i] = IF i <= Len(p) THEN p[i] ELSE q[i - Len(p)]
    BY ConcatProperties
<1>3. \A i \in 1 .. Len(p) : (p \o q)[i] = p[i]
    BY <1>1, <1>2
<1>4. ASSUME NEW j \in 1 .. Len(q) PROVE (p \o q)[Len(p) + j] = q[j]
    <2>1. Len(p) + j \in 1 .. Len(p) + Len(q) /\ ~(Len(p) + j <= Len(p)) /\ (Len(p) + j) - Len(p) = j
        BY <1>1
    <2> QED
        BY <1>2, <2>1
<1> QED
    BY <1>1, <1>2, <1>3, <1>4

LEMMA JoinedOrdered ==
    ASSUME NEW p, IsOrdered(p), NEW q, IsOrdered(q), InFront(p, q)
    PROVE  IsOrdered(p \o q)
<1>1. p \in Seq(Nat) /\ q \in Seq(Nat)
    BY DEF IsOrdered
<1>2. PICK s : s = p \o q
    OBVIOUS
<1>3. PICK m, n : m = Len(p) /\ n = Len(q)
    OBVIOUS
<1>4. /\ s \in Seq(Nat) /\ Len(s) = m + n /\ m \in Nat /\ n \in Nat
      /\ \A i \in 1 .. m : s[i] = p[i]
      /\ \A j \in 1 .. n : s[m + j] = q[j]
      /\ \A i \in 1 .. m + n : i \in 1 .. m \/ (i - m \in 1 .. n /\ i = m + (i - m))
    BY <1>1, <1>2, <1>3, Joined
<1>5. ASSUME NEW i \in 1 .. m + n, NEW j \in 1 .. m + n, i <= j PROVE s[i] <= s[j]
    <2>1. CASE i \in 1 .. m /\ j \in 1 .. m
        BY <1>3, <1>4, <1>5, <2>1 DEF IsOrdered
    <2>2. CASE i \in 1 .. m /\ j \notin 1 .. m
        <3>1. PICK k \in 1 .. n : j = m + k
            BY <1>4, <2>2
        <3>2. s[i] = p[i] /\ s[j] = q[k]
            BY <1>4, <2>2, <3>1
        <3> QED
            BY <1>3, <2>2, <3>1, <3>2 DEF InFront
    <2>3. CASE i \notin 1 .. m
        <3>1. PICK k \in 1 .. n : i = m + k
            BY <1>4, <2>3
        <3>2. PICK l \in 1 .. n : j = m + l /\ k <= l
            BY <1>4, <1>5, <2>3, <3>1
        <3>3. s[i] = q[k] /\ s[j] = q[l]
            BY <1>4, <3>1, <3>2
        <3> QED
            BY <1>3, <3>1, <3>2, <3>3 DEF IsOrdered
    <2> QED
        BY <2>1, <2>2, <2>3
<1> QED
    BY <1>2, <1>4, <1>5 DEF IsOrdered

LEMMA JoinedBounded ==
    ASSUME NEW p \in Seq(Nat), NEW q \in Seq(Nat)
    PROVE  Bounded(p \o q) <=> Bounded(p) /\ Bounded(q)
<1>1. PICK s : s = p \o q
    OBVIOUS
<1>2. PICK m, n : m = Len(p) /\ n = Len(q)
    OBVIOUS
<1>3. /\ Len(s) = m + n /\ m \in Nat /\ n \in Nat
      /\ \A i \in 1 .. m : s[i] = p[i]
      /\ \A j \in 1 .. n : s[m + j] = q[j]
      /\ \A i \in 1 .. m + n : i \in 1 .. m \/ (i - m \in 1 .. n /\ i = m + (i - m))
    BY <1>1, <1>2, Joined
<1>4. ASSUME Bounded(p), Bounded(q) PROVE Bounded(s)
    <2> SUFFICES ASSUME NEW i \in 1 .. m + n PROVE s[i] <= Infinity
        BY <1>3 DEF Bounded
    <2>1. CASE i \in 1 .. m
        BY <1>2, <1>3, <1>4, <2>1 DEF Bounded
    <2>2. CASE i \notin 1 .. m
        <3>1. PICK k \in 1 .. n : i = m + k
            BY <1>3, <2>2
        <3> QED
            BY <1>2, <1>3, <1>4, <3>1 DEF Bounded
    <2> QED
        BY <2>1, <2>2
<1>5. ASSUME Bounded(s) PROVE Bounded(p) /\ Bounded(q)
    <2>1. \A i \in 1 .. m : i \in 1 .. m + n
        BY <1>3
    <2>2. \A j \in 1 .. n : m + j \in 1 .. m + n
        BY <1>3
    <2> QED
        BY <1>2, <1>3, <1>5, <2>1, <2>2 DEF Bounded
<1> QED
    BY <1>1, <1>4, <1>5

LEMMA EvenSum ==
    ASSUME NEW m \in Nat, NEW n \in Nat, m % 2 = 0
    PROVE  (m + n) % 2 = 0 <=> n % 2 = 0
OBVIOUS

LEMMA JoinedSets ==
    ASSUME NEW p, IsCodeSet(p), NEW q, IsCodeSet(q), InFront(p, q)
    PROVE  IsCodeSet(p \o q) /\ Len(p \o q) = Len(p) + Len(q)
<1>1. p \in Seq(Nat) /\ q \in Seq(Nat)
    BY DEF IsCodeSet, IsOrdered
<1>2. IsOrdered(p \o q) /\ Bounded(p \o q)
    BY <1>1, JoinedOrdered, JoinedBounded DEF IsCodeSet
<1>3. Len(p \o q) = Len(p) + Len(q) /\ Len(p) \in Nat /\ Len(q) \in Nat
    BY <1>1, Joined
<1>4. IsEven(p \o q)
    BY <1>3, EvenSum DEF IsCodeSet, IsEven
<1> QED
    BY <1>2, <1>3, <1>4 DEF IsCodeSet

(* And the parts of a whole in order are in order.                         *)
LEMMA JoinedParts ==
    ASSUME NEW p \in Seq(Nat), NEW q \in Seq(Nat), IsOrdered(p \o q)
    PROVE  IsOrdered(p) /\ IsOrdered(q) /\ InFront(p, q)
<1>1. PICK s : s = p \o q
    OBVIOUS
<1>2. PICK m, n : m = Len(p) /\ n = Len(q)
    OBVIOUS
<1>3. /\ Len(s) = m + n /\ m \in Nat /\ n \in Nat
      /\ \A i \in 1 .. m : s[i] = p[i]
      /\ \A j \in 1 .. n : s[m + j] = q[j]
    BY <1>1, <1>2, Joined
<1>4. \A i, j \in 1 .. m + n : i <= j => s[i] <= s[j]
    BY <1>1, <1>3 DEF IsOrdered
<1>5. /\ \A i \in 1 .. m : i \in 1 .. m + n
      /\ \A j \in 1 .. n : m + j \in 1 .. m + n
      /\ \A i, j \in 1 .. n : i <= j => m + i <= m + j
      /\ \A i \in 1 .. m, j \in 1 .. n : i <= m + j
    BY <1>3
<1>6. \A i, j \in 1 .. m : i <= j => p[i] <= p[j]
    BY <1>3, <1>4, <1>5
<1>7. \A i, j \in 1 .. n : i <= j => q[i] <= q[j]
    BY <1>3, <1>4, <1>5
<1>8. \A i \in 1 .. m, j \in 1 .. n : p[i] <= q[j]
    BY <1>3, <1>4, <1>5
<1> QED
    BY <1>2, <1>6, <1>7, <1>8 DEF IsOrdered, InFront

LEMMA Pair ==
    ASSUME NEW a \in Nat, NEW b \in Nat, a <= b, b <= Infinity
    PROVE  /\ IsCodeSet(<< a, b >>) /\ Len(<< a, b >>) = 2
           /\ << a, b >>[1] = a /\ << a, b >>[2] = b
<1>1. PICK q : q = << a, b >>
    OBVIOUS
<1>2. q \in Seq(Nat) /\ Len(q) = 2 /\ q[1] = a /\ q[2] = b
    BY <1>1
<1>3. \A i \in 1 .. 2 : i = 1 \/ i = 2
    OBVIOUS
<1>4. IsOrdered(q) /\ Bounded(q)
    BY <1>2, <1>3 DEF IsOrdered, Bounded, Infinity
<1>5. IsEven(q)
    BY <1>2 DEF IsEven
<1> QED
    BY <1>1, <1>2, <1>4, <1>5 DEF IsCodeSet

LEMMA EmptySet == IsCodeSet(<< >>) /\ Len(<< >>) = 0
<1>1. << >> \in Seq(Nat) /\ Len(<< >>) = 0
    BY EmptySeq
<1> QED
    BY <1>1 DEF IsCodeSet, IsOrdered, IsEven, Bounded

(* An interval is written behind the others.                               *)
LEMMA PairBehind ==
    ASSUME NEW p, IsCodeSet(p), NEW a \in Nat, NEW b \in Nat, a <= b, b <= Infinity,
           \A i \in 1 .. Len(p) : p[i] <= a
    PROVE  /\ IsCodeSet(p \o << a, b >>) /\ Len(p \o << a, b >>) = Len(p) + 2
           /\ \A i \in 1 .. Len(p) + 2 : (p \o << a, b >>)[i] <= b
<1>1. PICK q : q = << a, b >>
    OBVIOUS
<1>2. IsCodeSet(q) /\ Len(q) = 2 /\ q[1] = a /\ q[2] = b
    BY <1>1, Pair
<1>3. PICK m : m = Len(p)
    OBVIOUS
<1>4. m \in Nat /\ \A i \in 1 .. m : p[i] \in Nat
    BY <1>3, OrderedPoints DEF IsCodeSet
<1>5. \A i \in 1 .. m, j \in 1 .. 2 : p[i] <= q[j]
    <2> SUFFICES ASSUME NEW i \in 1 .. m, NEW j \in 1 .. 2 PROVE p[i] <= q[j]
        OBVIOUS
    <2>1. p[i] <= a /\ p[i] \in Nat
        BY <1>3, <1>4
    <2>2. j = 1 \/ j = 2
        OBVIOUS
    <2> QED
        BY <1>2, <2>1, <2>2
<1>6. IsCodeSet(p \o q) /\ Len(p \o q) = m + 2
    BY <1>2, <1>3, <1>5, JoinedSets DEF InFront
<1>7. p \in Seq(Nat) /\ q \in Seq(Nat)
    BY <1>2 DEF IsCodeSet, IsOrdered
<1>8. (p \o q)[m + 2] = b
    <2>1. 2 \in 1 .. Len(q)
        BY <1>2
    <2>2. \A j \in 1 .. Len(q) : (p \o q)[Len(p) + j] = q[j]
        BY <1>7, Joined
    <2> QED
        BY <1>2, <1>3, <2>1, <2>2
<1>9. ASSUME NEW i \in 1 .. m + 2 PROVE (p \o q)[i] <= b
    <2>1. m + 2 \in 1 .. m + 2 /\ i <= m + 2
        BY <1>4
    <2> QED
        BY <1>6, <1>8, <2>1 DEF IsCodeSet, IsOrdered
<1> QED
    BY <1>1, <1>3, <1>6, <1>9

-----------------------------------------------------------------------------
(* cr_compress: what is written is in order and not above what is still to *)
(* be read, and there is never more of it than has been read.              *)
CompressStates(p) ==
    { s \in [i : Nat, out : Seq(Nat)] :
        /\ s.i % 2 = 1 /\ s.i <= Len(p) + 1
        /\ IsCodeSet(s.out) /\ Len(s.out) <= s.i - 1
        /\ \A k \in 1 .. Len(s.out), l \in s.i .. Len(p) : s.out[k] <= p[l] }

LEMMA OddSteps ==
    ASSUME NEW i \in Nat, i % 2 = 1
    PROVE  /\ (i + 2) % 2 = 1
           /\ \A n \in Nat : n % 2 = 0 /\ i + 1 <= n =>
                 n - 1 >= i /\ ((n - 1) - i) % 2 = 0
           /\ \A j \in Nat : j >= i /\ (j - i) % 2 = 0 => (j + 2) % 2 = 1
           /\ \A j, n \in Nat : n % 2 = 0 /\ j >= i /\ (j - i) % 2 = 0 /\ j <= n => j + 1 <= n
OBVIOUS

LEMMA RunEndIs ==
    ASSUME NEW p, IsCodeSet(p), NEW i \in Nat, i % 2 = 1, i + 1 <= Len(p)
    PROVE  /\ RunEnd(p, i) \in i .. Len(p) /\ (RunEnd(p, i) - i) % 2 = 0
           /\ RunEnd(p, i) + 1 <= Len(p)
<1> DEFINE T == { j \in i .. Len(p) :
                    /\ (j - i) % 2 = 0
                    /\ ~(j + 3 <= Len(p) /\ p[j + 1] = p[j + 2]) }
<1>1. Len(p) \in Nat /\ Len(p) % 2 = 0
    BY OrderedPoints DEF IsCodeSet, IsEven
<1>2. Len(p) - 1 \in T
    <2>1. PICK n \in Nat : n = Len(p)
        BY <1>1
    <2>2. n - 1 \in i .. n /\ ((n - 1) - i) % 2 = 0
        <3>1. n % 2 = 0 /\ i + 1 <= n
            BY <1>1, <2>1
        <3>2. n - 1 >= i /\ ((n - 1) - i) % 2 = 0
            BY <3>1, OddSteps
        <3> QED
            BY <2>1, <3>2
    <2>3. ~((n - 1) + 3 <= n)
        BY <2>1
    <2>4. n - 1 \in T
        BY <2>1, <2>2, <2>3
    <2> QED
        BY <2>1, <2>4
<1>3. T \subseteq Nat /\ T # {}
    <2>1. T \subseteq i .. Len(p)
        OBVIOUS
    <2> HIDE DEF T
    <2> QED
        BY <1>1, <1>2, <2>1
<1> HIDE DEF T
<1>4. Min(T) \in T
    BY <1>3, SmallestOne
<1>5. RunEnd(p, i) \in T
    BY <1>4 DEF RunEnd, T
<1>6. RunEnd(p, i) \in i .. Len(p) /\ (RunEnd(p, i) - i) % 2 = 0
    BY <1>5 DEF T
<1>7. RunEnd(p, i) + 1 <= Len(p)
    <2>1. PICK j \in Nat : j = RunEnd(p, i)
        BY <1>1, <1>6
    <2>2. j >= i /\ (j - i) % 2 = 0 /\ j <= Len(p)
        BY <1>1, <1>6, <2>1
    <2>3. j + 1 <= Len(p)
        BY <1>1, <2>2, OddSteps
    <2> QED
        BY <2>1, <2>3
<1> QED
    BY <1>6, <1>7

LEMMA CompressOneKeeps ==
    ASSUME NEW p, IsCodeSet(p), NEW s \in CompressStates(p)
    PROVE  CompressOne(p, s) \in CompressStates(p)
<1>1. PICK i, out, n : i = s.i /\ out = s.out /\ n = Len(p)
    OBVIOUS
<1>2. /\ i \in Nat /\ out \in Seq(Nat) /\ s = [i |-> i, out |-> out]
      /\ i % 2 = 1 /\ i <= n + 1
      /\ IsCodeSet(out) /\ Len(out) <= i - 1
      /\ \A k \in 1 .. Len(out), l \in i .. n : out[k] <= p[l]
    BY <1>1 DEF CompressStates
<1>3. /\ n \in Nat /\ n % 2 = 0
      /\ \A l \in 1 .. n : p[l] \in Nat /\ p[l] <= Infinity
      /\ \A k, l \in 1 .. n : k <= l => p[k] <= p[l]
    BY <1>1, OrderedPoints DEF IsCodeSet, IsEven, IsOrdered, Bounded
<1>4. Len(out) \in Nat
    BY <1>2, LenProperties
<1>5. CASE i + 1 > n
    <2>1. CompressOne(p, s) = s
        BY <1>1, <1>5 DEF CompressOne
    <2> QED
        BY <2>1
<1>6. CASE ~(i + 1 > n) /\ p[i] = p[i + 1]
    <2>1. CompressOne(p, s) = [i |-> i + 2, out |-> out]
        BY <1>1, <1>2, <1>6 DEF CompressOne
    <2>2. i + 2 \in Nat /\ (i + 2) % 2 = 1 /\ i + 2 <= n + 1 /\ Len(out) <= (i + 2) - 1
        BY <1>2, <1>3, <1>4, <1>6, OddSteps
    <2>3. \A l \in i + 2 .. n : l \in i .. n
        BY <1>2, <1>3
    <2>4. PICK t : t = [i |-> i + 2, out |-> out]
        OBVIOUS
    <2>5. t \in [i : Nat, out : Seq(Nat)] /\ t.i = i + 2 /\ t.out = out
        BY <1>2, <2>2, <2>4
    <2>6. t \in CompressStates(p)
        BY <1>1, <1>2, <2>2, <2>3, <2>5 DEF CompressStates
    <2> QED
        BY <2>1, <2>4, <2>6
<1>7. CASE ~(i + 1 > n) /\ p[i] # p[i + 1]
    <2>1. PICK j : j = RunEnd(p, i)
        OBVIOUS
    <2>2. CompressOne(p, s) = [i |-> j + 2, out |-> out \o << p[i], p[j + 1] >>]
        BY <1>1, <1>7, <2>1 DEF CompressOne
    <2>3. j \in Nat /\ i <= j /\ (j - i) % 2 = 0 /\ j + 1 <= n
        BY <1>1, <1>2, <1>3, <1>7, <2>1, RunEndIs
    <2>4. PICK a, b : a = p[i] /\ b = p[j + 1]
        OBVIOUS
    <2>5. i \in 1 .. n /\ j + 1 \in 1 .. n /\ i <= j + 1 /\ i \in i .. n
        BY <1>2, <1>3, <2>3
    <2>6. a \in Nat /\ b \in Nat /\ a <= b /\ b <= Infinity
        BY <1>3, <2>4, <2>5
    <2>7. \A k \in 1 .. Len(out) : out[k] <= a
        BY <1>2, <2>4, <2>5
    <2>8. PICK o : o = out \o << a, b >>
        OBVIOUS
    <2>9. IsCodeSet(o) /\ Len(o) = Len(out) + 2 /\ \A k \in 1 .. Len(out) + 2 : o[k] <= b
        BY <1>2, <2>6, <2>7, <2>8, PairBehind
    <2>10. o \in Seq(Nat) /\ \A k \in 1 .. Len(o) : o[k] \in Nat
        BY <2>9, OrderedPoints DEF IsCodeSet
    <2>11. j + 2 \in Nat /\ (j + 2) % 2 = 1 /\ j + 2 <= n + 1 /\ Len(o) <= (j + 2) - 1
        BY <1>2, <1>3, <1>4, <2>3, <2>9, OddSteps
    <2>12. ASSUME NEW k \in 1 .. Len(o), NEW l \in j + 2 .. n PROVE o[k] <= p[l]
        <3>1. l \in 1 .. n /\ j + 1 <= l
            BY <1>3, <2>3
        <3>2. b <= p[l] /\ p[l] \in Nat
            BY <1>3, <2>4, <2>5, <3>1
        <3>3. o[k] <= b /\ o[k] \in Nat
            BY <2>9, <2>10
        <3> QED
            BY <2>6, <3>2, <3>3
    <2>13. PICK t : t = [i |-> j + 2, out |-> o]
        OBVIOUS
    <2>14. t \in [i : Nat, out : Seq(Nat)] /\ t.i = j + 2 /\ t.out = o
        BY <2>10, <2>11, <2>13
    <2>15. t \in CompressStates(p)
        BY <1>1, <2>9, <2>11, <2>12, <2>14 DEF CompressStates
    <2> QED
        BY <2>2, <2>4, <2>8, <2>13, <2>15
<1> QED
    BY <1>5, <1>6, <1>7

CompressesTo(f, p) ==
    f = [k \in 0 .. Len(p) |->
            IF k = 0 THEN [i |-> 1, out |-> << >>] ELSE CompressOne(p, f[k - 1])]

(* The states of the loop, one after the other.                            *)
LEMMA CompressRuns ==
    ASSUME NEW p, IsCodeSet(p), NEW n \in Nat, n = Len(p)
    PROVE  \E g : /\ g[0] = [i |-> 1, out |-> << >>]
                  /\ \A k \in 1 .. n : g[k] = CompressOne(p, g[k - 1])
                  /\ \A k \in 0 .. n : g[k] \in CompressStates(p)
                  /\ Compress(p) = g[n].out
<1> DEFINE S == CompressStates(p)
           base == [i |-> 1, out |-> << >>]
<1>1. n = Len(p)
    OBVIOUS
<1>2. base \in S
    <2>1. 1 \in Nat /\ 1 % 2 = 1 /\ 1 <= n + 1 /\ << >> \in Seq(Nat) /\ Len(<< >>) <= 1 - 1
        BY <1>1, EmptySet, EmptySeq
    <2>2. base.i = 1 /\ base.out = << >> /\ base \in [i : Nat, out : Seq(Nat)]
        BY <2>1
    <2>3. \A k \in 1 .. Len(<< >>) : FALSE
        BY EmptySet
    <2> HIDE DEF base
    <2> QED
        BY <1>1, <2>1, <2>2, <2>3, EmptySet DEF CompressStates
<1> HIDE DEF base
<1> DEFINE step == [kx \in (1 .. n) \X S |-> CompressOne(p, kx[2])]
<1>3. step \in [(1 .. n) \X S -> S] /\ \A k \in 1 .. n, x \in S : step[<< k, x >>] = CompressOne(p, x)
    <2>1. \A kx \in (1 .. n) \X S : CompressOne(p, kx[2]) \in S
        BY CompressOneKeeps
    <2> HIDE DEF S
    <2> QED
        BY <2>1
<1> HIDE DEF step, S
<1>4. PICK f \in [0 .. n -> S] :
         \A k \in 0 .. n : f[k] = IF k = 0 THEN base ELSE step[<< k, f[k - 1] >>]
    <2>1. \E f \in [0 .. n -> S] : IsLoop(f, base, n, step)
        BY <1>2, <1>3, LoopExists
    <2> QED
        BY <2>1 DEF IsLoop
<1>5. CompressesTo(f, p)
    <2>1. f = [k \in 0 .. n |-> f[k]]
        OBVIOUS
    <2>2. ASSUME NEW k \in 0 .. n
          PROVE  f[k] = IF k = 0 THEN base ELSE CompressOne(p, f[k - 1])
        <3>1. CASE k = 0
            BY <1>4, <3>1
        <3>2. CASE k # 0
            <4>1. k \in 1 .. n /\ f[k - 1] \in S
                BY <3>2
            <4> QED
                BY <1>3, <1>4, <3>2, <4>1
        <3> QED
            BY <3>1, <3>2
    <2> QED
        BY <1>1, <2>1, <2>2 DEF CompressesTo, base
<1>6. ASSUME NEW g, CompressesTo(g, p)
      PROVE  \A k \in 0 .. n : g[k] \in S
    <2> DEFINE P == { k \in 0 .. n : g[k] \in S }
    <2>1. \A k \in 0 .. n : g[k] = IF k = 0 THEN base ELSE CompressOne(p, g[k - 1])
        BY <1>1, <1>6 DEF CompressesTo, base
    <2>2. 0 \in P
        BY <1>2, <2>1
    <2>3. ASSUME NEW k \in 1 .. n, k - 1 \in P PROVE k \in P
        <3>1. g[k - 1] \in S /\ k \in 0 .. n /\ k # 0
            BY <2>3
        <3>2. CompressOne(p, g[k - 1]) \in S
            BY <3>1, CompressOneKeeps DEF S
        <3> QED
            BY <2>1, <3>1, <3>2
    <2> HIDE DEF P
    <2>4. \A k \in 0 .. n : k \in P
        BY <2>2, <2>3, UpTo
    <2> QED
        BY <2>4 DEF P
<1>7. \E g : CompressesTo(g, p) /\ Compress(p) = g[n].out
    <2> DEFINE g == CHOOSE h : CompressesTo(h, p)
    <2>1. CompressesTo(g, p)
        BY <1>5
    <2>2. Compress(p) = g[Len(p)].out
        BY DEF Compress, CompressesTo
    <2> QED
        BY <1>1, <2>1, <2>2
<1>8. PICK g : CompressesTo(g, p) /\ Compress(p) = g[n].out
    BY <1>7
<1>9. \A k \in 0 .. n : g[k] \in CompressStates(p)
    BY <1>6, <1>8 DEF S
<1>10. \A k \in 0 .. n : g[k] = IF k = 0 THEN base ELSE CompressOne(p, g[k - 1])
    BY <1>1, <1>8 DEF CompressesTo, base
<1>11. g[0] = base /\ \A k \in 1 .. n : g[k] = CompressOne(p, g[k - 1])
    <2>1. 0 \in 0 .. n /\ \A k \in 1 .. n : k \in 0 .. n /\ k # 0
        OBVIOUS
    <2> QED
        BY <1>10, <2>1
<1> QED
    BY <1>8, <1>9, <1>11 DEF base

LEMMA CompressKeeps ==
    ASSUME NEW p, IsCodeSet(p)
    PROVE  IsCodeSet(Compress(p)) /\ Len(Compress(p)) <= Len(p)
<1>1. PICK n \in Nat : n = Len(p)
    BY OrderedPoints DEF IsCodeSet
<1>2. PICK g : (\A k \in 0 .. n : g[k] \in CompressStates(p)) /\ Compress(p) = g[n].out
    BY <1>1, CompressRuns
<1>3. n \in 0 .. n
    BY <1>1
<1>4. IsCodeSet(g[n].out) /\ Len(g[n].out) <= g[n].i - 1 /\ g[n].i <= n + 1 /\ g[n].i \in Nat
    BY <1>1, <1>2, <1>3 DEF CompressStates
<1>5. Len(g[n].out) \in Nat
    BY <1>4, OrderedPoints DEF IsCodeSet
<1> QED
    BY <1>1, <1>2, <1>4, <1>5

-----------------------------------------------------------------------------
LEMMA InvertedPoints ==
    ASSUME NEW p, IsCodeSet(p)
    PROVE  /\ IsCodeSet((<< 0 >> \o p) \o << Infinity >>)
           /\ Len((<< 0 >> \o p) \o << Infinity >>) = Len(p) + 2
<1>1. PICK a, b : a = << 0 >> /\ b = << Infinity >>
    OBVIOUS
<1>2. a \in Seq(Nat) /\ b \in Seq(Nat) /\ Len(a) = 1 /\ Len(b) = 1 /\ a[1] = 0 /\ b[1] = Infinity
    BY <1>1 DEF Infinity
<1>3. IsOrdered(a) /\ IsOrdered(b) /\ Bounded(a) /\ Bounded(b)
    <2>1. \A i \in 1 .. 1 : i = 1
        OBVIOUS
    <2>2. Infinity \in Nat /\ 0 <= Infinity
        BY DEF Infinity
    <2> QED
        BY <1>2, <2>1, <2>2 DEF IsOrdered, Bounded
<1>4. PICK n : n = Len(p)
    OBVIOUS
<1>5. n \in Nat /\ p \in Seq(Nat) /\ \A i \in 1 .. n : p[i] \in Nat /\ p[i] <= Infinity
    BY <1>4, OrderedPoints DEF IsCodeSet, Bounded
<1>6. PICK m : m = a \o p
    OBVIOUS
<1>7. IsOrdered(m) /\ Bounded(m) /\ Len(m) = n + 1 /\ m \in Seq(Nat)
    <2>1. InFront(a, p)
        <3>1. \A i \in 1 .. 1 : i = 1
            OBVIOUS
        <3>2. \A j \in 1 .. n : 0 <= p[j]
            BY <1>5
        <3> QED
            <4>1. ASSUME NEW i \in 1 .. Len(a), NEW j \in 1 .. Len(p) PROVE a[i] <= p[j]
                <5>1. i = 1 /\ a[i] = 0
                    BY <1>2, <3>1
                <5> QED
                    BY <1>4, <3>2, <5>1
            <4> QED
                BY <4>1 DEF InFront
    <2>2. Len(m) = 1 + n /\ m \in Seq(Nat)
        <3>1. Len(a \o p) = Len(a) + Len(p) /\ a \o p \in Seq(Nat)
            BY <1>2, <1>5, Joined
        <3> QED
            BY <1>2, <1>4, <1>6, <3>1
    <2> QED
        BY <1>2, <1>3, <1>5, <1>6, <2>1, <2>2, JoinedOrdered, JoinedBounded DEF IsCodeSet
<1>8. PICK o : o = m \o b
    OBVIOUS
<1>9. IsOrdered(o) /\ Bounded(o) /\ Len(o) = n + 2
    <2>1. InFront(m, b)
        <3>1. \A i \in 1 .. 1 : i = 1
            OBVIOUS
        <3> QED
            <4>1. ASSUME NEW i \in 1 .. Len(m), NEW j \in 1 .. Len(b) PROVE m[i] <= b[j]
                <5>1. j = 1 /\ b[j] = Infinity
                    BY <1>2, <3>1
                <5> QED
                    BY <1>7, <5>1 DEF Bounded
            <4> QED
                BY <4>1 DEF InFront
    <2>2. Len(o) = (n + 1) + 1
        <3>1. Len(m \o b) = Len(m) + Len(b)
            BY <1>2, <1>7, Joined
        <3> QED
            BY <1>2, <1>7, <1>8, <3>1
    <2> QED
        BY <1>2, <1>3, <1>5, <1>7, <1>8, <2>1, <2>2, JoinedOrdered, JoinedBounded
<1>10. IsCodeSet(o)
    <2>1. n % 2 = 0 => (n + 2) % 2 = 0
        BY <1>5
    <2> QED
        BY <1>4, <1>9, <2>1 DEF IsCodeSet, IsEven
<1> QED
    BY <1>1, <1>4, <1>6, <1>8, <1>9, <1>10

LEMMA InvertKeeps ==
    ASSUME NEW p, IsCodeSet(p)
    PROVE  IsCodeSet(Invert(p)) /\ Len(Invert(p)) <= Len(p) + 2
<1>1. PICK o : o = (<< 0 >> \o p) \o << Infinity >>
    OBVIOUS
<1>2. IsCodeSet(o) /\ Len(o) = Len(p) + 2
    BY <1>1, InvertedPoints
<1>3. Invert(p) = Compress(o)
    BY <1>1 DEF Invert
<1> QED
    BY <1>2, <1>3, CompressKeeps

-----------------------------------------------------------------------------
(* cr_sort_and_remove_overlap: what has been absorbed is in order whatever *)
(* the order of the intervals, and never longer than they are.             *)
INTERVALS == { v \in Nat \X Nat : v[1] <= v[2] /\ v[2] <= Infinity }

LEMMA IntervalIs ==
    ASSUME NEW v \in INTERVALS
    PROVE  /\ v = << v[1], v[2] >> /\ v[1] \in Nat /\ v[2] \in Nat
           /\ v[1] <= v[2] /\ v[2] <= Infinity
BY DEF INTERVALS

LEMMA AbsorbKeeps ==
    ASSUME NEW p, IsCodeSet(p), NEW v \in INTERVALS
    PROVE  IsCodeSet(Absorb(p, v)) /\ Len(Absorb(p, v)) <= Len(p) + 2
<1>1. PICK a, b : a = v[1] /\ b = v[2]
    OBVIOUS
<1>2. v = << a, b >> /\ a \in Nat /\ b \in Nat /\ a <= b /\ b <= Infinity
    BY <1>1, IntervalIs
<1>3. PICK n \in Nat : n = Len(p)
    BY OrderedPoints DEF IsCodeSet
<1>4. /\ p \in Seq(Nat) /\ \A i \in 1 .. n : p[i] \in Nat /\ p[i] <= Infinity
      /\ \A i, j \in 1 .. n : i <= j => p[i] <= p[j]
    BY <1>3, OrderedPoints DEF IsCodeSet, Bounded, IsOrdered
<1>5. CASE n = 0 \/ a > p[n]
    <2>1. Absorb(p, v) = p \o << a, b >>
        BY <1>1, <1>2, <1>3, <1>5 DEF Absorb
    <2>2. \A i \in 1 .. n : p[i] <= a
        <3> SUFFICES ASSUME NEW i \in 1 .. n PROVE p[i] <= a
            OBVIOUS
        <3>1. n \in 1 .. n /\ i <= n /\ n # 0
            OBVIOUS
        <3>2. p[i] <= p[n] /\ p[i] \in Nat /\ p[n] \in Nat /\ a > p[n]
            BY <1>4, <1>5, <3>1
        <3> QED
            BY <1>2, <3>2
    <2>3. IsCodeSet(p \o << a, b >>) /\ Len(p \o << a, b >>) = Len(p) + 2
        <3>1. \A i \in 1 .. Len(p) : p[i] <= a
            BY <1>3, <2>2
        <3> QED
            BY <1>2, <3>1, PairBehind
    <2>4. Len(p \o << a, b >>) <= Len(p) + 2
        BY <1>3, <2>3
    <2> QED
        BY <2>1, <2>3, <2>4
<1>6. CASE ~(n = 0 \/ a > p[n]) /\ b <= p[n]
    <2>1. Absorb(p, v) = p
        BY <1>1, <1>3, <1>6 DEF Absorb
    <2> QED
        BY <1>3, <2>1
<1>7. CASE ~(n = 0 \/ a > p[n]) /\ ~(b <= p[n])
    <2>1. PICK q : q = [p EXCEPT ![n] = b]
        OBVIOUS
    <2>2. Absorb(p, v) = q
        BY <1>1, <1>3, <1>7, <2>1 DEF Absorb
    <2>3. n \in 1 .. n /\ p \in [1 .. n -> Nat]
        BY <1>3, <1>4, <1>7, LenProperties
    <2>4. q \in [1 .. n -> Nat] /\ q[n] = b /\ \A i \in 1 .. n : i # n => q[i] = p[i]
        BY <1>2, <2>1, <2>3
    <2>5. q \in Seq(Nat) /\ Len(q) = n
        BY <2>4
    <2>6. p[n] \in Nat /\ p[n] <= b
        BY <1>2, <1>4, <1>7, <2>3
    <2>7. \A i \in 1 .. n : p[i] <= q[i] /\ q[i] <= b /\ q[i] \in Nat
        <3> SUFFICES ASSUME NEW i \in 1 .. n PROVE p[i] <= q[i] /\ q[i] <= b /\ q[i] \in Nat
            OBVIOUS
        <3>1. CASE i = n
            BY <1>2, <2>4, <2>6, <3>1
        <3>2. CASE i # n
            <4>1. q[i] = p[i] /\ p[i] \in Nat /\ i <= n
                BY <1>4, <2>4, <3>2
            <4>2. p[i] <= p[n]
                BY <1>4, <2>3, <4>1
            <4> QED
                BY <1>2, <2>6, <4>1, <4>2
        <3> QED
            BY <3>1, <3>2
    <2>8. ASSUME NEW i \in 1 .. n, NEW j \in 1 .. n, i <= j PROVE q[i] <= q[j]
        <3>1. CASE j = n
            BY <2>4, <2>7, <3>1
        <3>2. CASE j # n
            <4>1. i # n /\ q[i] = p[i] /\ q[j] = p[j]
                BY <2>4, <2>8, <3>2
            <4> QED
                BY <1>4, <2>8, <4>1
        <3> QED
            BY <3>1, <3>2
    <2>9. \A i \in 1 .. n : q[i] <= Infinity
        <3> SUFFICES ASSUME NEW i \in 1 .. n PROVE q[i] <= Infinity
            OBVIOUS
        <3>1. q[i] <= b /\ q[i] \in Nat
            BY <2>7
        <3> QED
            BY <1>2, <3>1 DEF Infinity
    <2>10. IsCodeSet(q)
        BY <1>3, <2>5, <2>8, <2>9 DEF IsCodeSet, IsOrdered, IsEven, Bounded
    <2> QED
        BY <1>3, <2>2, <2>5, <2>10
<1> QED
    BY <1>5, <1>6, <1>7

AbsorbsTo(f, intervals) ==
    f = [k \in 0 .. Len(intervals) |->
            IF k = 0 THEN << >> ELSE Absorb(f[k - 1], intervals[k])]

LEMMA AbsorbRuns ==
    ASSUME NEW intervals, NEW n \in Nat, n = Len(intervals),
           \A k \in 1 .. n : intervals[k] \in INTERVALS
    PROVE  \E g : /\ g[0] = << >>
                  /\ \A k \in 1 .. n : g[k] = Absorb(g[k - 1], intervals[k])
                  /\ \A k \in 0 .. n : IsCodeSet(g[k]) /\ Len(g[k]) <= 2 * k
                  /\ AbsorbAll(intervals) = g[n]
<1> DEFINE S == { o \in Seq(Nat) : IsCodeSet(o) }
           base == << >>
           step == [kx \in (1 .. n) \X S |-> Absorb(kx[2], intervals[kx[1]])]
<1>1. base \in S
    BY EmptySet, EmptySeq
<1>2. ASSUME NEW k \in 1 .. n, NEW x \in S
      PROVE  Absorb(x, intervals[k]) \in S /\ Len(Absorb(x, intervals[k])) <= Len(x) + 2
    <2>1. /\ IsCodeSet(Absorb(x, intervals[k]))
          /\ Len(Absorb(x, intervals[k])) <= Len(x) + 2
        BY AbsorbKeeps
    <2> QED
        BY <2>1 DEF IsCodeSet, IsOrdered
<1>3. step \in [(1 .. n) \X S -> S]
      /\ \A k \in 1 .. n, x \in S : step[<< k, x >>] = Absorb(x, intervals[k])
    <2>1. \A kx \in (1 .. n) \X S : Absorb(kx[2], intervals[kx[1]]) \in S
        BY <1>2
    <2> HIDE DEF S
    <2> QED
        BY <2>1
<1>4. \A x \in S : Len(x) \in Nat
    BY LenProperties
<1> HIDE DEF step, S, base
<1>5. PICK f \in [0 .. n -> S] :
         \A k \in 0 .. n : f[k] = IF k = 0 THEN base ELSE step[<< k, f[k - 1] >>]
    <2>1. \E f \in [0 .. n -> S] : IsLoop(f, base, n, step)
        BY <1>1, <1>3, LoopExists
    <2> QED
        BY <2>1 DEF IsLoop
<1>6. AbsorbsTo(f, intervals)
    <2>1. f = [k \in 0 .. n |-> f[k]]
        OBVIOUS
    <2>2. ASSUME NEW k \in 0 .. n
          PROVE  f[k] = IF k = 0 THEN base ELSE Absorb(f[k - 1], intervals[k])
        <3>1. CASE k = 0
            BY <1>5, <3>1
        <3>2. CASE k # 0
            <4>1. k \in 1 .. n /\ f[k - 1] \in S
                BY <3>2
            <4> QED
                BY <1>3, <1>5, <3>2, <4>1
        <3> QED
            BY <3>1, <3>2
    <2> QED
        BY <2>1, <2>2 DEF AbsorbsTo, base
<1>7. ASSUME NEW g, AbsorbsTo(g, intervals)
      PROVE  \A k \in 0 .. n : g[k] \in S /\ Len(g[k]) <= 2 * k
    <2> DEFINE P == { k \in 0 .. n : g[k] \in S /\ Len(g[k]) <= 2 * k }
    <2>1. \A k \in 0 .. n : g[k] = IF k = 0 THEN base ELSE Absorb(g[k - 1], intervals[k])
        BY <1>7 DEF AbsorbsTo, base
    <2>2. 0 \in P
        <3>1. g[0] = base /\ Len(base) = 0
            BY <2>1, EmptySet DEF base
        <3> QED
            BY <1>1, <3>1
    <2>3. ASSUME NEW k \in 1 .. n, k - 1 \in P PROVE k \in P
        <3>1. g[k - 1] \in S /\ k \in 0 .. n /\ k # 0 /\ Len(g[k - 1]) <= 2 * (k - 1)
            BY <2>3
        <3>2. g[k] \in S /\ Len(g[k]) <= Len(g[k - 1]) + 2
            BY <1>2, <2>1, <3>1
        <3>3. Len(g[k]) \in Nat /\ Len(g[k - 1]) \in Nat
            BY <1>4, <3>1, <3>2
        <3> QED
            BY <3>1, <3>2, <3>3
    <2> HIDE DEF P
    <2>4. \A k \in 0 .. n : k \in P
        BY <2>2, <2>3, UpTo
    <2> QED
        BY <2>4 DEF P
<1>8. PICK g : AbsorbsTo(g, intervals) /\ AbsorbAll(intervals) = g[n]
    <2> DEFINE g == CHOOSE h : AbsorbsTo(h, intervals)
    <2>1. AbsorbsTo(g, intervals)
        BY <1>6
    <2>2. AbsorbAll(intervals) = g[Len(intervals)]
        BY DEF AbsorbAll, AbsorbsTo
    <2> QED
        BY <2>1, <2>2
<1>9. \A k \in 0 .. n : IsCodeSet(g[k]) /\ Len(g[k]) <= 2 * k
    BY <1>7, <1>8 DEF S
<1>10. \A k \in 0 .. n : g[k] = IF k = 0 THEN base ELSE Absorb(g[k - 1], intervals[k])
    BY <1>8 DEF AbsorbsTo, base
<1>11. g[0] = << >> /\ \A k \in 1 .. n : g[k] = Absorb(g[k - 1], intervals[k])
    <2>1. 0 \in 0 .. n /\ \A k \in 1 .. n : k \in 0 .. n /\ k # 0
        OBVIOUS
    <2> QED
        BY <1>10, <2>1 DEF base
<1> QED
    BY <1>8, <1>9, <1>11

LEMMA AbsorbAllKeeps ==
    ASSUME NEW intervals, NEW n \in Nat, n = Len(intervals),
           \A k \in 1 .. n : intervals[k] \in INTERVALS
    PROVE  IsCodeSet(AbsorbAll(intervals)) /\ Len(AbsorbAll(intervals)) <= 2 * n
<1>1. PICK g : /\ \A k \in 0 .. n : IsCodeSet(g[k]) /\ Len(g[k]) <= 2 * k
               /\ AbsorbAll(intervals) = g[n]
    BY AbsorbRuns
<1>2. n \in 0 .. n
    OBVIOUS
<1> QED
    BY <1>1, <1>2

-----------------------------------------------------------------------------
(* Sequences of points put behind each other.                              *)
FlattensTo(f, seqs) ==
    f = [i \in 1 .. Len(seqs) |-> IF i = 1 THEN seqs[i] ELSE f[i - 1] \o seqs[i]]

LEMMA FlattenIs ==
    ASSUME NEW seqs \in Seq(Seq(Nat)), NEW n \in Nat \ {0}, n = Len(seqs)
    PROVE  \E g : /\ g[1] = seqs[1]
                  /\ \A i \in 2 .. n : g[i] = g[i - 1] \o seqs[i]
                  /\ FlattenSeq(seqs) = g[n]
<1> DEFINE S == Seq(Nat)
           base == seqs[1]
           m == n - 1
           step == [kx \in (1 .. m) \X S |-> kx[2] \o seqs[kx[1] + 1]]
<1>1. \A k \in 1 .. n : seqs[k] \in S
    BY ElementOfSeq
<1>2. base \in S /\ m \in Nat
    BY <1>1
<1>3. step \in [(1 .. m) \X S -> S]
      /\ \A k \in 1 .. m, x \in S : step[<< k, x >>] = x \o seqs[k + 1]
    <2>1. \A kx \in (1 .. m) \X S : kx[2] \o seqs[kx[1] + 1] \in S
        <3> SUFFICES ASSUME NEW k \in 1 .. m, NEW x \in S PROVE x \o seqs[k + 1] \in S
            OBVIOUS
        <3>1. seqs[k + 1] \in S
            BY <1>1
        <3> QED
            BY <3>1, ConcatProperties
    <2> HIDE DEF S
    <2> QED
        BY <2>1
<1> HIDE DEF step, S, base, m
<1>4. PICK f \in [0 .. m -> S] :
         \A k \in 0 .. m : f[k] = IF k = 0 THEN base ELSE step[<< k, f[k - 1] >>]
    <2>1. \E f \in [0 .. m -> S] : IsLoop(f, base, m, step)
        BY <1>2, <1>3, LoopExists
    <2> QED
        BY <2>1 DEF IsLoop
<1>5. PICK h : h = [i \in 1 .. n |-> f[i - 1]]
    OBVIOUS
<1>6. FlattensTo(h, seqs)
    <2>1. h = [i \in 1 .. n |-> h[i]]
        BY <1>5
    <2>2. ASSUME NEW i \in 1 .. n
          PROVE  h[i] = IF i = 1 THEN seqs[i] ELSE h[i - 1] \o seqs[i]
        <3>1. CASE i = 1
            <4>1. 0 \in 0 .. m /\ h[1] = f[1 - 1] /\ 1 - 1 = 0
                BY <1>2, <1>5, <3>1
            <4> QED
                BY <1>4, <3>1, <4>1 DEF base
        <3>2. CASE i # 1
            <4>1. PICK k : k = i - 1
                OBVIOUS
            <4>2. k \in 1 .. m /\ k \in 0 .. m /\ k # 0 /\ k + 1 = i /\ k - 1 \in 0 .. m /\ k \in 1 .. n
                BY <1>2, <3>2, <4>1 DEF m
            <4>3. h[i] = f[k] /\ h[k] = f[k - 1] /\ f[k - 1] \in S
                BY <1>5, <4>1, <4>2
            <4>4. f[k] = f[k - 1] \o seqs[k + 1]
                BY <1>3, <1>4, <4>2, <4>3
            <4> QED
                BY <3>2, <4>1, <4>2, <4>3, <4>4
        <3> QED
            BY <3>1, <3>2
    <2> QED
        BY <2>1, <2>2 DEF FlattensTo
<1>7. PICK g : FlattensTo(g, seqs) /\ FlattenSeq(seqs) = g[n]
    <2> DEFINE g == CHOOSE x : FlattensTo(x, seqs)
    <2>1. FlattensTo(g, seqs)
        BY <1>6
    <2>2. FlattenSeq(seqs) = g[Len(seqs)]
        BY DEF FlattenSeq, FlattensTo
    <2> QED
        BY <2>1, <2>2
<1>8. \A i \in 1 .. n : g[i] = IF i = 1 THEN seqs[i] ELSE g[i - 1] \o seqs[i]
    BY <1>7 DEF FlattensTo
<1>9. 1 \in 1 .. n /\ \A i \in 2 .. n : i \in 1 .. n /\ i # 1
    OBVIOUS
<1> QED
    BY <1>7, <1>8, <1>9

LEMMA FlattenTyped ==
    ASSUME NEW seqs \in Seq(Seq(Nat))
    PROVE  FlattenSeq(seqs) \in Seq(Nat)
<1>1. PICK n : n = Len(seqs)
    OBVIOUS
<1>2. n \in Nat /\ \A i \in 1 .. n : seqs[i] \in Seq(Nat)
    BY <1>1, LenProperties, ElementOfSeq
<1>3. CASE n = 0
    <2>1. seqs = << >> /\ FlattenSeq(seqs) = seqs
        BY <1>1, <1>3, EmptySeq DEF FlattenSeq
    <2> QED
        BY <2>1, EmptySeq
<1>4. CASE n # 0
    <2>1. PICK g : /\ g[1] = seqs[1]
                   /\ \A i \in 2 .. n : g[i] = g[i - 1] \o seqs[i]
                   /\ FlattenSeq(seqs) = g[n]
        BY <1>1, <1>2, <1>4, FlattenIs
    <2>2. PICK m \in Nat : n = m + 1
        <3>1. n - 1 \in Nat /\ n = (n - 1) + 1
            BY <1>2, <1>4
        <3> QED
            BY <3>1
    <2> DEFINE P == { k \in 0 .. m : g[k + 1] \in Seq(Nat) }
    <2>3. 0 \in P
        <3>1. 0 + 1 = 1 /\ 1 \in 1 .. n
            BY <2>2
        <3> QED
            BY <1>2, <2>1, <2>2, <3>1
    <2>4. ASSUME NEW k \in 1 .. m, k - 1 \in P PROVE k \in P
        <3>1. k + 1 \in 2 .. n /\ (k + 1) - 1 = k /\ (k - 1) + 1 = k /\ k + 1 \in 1 .. n
            BY <2>2
        <3>2. g[k] \in Seq(Nat)
            BY <2>4, <3>1
        <3>3. g[k + 1] = g[k] \o seqs[k + 1]
            BY <2>1, <3>1
        <3>4. g[k + 1] \in Seq(Nat)
            BY <1>2, <3>1, <3>2, <3>3, Joined
        <3> QED
            BY <3>4
    <2> HIDE DEF P
    <2>5. \A k \in 0 .. m : k \in P
        BY <2>3, <2>4, UpTo
    <2>6. m \in P
        BY <2>5
    <2> QED
        BY <2>1, <2>2, <2>6 DEF P
<1> QED
    BY <1>3, <1>4

(* Every point of p lies between lo and hi.                                *)
Inwards(p, lo, hi) == \A k \in 1 .. Len(p) : lo <= p[k] /\ p[k] <= hi

(* One sequence after the other, each within its own bounds.               *)
InRow(seqs, bounds, n) ==
    /\ n \in Nat /\ seqs \in Seq(Seq(Nat)) /\ Len(seqs) = n
    /\ \A i \in 1 .. n + 1 : bounds[i] \in Nat
    /\ \A i \in 1 .. n : /\ IsCodeSet(seqs[i])
                         /\ bounds[i] <= bounds[i + 1]
                         /\ Inwards(seqs[i], bounds[i], bounds[i + 1])

LEMMA WithinJoined ==
    ASSUME NEW p, IsCodeSet(p), NEW q, IsCodeSet(q),
           NEW lo \in Nat, NEW mid \in Nat, NEW hi \in Nat, lo <= mid, mid <= hi,
           Inwards(p, lo, mid), Inwards(q, mid, hi)
    PROVE  IsCodeSet(p \o q) /\ Inwards(p \o q, lo, hi)
<1>1. PICK m, n : m = Len(p) /\ n = Len(q)
    OBVIOUS
<1>2. /\ p \in Seq(Nat) /\ q \in Seq(Nat) /\ m \in Nat /\ n \in Nat
      /\ \A i \in 1 .. m : p[i] \in Nat
      /\ \A j \in 1 .. n : q[j] \in Nat
    BY <1>1, OrderedPoints DEF IsCodeSet
<1>3. PICK s : s = p \o q
    OBVIOUS
<1>4. /\ Len(s) = m + n
      /\ \A i \in 1 .. m : s[i] = p[i]
      /\ \A j \in 1 .. n : s[m + j] = q[j]
      /\ \A i \in 1 .. m + n : i \in 1 .. m \/ (i - m \in 1 .. n /\ i = m + (i - m))
    BY <1>1, <1>2, <1>3, Joined
<1>5. \A i \in 1 .. m : lo <= p[i] /\ p[i] <= mid
    BY <1>1 DEF Inwards
<1>6. \A j \in 1 .. n : mid <= q[j] /\ q[j] <= hi
    BY <1>1 DEF Inwards
<1>7. InFront(p, q)
    <2>1. ASSUME NEW i \in 1 .. m, NEW j \in 1 .. n PROVE p[i] <= q[j]
        BY <1>2, <1>5, <1>6
    <2> QED
        BY <1>1, <2>1 DEF InFront
<1>8. ASSUME NEW k \in 1 .. m + n PROVE lo <= s[k] /\ s[k] <= hi
    <2>1. CASE k \in 1 .. m
        BY <1>2, <1>4, <1>5, <2>1
    <2>2. CASE k \notin 1 .. m
        <3>1. PICK j \in 1 .. n : k = m + j
            BY <1>4, <2>2
        <3>2. s[k] = q[j] /\ mid <= q[j] /\ q[j] <= hi /\ q[j] \in Nat
            BY <1>2, <1>4, <1>6, <3>1
        <3> QED
            BY <3>2
    <2> QED
        BY <2>1, <2>2
<1>9. Inwards(s, lo, hi)
    BY <1>4, <1>8 DEF Inwards
<1> QED
    BY <1>3, <1>7, <1>9, JoinedSets

LEMMA FlattenInOrder ==
    ASSUME NEW seqs, NEW b, NEW n, n # 0, InRow(seqs, b, n)
    PROVE  IsCodeSet(FlattenSeq(seqs)) /\ Inwards(FlattenSeq(seqs), b[1], b[n + 1])
<1>1. /\ n \in Nat /\ seqs \in Seq(Seq(Nat)) /\ Len(seqs) = n
      /\ \A i \in 1 .. n + 1 : b[i] \in Nat
      /\ \A i \in 1 .. n : /\ IsCodeSet(seqs[i])
                           /\ b[i] <= b[i + 1]
                           /\ Inwards(seqs[i], b[i], b[i + 1])
    BY DEF InRow
<1>2. PICK g : /\ g[1] = seqs[1]
               /\ \A i \in 2 .. n : g[i] = g[i - 1] \o seqs[i]
               /\ FlattenSeq(seqs) = g[n]
    BY <1>1, FlattenIs
<1>3. PICK m \in Nat : n = m + 1
    <2>1. n - 1 \in Nat /\ n = (n - 1) + 1
        BY <1>1
    <2> QED
        BY <2>1
<1> DEFINE P == { k \in 0 .. m : /\ IsCodeSet(g[k + 1])
                                 /\ b[1] <= b[k + 2]
                                 /\ Inwards(g[k + 1], b[1], b[k + 2]) }
<1>4. 0 \in P
    <2>1. 0 + 1 = 1 /\ 1 \in 1 .. n /\ 0 + 2 = 2 /\ 1 + 1 = 2 /\ 0 \in 0 .. m
        BY <1>3
    <2>2. IsCodeSet(seqs[1]) /\ b[1] <= b[2] /\ Inwards(seqs[1], b[1], b[2])
        BY <1>1, <2>1
    <2> QED
        BY <1>2, <2>1, <2>2
<1>5. ASSUME NEW k \in 1 .. m, k - 1 \in P PROVE k \in P
    <2>1. /\ k + 1 \in 2 .. n /\ (k + 1) - 1 = k /\ (k - 1) + 1 = k /\ k + 1 \in 1 .. n
          /\ (k - 1) + 2 = k + 1 /\ (k + 1) + 1 = k + 2 /\ k \in 0 .. m
          /\ 1 \in 1 .. n + 1 /\ k + 1 \in 1 .. n + 1 /\ k + 2 \in 1 .. n + 1
        BY <1>3
    <2>2. IsCodeSet(g[k]) /\ b[1] <= b[k + 1] /\ Inwards(g[k], b[1], b[k + 1])
        BY <1>5, <2>1
    <2>3. g[k + 1] = g[k] \o seqs[k + 1]
        BY <1>2, <2>1
    <2>4. IsCodeSet(seqs[k + 1]) /\ b[k + 1] <= b[k + 2] /\ Inwards(seqs[k + 1], b[k + 1], b[k + 2])
        BY <1>1, <2>1
    <2>5. PICK lo, mid, hi : lo = b[1] /\ mid = b[k + 1] /\ hi = b[k + 2]
        OBVIOUS
    <2>6. lo \in Nat /\ mid \in Nat /\ hi \in Nat /\ lo <= mid /\ mid <= hi
        BY <1>1, <2>1, <2>2, <2>4, <2>5
    <2>7. IsCodeSet(g[k] \o seqs[k + 1]) /\ Inwards(g[k] \o seqs[k + 1], lo, hi)
        <3>1. PICK p, q : p = g[k] /\ q = seqs[k + 1]
            OBVIOUS
        <3>2. IsCodeSet(p) /\ IsCodeSet(q) /\ Inwards(p, lo, mid) /\ Inwards(q, mid, hi)
            BY <2>2, <2>4, <2>5, <3>1
        <3>3. IsCodeSet(p \o q) /\ Inwards(p \o q, lo, hi)
            BY <2>6, <3>2, WithinJoined
        <3> QED
            BY <3>1, <3>3
    <2>8. b[1] <= b[k + 2]
        BY <2>5, <2>6
    <2> QED
        BY <2>1, <2>3, <2>5, <2>7, <2>8
<1> HIDE DEF P
<1>6. \A k \in 0 .. m : k \in P
    BY <1>4, <1>5, UpTo
<1>7. m \in P /\ m + 1 = n /\ m + 2 = n + 1
    BY <1>3, <1>6
<1> QED
    BY <1>2, <1>7 DEF P

-----------------------------------------------------------------------------
(* unicode_case1: the points of one entry lie between its first code point *)
(* and the one behind its last, and so the entries, which are in order,    *)
(* add up to a set in order.                                               *)
LEMMA CodesAre == Infinity \in Nat /\ \A c \in CODES : c \in Nat /\ c <= Infinity
<1>1. Infinity \in Nat
    BY DEF Infinity
<1> QED
    BY <1>1 DEF CODES

LEMMA EntryIs ==
    ASSUME NEW i \in DOMAIN CaseTable, NEW e, e = CaseTable[i]
    PROVE  /\ e.code \in Nat /\ e.len \in Nat \ {0} /\ e.code + e.len < Infinity
           /\ e.type = "UL" => e.len % 2 = 0
           /\ e.type = "LSU" => e.len = 3
<1>1. CaseTable \in Seq([code : CODES, len : Nat \ {0}, type : CASE_TYPES, data : Seq(CODES)])
    BY CaseTableAssumption
<1>2. e \in [code : CODES, len : Nat \ {0}, type : CASE_TYPES, data : Seq(CODES)]
    <2>1. PICK R : R = [code : CODES, len : Nat \ {0}, type : CASE_TYPES, data : Seq(CODES)]
        OBVIOUS
    <2>2. CaseTable \in Seq(R)
        BY <1>1, <2>1
    <2>3. e \in R
        BY <2>2, ElementOfSeq, LenProperties
    <2> QED
        BY <2>1, <2>3
<1>3. e.code \in CODES /\ e.len \in Nat \ {0}
    BY <1>2
<1>4. e.code \in Nat
    BY <1>3, CodesAre
<1> QED
    BY <1>3, <1>4, CaseTableAssumption

LEMMA PairWithin ==
    ASSUME NEW a \in Nat, NEW b \in Nat, NEW lo \in Nat, NEW hi \in Nat,
           lo <= a, a <= b, b <= hi, hi <= Infinity
    PROVE  IsCodeSet(<< a, b >>) /\ Inwards(<< a, b >>, lo, hi)
<1>1. b <= Infinity
    BY DEF Infinity
<1>2. IsCodeSet(<< a, b >>) /\ Len(<< a, b >>) = 2 /\ << a, b >>[1] = a /\ << a, b >>[2] = b
    BY <1>1, Pair
<1>3. \A k \in 1 .. 2 : k = 1 \/ k = 2
    OBVIOUS
<1>4. PICK q : q = << a, b >>
    OBVIOUS
<1>5. ASSUME NEW k \in 1 .. 2 PROVE lo <= q[k] /\ q[k] <= hi
    BY <1>2, <1>3, <1>4
<1> QED
    BY <1>2, <1>4, <1>5 DEF Inwards

LEMMA EmptyWithin ==
    ASSUME NEW lo, NEW hi
    PROVE  IsCodeSet(<< >>) /\ Inwards(<< >>, lo, hi)
BY EmptySet DEF Inwards

(* Every second code point of an alternating run.                          *)
Alternate(first, h) ==
    [i \in 1 .. h |-> << first + 2 * (i - 1), first + 2 * (i - 1) + 1 >>]

LEMMA AlternateKeeps ==
    ASSUME NEW first \in Nat, NEW h \in Nat \ {0}, first + 2 * h < Infinity + 2
    PROVE  /\ IsCodeSet(FlattenSeq(Alternate(first, h)))
           /\ Inwards(FlattenSeq(Alternate(first, h)), first, first + (2 * h - 1))
<1> DEFINE b == [i \in 1 .. h + 1 |->
                    IF i = h + 1 THEN first + (2 * h - 1) ELSE first + 2 * (i - 1)]
           s == Alternate(first, h)
<1>1. \A i \in 1 .. h : s[i] = << first + 2 * (i - 1), first + 2 * (i - 1) + 1 >>
    BY DEF Alternate
<1>2. s \in Seq(Seq(Nat)) /\ Len(s) = h
    <2>1. ASSUME NEW i \in 1 .. h
          PROVE  << first + 2 * (i - 1), first + 2 * (i - 1) + 1 >> \in Seq(Nat)
        <3>1. PICK c \in Nat : c = first + 2 * (i - 1)
            <4>1. first + 2 * (i - 1) \in Nat
                OBVIOUS
            <4> QED
                BY <4>1
        <3>2. << c, c + 1 >> \in Seq(Nat)
            OBVIOUS
        <3> QED
            BY <3>1, <3>2
    <2>2. s \in [1 .. h -> Seq(Nat)]
        BY <2>1 DEF Alternate
    <2> HIDE DEF s
    <2> QED
        BY <2>2
<1>3. \A i \in 1 .. h : b[i] = first + 2 * (i - 1)
    OBVIOUS
<1>4. b[h + 1] = first + (2 * h - 1)
    OBVIOUS
<1>5. Infinity \in Nat
    BY DEF Infinity
<1> HIDE DEF b, s
<1>6. \A i \in 1 .. h + 1 : b[i] \in Nat /\ b[i] <= first + (2 * h - 1)
    <2> SUFFICES ASSUME NEW i \in 1 .. h + 1 PROVE b[i] \in Nat /\ b[i] <= first + (2 * h - 1)
        OBVIOUS
    <2>1. CASE i = h + 1
        BY <1>4, <2>1
    <2>2. CASE i # h + 1
        <3>1. i \in 1 .. h
            BY <2>2
        <3> QED
            BY <1>3, <3>1
    <2> QED
        BY <2>1, <2>2
<1>7. ASSUME NEW i \in 1 .. h
      PROVE  IsCodeSet(s[i]) /\ b[i] <= b[i + 1] /\ Inwards(s[i], b[i], b[i + 1])
    <2>1. PICK c \in Nat : c = first + 2 * (i - 1)
        <3>1. first + 2 * (i - 1) \in Nat
            OBVIOUS
        <3> QED
            BY <3>1
    <2>2. b[i] = c /\ s[i] = << c, c + 1 >>
        BY <1>1, <1>3, <2>1
    <2>3. c + 1 <= b[i + 1]
        <3>1. CASE i = h
            BY <1>4, <2>1, <3>1
        <3>2. CASE i # h
            <4>1. i + 1 \in 1 .. h
                BY <3>2
            <4>2. b[i + 1] = first + 2 * ((i + 1) - 1)
                BY <1>3, <4>1
            <4> QED
                BY <2>1, <4>2
        <3> QED
            BY <3>1, <3>2
    <2>4. i + 1 \in 1 .. h + 1
        OBVIOUS
    <2>5. PICK hi \in Nat : hi = b[i + 1] /\ hi <= Infinity
        <3>1. b[i + 1] \in Nat /\ b[i + 1] <= first + (2 * h - 1)
            BY <1>6, <2>4
        <3>2. first + (2 * h - 1) <= Infinity
            BY <1>5
        <3>3. b[i + 1] <= Infinity
            BY <1>5, <3>1, <3>2
        <3> QED
            BY <3>1, <3>3
    <2>6. IsCodeSet(<< c, c + 1 >>) /\ Inwards(<< c, c + 1 >>, c, hi)
        <3>1. c + 1 \in Nat /\ c <= c /\ c <= c + 1 /\ c + 1 <= hi
            BY <2>3, <2>5
        <3> QED
            BY <2>5, <3>1, PairWithin
    <2> QED
        BY <2>2, <2>3, <2>5, <2>6
<1>8. InRow(s, b, h)
    BY <1>2, <1>6, <1>7 DEF InRow
<1>9. IsCodeSet(FlattenSeq(s)) /\ Inwards(FlattenSeq(s), b[1], b[h + 1])
    BY <1>8, FlattenInOrder
<1>10. b[1] = first
    <2>1. 1 \in 1 .. h
        OBVIOUS
    <2>2. b[1] = first + 2 * (1 - 1)
        BY <1>3, <2>1
    <2> QED
        BY <2>2
<1> QED
    BY <1>4, <1>9, <1>10 DEF s

LEMMA Narrower ==
    ASSUME NEW p, IsCodeSet(p), NEW lo \in Nat, NEW hi \in Nat, NEW l \in Nat, NEW h \in Nat,
           l <= lo, hi <= h, Inwards(p, lo, hi)
    PROVE  Inwards(p, l, h)
<1>1. \A k \in 1 .. Len(p) : p[k] \in Nat
    BY OrderedPoints DEF IsCodeSet
<1> QED
    BY <1>1 DEF Inwards

LEMMA Halves ==
    ASSUME NEW n \in Nat \ {0}, n % 2 = 0
    PROVE  \E h \in Nat \ {0} : h = (n + 1) \div 2 /\ n = 2 * h
<1>1. PICK h \in Nat : n = 2 * h
    <2>1. n = 2 * (n \div 2) /\ n \div 2 \in Nat
        OBVIOUS
    <2> QED
        BY <2>1
<1>2. h # 0 /\ h = (n + 1) \div 2
    BY <1>1
<1> QED
    BY <1>1, <1>2

MASKS == { { Fold }, { Upper } }

LEMMA CasePointsKeep ==
    ASSUME NEW i \in DOMAIN CaseTable, NEW e, e = CaseTable[i], NEW mask \in MASKS
    PROVE  IsCodeSet(CasePoints(e, mask)) /\ Inwards(CasePoints(e, mask), e.code, e.code + e.len)
<1>1. PICK c, n : c = e.code /\ n = e.len
    OBVIOUS
<1>2. /\ c \in Nat /\ n \in Nat \ {0} /\ c + n < Infinity
      /\ e.type = "UL" => n % 2 = 0
      /\ e.type = "LSU" => n = 3
    BY <1>1, EntryIs
<1>3. ~(Upper \in mask /\ mask # { Upper })
    BY DEF MASKS, Upper, Fold
<1>4. Infinity \in Nat
    BY DEF Infinity
<1>5. CASE e.type = "UL"
    <2>1. PICK h \in Nat \ {0} : h = (n + 1) \div 2 /\ n = 2 * h
        BY <1>2, <1>5, Halves
    <2>2. PICK first \in { c, c + 1 } : first = IF Upper \in mask THEN c + 1 ELSE c
        OBVIOUS
    <2>3. CasePoints(e, mask) = FlattenSeq(Alternate(first, h))
        BY <1>1, <1>3, <1>5, <2>1, <2>2 DEF CasePoints, Alternate
    <2>4. /\ first \in Nat /\ c <= first /\ first + (2 * h - 1) <= c + n
          /\ first + (2 * h - 1) \in Nat /\ c + n \in Nat
        BY <1>2, <2>1, <2>2
    <2>5. first + 2 * h < Infinity + 2
        BY <1>2, <1>4, <2>1, <2>2
    <2>6. PICK p : p = FlattenSeq(Alternate(first, h))
        OBVIOUS
    <2>7. IsCodeSet(p) /\ Inwards(p, first, first + (2 * h - 1))
        BY <2>4, <2>5, <2>6, AlternateKeeps
    <2>8. Inwards(p, c, c + n)
        <3>1. PICK l, r : l = first + (2 * h - 1) /\ r = c + n
            OBVIOUS
        <3>2. l \in Nat /\ r \in Nat /\ l <= r /\ Inwards(p, first, l)
            BY <2>4, <2>7, <3>1
        <3>3. Inwards(p, c, r)
            BY <1>2, <2>4, <2>7, <3>2, Narrower
        <3> QED
            BY <3>1, <3>3
    <2> QED
        BY <1>1, <2>3, <2>6, <2>7, <2>8
<1>6. CASE e.type = "LSU"
    <2>1. PICK first \in Nat : /\ c <= first /\ first + 2 <= c + n
                               /\ CasePoints(e, mask) = << first, first + 1 >> \o << first + 1, first + 1 + 1 >>
        <3>1. CASE Upper \in mask
            <4>1. CasePoints(e, mask) = << c + 1, c + 1 + 1 >> \o << c + 2, c + 2 + 1 >>
                BY <1>1, <1>3, <1>6, <3>1 DEF CasePoints
            <4>2. PICK d : d = c + 1
                OBVIOUS
            <4>3. d \in Nat /\ c <= d /\ d + 2 <= c + n /\ d + 1 = c + 2
                BY <1>2, <1>6, <4>2
            <4>4. CasePoints(e, mask) = << d, d + 1 >> \o << d + 1, d + 1 + 1 >>
                BY <4>1, <4>2, <4>3
            <4> QED
                BY <4>3, <4>4
        <3>2. CASE Upper \notin mask
            <4>1. CasePoints(e, mask) = << c, c + 1 >> \o << c + 1, c + 1 + 1 >>
                BY <1>1, <1>3, <1>6, <3>2 DEF CasePoints
            <4>2. c \in Nat /\ c <= c /\ c + 2 <= c + n
                BY <1>2, <1>6
            <4> QED
                BY ONLY <4>1, <4>2
        <3> QED
            BY <3>1, <3>2
    <2>2. PICK m, h : m = first + 1 /\ h = c + n
        OBVIOUS
    <2>3. /\ m \in Nat /\ h \in Nat /\ m + 1 \in Nat /\ first <= m /\ m <= m + 1 /\ m + 1 <= h
          /\ h <= Infinity /\ c <= m /\ m <= h
        BY <1>2, <1>4, <2>1, <2>2
    <2>4. IsCodeSet(<< first, m >>) /\ Inwards(<< first, m >>, c, m)
        <3>1. m <= Infinity /\ m <= m
            BY <1>4, <2>3
        <3> QED
            BY <1>2, <2>1, <2>3, <3>1, PairWithin
    <2>5. IsCodeSet(<< m, m + 1 >>) /\ Inwards(<< m, m + 1 >>, m, h)
        <3>1. m <= m
            BY <2>3
        <3> QED
            BY <2>3, <3>1, PairWithin
    <2>6. PICK p, q : p = << first, m >> /\ q = << m, m + 1 >>
        OBVIOUS
    <2>7. IsCodeSet(p \o q) /\ Inwards(p \o q, c, h)
        BY <1>2, <2>3, <2>4, <2>5, <2>6, WithinJoined
    <2> QED
        BY <1>1, <2>1, <2>2, <2>6, <2>7
<1>7. CASE e.type # "UL" /\ e.type # "LSU"
    <2>1. CasePoints(e, mask) = << c, c + n >>
        BY <1>1, <1>7 DEF CasePoints
    <2>2. PICK h : h = c + n
        OBVIOUS
    <2>3. h \in Nat /\ c <= c /\ c <= h /\ h <= h /\ h <= Infinity
        BY <1>2, <1>4, <2>2
    <2>4. IsCodeSet(<< c, h >>) /\ Inwards(<< c, h >>, c, h)
        BY <1>2, <2>3, PairWithin
    <2> QED
        BY <1>1, <2>1, <2>2, <2>4
<1> QED
    BY <1>5, <1>6, <1>7

LEMMA CaseRangeKeeps ==
    ASSUME NEW mask \in MASKS
    PROVE  IsCodeSet(CaseRange(mask))
<1> DEFINE hit(e) == \E m \in mask : e.type \in RunMask(m)
           s == [i \in DOMAIN CaseTable |->
                    IF hit(CaseTable[i]) THEN CasePoints(CaseTable[i], mask) ELSE << >>]
<1>1. CaseRange(mask) = FlattenSeq(s)
    BY DEF CaseRange
<1>2. PICK n : n = Len(CaseTable)
    OBVIOUS
<1>3. n \in Nat /\ DOMAIN CaseTable = 1 .. n
    BY <1>2, CaseTableAssumption, LenProperties
<1>4. \A i \in 1 .. n : s[i] = IF hit(CaseTable[i]) THEN CasePoints(CaseTable[i], mask) ELSE << >>
    BY <1>3
<1>5. ASSUME NEW i \in 1 .. n
      PROVE  /\ CaseTable[i].code \in Nat /\ CaseTable[i].len \in Nat
             /\ CaseTable[i].code + CaseTable[i].len <= Infinity
             /\ IsCodeSet(s[i])
             /\ Inwards(s[i], CaseTable[i].code, CaseTable[i].code + CaseTable[i].len)
    <2>1. PICK e : e = CaseTable[i]
        OBVIOUS
    <2>2. e.code \in Nat /\ e.len \in Nat \ {0} /\ e.code + e.len < Infinity
        BY <1>3, <2>1, EntryIs
    <2>3. IsCodeSet(s[i]) /\ Inwards(s[i], e.code, e.code + e.len)
        <3>1. CASE hit(e)
            <4>1. s[i] = CasePoints(e, mask)
                BY <1>4, <2>1, <3>1
            <4> QED
                BY <1>3, <2>1, <4>1, CasePointsKeep
        <3>2. CASE ~hit(e)
            <4>1. s[i] = << >>
                BY <1>4, <2>1, <3>2
            <4> QED
                BY <4>1, EmptyWithin
        <3> QED
            BY <3>1, <3>2
    <2> QED
        BY <2>1, <2>2, <2>3 DEF Infinity
<1>6. s \in Seq(Seq(Nat)) /\ Len(s) = n
    <2>1. \A i \in 1 .. n : s[i] \in Seq(Nat)
        BY <1>5 DEF IsCodeSet, IsOrdered
    <2>2. s = [i \in 1 .. n |-> s[i]]
        BY <1>3
    <2> HIDE DEF s
    <2>3. s \in [1 .. n -> Seq(Nat)]
        BY <2>1, <2>2
    <2> QED
        BY <1>3, <2>3
<1> HIDE DEF s
<1>7. CASE n = 0
    <2>1. s = << >> /\ FlattenSeq(s) = s
        BY <1>6, <1>7, EmptySeq DEF FlattenSeq
    <2> QED
        BY <1>1, <2>1, EmptySet
<1>8. CASE n # 0
    <2> DEFINE b == [i \in 1 .. n + 1 |-> IF i = n + 1 THEN Infinity ELSE CaseTable[i].code]
    <2>1. \A i \in 1 .. n : b[i] = CaseTable[i].code
        BY <1>3
    <2>2. b[n + 1] = Infinity /\ Infinity \in Nat
        BY <1>3 DEF Infinity
    <2> HIDE DEF b
    <2>3. ASSUME NEW i \in 1 .. n PROVE CaseTable[i].code + CaseTable[i].len <= b[i + 1] /\ b[i + 1] \in Nat
        <3>1. CASE i = n
            BY <1>5, <2>2, <3>1
        <3>2. CASE i # n
            <4>1. i \in 1 .. Len(CaseTable) - 1 /\ i + 1 \in 1 .. n
                BY <1>2, <1>3, <3>2
            <4>2. CaseTable[i].code + CaseTable[i].len <= CaseTable[i + 1].code
                BY <4>1, CaseTableAssumption
            <4> QED
                BY <1>5, <2>1, <4>1, <4>2
        <3> QED
            BY <3>1, <3>2
    <2>4. ASSUME NEW i \in 1 .. n + 1 PROVE b[i] \in Nat
        <3>1. CASE i = n + 1
            BY <2>2, <3>1
        <3>2. CASE i # n + 1
            BY <1>3, <1>5, <2>1, <3>2
        <3> QED
            BY <3>1, <3>2
    <2>5. ASSUME NEW i \in 1 .. n
          PROVE  IsCodeSet(s[i]) /\ b[i] <= b[i + 1] /\ Inwards(s[i], b[i], b[i + 1])
        <3>1. PICK c, l, r : c = CaseTable[i].code /\ l = CaseTable[i].len /\ r = b[i + 1]
            OBVIOUS
        <3>2. PICK m : m = c + l
            OBVIOUS
        <3>3. c \in Nat /\ m \in Nat /\ r \in Nat /\ c <= m /\ m <= r
            BY <1>5, <2>3, <3>1, <3>2
        <3>4. IsCodeSet(s[i]) /\ Inwards(s[i], c, m)
            BY <1>5, <3>1, <3>2
        <3>5. Inwards(s[i], c, r)
            <4>1. c <= c
                BY <3>3
            <4> QED
                BY <3>3, <3>4, <4>1, Narrower
        <3>6. c <= r
            BY <3>3
        <3> QED
            BY <2>1, <3>1, <3>4, <3>5, <3>6
    <2>6. InRow(s, b, n)
        BY <1>3, <1>6, <2>4, <2>5 DEF InRow
    <2>7. IsCodeSet(FlattenSeq(s))
        BY <1>8, <2>6, FlattenInOrder
    <2> QED
        BY <1>1, <2>7
<1> QED
    BY <1>7, <1>8

-----------------------------------------------------------------------------
(* Points that are intervals, pair by pair, in any order: the result while *)
(* code points are folded.                                                 *)
InPairs(p) ==
    /\ p \in Seq(Nat) /\ IsEven(p)
    /\ \A i \in 1 .. Len(p) \div 2 : p[2 * i - 1] <= p[2 * i] /\ p[2 * i] <= Infinity

LEMMA Halved ==
    ASSUME NEW n \in Nat, n % 2 = 0
    PROVE  /\ n \div 2 \in Nat /\ 2 * (n \div 2) = n
           /\ (n + 2) \div 2 = n \div 2 + 1
           /\ \A i \in 1 .. n \div 2 : 2 * i - 1 \in 1 .. n /\ 2 * i \in 1 .. n /\ 2 * i - 1 <= 2 * i
OBVIOUS

LEMMA IntervalsIn ==
    ASSUME NEW p, InPairs(p)
    PROVE  /\ Len(Intervals(p)) \in Nat /\ 2 * Len(Intervals(p)) = Len(p)
           /\ Intervals(p) = [i \in 1 .. Len(Intervals(p)) |-> Intervals(p)[i]]
           /\ \A i \in 1 .. Len(Intervals(p)) : Intervals(p)[i] \in INTERVALS
<1>1. PICK n : n = Len(p)
    OBVIOUS
<1>2. n \in Nat /\ n % 2 = 0 /\ \A i \in 1 .. n : p[i] \in Nat
    BY <1>1, LenProperties, ElementOfSeq DEF InPairs, IsEven
<1>3. PICK h : h = n \div 2
    OBVIOUS
<1>4. /\ h \in Nat /\ 2 * h = n
      /\ \A i \in 1 .. h : 2 * i - 1 \in 1 .. n /\ 2 * i \in 1 .. n
    BY <1>2, <1>3, Halved
<1>5. PICK v : v = Intervals(p)
    OBVIOUS
<1>6. v = [i \in 1 .. h |-> << p[2 * i - 1], p[2 * i] >>]
    BY <1>1, <1>3, <1>5 DEF Intervals
<1>7. Len(v) = h /\ v = [i \in 1 .. h |-> v[i]]
    BY <1>4, <1>6
<1>8. ASSUME NEW i \in 1 .. h PROVE v[i] \in INTERVALS
    <2>1. PICK a, b : a = p[2 * i - 1] /\ b = p[2 * i]
        OBVIOUS
    <2>2. v[i] = << a, b >>
        BY <1>6, <2>1
    <2>3. a \in Nat /\ b \in Nat
        BY <1>2, <1>4, <2>1
    <2>4. a <= b /\ b <= Infinity
        BY <1>1, <1>3, <2>1 DEF InPairs
    <2> QED
        BY <2>2, <2>3, <2>4 DEF INTERVALS
<1> QED
    BY <1>1, <1>4, <1>5, <1>7, <1>8

LEMMA CodeSetInPairs ==
    ASSUME NEW p, IsCodeSet(p)
    PROVE  InPairs(p)
<1>1. Len(p) \in Nat /\ Len(p) % 2 = 0
    BY OrderedPoints DEF IsCodeSet, IsEven
<1>2. \A i \in 1 .. Len(p) \div 2 :
         2 * i - 1 \in 1 .. Len(p) /\ 2 * i \in 1 .. Len(p) /\ 2 * i - 1 <= 2 * i
    BY <1>1, Halved
<1>3. ASSUME NEW i \in 1 .. Len(p) \div 2
      PROVE  p[2 * i - 1] <= p[2 * i] /\ p[2 * i] <= Infinity
    <2>1. PICK k, l : k = 2 * i - 1 /\ l = 2 * i
        OBVIOUS
    <2>2. k \in 1 .. Len(p) /\ l \in 1 .. Len(p) /\ k <= l
        BY <1>2, <2>1
    <2>3. p[k] <= p[l] /\ p[l] <= Infinity
        BY <2>2 DEF IsCodeSet, IsOrdered, Bounded
    <2> QED
        BY <2>1, <2>3
<1> QED
    BY <1>3 DEF InPairs, IsCodeSet, IsOrdered

LEMMA PairsJoined ==
    ASSUME NEW p, InPairs(p), NEW v \in INTERVALS
    PROVE  InPairs(p \o v) /\ Len(v) = 2
<1>1. PICK a, b : a = v[1] /\ b = v[2]
    OBVIOUS
<1>2. v = << a, b >> /\ a \in Nat /\ b \in Nat /\ a <= b /\ b <= Infinity
    BY <1>1, IntervalIs
<1>3. v \in Seq(Nat) /\ Len(v) = 2 /\ v[1] = a /\ v[2] = b
    BY <1>2
<1>4. PICK n : n = Len(p)
    OBVIOUS
<1>5. /\ n \in Nat /\ n % 2 = 0 /\ p \in Seq(Nat)
      /\ \A i \in 1 .. n \div 2 : p[2 * i - 1] <= p[2 * i] /\ p[2 * i] <= Infinity
    BY <1>4, LenProperties DEF InPairs, IsEven
<1>6. PICK s : s = p \o v
    OBVIOUS
<1>7. /\ s \in Seq(Nat) /\ Len(s) = n + 2
      /\ \A i \in 1 .. n : s[i] = p[i]
      /\ \A j \in 1 .. 2 : s[n + j] = v[j]
    <2>1. /\ s \in Seq(Nat) /\ Len(s) = Len(p) + Len(v)
          /\ \A i \in 1 .. Len(p) : s[i] = p[i]
          /\ \A j \in 1 .. Len(v) : s[Len(p) + j] = v[j]
        BY <1>3, <1>5, <1>6, Joined
    <2> QED
        BY <1>3, <1>4, <2>1
<1>8. s[n + 1] = a /\ s[n + 2] = b
    <2>1. 1 \in 1 .. 2 /\ 2 \in 1 .. 2
        OBVIOUS
    <2> QED
        BY <1>3, <1>7, <2>1
<1>9. (n + 2) % 2 = 0
    BY <1>5
<1>10. PICK h \in Nat : n \div 2 = h /\ n = 2 * h /\ (n + 2) \div 2 = h + 1
    BY <1>5, Halved
<1>11. ASSUME NEW i \in 1 .. h + 1
       PROVE  s[2 * i - 1] <= s[2 * i] /\ s[2 * i] <= Infinity
    <2>1. PICK k, l : k = 2 * i - 1 /\ l = 2 * i
        OBVIOUS
    <2>2. CASE i = h + 1
        <3>1. k = n + 1 /\ l = n + 2
            BY <1>10, <2>1, <2>2
        <3>2. s[k] <= s[l] /\ s[l] <= Infinity
            BY <1>2, <1>8, <3>1
        <3> QED
            BY <2>1, <3>2
    <2>3. CASE i # h + 1
        <3>1. i \in 1 .. n \div 2 /\ k \in 1 .. n /\ l \in 1 .. n
            BY <1>10, <2>1, <2>3
        <3>2. p[k] <= p[l] /\ p[l] <= Infinity
            BY <1>5, <2>1, <3>1
        <3>3. s[k] = p[k] /\ s[l] = p[l]
            BY <1>7, <3>1
        <3> QED
            BY <2>1, <3>2, <3>3
    <2> QED
        BY <2>2, <2>3
<1>12. InPairs(s)
    BY <1>7, <1>9, <1>10, <1>11 DEF InPairs, IsEven
<1> QED
    BY <1>3, <1>6, <1>12

NowOrNone(v) == v = << >> \/ v \in INTERVALS

LEMMA PairsOrNone ==
    ASSUME NEW p, InPairs(p), NEW v, NowOrNone(v)
    PROVE  InPairs(p \o v)
<1>1. CASE v = << >>
    <2>1. p \o << >> = p
        BY ConcatEmptySeq DEF InPairs
    <2> QED
        BY <1>1, <2>1
<1>2. CASE v \in INTERVALS
    BY <1>2, PairsJoined
<1> QED
    BY <1>1, <1>2 DEF NowOrNone

LEMMA CodePointsTyped ==
    ASSUME NEW p, IsCodeSet(p)
    PROVE  CodePoints(p) \in Seq(Nat)
<1>1. PICK v, n : v = Intervals(p) /\ n = Len(v)
    OBVIOUS
<1>2. n \in Nat /\ v = [i \in 1 .. n |-> v[i]] /\ \A i \in 1 .. n : v[i] \in INTERVALS
    BY <1>1, CodeSetInPairs, IntervalsIn
<1>3. PICK s : s = [i \in 1 .. n |-> [k \in 1 .. v[i][2] - v[i][1] |-> v[i][1] + k - 1]]
    OBVIOUS
<1>4. DOMAIN v = 1 .. n
    <2>1. DOMAIN [i \in 1 .. n |-> v[i]] = 1 .. n
        OBVIOUS
    <2> QED
        BY <1>2, <2>1
<1>5. CodePoints(p) = FlattenSeq(s)
    BY <1>1, <1>3, <1>4 DEF CodePoints
<1>6. ASSUME NEW i \in 1 .. n
      PROVE  [k \in 1 .. v[i][2] - v[i][1] |-> v[i][1] + k - 1] \in Seq(Nat)
    <2>1. PICK a, b : a = v[i][1] /\ b = v[i][2]
        OBVIOUS
    <2>2. v[i] \in INTERVALS
        BY <1>2
    <2>3. a \in Nat /\ b \in Nat /\ a <= b
        BY <2>1, <2>2, IntervalIs
    <2>4. PICK m \in Nat : m = b - a
        <3>1. b - a \in Nat
            BY <2>3
        <3> QED
            BY <3>1
    <2>5. \A k \in 1 .. m : a + k - 1 \in Nat
        BY <2>3
    <2>6. [k \in 1 .. m |-> a + k - 1] \in [1 .. m -> Nat]
        BY <2>5
    <2>7. [k \in 1 .. m |-> a + k - 1] \in Seq(Nat)
        BY <2>6
    <2> QED
        BY <2>1, <2>4, <2>7
<1>7. s \in [1 .. n -> Seq(Nat)]
    BY <1>3, <1>6
<1>8. s \in Seq(Seq(Nat))
    BY <1>2, <1>7
<1> QED
    BY <1>5, <1>8, FlattenTyped

-----------------------------------------------------------------------------
(* A code point is folded: an entry of the table is there, and what it     *)
(* folds to is added to the interval in work or begins one.                *)
Folding == [idx : Nat \ {0}, now : { v \in Seq(Nat) : NowOrNone(v) }, is_unicode : BOOLEAN]

LEMMA IntervalSeq == \A v \in INTERVALS : v \in Seq(Nat) /\ v # << >>
<1> SUFFICES ASSUME NEW v \in INTERVALS PROVE v \in Seq(Nat) /\ v # << >>
    OBVIOUS
<1>1. PICK a, b : a = v[1] /\ b = v[2]
    OBVIOUS
<1>2. v = << a, b >> /\ a \in Nat /\ b \in Nat
    BY <1>1, IntervalIs
<1> QED
    BY <1>2

(* It lengthens the interval in work or ends it and begins the next.       *)
Lengthened(t, x, now, d) ==
    \E a \in Nat : /\ now = << a, d >> /\ a <= d
                   /\ t = [idx |-> x, now |-> << a, d + 1 >>, done |-> << >>]

Begun(t, x, now, d) == t = [idx |-> x, now |-> << d, d + 1 >>, done |-> now]

LEMMA FoldOneIs ==
    ASSUME NEW idx \in Nat \ {0}, NEW now \in Seq(Nat), NowOrNone(now),
           NEW c \in Nat, NEW is_unicode \in BOOLEAN,
           NEW s, s = [idx |-> idx, now |-> now, done |-> << >>], HasEntry(s, c),
           NEW t, t = FoldOne(s, c, is_unicode)
    PROVE  \E x \in DOMAIN CaseTable : \E d \in Nat :
               /\ x \in Nat \ {0} /\ Covers(CaseTable[x], c)
               /\ d = FoldingEntry(c, CaseTable[x], is_unicode) /\ d + 1 <= Infinity
               /\ Lengthened(t, x, now, d) \/ Begun(t, x, now, d)
<1> DEFINE T == { i \in idx .. Len(CaseTable) : Covers(CaseTable[i], c) }
           First(i) == /\ Covers(CaseTable[i], c)
                       /\ \A j \in idx .. i - 1 : ~Covers(CaseTable[j], c)
           x == CHOOSE i \in idx .. Len(CaseTable) : First(i)
           d == FoldingEntry(c, CaseTable[x], is_unicode)
<1>1. CaseTable \in Seq([code : CODES, len : Nat \ {0}, type : CASE_TYPES, data : Seq(CODES)])
    BY CaseTableAssumption
<1>2. Len(CaseTable) \in Nat /\ DOMAIN CaseTable = 1 .. Len(CaseTable)
    BY <1>1, LenProperties
<1>3. \E i \in T : \A j \in T : i <= j
    <2>1. T \subseteq Nat
        BY <1>2
    <2>2. T # {}
        BY DEF HasEntry
    <2> HIDE DEF T
    <2> QED
        BY <2>1, <2>2, LeastOne
<1>4. PICK m \in T : \A j \in T : m <= j
    BY <1>3
<1>5. First(m)
    <2>1. m \in idx .. Len(CaseTable) /\ Covers(CaseTable[m], c)
        OBVIOUS
    <2>2. ASSUME NEW j \in idx .. m - 1, Covers(CaseTable[j], c) PROVE FALSE
        <3>1. j \in idx .. Len(CaseTable) /\ ~(m <= j)
            BY <1>2, <2>1
        <3>2. j \in T
            BY <2>2, <3>1
        <3> QED
            BY <1>4, <3>1, <3>2
    <2> QED
        BY <2>1, <2>2
<1>6. x \in idx .. Len(CaseTable) /\ First(x)
    <2>1. m \in idx .. Len(CaseTable)
        OBVIOUS
    <2> QED
        BY <1>5, <2>1
<1>7. x \in Nat \ {0} /\ x \in DOMAIN CaseTable /\ Covers(CaseTable[x], c)
    <2>1. Covers(CaseTable[x], c)
        BY <1>6
    <2>2. x \in idx .. Len(CaseTable)
        BY <1>6
    <2> HIDE DEF x
    <2> QED
        BY <1>2, <2>1, <2>2
<1>8. \/ /\ now # NoInterval /\ now[2] = d
         /\ t = [s EXCEPT !.idx = x, !.now[2] = d + 1]
      \/ /\ ~(now # NoInterval /\ now[2] = d)
         /\ t = [s EXCEPT !.idx = x, !.now = << d, d + 1 >>, !.done = @ \o s.now]
    BY DEF FoldOne
<1> HIDE DEF x, T, First
<1>9. d \in Nat /\ d + 1 <= Infinity
    <2>1. PICK e : e = CaseTable[x]
        OBVIOUS
    <2>2. e.code \in Nat /\ e.len \in Nat /\ e.code <= c /\ c < e.code + e.len
        BY <1>7, <2>1, EntryIs DEF Covers
    <2>3. c \in e.code .. e.code + e.len - 1
        BY <2>2
    <2>4. d \in 0 .. Infinity - 1
        BY <1>7, <2>1, <2>3, FoldingAssumption
    <2>5. Infinity \in Nat
        BY CodesAre
    <2> HIDE DEF d
    <2> QED
        BY <2>4, <2>5
<1> HIDE DEF d
<1>10. ASSUME now # NoInterval, now[2] = d PROVE Lengthened(t, x, now, d)
    <2>1. PICK a : a = now[1]
        OBVIOUS
    <2>2. now \in INTERVALS
        BY <1>10 DEF NowOrNone, NoInterval
    <2>3. now = << a, d >> /\ a \in Nat /\ a <= d
        BY <1>10, <2>1, <2>2, IntervalIs
    <2>4. t = [idx |-> x, now |-> << a, d + 1 >>, done |-> << >>]
        <3>1. t = [s EXCEPT !.idx = x, !.now[2] = d + 1]
            BY <1>8, <1>10
        <3>2. [now EXCEPT ![2] = d + 1] = << a, d + 1 >>
            BY <2>3
        <3> QED
            BY <3>1, <3>2
    <2> QED
        BY <2>3, <2>4 DEF Lengthened
<1>11. ASSUME ~(now # NoInterval /\ now[2] = d) PROVE Begun(t, x, now, d)
    <2>1. t = [idx |-> x, now |-> << d, d + 1 >>, done |-> now]
        <3>1. t = [s EXCEPT !.idx = x, !.now = << d, d + 1 >>, !.done = @ \o s.now]
            BY <1>8, <1>11
        <3>2. << >> \o now = now
            BY ConcatEmptySeq
        <3> QED
            BY <3>1, <3>2
    <2> QED
        BY <2>1 DEF Begun
<1>12. d = FoldingEntry(c, CaseTable[x], is_unicode)
    BY DEF d
<1> QED
    BY <1>7, <1>9, <1>10, <1>11, <1>12

LEMMA FoldOneKeeps ==
    ASSUME NEW idx \in Nat \ {0}, NEW now \in Seq(Nat), NowOrNone(now),
           NEW c \in Nat, NEW is_unicode \in BOOLEAN,
           NEW s, s = [idx |-> idx, now |-> now, done |-> << >>], HasEntry(s, c),
           NEW t, t = FoldOne(s, c, is_unicode)
    PROVE  /\ t.idx \in Nat \ {0} /\ t.now \in INTERVALS /\ NowOrNone(t.done)
<1>1. PICK x \in DOMAIN CaseTable : \E d \in Nat :
               /\ x \in Nat \ {0} /\ d + 1 <= Infinity
               /\ Lengthened(t, x, now, d) \/ Begun(t, x, now, d)
    BY FoldOneIs
<1>2. PICK d \in Nat : /\ x \in Nat \ {0} /\ d + 1 <= Infinity
                       /\ Lengthened(t, x, now, d) \/ Begun(t, x, now, d)
    BY <1>1
<1>3. CASE Lengthened(t, x, now, d)
    <2>1. PICK a \in Nat : a <= d /\ t = [idx |-> x, now |-> << a, d + 1 >>, done |-> << >>]
        BY <1>3 DEF Lengthened
    <2>2. << a, d + 1 >> \in INTERVALS
        <3>1. d + 1 \in Nat /\ a <= d + 1
            BY <2>1
        <3> QED
            BY <1>2, <3>1 DEF INTERVALS
    <2> QED
        BY <1>2, <2>1, <2>2 DEF NowOrNone
<1>4. CASE Begun(t, x, now, d)
    <2>1. t = [idx |-> x, now |-> << d, d + 1 >>, done |-> now]
        BY <1>4 DEF Begun
    <2>2. << d, d + 1 >> \in INTERVALS
        <3>1. d + 1 \in Nat /\ d <= d + 1
            BY <1>2
        <3> QED
            BY <1>2, <3>1 DEF INTERVALS
    <2>3. t.idx = x /\ t.now = << d, d + 1 >> /\ t.done = now
        BY <2>1
    <2> QED
        BY <1>2, <2>2, <2>3
<1> QED
    BY <1>2, <1>3, <1>4

-----------------------------------------------------------------------------
LEMMA TurnBounded ==
    ASSUME NEW s, Merging(s), ~Ended(s), Bounded(s.a), Bounded(s.b), Bounded(s.out)
    PROVE  Bounded(Turn(s).out)
<1>1. PICK t : t = Turn(s)
    OBVIOUS
<1>2. t.out = s.out \/ t.out = Append(s.out, Point(s))
    BY <1>1, TurnOf
<1>3. /\ IsOrdered(s.out) /\ Len(s.a) \in Nat /\ Len(s.b) \in Nat
      /\ s.ai \in 0 .. Len(s.a) /\ s.bi \in 0 .. Len(s.b)
    BY OrderedPoints DEF Merging, WellFormedMerge
<1>4. Point(s) \in Nat /\ Point(s) <= Infinity
    <2>1. /\ Point(s) \in Nat
          /\ TakesA(s) => s.ai < Len(s.a) /\ s.a[s.ai + 1] = Point(s)
          /\ TakesB(s) => s.bi < Len(s.b) /\ s.b[s.bi + 1] = Point(s)
          /\ TakesA(s) \/ TakesB(s)
        BY NextPoint
    <2>2. CASE TakesA(s)
        <3>1. s.ai + 1 \in 1 .. Len(s.a)
            BY <1>3, <2>1, <2>2
        <3> QED
            BY <2>1, <2>2, <3>1 DEF Bounded
    <2>3. CASE TakesB(s)
        <3>1. s.bi + 1 \in 1 .. Len(s.b)
            BY <1>3, <2>1, <2>3
        <3> QED
            BY <2>1, <2>3, <3>1 DEF Bounded
    <2> QED
        BY <2>1, <2>2, <2>3
<1>5. CASE t.out = Append(s.out, Point(s))
    <2>1. PICK p, o : p = Point(s) /\ o = s.out
        OBVIOUS
    <2>2. o \in Seq(Nat) /\ Len(o) \in Nat /\ p \in Nat /\ p <= Infinity
        BY <1>3, <1>4, <2>1, OrderedPoints
    <2>3. /\ Len(Append(o, p)) = Len(o) + 1
          /\ \A i \in 1 .. Len(o) : Append(o, p)[i] = o[i]
          /\ Append(o, p)[Len(o) + 1] = p
        BY <2>2, AppendProperties
    <2>4. ASSUME NEW i \in 1 .. Len(o) + 1 PROVE Append(o, p)[i] <= Infinity
        <3>1. CASE i = Len(o) + 1
            BY <2>2, <2>3, <3>1
        <3>2. CASE i # Len(o) + 1
            <4>1. i \in 1 .. Len(o)
                BY <2>2, <3>2
            <4> QED
                BY <2>1, <2>3, <4>1 DEF Bounded
        <3> QED
            BY <3>1, <3>2
    <2>5. Bounded(Append(o, p))
        BY <2>3, <2>4 DEF Bounded
    <2> QED
        BY <1>1, <1>5, <2>1, <2>5
<1> QED
    BY <1>1, <1>2, <1>5

-----------------------------------------------------------------------------
(* A set with room for the points asked for.                               *)
CharSets == [points : Seq(Nat), size : Nat, live : BOOLEAN]

LEMMA RoomFor ==
    ASSUME NEW x \in CharSets, NEW n \in Nat
    PROVE  \E size \in Nat :
              /\ Room(x, n) = [points |-> x.points, size |-> size, live |-> x.live]
              /\ n <= size /\ x.size <= size
<1>1. PICK p, m, l : p = x.points /\ m = x.size /\ l = x.live
    OBVIOUS
<1>2. x = [points |-> p, size |-> m, live |-> l] /\ m \in Nat
    BY <1>1 DEF CharSets
<1>3. CASE n <= m
    BY <1>1, <1>2, <1>3 DEF Room
<1>4. CASE ~(n <= m)
    <2>1. PICK k \in Nat : k = (m * 3) \div 2
        <3>1. (m * 3) \div 2 \in Nat
            BY <1>2
        <3> QED
            BY <3>1
    <2>2. PICK size \in Nat : size = (IF n > k THEN n ELSE k) /\ n <= size /\ m <= size
        <3>1. CASE n > k
            BY <1>2, <1>4, <3>1
        <3>2. CASE ~(n > k)
            BY <1>2, <1>4, <2>1, <3>2
        <3> QED
            BY <3>1, <3>2
    <2>3. Room(x, n) = [x EXCEPT !.size = size]
        BY <1>1, <1>2, <1>4, <2>1, <2>2 DEF Room
    <2>4. [x EXCEPT !.size = size] = [points |-> p, size |-> size, live |-> l]
        BY <1>2
    <2> QED
        BY <1>1, <2>2, <2>3, <2>4
<1> QED
    BY <1>3, <1>4

LEMMA WithFits ==
    ASSUME NEW x \in CharSets, NEW points \in Seq(Nat)
    PROVE  /\ With(x, points) \in CharSets
           /\ With(x, points).points = points /\ With(x, points).live = x.live
           /\ Len(points) <= With(x, points).size
<1>1. Len(points) \in Nat
    BY LenProperties
<1>2. PICK size \in Nat :
         /\ Room(x, Len(points)) = [points |-> x.points, size |-> size, live |-> x.live]
         /\ Len(points) <= size
    BY <1>1, RoomFor
<1>3. With(x, points) = [points |-> points, size |-> size, live |-> x.live]
    BY <1>2 DEF With
<1>4. x.live \in BOOLEAN
    BY DEF CharSets
<1> QED
    BY <1>2, <1>3, <1>4 DEF CharSets

-----------------------------------------------------------------------------
(***************************************************************************)
(* The invariant of the calls of UnicodeSets.  Each phase of a call needs  *)
(* some of the sets in order, and leaves others in order for the next.     *)
(***************************************************************************)
SetsTyped ==
    /\ sets \in [NAMES -> CharSets]
    /\ \A n \in NAMES : Len(sets[n].points) <= sets[n].size

CallTyped ==
    /\ at \in { "idle", "add", "invert", "mask", "merge", "fold", "sort", "failed", "over" }
    /\ into \in { "cr", "mask", "inter", "sub" }
    /\ at = "invert" => into \in { "cr", "mask" }
    /\ at = "merge" => into \in { "cr", "inter", "sub" }
    /\ todo \in Seq(Nat)
    /\ folding \in Folding

OnlyOne == \A n \in NAMES : sets[n].live <=> n = "cr"

Owned ==
    /\ at \in { "idle", "add", "failed" } => OnlyOne
    /\ at = "invert" /\ into = "cr" => OnlyOne
    /\ at = "over" => \A n \in NAMES : ~sets[n].live
    /\ at # "over" => sets["cr"].live

MergeSound ==
    /\ Merging(merge)
    /\ merge.op \in { "union", "inter", "xor", "sub" }
    /\ IsEven(merge.a) /\ IsEven(merge.b)
    /\ Bounded(merge.a) /\ Bounded(merge.b) /\ Bounded(merge.out)

WaitsForInter ==
    /\ IsCodeSet(sets["cr"].points) /\ IsCodeSet(sets["mask"].points)
    /\ sets["sub"].points = << >> /\ sets["result"].points = << >>

Filled ==
    /\ at = "idle" => IsCodeSet(sets["cr"].points)
    /\ at = "add" => Len(todo) = 2 /\ IsCodeSet(sets["cr"].points \o todo)
    /\ at = "invert" => IsCodeSet(sets["cr"].points)
    /\ at = "mask" =>
          /\ IsCodeSet(sets["cr"].points)
          /\ IsEven(todo) /\ IsCodeSet(sets["mask"].points \o todo)
          /\ sets["inter"].points = << >>
          /\ sets["sub"].points = << >> /\ sets["result"].points = << >>
    /\ at = "merge" /\ into = "inter" => WaitsForInter
    /\ at = "invert" /\ into = "mask" =>
          WaitsForInter /\ IsCodeSet(sets["inter"].points)
    /\ at = "merge" /\ into = "sub" =>
          IsCodeSet(sets["inter"].points) /\ sets["result"].points = << >>
    /\ at = "merge" => sets[into].points = merge.out /\ MergeSound
    /\ at = "fold" => InPairs(sets["result"].points) /\ IsCodeSet(sets["sub"].points)
    /\ at = "sort" =>
          /\ IsCodeSet(sets["sub"].points)
          /\ \A k \in 1 .. Len(given) : given[k] \in INTERVALS
          /\ 2 * Len(given) <= Len(sets["result"].points)

SetsInv == SetsTyped /\ CallTyped /\ Owned /\ Filled /\ SortInv

-----------------------------------------------------------------------------
LEMMA Names ==
    /\ "cr" \in NAMES /\ "mask" \in NAMES /\ "inter" \in NAMES
    /\ "result" \in NAMES /\ "sub" \in NAMES /\ "old" \in NAMES
    /\ \A n \in NAMES : n = "cr" <=> n \notin FOUR \union { "old" }
BY DEF NAMES, FOUR

LEMMA FreshIs ==
    /\ Fresh \in CharSets /\ Fresh.points = << >> /\ Fresh.size = 0 /\ Fresh.live = TRUE
    /\ Freed \in CharSets /\ Freed.points = << >> /\ Freed.size = 0 /\ Freed.live = FALSE
<1>1. << >> \in Seq(Nat)
    BY EmptySeq
<1> QED
    BY <1>1 DEF Fresh, Freed, CharSets

(* One set is written, and has room for its points.                        *)
LEMMA Written ==
    ASSUME SetsTyped, NEW n \in NAMES, NEW x \in CharSets, Len(x.points) <= x.size,
           sets' = [sets EXCEPT ![n] = x]
    PROVE  /\ SetsTyped' /\ sets'[n] = x
           /\ \A m \in NAMES : m # n => sets'[m] = sets[m]
<1>1. sets'[n] = x /\ \A m \in NAMES : m # n => sets'[m] = sets[m]
    BY DEF SetsTyped
<1>2. sets' \in [NAMES -> CharSets]
    BY DEF SetsTyped
<1>3. \A m \in NAMES : Len(sets'[m].points) <= sets'[m].size
    BY <1>1 DEF SetsTyped
<1> QED
    BY <1>1, <1>2, <1>3 DEF SetsTyped

(* With is how a set is written.                                           *)
LEMMA WrittenWith ==
    ASSUME SetsTyped, NEW n \in NAMES, NEW points \in Seq(Nat),
           sets' = [sets EXCEPT ![n] = With(@, points)]
    PROVE  /\ SetsTyped' /\ sets'[n].points = points /\ sets'[n].live = sets[n].live
           /\ \A m \in NAMES : m # n => sets'[m] = sets[m]
<1>1. sets[n] \in CharSets /\ sets \in [NAMES -> CharSets]
    BY DEF SetsTyped
<1>2. PICK x : x = With(sets[n], points)
    OBVIOUS
<1>3. x \in CharSets /\ x.points = points /\ x.live = sets[n].live /\ Len(points) <= x.size
    BY <1>1, <1>2, WithFits
<1>4. sets' = [sets EXCEPT ![n] = x]
    BY <1>1, <1>2
<1>5. SetsTyped' /\ sets'[n] = x /\ \A m \in NAMES : m # n => sets'[m] = sets[m]
    BY <1>3, <1>4, Written
<1> QED
    BY <1>3, <1>5

(* Several sets are written.                                               *)
LEMMA WrittenAll ==
    ASSUME NEW f, sets' = [n \in NAMES |-> f[n]],
           \A n \in NAMES : f[n] \in CharSets /\ Len(f[n].points) <= f[n].size
    PROVE  SetsTyped' /\ \A n \in NAMES : sets'[n] = f[n]
BY DEF SetsTyped

LEMMA PointsOf ==
    ASSUME SetsTyped, NEW n \in NAMES
    PROVE  /\ sets[n] \in CharSets /\ sets[n].points \in Seq(Nat)
           /\ Len(sets[n].points) \in Nat
           /\ sets[n].size \in Nat /\ sets[n].live \in BOOLEAN
           /\ Len(sets[n].points) <= sets[n].size
           /\ sets[n] = [points |-> sets[n].points, size |-> sets[n].size, live |-> sets[n].live]
<1>1. sets[n] \in CharSets
    BY DEF SetsTyped
<1>2. sets[n].points \in Seq(Nat) /\ sets[n].size \in Nat /\ sets[n].live \in BOOLEAN
    BY <1>1 DEF CharSets
<1>3. sets[n] = [points |-> sets[n].points, size |-> sets[n].size, live |-> sets[n].live]
    BY <1>1 DEF CharSets
<1>4. Len(sets[n].points) \in Nat
    BY <1>2, LenProperties
<1> QED
    BY <1>1, <1>2, <1>3, <1>4 DEF SetsTyped

(* A merge that begins, into an empty set.                                 *)
LEMMA MergeCalled ==
    ASSUME NEW a, IsCodeSet(a), NEW b, IsCodeSet(b),
           NEW op \in { "union", "inter", "xor", "sub" }, merge' = Start(a, b, op)
    PROVE  MergeSound' /\ merge'.out = << >>
<1>1. merge'.a = a /\ merge'.b = b /\ merge'.out = << >> /\ merge'.op = op
    BY DEF Start
<1>2. Merging(merge')
    BY MergeStarts DEF IsCodeSet
<1>3. Bounded(<< >>)
    BY EmptySet DEF IsCodeSet
<1> QED
    BY <1>1, <1>2, <1>3 DEF MergeSound, IsCodeSet

(* And one that ends, compressed.                                          *)
LEMMA MergeEnded ==
    ASSUME MergeSound, Ended(merge)
    PROVE  /\ IsCodeSet(merge.out) /\ IsCodeSet(Compress(merge.out))
           /\ Len(Compress(merge.out)) <= Len(merge.out)
<1>1. IsOrdered(merge.out) /\ Len(merge.out) % 2 = 0
    BY MergeIsRight DEF MergeSound, IsEven
<1>2. IsCodeSet(merge.out)
    BY <1>1 DEF IsCodeSet, IsEven, MergeSound
<1> QED
    BY <1>2, CompressKeeps

LEMMA SeqElements ==
    ASSUME NEW x \in Seq(Int \X Int)
    PROVE  Elements(x)
<1>1. Len(x) \in Nat /\ x \in [1 .. Len(x) -> Int \X Int]
    BY LenProperties
<1>2. \A i \in 1 .. Len(x) : x[i] \in Int \X Int
    BY <1>1
<1>3. \A i \in 1 .. Len(x) : Key(x[i]) \in Int
    BY <1>2 DEF Key
<1> QED
    BY <1>1, <1>3 DEF Elements, IsRow, HasKeys

LEMMA IntervalElements ==
    ASSUME NEW x, NEW n \in Nat, n = Len(x), x = [i \in 1 .. n |-> x[i]],
           \A i \in 1 .. n : x[i] \in INTERVALS
    PROVE  Elements(x)
<1>1. \A i \in 1 .. n : Key(x[i]) \in Int
    BY IntervalIs DEF Key
<1> QED
    BY <1>1 DEF Elements, IsRow, HasKeys

LEMMA NoElements == Elements(<< >>)
<1>1. << >> \in Seq(Int \X Int)
    BY EmptySeq
<1> QED
    BY <1>1, SeqElements

LEMMA GivenStays == ASSUME SortStep PROVE given' = given
BY DEF SortStep, Pop, Done, ChoosePivot, TooDeep, Up, Down, Exchange, Meet, Gather, Insert

LEMMA SameSets ==
    ASSUME SetsTyped, CallTyped, Owned, Filled, UNCHANGED setVars, given' = given
    PROVE  SetsTyped' /\ CallTyped' /\ Owned' /\ Filled'
<1>1. /\ sets' = sets /\ at' = at /\ merge' = merge /\ into' = into /\ todo' = todo
      /\ folding' = folding
    BY DEF setVars
<1>2. SetsTyped'
    BY <1>1 DEF SetsTyped
<1>3. CallTyped'
    BY <1>1 DEF CallTyped
<1>4. Owned'
    BY <1>1 DEF Owned, OnlyOne
<1>5. Filled'
    BY <1>1 DEF Filled, WaitsForInter, MergeSound
<1> QED
    BY <1>2, <1>3, <1>4, <1>5

-----------------------------------------------------------------------------
LEMMA InitSets == Init => SetsInv
<1> SUFFICES ASSUME Init PROVE SetsInv
    OBVIOUS
<1>1. << >> \in Seq(Nat) /\ IsCodeSet(<< >>) /\ Len(<< >>) = 0
    BY EmptySeq, EmptySet
<1>2. folding \in Folding
    <2>1. /\ folding = [idx |-> 1, now |-> << >>, is_unicode |-> FALSE]
          /\ << >> \in { v \in Seq(Nat) : NowOrNone(v) }
        BY <1>1 DEF Init, NoInterval, NowOrNone
    <2> QED
        BY <2>1 DEF Folding
<1>3. todo = << >> /\ into = "cr" /\ at \in { "idle", "over" }
    BY DEF Init
<1>4. CallTyped
    BY <1>1, <1>2, <1>3 DEF CallTyped
<1>5. SetsTyped /\ Owned
    <2>1. \A n \in NAMES : /\ sets[n] = IF at = "idle" /\ n = "cr" THEN Fresh ELSE Freed
                           /\ sets = [m \in NAMES |-> sets[m]]
        BY DEF Init
    <2>2. sets \in [NAMES -> CharSets]
        BY <2>1, FreshIs, Names
    <2> QED
        BY <1>1, <1>3, <2>1, <2>2, FreshIs, Names DEF SetsTyped, Owned, OnlyOne
<1>6. Filled
    <2>1. at = "idle" => sets["cr"].points = << >>
        BY FreshIs, Names DEF Init
    <2> QED
        BY <1>1, <1>3, <2>1 DEF Filled
<1>7. SortInv
    <2>1. \E x : Elements(x) /\ Begins(x)
        <3>1. CASE Begins(<< >>)
            BY <3>1, NoElements
        <3>2. CASE \E elements \in SortedElsewhere : Begins(elements)
            <4>1. PICK x \in SortedElsewhere : Begins(x)
                BY <3>2
            <4>2. Elements(x)
                BY SeqElements, SetsAssumption
            <4> QED
                BY <4>1, <4>2
        <3> QED
            BY <3>1, <3>2 DEF Init
    <2> QED
        BY <2>1, BeginsSorts
<1> QED
    BY <1>4, <1>5, <1>6, <1>7 DEF SetsInv

-----------------------------------------------------------------------------
(* The sets that a client hands in are in order.                           *)
LEMMA RangeInOrder ==
    ASSUME NEW p \in Seq(Nat), IsRange(p)
    PROVE  IsOrdered(p) /\ IsEven(p)
<1>1. PICK n : n = Len(p)
    OBVIOUS
<1>2. n \in Nat /\ \A i \in 1 .. n : p[i] \in Nat
    BY <1>1, LenProperties, ElementOfSeq
<1>3. \A i \in 1 .. n - 1 : p[i] <= p[i + 1]
    BY <1>1 DEF IsRange
<1>4. ASSUME NEW i \in 1 .. n, NEW j \in 1 .. n, i <= j PROVE p[i] <= p[j]
    <2> DEFINE P == { k \in 0 .. n - i : p[i] <= p[i + k] }
    <2>1. n - i \in Nat /\ j - i \in 0 .. n - i /\ i + (j - i) = j /\ i + 0 = i
        BY <1>2, <1>4
    <2>2. 0 \in P
        <3>1. p[i] <= p[i + 0]
            BY <1>2, <2>1
        <3> QED
            BY <2>1, <3>1
    <2>3. ASSUME NEW k \in 1 .. n - i, k - 1 \in P PROVE k \in P
        <3>1. i + (k - 1) \in 1 .. n - 1 /\ (i + (k - 1)) + 1 = i + k /\ i + k \in 1 .. n
            BY <1>2
        <3>2. p[i] <= p[i + (k - 1)]
            BY <2>3
        <3>3. PICK l : l = i + (k - 1)
            OBVIOUS
        <3>4. l \in 1 .. n - 1 /\ l + 1 = i + k /\ l \in 1 .. n
            BY <1>2, <3>1, <3>3
        <3>5. p[l] <= p[l + 1] /\ p[l] \in Nat /\ p[l + 1] \in Nat /\ p[i] \in Nat
            BY <1>2, <1>3, <3>1, <3>4
        <3>6. p[i] <= p[i + k]
            BY <3>2, <3>3, <3>4, <3>5
        <3> QED
            BY <3>6
    <2> HIDE DEF P
    <2>4. \A k \in 0 .. n - i : k \in P
        BY <2>1, <2>2, <2>3, UpTo
    <2>5. j - i \in P
        BY <2>1, <2>4
    <2> QED
        BY <2>1, <2>5 DEF P
<1> QED
    BY <1>1, <1>4 DEF IsOrdered, IsEven, IsRange

LEMMA OperandIsSet ==
    ASSUME NEW b \in Operands
    PROVE  IsCodeSet(b)
<1>1. b \in Seq(CODES) /\ IsRange(b)
    BY SetsAssumption
<1>2. PICK n : n = Len(b)
    OBVIOUS
<1>3. n \in Nat /\ \A i \in 1 .. n : b[i] \in CODES
    BY <1>1, <1>2, LenProperties, ElementOfSeq
<1>4. b = [i \in 1 .. n |-> b[i]]
    BY <1>1, <1>2, LenProperties
<1>5. \A i \in 1 .. n : b[i] \in Nat /\ b[i] <= Infinity
    BY <1>3, CodesAre
<1>6. b \in Seq(Nat)
    <2>1. b \in [1 .. n -> Nat]
        BY <1>4, <1>5
    <2> QED
        BY <1>3, <2>1
<1>7. Bounded(b)
    BY <1>2, <1>5 DEF Bounded
<1> QED
    BY <1>1, <1>6, <1>7, RangeInOrder DEF IsCodeSet

(* What every step of the calls leaves alone.                              *)
LEMMA SortStays == ASSUME SortInv, UNCHANGED sortVars PROVE SortInv' /\ given' = given
BY SameSort DEF sortVars

LEMMA Op1Keeps == ASSUME SetsInv, Op1 PROVE SetsInv'
<1>1. /\ SetsTyped /\ CallTyped /\ Owned /\ Filled /\ SortInv
      /\ at = "idle" /\ UNCHANGED sortVars
      /\ UNCHANGED << todo, folding >>
      /\ at' = "merge" /\ into' = "cr"
      /\ sets' = [sets EXCEPT !["old"] = sets["cr"], !["cr"] = Fresh]
    BY DEF SetsInv, Op1, Calls
<1>2. PICK b \in Operands, op \in { "union", "inter", "xor", "sub" } :
         merge' = Start(sets["cr"].points, b, op)
    BY DEF Op1, Points
<1>3. MergeSound' /\ merge'.out = << >>
    BY <1>1, <1>2, OperandIsSet, MergeCalled DEF Filled
<1>4. /\ sets' \in [NAMES -> CharSets]
      /\ sets'["cr"] = Fresh /\ sets'["old"] = sets["cr"]
      /\ \A n \in NAMES : n \notin { "cr", "old" } => sets'[n] = sets[n]
    <2>1. sets["cr"] \in CharSets /\ sets \in [NAMES -> CharSets]
        BY <1>1, Names DEF SetsTyped
    <2> QED
        BY <1>1, <2>1, FreshIs, Names
<1>5. SetsTyped'
    <2>1. ASSUME NEW n \in NAMES PROVE Len(sets'[n].points) <= sets'[n].size
        <3>1. CASE n = "cr"
            BY <1>4, <3>1, FreshIs, EmptySet
        <3>2. CASE n = "old"
            BY <1>1, <1>4, <3>2, Names DEF SetsTyped
        <3>3. CASE n \notin { "cr", "old" }
            BY <1>1, <1>4, <3>3 DEF SetsTyped
        <3> QED
            BY <3>1, <3>2, <3>3
    <2> QED
        BY <1>4, <2>1 DEF SetsTyped
<1>6. CallTyped'
    BY <1>1 DEF CallTyped
<1>7. Owned'
    BY <1>1, <1>4, FreshIs DEF Owned
<1>8. Filled'
    BY <1>1, <1>3, <1>4, FreshIs DEF Filled
<1> QED
    BY <1>1, <1>5, <1>6, <1>7, <1>8, SortStays DEF SetsInv

LEMMA AddBehindKeeps == ASSUME SetsInv, AddBehind PROVE SetsInv'
<1>1. /\ SetsTyped /\ CallTyped /\ Owned /\ Filled /\ SortInv
      /\ at = "idle" /\ UNCHANGED sortVars
      /\ UNCHANGED << sets, merge, into, folding >>
      /\ at' = "add"
    BY DEF SetsInv, AddBehind, Calls
<1>2. PICK b \in Operands : /\ Len(b) = 2
                            /\ sets["cr"].points # << >> => Last(sets["cr"].points) <= b[1]
                            /\ todo' = b
    BY DEF AddBehind, Points
<1>3. IsCodeSet(b) /\ IsCodeSet(sets["cr"].points)
    BY <1>1, OperandIsSet DEF Filled
<1>4. IsCodeSet(sets["cr"].points \o b)
    <2>1. PICK p, n : p = sets["cr"].points /\ n = Len(p)
        OBVIOUS
    <2>2. n \in Nat /\ \A i \in 1 .. n : p[i] \in Nat
        BY <1>3, <2>1, OrderedPoints DEF IsCodeSet
    <2>3. \A j \in 1 .. 2 : b[1] <= b[j] /\ b[j] \in Nat
        <3>1. 1 \in 1 .. 2 /\ \A j \in 1 .. 2 : 1 <= j
            OBVIOUS
        <3> QED
            BY <1>2, <1>3, <3>1, OrderedPoints DEF IsCodeSet, IsOrdered
    <2>4. ASSUME NEW i \in 1 .. n, NEW j \in 1 .. 2 PROVE p[i] <= b[j]
        <3>1. n \in 1 .. n /\ i <= n
            BY <2>2
        <3>2. p[i] <= p[n]
            BY <1>3, <2>1, <3>1 DEF IsCodeSet, IsOrdered
        <3>3. p # << >>
            BY <2>1, <3>1, EmptySet
        <3>4. p[n] <= b[1]
            BY <1>2, <2>1, <3>3 DEF Last
        <3>5. 1 \in 1 .. 2
            OBVIOUS
        <3>6. p[i] \in Nat /\ p[n] \in Nat /\ b[1] \in Nat /\ b[j] \in Nat /\ b[1] <= b[j]
            BY <2>2, <2>3, <3>1, <3>5
        <3> QED
            BY <3>2, <3>4, <3>6
    <2>5. InFront(p, b)
        BY <1>2, <2>1, <2>4 DEF InFront
    <2> QED
        BY <1>3, <2>1, <2>5, JoinedSets
<1>5. SetsTyped'
    BY <1>1 DEF SetsTyped
<1>6. CallTyped'
    BY <1>1, <1>2, <1>3 DEF CallTyped, IsCodeSet, IsOrdered
<1>7. Owned'
    BY <1>1 DEF Owned, OnlyOne
<1>8. Filled'
    BY <1>1, <1>2, <1>4 DEF Filled
<1> QED
    BY <1>1, <1>5, <1>6, <1>7, <1>8, SortStays DEF SetsInv

LEMMA CallInvertKeeps == ASSUME SetsInv, CallInvert PROVE SetsInv'
<1>1. /\ SetsTyped /\ CallTyped /\ Owned /\ Filled /\ SortInv
      /\ at = "idle" /\ UNCHANGED sortVars
      /\ UNCHANGED << sets, merge, todo, folding >>
      /\ at' = "invert" /\ into' = "cr"
    BY DEF SetsInv, CallInvert, Calls
<1>2. SetsTyped'
    BY <1>1 DEF SetsTyped
<1>3. CallTyped'
    BY <1>1 DEF CallTyped
<1>4. Owned'
    BY <1>1 DEF Owned, OnlyOne
<1>5. Filled'
    BY <1>1 DEF Filled
<1> QED
    BY <1>1, <1>2, <1>3, <1>4, <1>5, SortStays DEF SetsInv

LEMMA CallCanonicalizeKeeps == ASSUME SetsInv, CallCanonicalize PROVE SetsInv'
<1>1. /\ SetsTyped /\ CallTyped /\ Owned /\ Filled /\ SortInv
      /\ at = "idle" /\ UNCHANGED sortVars
      /\ UNCHANGED << merge, into >>
      /\ at' = "mask"
      /\ sets' = [n \in NAMES |-> IF n \in FOUR THEN Fresh ELSE sets[n]]
    BY DEF SetsInv, CallCanonicalize, Calls
<1>2. PICK is_unicode \in BOOLEAN :
         /\ folding' = [folding EXCEPT !.is_unicode = is_unicode]
         /\ todo' = CaseRange({ IF is_unicode THEN Fold ELSE Upper })
    BY DEF CallCanonicalize
<1>3. IsCodeSet(todo')
    <2>1. { IF is_unicode THEN Fold ELSE Upper } \in MASKS
        BY DEF MASKS
    <2> QED
        BY <1>2, <2>1, CaseRangeKeeps
<1>4. todo' \in Seq(Nat) /\ IsEven(todo')
    BY <1>3 DEF IsCodeSet, IsOrdered
<1>5. folding' \in Folding
    BY <1>1, <1>2 DEF CallTyped, Folding
<1>6. SetsTyped' /\ \A n \in NAMES : sets'[n] = IF n \in FOUR THEN Fresh ELSE sets[n]
    <2> DEFINE f == [n \in NAMES |-> IF n \in FOUR THEN Fresh ELSE sets[n]]
    <2>1. \A n \in NAMES : f[n] \in CharSets /\ Len(f[n].points) <= f[n].size
        <3> SUFFICES ASSUME NEW n \in NAMES PROVE f[n] \in CharSets /\ Len(f[n].points) <= f[n].size
            OBVIOUS
        <3>1. CASE n \in FOUR
            BY <3>1, FreshIs, EmptySet
        <3>2. CASE n \notin FOUR
            BY <1>1, <3>2, PointsOf
        <3> QED
            BY <3>1, <3>2
    <2>2. sets' = [n \in NAMES |-> f[n]]
        BY <1>1
    <2>3. SetsTyped' /\ \A n \in NAMES : sets'[n] = f[n]
        BY <2>1, <2>2, WrittenAll
    <2> QED
        BY <2>3
<1>7. CallTyped'
    BY <1>1, <1>4, <1>5 DEF CallTyped
<1>8. sets'["cr"] = sets["cr"] /\ \A n \in FOUR : sets'[n] = Fresh
    BY <1>6, Names DEF FOUR
<1>9. Owned'
    BY <1>1, <1>8 DEF Owned
<1>10. Filled'
    <2>1. sets'["mask"].points \o todo' = todo'
        <3>1. sets'["mask"].points = << >>
            BY <1>8, FreshIs DEF FOUR
        <3>2. << >> \o todo' = todo'
            BY <1>4, ConcatEmptySeq
        <3> QED
            BY <3>1, <3>2
    <2> QED
        BY <1>1, <1>3, <1>4, <1>8, <2>1, FreshIs DEF Filled, FOUR
<1> QED
    BY <1>1, <1>6, <1>7, <1>9, <1>10, SortStays DEF SetsInv

LEMMA MergeTurnKeeps == ASSUME SetsInv, MergeTurn PROVE SetsInv'
<1>1. /\ SetsTyped /\ CallTyped /\ Owned /\ Filled /\ SortInv
      /\ at = "merge" /\ at' = "merge" /\ UNCHANGED sortVars
      /\ UNCHANGED << into, todo, folding >>
      /\ ~Ended(merge) /\ merge' = Turn(merge)
      /\ sets' = [sets EXCEPT ![into] = With(@, merge'.out)]
    BY DEF SetsInv, MergeTurn, Inside, Turned
<1>2. into \in { "cr", "inter", "sub" } /\ into \in NAMES
    BY <1>1, Names DEF CallTyped
<1>3. MergeSound /\ sets[into].points = merge.out
    BY <1>1 DEF Filled
<1>4. MergeSound'
    <2>1. Merging(merge')
        BY <1>1, <1>3, MergeGoesOn DEF MergeSound
    <2>2. merge'.a = merge.a /\ merge'.b = merge.b /\ merge'.op = merge.op
        BY <1>1, <1>3, TurnOf DEF MergeSound
    <2>3. Bounded(merge'.out)
        BY <1>1, <1>3, TurnBounded DEF MergeSound
    <2> QED
        BY <1>3, <2>1, <2>2, <2>3 DEF MergeSound
<1>5. merge'.out \in Seq(Nat)
    BY <1>4, OrderedPoints DEF MergeSound, Merging, WellFormedMerge
<1>6. /\ SetsTyped' /\ sets'[into].points = merge'.out /\ sets'[into].live = sets[into].live
      /\ \A m \in NAMES : m # into => sets'[m] = sets[m]
    BY <1>1, <1>2, <1>5, WrittenWith
<1>7. CallTyped'
    BY <1>1 DEF CallTyped
<1>8. Owned'
    <2>1. sets'["cr"].live = sets["cr"].live
        BY <1>6, Names
    <2> QED
        BY <1>1, <2>1 DEF Owned
<1>9. Filled'
    BY <1>1, <1>2, <1>4, <1>6, Names DEF Filled, WaitsForInter
<1> QED
    BY <1>1, <1>6, <1>7, <1>8, <1>9, SortStays DEF SetsInv

LEMMA MergeEndsKeeps == ASSUME SetsInv, MergeEnds PROVE SetsInv'
<1> DEFINE merged == [sets EXCEPT ![into].points = Compress(@)]
<1>1. /\ SetsTyped /\ CallTyped /\ Owned /\ Filled /\ SortInv
      /\ at = "merge" /\ UNCHANGED sortVars /\ Ended(merge)
    BY DEF SetsInv, MergeEnds, Inside
<1>2. /\ into = "inter" => /\ sets' = merged /\ at' = "invert" /\ into' = "mask"
                           /\ UNCHANGED << todo, folding >>
      /\ into = "sub" => /\ sets' = merged /\ at' = "fold"
                         /\ todo' = CodePoints(sets["inter"].points)
                         /\ folding' = [folding EXCEPT !.idx = 1, !.now = NoInterval]
                         /\ UNCHANGED into
      /\ into = "cr" => /\ sets' = [n \in NAMES |-> IF n = "cr" THEN merged[n] ELSE Freed]
                        /\ at' = "idle" /\ UNCHANGED << into, todo, folding >>
    BY DEF MergeEnds, Points
<1>3. into \in { "cr", "inter", "sub" } /\ into \in NAMES
    BY <1>1, Names DEF CallTyped
<1>4. PICK x : x = [sets[into] EXCEPT !.points = Compress(@)]
    OBVIOUS
<1>5. /\ x \in CharSets /\ Len(x.points) <= x.size /\ IsCodeSet(x.points)
      /\ x.live = sets[into].live
      /\ merged = [sets EXCEPT ![into] = x]
    <2>1. MergeSound /\ sets[into].points = merge.out
        BY <1>1 DEF Filled
    <2>2. PICK c : c = Compress(sets[into].points)
        OBVIOUS
    <2>3. /\ IsCodeSet(c) /\ Len(c) <= Len(sets[into].points)
          /\ c \in Seq(Nat) /\ Len(c) \in Nat
        BY <1>1, <2>1, <2>2, MergeEnded, OrderedPoints DEF IsCodeSet
    <2>4. /\ sets[into] = [points |-> sets[into].points, size |-> sets[into].size, live |-> sets[into].live]
          /\ sets[into].size \in Nat /\ sets[into].live \in BOOLEAN
          /\ Len(sets[into].points) \in Nat
          /\ Len(sets[into].points) <= sets[into].size
        BY <1>1, <1>3, PointsOf
    <2>5. x = [points |-> c, size |-> sets[into].size, live |-> sets[into].live]
        BY <1>4, <2>2, <2>4
    <2>6. x \in CharSets
        BY <2>3, <2>4, <2>5 DEF CharSets
    <2>7. merged = [sets EXCEPT ![into] = x]
        BY <1>1, <1>3, <1>4 DEF SetsTyped
    <2> HIDE DEF merged
    <2> QED
        BY <2>3, <2>4, <2>5, <2>6, <2>7
<1> HIDE DEF merged
<1>6. CASE into = "inter"
    <2>1. /\ at' = "invert" /\ into' = "mask" /\ UNCHANGED << todo, folding >>
          /\ sets' = [sets EXCEPT !["inter"] = x]
        BY <1>2, <1>5, <1>6
    <2>2. SetsTyped' /\ sets'["inter"] = x /\ \A m \in NAMES : m # "inter" => sets'[m] = sets[m]
        BY <1>1, <1>5, <2>1, Names, Written
    <2>3. CallTyped'
        BY <1>1, <2>1 DEF CallTyped
    <2>4. /\ sets'["cr"] = sets["cr"] /\ sets'["mask"] = sets["mask"] /\ sets'["sub"] = sets["sub"]
          /\ sets'["result"] = sets["result"]
        BY <2>2, Names
    <2>5. Owned'
        BY <1>1, <2>1, <2>4 DEF Owned
    <2>6. WaitsForInter'
        BY <1>1, <1>6, <2>4 DEF Filled, WaitsForInter
    <2>7. Filled'
        BY <1>5, <2>1, <2>2, <2>6 DEF Filled, WaitsForInter
    <2> QED
        BY <1>1, <2>2, <2>3, <2>5, <2>7, SortStays DEF SetsInv
<1>7. CASE into = "sub"
    <2>1. /\ at' = "fold" /\ into' = into
          /\ sets' = [sets EXCEPT !["sub"] = x]
          /\ todo' = CodePoints(sets["inter"].points)
          /\ folding' = [folding EXCEPT !.idx = 1, !.now = << >>]
        BY <1>2, <1>5, <1>7 DEF NoInterval
    <2>2. SetsTyped' /\ sets'["sub"] = x /\ \A m \in NAMES : m # "sub" => sets'[m] = sets[m]
        BY <1>1, <1>5, <2>1, Names, Written
    <2>3. sets'["cr"] = sets["cr"] /\ sets'["result"] = sets["result"]
        BY <2>2, Names
    <2>4. CallTyped'
        <3>1. todo' \in Seq(Nat)
            BY <1>1, <1>7, <2>1, CodePointsTyped DEF Filled
        <3>2. folding' \in Folding
            <4>1. << >> \in { v \in Seq(Nat) : NowOrNone(v) }
                BY EmptySeq DEF NowOrNone
            <4> QED
                <5>1. /\ folding.is_unicode \in BOOLEAN
                      /\ folding = [idx |-> folding.idx, now |-> folding.now,
                                    is_unicode |-> folding.is_unicode]
                    BY <1>1 DEF CallTyped, Folding
                <5>2. folding' = [idx |-> 1, now |-> << >>, is_unicode |-> folding.is_unicode]
                    BY <2>1, <5>1
                <5>3. 1 \in Nat \ {0}
                    OBVIOUS
                <5> QED
                    BY <4>1, <5>1, <5>2, <5>3 DEF Folding
        <3> QED
            BY <1>1, <2>1, <3>1, <3>2 DEF CallTyped
    <2>5. Owned'
        BY <1>1, <2>1, <2>3 DEF Owned
    <2>6. InPairs(sets'["result"].points)
        <3>1. sets'["result"].points = << >>
            BY <1>1, <1>7, <2>3 DEF Filled
        <3> QED
            BY <3>1, EmptySet, CodeSetInPairs
    <2>7. Filled'
        BY <1>5, <2>1, <2>2, <2>6 DEF Filled
    <2> QED
        BY <1>1, <2>2, <2>4, <2>5, <2>7, SortStays DEF SetsInv
<1>8. CASE into = "cr"
    <2>1. /\ at' = "idle" /\ into' = into /\ UNCHANGED << todo, folding >>
          /\ sets' = [n \in NAMES |-> IF n = "cr" THEN merged[n] ELSE Freed]
        BY <1>2, <1>8
    <2>2. merged["cr"] = x
        BY <1>1, <1>5, <1>8, Names DEF SetsTyped
    <2> DEFINE f == [n \in NAMES |-> IF n = "cr" THEN x ELSE Freed]
    <2>3. sets' = [n \in NAMES |-> f[n]]
        BY <2>1, <2>2
    <2>4. \A n \in NAMES : f[n] \in CharSets /\ Len(f[n].points) <= f[n].size
        <3> SUFFICES ASSUME NEW n \in NAMES PROVE f[n] \in CharSets /\ Len(f[n].points) <= f[n].size
            OBVIOUS
        <3>1. CASE n = "cr"
            BY <1>5, <3>1
        <3>2. CASE n # "cr"
            BY <3>2, FreshIs, EmptySet
        <3> QED
            BY <3>1, <3>2
    <2>5. SetsTyped' /\ \A n \in NAMES : sets'[n] = f[n]
        BY <2>3, <2>4, WrittenAll
    <2>6. sets'["cr"] = x /\ \A n \in NAMES : n # "cr" => sets'[n] = Freed
        BY <2>5, Names
    <2> HIDE DEF f
    <2>7. CallTyped'
        BY <1>1, <2>1 DEF CallTyped
    <2>8. x.live = TRUE
        BY <1>1, <1>5, <1>8, PointsOf, Names DEF Owned
    <2>9. Owned'
        BY <2>1, <2>6, <2>8, FreshIs DEF Owned, OnlyOne
    <2>10. Filled'
        BY <1>5, <2>1, <2>6 DEF Filled
    <2> QED
        BY <1>1, <2>5, <2>7, <2>9, <2>10, SortStays DEF SetsInv
<1> QED
    BY <1>3, <1>6, <1>7, <1>8

LEMMA AddKeeps == ASSUME SetsInv, Add PROVE SetsInv'
<1>1. /\ SetsTyped /\ CallTyped /\ Owned /\ Filled /\ SortInv
      /\ at = "add" /\ UNCHANGED sortVars
      /\ at' = "idle" /\ todo' = << >> /\ UNCHANGED << merge, into, folding >>
      /\ sets' = [sets EXCEPT !["cr"] = With(@, AddInterval(@.points, todo[1], todo[2]))]
    BY DEF SetsInv, Add, Inside
<1>2. PICK p : p = sets["cr"].points \o todo
    OBVIOUS
<1>3. IsCodeSet(p) /\ p \in Seq(Nat)
    BY <1>1, <1>2 DEF Filled, IsCodeSet, IsOrdered
<1>4. sets' = [sets EXCEPT !["cr"] = With(@, p)]
    <2>1. todo = << todo[1], todo[2] >>
        BY <1>1 DEF CallTyped, Filled
    <2>2. AddInterval(sets["cr"].points, todo[1], todo[2]) = p
        BY <1>2, <2>1 DEF AddInterval
    <2> QED
        BY <1>1, <2>2, Names DEF SetsTyped
<1>5. /\ SetsTyped' /\ sets'["cr"].points = p /\ sets'["cr"].live = sets["cr"].live
      /\ \A m \in NAMES : m # "cr" => sets'[m] = sets[m]
    BY <1>1, <1>3, <1>4, Names, WrittenWith
<1>6. CallTyped'
    BY <1>1, EmptySeq DEF CallTyped
<1>7. Owned'
    BY <1>1, <1>5 DEF Owned, OnlyOne
<1>8. Filled'
    BY <1>1, <1>3, <1>5 DEF Filled
<1> QED
    BY <1>1, <1>5, <1>6, <1>7, <1>8, SortStays DEF SetsInv

LEMMA InvertSetKeeps == ASSUME SetsInv, InvertSet PROVE SetsInv'
<1>1. /\ SetsTyped /\ CallTyped /\ Owned /\ Filled /\ SortInv
      /\ at = "invert" /\ UNCHANGED sortVars
      /\ UNCHANGED << todo, folding >>
      /\ sets' = [sets EXCEPT ![into] = Inverted(@)]
      /\ into = "cr" => at' = "idle" /\ UNCHANGED << merge, into >>
      /\ into # "cr" => /\ at' = "merge" /\ into' = "sub"
                        /\ merge' = Start(Invert(sets["mask"].points), sets["cr"].points, "inter")
    BY DEF SetsInv, InvertSet, Inside, Points
<1>2. into \in { "cr", "mask" } /\ into \in NAMES
    BY <1>1, Names DEF CallTyped
<1>3. PICK x : x = Inverted(sets[into])
    OBVIOUS
<1>4. PICK p : p = sets[into].points
    OBVIOUS
<1>5. IsCodeSet(p)
    BY <1>1, <1>2, <1>4 DEF Filled, WaitsForInter
<1>6. /\ x \in CharSets /\ Len(x.points) <= x.size
      /\ x.points = Invert(p) /\ IsCodeSet(Invert(p)) /\ x.live = sets[into].live
    <2>1. /\ sets[into] \in CharSets /\ sets[into].size \in Nat /\ sets[into].live \in BOOLEAN
          /\ Len(p) \in Nat /\ Len(p) + 2 \in Nat
        <3>1. /\ sets[into] \in CharSets /\ sets[into].size \in Nat
              /\ sets[into].live \in BOOLEAN /\ Len(p) \in Nat
            BY <1>1, <1>2, <1>4, PointsOf
        <3> QED
            BY <3>1
    <2>2. PICK size \in Nat :
             /\ Room(sets[into], Len(p) + 2) = [points |-> p, size |-> size, live |-> sets[into].live]
             /\ Len(p) + 2 <= size
        BY <1>4, <2>1, RoomFor
    <2>3. PICK q : q = Invert(p)
        OBVIOUS
    <2>4. x = [points |-> q, size |-> size, live |-> sets[into].live]
        BY <1>3, <1>4, <2>2, <2>3 DEF Inverted
    <2>5. IsCodeSet(q) /\ Len(q) <= Len(p) + 2 /\ q \in Seq(Nat) /\ Len(q) \in Nat
        BY <1>5, <2>3, InvertKeeps, OrderedPoints DEF IsCodeSet
    <2>6. x \in CharSets
        BY <2>1, <2>2, <2>4, <2>5 DEF CharSets
    <2> QED
        BY <2>1, <2>2, <2>3, <2>4, <2>5, <2>6
<1>7. sets' = [sets EXCEPT ![into] = x]
    BY <1>1, <1>2, <1>3 DEF SetsTyped
<1>8. SetsTyped' /\ sets'[into] = x /\ \A m \in NAMES : m # into => sets'[m] = sets[m]
    BY <1>1, <1>2, <1>6, <1>7, Written
<1>9. CASE into = "cr"
    <2>1. at' = "idle" /\ into' = into
        BY <1>1, <1>9
    <2>2. CallTyped'
        BY <1>1, <2>1 DEF CallTyped
    <2>3. Owned'
        BY <1>1, <1>6, <1>8, <1>9, <2>1 DEF Owned, OnlyOne
    <2>4. Filled'
        BY <1>6, <1>8, <1>9, <2>1 DEF Filled
    <2> QED
        BY <1>1, <1>8, <2>2, <2>3, <2>4, SortStays DEF SetsInv
<1>10. CASE into = "mask"
    <2>1. /\ at' = "merge" /\ into' = "sub"
          /\ merge' = Start(Invert(p), sets["cr"].points, "inter")
        BY <1>1, <1>4, <1>10
    <2>2. WaitsForInter /\ IsCodeSet(sets["inter"].points)
        BY <1>1, <1>10 DEF Filled
    <2>3. MergeSound' /\ merge'.out = << >>
        BY <1>6, <2>1, <2>2, MergeCalled DEF WaitsForInter
    <2>4. sets'["inter"] = sets["inter"] /\ sets'["result"] = sets["result"] /\ sets'["sub"] = sets["sub"]
          /\ sets'["cr"] = sets["cr"]
        BY <1>8, <1>10, Names
    <2>5. CallTyped'
        BY <1>1, <2>1 DEF CallTyped
    <2>6. Owned'
        BY <1>1, <2>1, <2>4 DEF Owned
    <2>7. Filled'
        BY <2>1, <2>2, <2>3, <2>4 DEF Filled, WaitsForInter
    <2> QED
        BY <1>1, <1>8, <2>5, <2>6, <2>7, SortStays DEF SetsInv
<1> QED
    BY <1>2, <1>9, <1>10

(* The next pair of a sequence of points, and the rest.                    *)
LEMMA TakeTwo ==
    ASSUME NEW q \in Seq(Nat), IsEven(q), q # << >>
    PROVE  /\ << q[1], q[2] >> \in Seq(Nat) /\ SubSeq(q, 3, Len(q)) \in Seq(Nat)
           /\ << q[1], q[2] >> \o SubSeq(q, 3, Len(q)) = q
           /\ IsEven(SubSeq(q, 3, Len(q)))
<1>1. PICK n : n = Len(q)
    OBVIOUS
<1>2. n \in Nat /\ n % 2 = 0 /\ n # 0 /\ \A i \in 1 .. n : q[i] \in Nat
    BY <1>1, LenProperties, ElementOfSeq, EmptySeq DEF IsEven
<1>3. 2 <= n /\ 1 \in 1 .. n /\ 2 \in 1 .. n
    BY <1>2
<1>4. PICK t : t = SubSeq(q, 3, n)
    OBVIOUS
<1>5. t \in Seq(Nat) /\ Len(t) = (IF 3 <= n THEN n - 3 + 1 ELSE 0)
      /\ \A i \in 1 .. n - 3 + 1 : t[i] = q[3 + i - 1]
    <2>1. 3 \in Int /\ n \in Int /\ \A i \in 3 .. n : q[i] \in Nat
        BY <1>2
    <2> QED
        BY <1>4, <2>1, SubSeqProperties
<1>6. Len(t) = n - 2 /\ (n - 2) % 2 = 0 /\ Len(t) \in Nat
    <2>1. (n - 2) % 2 = 0
        BY <1>2
    <2> QED
        BY <1>2, <1>3, <1>5, <2>1
<1>7. \A i \in 1 .. n - 2 : t[i] = q[2 + i]
    <2> SUFFICES ASSUME NEW i \in 1 .. n - 2 PROVE t[i] = q[2 + i]
        OBVIOUS
    <2>1. i \in 1 .. n - 3 + 1 /\ 3 + i - 1 = 2 + i
        BY <1>2
    <2>2. t[i] = q[3 + i - 1]
        BY <1>5, <2>1
    <2> QED
        BY <2>1, <2>2
<1>8. PICK h : h = << q[1], q[2] >>
    OBVIOUS
<1>9. h \in Seq(Nat) /\ Len(h) = 2 /\ h[1] = q[1] /\ h[2] = q[2]
    BY <1>2, <1>3, <1>8
<1>10. PICK s : s = h \o t
    OBVIOUS
<1>11. /\ s \in Seq(Nat) /\ Len(s) = n
       /\ \A i \in 1 .. 2 : s[i] = h[i]
       /\ \A j \in 1 .. n - 2 : s[2 + j] = t[j]
    <2>1. /\ s \in Seq(Nat) /\ Len(s) = Len(h) + Len(t)
          /\ \A i \in 1 .. Len(h) : s[i] = h[i]
          /\ \A j \in 1 .. Len(t) : s[Len(h) + j] = t[j]
        BY <1>5, <1>9, <1>10, Joined
    <2>2. 2 + (n - 2) = n
        BY <1>2
    <2> QED
        BY <1>6, <1>9, <2>1, <2>2
<1>12. \A i \in 1 .. n : s[i] = q[i]
    <2> SUFFICES ASSUME NEW i \in 1 .. n PROVE s[i] = q[i]
        OBVIOUS
    <2>1. CASE i = 1 \/ i = 2
        BY <1>9, <1>11, <2>1
    <2>2. CASE ~(i = 1 \/ i = 2)
        <3>1. PICK j \in 1 .. n - 2 : i = 2 + j
            <4>1. i - 2 \in 1 .. n - 2 /\ i = 2 + (i - 2)
                BY <1>2, <2>2
            <4> QED
                BY <4>1
        <3> QED
            BY <1>7, <1>11, <3>1
    <2> QED
        BY <2>1, <2>2
<1>13. s = q
    <2>1. s = [i \in 1 .. n |-> s[i]] /\ q = [i \in 1 .. n |-> q[i]]
        BY <1>1, <1>11, LenProperties
    <2> QED
        BY <1>12, <2>1
<1> QED
    BY <1>1, <1>4, <1>5, <1>6, <1>8, <1>9, <1>10, <1>13 DEF IsEven

LEMMA JoinedThrice ==
    ASSUME NEW p \in Seq(Nat), NEW q \in Seq(Nat), NEW r \in Seq(Nat)
    PROVE  (p \o q) \o r = p \o (q \o r)
<1>1. PICK u, v : u = p \o q /\ v = q \o r
    OBVIOUS
<1>2. /\ u \in Seq(Nat) /\ Len(u) = Len(p) + Len(q)
      /\ \A i \in 1 .. Len(p) : u[i] = p[i]
      /\ \A j \in 1 .. Len(q) : u[Len(p) + j] = q[j]
    BY <1>1, Joined
<1>3. /\ v \in Seq(Nat) /\ Len(v) = Len(q) + Len(r)
      /\ \A i \in 1 .. Len(q) : v[i] = q[i]
      /\ \A j \in 1 .. Len(r) : v[Len(q) + j] = r[j]
    BY <1>1, Joined
<1>4. PICK s, t : s = u \o r /\ t = p \o v
    OBVIOUS
<1>5. /\ s \in Seq(Nat) /\ Len(s) = Len(u) + Len(r)
      /\ \A i \in 1 .. Len(u) : s[i] = u[i]
      /\ \A j \in 1 .. Len(r) : s[Len(u) + j] = r[j]
    BY <1>2, <1>4, Joined
<1>6. /\ t \in Seq(Nat) /\ Len(t) = Len(p) + Len(v)
      /\ \A i \in 1 .. Len(p) : t[i] = p[i]
      /\ \A j \in 1 .. Len(v) : t[Len(p) + j] = v[j]
    BY <1>3, <1>4, Joined
<1>7. PICK a, b, c : a = Len(p) /\ b = Len(q) /\ c = Len(r)
    OBVIOUS
<1>8. a \in Nat /\ b \in Nat /\ c \in Nat
    BY <1>7, LenProperties
<1>9. Len(s) = a + b + c /\ Len(t) = a + b + c
    BY <1>2, <1>3, <1>5, <1>6, <1>7, <1>8
<1>10. \A i \in 1 .. a + b + c : s[i] = t[i]
    <2> SUFFICES ASSUME NEW i \in 1 .. a + b + c PROVE s[i] = t[i]
        OBVIOUS
    <2>1. CASE i <= a
        <3>1. i \in 1 .. a /\ i \in 1 .. a + b
            BY <1>8, <2>1
        <3>2. s[i] = u[i] /\ u[i] = p[i] /\ t[i] = p[i]
            BY <1>2, <1>5, <1>6, <1>7, <3>1
        <3> QED
            BY <3>2
    <2>2. CASE a < i /\ i <= a + b
        <3>1. PICK j \in 1 .. b : i = a + j
            <4>1. i - a \in 1 .. b /\ i = a + (i - a)
                BY <1>8, <2>2
            <4> QED
                BY <4>1
        <3>2. i \in 1 .. a + b /\ j \in 1 .. b + c
            BY <1>8, <2>2, <3>1
        <3>3. s[i] = u[i] /\ u[i] = q[j]
            BY <1>2, <1>5, <1>7, <3>1, <3>2
        <3>4. t[i] = v[j] /\ v[j] = q[j]
            BY <1>3, <1>6, <1>7, <3>1, <3>2
        <3> QED
            BY <3>3, <3>4
    <2>3. CASE a + b < i
        <3>1. PICK j \in 1 .. c : i = (a + b) + j
            <4>1. i - (a + b) \in 1 .. c /\ i = (a + b) + (i - (a + b))
                BY <1>8, <2>3
            <4> QED
                BY <4>1
        <3>2. b + j \in 1 .. b + c /\ i = a + (b + j)
            BY <1>8, <3>1
        <3>3. s[i] = r[j]
            BY <1>2, <1>5, <1>7, <3>1
        <3>4. t[i] = v[b + j] /\ v[b + j] = r[j]
            BY <1>3, <1>6, <1>7, <3>1, <3>2
        <3> QED
            BY <3>3, <3>4
    <2> QED
        BY <1>8, <2>1, <2>2, <2>3
<1>11. s = t
    <2>1. s = [i \in 1 .. a + b + c |-> s[i]] /\ t = [i \in 1 .. a + b + c |-> t[i]]
        BY <1>5, <1>6, <1>9, LenProperties
    <2> QED
        BY <1>10, <2>1
<1> QED
    BY <1>1, <1>4, <1>11

LEMMA MaskTurnKeeps == ASSUME SetsInv, MaskTurn PROVE SetsInv'
<1>1. /\ SetsTyped /\ CallTyped /\ Owned /\ Filled /\ SortInv
      /\ at = "mask" /\ at' = at /\ todo # << >> /\ UNCHANGED sortVars
      /\ todo' = SubSeq(todo, 3, Len(todo)) /\ UNCHANGED << merge, into, folding >>
      /\ sets' = [sets EXCEPT !["mask"] = With(@, AddInterval(@.points, todo[1], todo[2]))]
    BY DEF SetsInv, MaskTurn, Inside
<1>2. todo \in Seq(Nat) /\ IsEven(todo)
    BY <1>1 DEF CallTyped, Filled
<1>3. PICK m, h, t : m = sets["mask"].points /\ h = << todo[1], todo[2] >> /\ t = todo'
    OBVIOUS
<1>4. h \in Seq(Nat) /\ t \in Seq(Nat) /\ h \o t = todo /\ IsEven(t)
    BY <1>1, <1>2, <1>3, TakeTwo
<1>5. m \in Seq(Nat) /\ m \o h \in Seq(Nat) /\ (m \o h) \o t = m \o todo
    <2>1. m \in Seq(Nat)
        BY <1>1, <1>3, Names, PointsOf
    <2> QED
        <3>1. m \o h \in Seq(Nat)
            <4>1. h \in Seq(Nat)
                BY <1>4
            <4> QED
                BY <2>1, <4>1, ConcatProperties
        <3>2. (m \o h) \o t = m \o (h \o t)
            <4>1. h \in Seq(Nat) /\ t \in Seq(Nat)
                BY <1>4
            <4> QED
                BY <2>1, <4>1, JoinedThrice
        <3> QED
            BY <1>4, <2>1, <3>1, <3>2
<1>6. sets' = [sets EXCEPT !["mask"] = With(@, m \o h)]
    BY <1>1, <1>3, Names DEF SetsTyped, AddInterval
<1>7. /\ SetsTyped' /\ sets'["mask"].points = m \o h
      /\ \A n \in NAMES : n # "mask" => sets'[n] = sets[n]
    BY <1>1, <1>5, <1>6, Names, WrittenWith
<1>8. /\ sets'["cr"] = sets["cr"] /\ sets'["inter"] = sets["inter"]
      /\ sets'["sub"] = sets["sub"] /\ sets'["result"] = sets["result"]
    BY <1>7, Names
<1>9. CallTyped'
    BY <1>1, <1>3, <1>4 DEF CallTyped
<1>10. Owned'
    BY <1>1, <1>8 DEF Owned
<1>11. Filled'
    BY <1>1, <1>3, <1>4, <1>5, <1>7, <1>8 DEF Filled
<1> QED
    BY <1>1, <1>7, <1>9, <1>10, <1>11, SortStays DEF SetsInv

LEMMA MaskEndsKeeps == ASSUME SetsInv, MaskEnds PROVE SetsInv'
<1>1. /\ SetsTyped /\ CallTyped /\ Owned /\ Filled /\ SortInv
      /\ at = "mask" /\ todo = << >> /\ UNCHANGED sortVars
      /\ at' = "merge" /\ into' = "inter" /\ UNCHANGED << sets, todo, folding >>
      /\ merge' = Start(sets["mask"].points, sets["cr"].points, "inter")
    BY DEF SetsInv, MaskEnds, Inside, Points
<1>2. IsCodeSet(sets["mask"].points)
    <2>1. sets["mask"].points \in Seq(Nat)
        BY <1>1, Names, PointsOf
    <2>2. sets["mask"].points \o todo = sets["mask"].points
        BY <1>1, <2>1, ConcatEmptySeq
    <2> QED
        BY <1>1, <2>2 DEF Filled
<1>3. MergeSound' /\ merge'.out = << >>
    BY <1>1, <1>2, MergeCalled DEF Filled
<1>4. SetsTyped'
    BY <1>1 DEF SetsTyped
<1>5. CallTyped'
    BY <1>1 DEF CallTyped
<1>6. Owned'
    BY <1>1 DEF Owned
<1>7. WaitsForInter'
    BY <1>1, <1>2 DEF Filled, WaitsForInter
<1>8. Filled'
    BY <1>1, <1>3, <1>7 DEF Filled
<1> QED
    BY <1>1, <1>4, <1>5, <1>6, <1>8, SortStays DEF SetsInv

-----------------------------------------------------------------------------
LEMMA FoldsKeep ==
    ASSUME CallTyped, todo # << >>, HasEntry(folding, Head(todo))
    PROVE  /\ NowOrNone(Folds.done) /\ Folds.done \in Seq(Nat)
           /\ [folding EXCEPT !.idx = Folds.idx, !.now = Folds.now] \in Folding
           /\ Tail(todo) \in Seq(Nat)
<1>1. todo \in Seq(Nat) /\ folding \in Folding
    BY DEF CallTyped
<1>2. Head(todo) \in Nat /\ Tail(todo) \in Seq(Nat)
    BY <1>1, HeadTailProperties
<1>3. PICK i, v, u : i = folding.idx /\ v = folding.now /\ u = folding.is_unicode
    OBVIOUS
<1>4. /\ i \in Nat \ {0} /\ v \in Seq(Nat) /\ NowOrNone(v) /\ u \in BOOLEAN
      /\ folding = [idx |-> i, now |-> v, is_unicode |-> u]
    BY <1>1, <1>3 DEF Folding
<1>5. PICK c, s, t : /\ c = Head(todo) /\ s = [idx |-> i, now |-> v, done |-> << >>]
                     /\ t = FoldOne(s, c, u)
    OBVIOUS
<1>6. HasEntry(s, c)
    BY <1>3, <1>5 DEF HasEntry
<1>7. t.idx \in Nat \ {0} /\ t.now \in INTERVALS /\ NowOrNone(t.done)
    BY <1>2, <1>4, <1>5, <1>6, FoldOneKeeps
<1>8. Folds = t
    BY <1>3, <1>5 DEF Folds
<1>9. t.done \in Seq(Nat) /\ t.now \in Seq(Nat) /\ NowOrNone(t.now)
    <2>1. << >> \in Seq(Nat)
        BY EmptySeq
    <2>2. \A w \in INTERVALS : w \in Seq(Nat)
        BY IntervalSeq
    <2>3. ASSUME NEW w, NowOrNone(w) PROVE w \in Seq(Nat)
        BY <2>1, <2>2, <2>3 DEF NowOrNone
    <2>4. NowOrNone(t.now)
        BY <1>7 DEF NowOrNone
    <2> QED
        BY <1>7, <2>3, <2>4
<1>10. [folding EXCEPT !.idx = t.idx, !.now = t.now] = [idx |-> t.idx, now |-> t.now, is_unicode |-> u]
    <2>1. PICK j, w : j = t.idx /\ w = t.now
        OBVIOUS
    <2>2. PICK f : f = folding
        OBVIOUS
    <2>3. f = [idx |-> i, now |-> v, is_unicode |-> u]
        BY <1>4, <2>2
    <2>4. PICK g : g = [f EXCEPT !.idx = j]
        OBVIOUS
    <2>5. g = [idx |-> j, now |-> v, is_unicode |-> u]
        BY ONLY <2>3, <2>4
    <2>6. [g EXCEPT !.now = w] = [idx |-> j, now |-> w, is_unicode |-> u]
        BY ONLY <2>5
    <2>7. [f EXCEPT !.idx = j, !.now = w] = [g EXCEPT !.now = w]
        BY ONLY <2>4, Zenon
    <2> QED
        BY ONLY <2>1, <2>2, <2>6, <2>7
<1>11. [idx |-> t.idx, now |-> t.now, is_unicode |-> u] \in Folding
    BY <1>4, <1>7, <1>9 DEF Folding
<1> QED
    BY <1>2, <1>7, <1>8, <1>9, <1>10, <1>11

LEMMA FoldTurnKeeps == ASSUME SetsInv, FoldTurn PROVE SetsInv'
<1>1. /\ SetsTyped /\ CallTyped /\ Owned /\ Filled /\ SortInv
      /\ at = "fold" /\ at' = at /\ todo # << >> /\ UNCHANGED sortVars
      /\ HasEntry(folding, Head(todo))
      /\ UNCHANGED << merge, into >>
      /\ folding' = [folding EXCEPT !.idx = Folds.idx, !.now = Folds.now]
      /\ todo' = Tail(todo)
      /\ sets' = [sets EXCEPT !["result"] = With(@, @.points \o Folds.done)]
    BY DEF SetsInv, FoldTurn, Inside
<1>2. /\ NowOrNone(Folds.done) /\ Folds.done \in Seq(Nat)
      /\ folding' \in Folding /\ todo' \in Seq(Nat)
    BY <1>1, FoldsKeep
<1>3. PICK r : r = sets["result"].points \o Folds.done
    OBVIOUS
<1>4. InPairs(r) /\ r \in Seq(Nat)
    <2>1. InPairs(sets["result"].points)
        BY <1>1 DEF Filled
    <2>2. InPairs(r)
        BY <1>2, <1>3, <2>1, PairsOrNone
    <2> QED
        BY <2>2 DEF InPairs
<1>5. sets' = [sets EXCEPT !["result"] = With(@, r)]
    BY <1>1, <1>3, Names DEF SetsTyped
<1>6. /\ SetsTyped' /\ sets'["result"].points = r
      /\ \A n \in NAMES : n # "result" => sets'[n] = sets[n]
    BY <1>1, <1>4, <1>5, Names, WrittenWith
<1>7. sets'["cr"] = sets["cr"] /\ sets'["sub"] = sets["sub"]
    BY <1>6, Names
<1>8. CallTyped'
    BY <1>1, <1>2 DEF CallTyped
<1>9. Owned'
    BY <1>1, <1>7 DEF Owned
<1>10. Filled'
    BY <1>1, <1>4, <1>6, <1>7 DEF Filled
<1> QED
    BY <1>1, <1>6, <1>8, <1>9, <1>10, SortStays DEF SetsInv

LEMMA IntervalDroppedKeeps == ASSUME SetsInv, IntervalDropped PROVE SetsInv'
<1>1. /\ SetsTyped /\ CallTyped /\ Owned /\ Filled /\ SortInv
      /\ at = "fold" /\ at' = at /\ todo # << >> /\ UNCHANGED sortVars
      /\ HasEntry(folding, Head(todo))
      /\ UNCHANGED << sets, merge, into >>
      /\ folding' = [folding EXCEPT !.idx = Folds.idx, !.now = Folds.now]
      /\ todo' = Tail(todo)
    BY DEF SetsInv, IntervalDropped
<1>2. folding' \in Folding /\ todo' \in Seq(Nat)
    BY <1>1, FoldsKeep
<1>3. SetsTyped'
    BY <1>1 DEF SetsTyped
<1>4. CallTyped'
    BY <1>1, <1>2 DEF CallTyped
<1>5. Owned'
    BY <1>1 DEF Owned
<1>6. Filled'
    BY <1>1 DEF Filled
<1> QED
    BY <1>1, <1>3, <1>4, <1>5, <1>6, SortStays DEF SetsInv

LEMMA FoldEndsKeeps == ASSUME SetsInv, FoldEnds PROVE SetsInv'
<1>1. PICK all : all = sets["result"].points \o folding.now
    OBVIOUS
<1>2. /\ SetsTyped /\ CallTyped /\ Owned /\ Filled /\ SortInv
      /\ at = "fold" /\ at' = "sort" /\ UNCHANGED << merge, into, todo, folding >>
      /\ Call(Intervals(all))
      /\ sets' = [sets EXCEPT !["result"] = With(@, all)]
    BY <1>1 DEF SetsInv, FoldEnds, Points
<1>3. InPairs(all) /\ all \in Seq(Nat)
    <2>1. NowOrNone(folding.now)
        BY <1>2 DEF CallTyped, Folding
    <2>2. InPairs(sets["result"].points)
        BY <1>2 DEF Filled
    <2>3. InPairs(all)
        BY <1>1, <2>1, <2>2, PairsOrNone
    <2> QED
        BY <2>3 DEF InPairs
<1>4. PICK v : v = Intervals(all)
    OBVIOUS
<1>5. /\ Len(v) \in Nat /\ 2 * Len(v) = Len(all) /\ v = [i \in 1 .. Len(v) |-> v[i]]
      /\ \A i \in 1 .. Len(v) : v[i] \in INTERVALS
    BY <1>3, <1>4, IntervalsIn
<1>6. SortInv' /\ given' = v
    <2>1. Elements(v)
        BY <1>5, IntervalElements
    <2> QED
        BY <1>2, <1>4, <2>1, CallSorts DEF Call
<1>7. /\ SetsTyped' /\ sets'["result"].points = all
      /\ \A n \in NAMES : n # "result" => sets'[n] = sets[n]
    BY <1>2, <1>3, Names, WrittenWith
<1>8. sets'["cr"] = sets["cr"] /\ sets'["sub"] = sets["sub"]
    BY <1>7, Names
<1>9. CallTyped'
    BY <1>2 DEF CallTyped
<1>10. Owned'
    BY <1>2, <1>8 DEF Owned
<1>11. 2 * Len(given') <= Len(sets'["result"].points) /\ \A k \in 1 .. Len(given') : given'[k] \in INTERVALS
    BY <1>5, <1>6, <1>7
<1>12. Filled'
    BY <1>2, <1>8, <1>11 DEF Filled
<1> QED
    BY <1>6, <1>7, <1>9, <1>10, <1>12 DEF SetsInv

(* What rqsort leaves in the array are still intervals.                    *)
LEMMA ArrayOfIntervals ==
    ASSUME SortInv, \A k \in 1 .. Len(given) : given[k] \in INTERVALS
    PROVE  /\ Len(given) \in Nat /\ Len(array) = Len(given)
           /\ \A k \in 1 .. Len(array) : array[k] \in INTERVALS
<1>1. PICK n : n = Len(given)
    OBVIOUS
<1>2. n \in Nat /\ array \in Arranged(given, 1, n, n)
    BY <1>1, SortFacts DEF SortInv, Total
<1>3. PICK p \in Perms(1, n, n) : array = [i \in 1 .. n |-> given[p[i]]]
    BY <1>2 DEF Arranged
<1>4. p \in [1 .. n -> 1 .. n]
    BY DEF Perms
<1>5. Len(array) = n
    BY <1>2, <1>3
<1>6. ASSUME NEW k \in 1 .. n PROVE array[k] \in INTERVALS
    <2>1. array[k] = given[p[k]] /\ p[k] \in 1 .. n
        BY <1>3, <1>4
    <2> QED
        BY <1>1, <2>1
<1> QED
    BY <1>1, <1>2, <1>5, <1>6

LEMMA SortedKeeps == ASSUME SetsInv, Sorted PROVE SetsInv'
<1>1. PICK r : r = AbsorbAll(array)
    OBVIOUS
<1>2. /\ SetsTyped /\ CallTyped /\ Owned /\ Filled /\ SortInv
      /\ at = "sort" /\ Call(<< >>)
      /\ sets' = [sets EXCEPT !["result"].points = r, !["cr"].points = << >>]
      /\ merge' = Start(r, sets["sub"].points, "union")
      /\ at' = "merge" /\ into' = "cr" /\ UNCHANGED << todo, folding >>
    BY <1>1 DEF SetsInv, Sorted, Points
<1>3. /\ IsCodeSet(sets["sub"].points)
      /\ \A k \in 1 .. Len(given) : given[k] \in INTERVALS
      /\ 2 * Len(given) <= Len(sets["result"].points)
    BY <1>2 DEF Filled
<1>4. IsCodeSet(r) /\ Len(r) <= Len(sets["result"].points) /\ r \in Seq(Nat) /\ Len(r) \in Nat
    <2>1. PICK n \in Nat : n = Len(given) /\ n = Len(array) /\ \A k \in 1 .. n : array[k] \in INTERVALS
        BY <1>2, <1>3, ArrayOfIntervals
    <2>2. IsCodeSet(r) /\ Len(r) <= 2 * n
        BY <1>1, <2>1, AbsorbAllKeeps
    <2>3. r \in Seq(Nat) /\ Len(r) \in Nat
        BY <2>2, OrderedPoints DEF IsCodeSet
    <2>4. Len(sets["result"].points) \in Nat
        BY <1>2, Names, PointsOf
    <2> QED
        BY <1>3, <2>1, <2>2, <2>3, <2>4
<1>5. SortInv' /\ given' = << >>
    BY <1>2, NoElements, CallSorts DEF Call
<1>6. PICK x, y : /\ x = [sets["result"] EXCEPT !.points = r]
                  /\ y = [sets["cr"] EXCEPT !.points = << >>]
    OBVIOUS
<1>7. /\ sets' \in [NAMES -> CharSets]
      /\ sets'["result"] = x /\ sets'["cr"] = y
      /\ \A n \in NAMES : n \notin { "cr", "result" } => sets'[n] = sets[n]
      /\ x.points = r /\ x.size = sets["result"].size
      /\ y.points = << >> /\ y.size = sets["cr"].size /\ y.live = sets["cr"].live
    <2>1. sets \in [NAMES -> CharSets]
        BY <1>2 DEF SetsTyped
    <2>2. \A n \in NAMES :
             /\ sets[n] = [points |-> sets[n].points, size |-> sets[n].size, live |-> sets[n].live]
             /\ sets[n].size \in Nat /\ sets[n].live \in BOOLEAN
        BY <1>2, PointsOf
    <2>3. /\ x = [points |-> r, size |-> sets["result"].size, live |-> sets["result"].live]
          /\ y = [points |-> << >>, size |-> sets["cr"].size, live |-> sets["cr"].live]
        <3>1. ASSUME NEW s, NEW p, s = [points |-> s.points, size |-> s.size, live |-> s.live]
              PROVE  [s EXCEPT !.points = p] = [points |-> p, size |-> s.size, live |-> s.live]
            BY <3>1
        <3>2. /\ sets["result"] = [points |-> sets["result"].points, size |-> sets["result"].size,
                                   live |-> sets["result"].live]
              /\ sets["cr"] = [points |-> sets["cr"].points, size |-> sets["cr"].size,
                               live |-> sets["cr"].live]
            BY <2>2, Names
        <3> QED
            BY <1>6, <3>1, <3>2
    <2>4. x \in CharSets /\ y \in CharSets
        <3>1. << >> \in Seq(Nat)
            BY EmptySeq
        <3>2. /\ sets["result"].size \in Nat /\ sets["result"].live \in BOOLEAN
              /\ sets["cr"].size \in Nat /\ sets["cr"].live \in BOOLEAN
            BY <2>2, Names
        <3>3. x \in CharSets
            BY <1>4, <2>3, <3>2 DEF CharSets
        <3>4. y \in CharSets
            BY <2>3, <3>1, <3>2 DEF CharSets
        <3> QED
            BY <3>3, <3>4
    <2>5. sets' = [sets EXCEPT !["result"] = x, !["cr"] = y]
        BY <1>2, <1>6, <2>1, Names
    <2> QED
        BY <2>1, <2>3, <2>4, <2>5, Names
<1>8. SetsTyped'
    <2>1. ASSUME NEW n \in NAMES PROVE Len(sets'[n].points) <= sets'[n].size
        <3>1. CASE n = "cr"
            <4>1. sets["cr"].size \in Nat
                BY <1>2, Names, PointsOf
            <4> QED
                BY <1>7, <3>1, <4>1, EmptySet
        <3>2. CASE n = "result"
            <4>1. /\ Len(sets["result"].points) <= sets["result"].size
                  /\ Len(sets["result"].points) \in Nat /\ sets["result"].size \in Nat
                BY <1>2, Names, PointsOf
            <4> QED
                BY <1>4, <1>7, <3>2, <4>1
        <3>3. CASE n \notin { "cr", "result" }
            BY <1>2, <1>7, <3>3 DEF SetsTyped
        <3> QED
            BY <3>1, <3>2, <3>3
    <2> QED
        BY <1>7, <2>1 DEF SetsTyped
<1>9. CallTyped'
    BY <1>2 DEF CallTyped
<1>10. Owned'
    BY <1>2, <1>7 DEF Owned
<1>11. MergeSound' /\ merge'.out = << >>
    BY <1>2, <1>3, <1>4, MergeCalled
<1>12. Filled'
    BY <1>2, <1>7, <1>11 DEF Filled
<1> QED
    BY <1>5, <1>8, <1>9, <1>10, <1>12 DEF SetsInv

-----------------------------------------------------------------------------
LEMMA FreeIs ==
    ASSUME SetsTyped, NEW names, sets' = Free(names)
    PROVE  SetsTyped' /\ \A n \in NAMES : sets'[n] = IF n \in names THEN Freed ELSE sets[n]
<1> DEFINE f == [n \in NAMES |-> IF n \in names THEN Freed ELSE sets[n]]
<1>1. sets' = [n \in NAMES |-> f[n]]
    BY DEF Free
<1>2. \A n \in NAMES : f[n] \in CharSets /\ Len(f[n].points) <= f[n].size
    <2> SUFFICES ASSUME NEW n \in NAMES PROVE f[n] \in CharSets /\ Len(f[n].points) <= f[n].size
        OBVIOUS
    <2>1. CASE n \in names
        BY <2>1, FreshIs, EmptySet
    <2>2. CASE n \notin names
        BY <2>2, PointsOf
    <2> QED
        BY <2>1, <2>2
<1> QED
    BY <1>1, <1>2, WrittenAll

LEMMA OutOfMemoryKeeps == ASSUME SetsInv, OutOfMemory PROVE SetsInv'
<1>1. /\ SetsTyped /\ CallTyped /\ Owned /\ Filled /\ SortInv
      /\ UNCHANGED sortVars /\ UNCHANGED << merge, into, todo, folding >>
      /\ sets' = Free(FOUR \union { "old" }) /\ at' = "failed"
    BY DEF SetsInv, OutOfMemory
<1>2. at # "over"
    <2> SUFFICES ASSUME at = "over" PROVE FALSE
        OBVIOUS
    <2>1. Request = Nothing
        BY DEF Request
    <2>2. 0 > sets["cr"].size
        BY <2>1 DEF OutOfMemory, Refused, Nothing, Asks
    <2>3. sets["cr"].size \in Nat
        BY <1>1, Names, PointsOf
    <2> QED
        BY <2>2, <2>3
<1>3. /\ SetsTyped'
      /\ \A n \in NAMES : sets'[n] = IF n \in FOUR \union { "old" } THEN Freed ELSE sets[n]
    BY <1>1, FreeIs
<1>4. CallTyped'
    BY <1>1 DEF CallTyped
<1>5. sets["cr"].live = TRUE
    BY <1>1, <1>2, Names, PointsOf DEF Owned
<1>6. \A n \in NAMES : sets'[n].live <=> n = "cr"
    <2> SUFFICES ASSUME NEW n \in NAMES PROVE sets'[n].live <=> n = "cr"
        OBVIOUS
    <2>1. CASE n = "cr"
        BY <1>3, <1>5, <2>1, Names
    <2>2. CASE n # "cr"
        BY <1>3, <2>2, Names, FreshIs
    <2> QED
        BY <2>1, <2>2
<1>7. Owned'
    BY <1>1, <1>6, Names DEF Owned, OnlyOne
<1>8. Filled'
    BY <1>1 DEF Filled
<1> QED
    BY <1>1, <1>3, <1>4, <1>7, <1>8, SortStays DEF SetsInv

LEMMA ClientFreesKeeps == ASSUME SetsInv, ClientFrees PROVE SetsInv'
<1>1. /\ SetsTyped /\ CallTyped /\ Owned /\ Filled /\ SortInv
      /\ at \in { "idle", "failed" }
      /\ UNCHANGED sortVars /\ UNCHANGED << merge, into, todo, folding >>
      /\ sets' = Free({ "cr" }) /\ at' = "over"
    BY DEF SetsInv, ClientFrees
<1>2. /\ SetsTyped' /\ \A n \in NAMES : sets'[n] = IF n \in { "cr" } THEN Freed ELSE sets[n]
    BY <1>1, FreeIs
<1>3. CallTyped'
    BY <1>1 DEF CallTyped
<1>4. \A n \in NAMES : ~sets'[n].live
    <2> SUFFICES ASSUME NEW n \in NAMES PROVE ~sets'[n].live
        OBVIOUS
    <2>1. CASE n = "cr"
        BY <1>2, <2>1, FreshIs
    <2>2. CASE n # "cr"
        BY <1>1, <1>2, <2>2 DEF Owned, OnlyOne
    <2> QED
        BY <2>1, <2>2
<1>5. Owned'
    BY <1>1, <1>4 DEF Owned
<1>6. Filled'
    BY <1>1 DEF Filled
<1> QED
    BY <1>1, <1>2, <1>3, <1>5, <1>6, SortStays DEF SetsInv

-----------------------------------------------------------------------------
(* What the switch of cr_op says of a code point is what the operation     *)
(* makes of the two sets.                                                  *)
LEMMA CombinedIs ==
    ASSUME NEW op \in { "union", "inter", "xor", "sub" }, NEW A, NEW B, NEW c
    PROVE  c \in Promise!Combined(A, op, B) <=> IsIn(op, c \in A, c \in B)
<1>1. CASE op = "union"
    BY <1>1 DEF Promise!Combined, IsIn
<1>2. CASE op = "inter"
    BY <1>2 DEF Promise!Combined, IsIn
<1>3. CASE op = "xor"
    BY <1>3 DEF Promise!Combined, IsIn
<1>4. CASE op = "sub"
    BY <1>4 DEF Promise!Combined, IsIn
<1> QED
    BY <1>1, <1>2, <1>3, <1>4

LEMMA MergeSays ==
    ASSUME MergeSound, Points(into) = merge.out PROVE MergedSoFar
<1>1. /\ IsOrdered(merge.a) /\ IsOrdered(merge.b)
      /\ IsEven(merge.a) /\ IsEven(merge.b)
      /\ merge.op \in { "union", "inter", "xor", "sub" }
    BY DEF MergeSound, Merging, WellFormedMerge
<1>2. ASSUME NEW points, IsOrdered(points), IsEven(points) PROVE IsRange(points)
    <2>1. Len(points) \in Nat
        BY <1>2, OrderedPoints
    <2>2. \A i \in 1 .. Len(points) - 1 :
             i \in 1 .. Len(points) /\ i + 1 \in 1 .. Len(points) /\ i <= i + 1
        BY <2>1
    <2> QED
        BY <1>2, <2>2 DEF IsRange, IsEven, IsOrdered
<1>3. ASSUME NEW points, IsOrdered(points), NEW c \in ToSet(points) PROVE c \in Nat
    BY <1>3, OrderedPoints DEF ToSet
<1>4. ASSUME NEW c \in Nat, Ahead(c, merge.a, merge.ai), Ahead(c, merge.b, merge.bi)
      PROVE  Holds(c, Points(into)) <=> IsIn(merge.op, Holds(c, merge.a), Holds(c, merge.b))
    <2>1. Below(merge, c)
        BY <1>4 DEF Ahead, Below
    <2> QED
        BY <2>1 DEF MergeSound, Merging, RightSoFar
<1> DEFINE points == ToSet(merge.a) \union ToSet(merge.b)
           InSet(p) == { c \in points : Holds(c, p) }
<1>5. ASSUME NEW c \in points, Ahead(c, merge.a, merge.ai), Ahead(c, merge.b, merge.bi)
      PROVE  Holds(c, Points(into))
                 <=> c \in Promise!Combined(InSet(merge.a), merge.op, InSet(merge.b))
    <2>1. c \in Nat
        BY <1>1, <1>3
    <2>2. Holds(c, Points(into)) <=> IsIn(merge.op, Holds(c, merge.a), Holds(c, merge.b))
        BY <1>4, <1>5, <2>1
    <2>3. (c \in InSet(merge.a) <=> Holds(c, merge.a))
          /\ (c \in InSet(merge.b) <=> Holds(c, merge.b))
        OBVIOUS
    <2>4. c \in Promise!Combined(InSet(merge.a), merge.op, InSet(merge.b))
              <=> IsIn(merge.op, c \in InSet(merge.a), c \in InSet(merge.b))
        BY <1>1, CombinedIs
    <2> QED
        BY <2>2, <2>3, <2>4 DEF IsIn
<1> QED
    BY <1>1, <1>2, <1>5 DEF MergedSoFar

LEMMA NextSets == SetsInv /\ [Next]_<< setVars, sortVars >> => SetsInv'
<1> SUFFICES ASSUME SetsInv, [Next]_<< setVars, sortVars >> PROVE SetsInv'
    OBVIOUS
<1>1. CASE Op1 \/ AddBehind \/ CallInvert \/ CallCanonicalize
    BY <1>1, Op1Keeps, AddBehindKeeps, CallInvertKeeps, CallCanonicalizeKeeps
<1>2. CASE MergeTurn \/ MergeEnds \/ Add \/ InvertSet
    BY <1>2, MergeTurnKeeps, MergeEndsKeeps, AddKeeps, InvertSetKeeps
<1>3. CASE MaskTurn \/ MaskEnds \/ FoldTurn \/ FoldEnds \/ Sorted
    BY <1>3, MaskTurnKeeps, MaskEndsKeeps, FoldTurnKeeps, FoldEndsKeeps, SortedKeeps
<1>4. CASE OutOfMemory \/ IntervalDropped \/ ClientFrees
    BY <1>4, OutOfMemoryKeeps, IntervalDroppedKeeps, ClientFreesKeeps
<1>5. CASE SortStep /\ UNCHANGED setVars
    BY <1>5, SortStepSorts, GivenStays, SameSets DEF SetsInv
<1>6. CASE UNCHANGED << setVars, sortVars >>
    BY <1>6, SortStays, SameSets DEF SetsInv
<1> QED
    BY <1>1, <1>2, <1>3, <1>4, <1>5, <1>6 DEF Next

LEMMA SetsStayRight == Spec => []SetsInv
BY InitSets, NextSets, PTL DEF Spec

LEMMA SetsInvSays == SetsInv => OneSetLeft /\ MergedSoFar /\ SortsArray
<1> SUFFICES ASSUME SetsInv PROVE OneSetLeft /\ MergedSoFar /\ SortsArray
    OBVIOUS
<1>1. SetsTyped /\ Owned /\ Filled /\ SortInv
    BY DEF SetsInv
<1>2. OneSetLeft
    BY <1>1 DEF SetsTyped, Owned, OnlyOne, OneSetLeft, Points
<1>3. MergedSoFar
    <2> SUFFICES ASSUME at = "merge" PROVE MergedSoFar
        BY DEF MergedSoFar
    <2>1. Points(into) = merge.out /\ MergeSound
        BY <1>1 DEF Filled, Points
    <2> QED
        BY <2>1, MergeSays
<1> QED
    BY <1>1, <1>2, <1>3, SortInvSays

-----------------------------------------------------------------------------
(* However far the loop of cr_op has come, below the points that are still *)
(* to be read the set it writes is what the operation says of the sets it  *)
(* reads, and these are in order: in every call of the library, also in    *)
(* those that hand the result of one merge to the next, for all operands,  *)
(* all entries of the case table and any growth of the buffers.            *)
THEOREM MergeStaysRight == Spec => []MergedSoFar
BY SetsStayRight, SetsInvSays, PTL

(* Whatever memory a call is refused, and wherever it stands, between two  *)
(* calls and after a failed one only the set of the client is left to be   *)
(* freed, at the end none is, and no set has more points than its buffer   *)
(* has room for (cr_op1, cr_regexp_canonicalize, cr_realloc).              *)
THEOREM OneSetIsLeft == Spec => []OneSetLeft
BY SetsStayRight, SetsInvSays, PTL

(* The sort that cr_sort_and_remove_overlap calls leaves the intervals in  *)
(* order and loses none, in all calls of UnicodeSets.                      *)
THEOREM ArraysGetSorted == Spec => []SortsArray
BY SetsStayRight, SetsInvSays, PTL

-----------------------------------------------------------------------------
(* What sequences of points hold, from how they are put together.          *)
LEMMA HoldsIn ==
    ASSUME NEW p \in Seq(Nat), IsEven(p), NEW c \in Nat
    PROVE  Holds(c, p) <=>
               \E i \in 1 .. Len(p) : /\ i % 2 = 1 /\ i + 1 \in 1 .. Len(p)
                                      /\ p[i] <= c /\ c < p[i + 1]
<1>1. PICK n \in Nat : n = Len(p)
    BY LenProperties
<1>2. DOMAIN p = 1 .. n /\ n % 2 = 0
    BY <1>1, LenProperties DEF IsEven
<1>3. \A i \in 1 .. n : i % 2 = 1 => i < n /\ i + 1 \in 1 .. n
    BY <1>2
<1> QED
    BY <1>1, <1>2, <1>3 DEF Holds

LEMMA OddShift ==
    ASSUME NEW m \in Nat, m % 2 = 0, NEW i \in Nat
    PROVE  (m + i) % 2 = 1 <=> i % 2 = 1
OBVIOUS

LEMMA HoldsJoined ==
    ASSUME NEW p \in Seq(Nat), IsEven(p), NEW q \in Seq(Nat), IsEven(q), NEW c \in Nat
    PROVE  /\ p \o q \in Seq(Nat) /\ IsEven(p \o q)
           /\ Holds(c, p \o q) <=> Holds(c, p) \/ Holds(c, q)
<1>1. PICK m, n, r : m = Len(p) /\ n = Len(q) /\ r = p \o q
    OBVIOUS
<1>2. /\ r \in Seq(Nat) /\ Len(r) = m + n /\ m \in Nat /\ n \in Nat
      /\ \A i \in 1 .. m : r[i] = p[i]
      /\ \A j \in 1 .. n : r[m + j] = q[j]
    BY <1>1, Joined
<1>3. m % 2 = 0 /\ n % 2 = 0 /\ (m + n) % 2 = 0
    BY <1>1, <1>2, EvenSum DEF IsEven
<1>4. IsEven(r)
    BY <1>2, <1>3 DEF IsEven
<1>5. ASSUME Holds(c, p) PROVE Holds(c, r)
    <2>1. PICK i \in 1 .. m : i % 2 = 1 /\ i + 1 \in 1 .. m /\ p[i] <= c /\ c < p[i + 1]
        BY <1>1, <1>5, HoldsIn
    <2>2. i \in 1 .. m + n /\ i + 1 \in 1 .. m + n /\ r[i] = p[i] /\ r[i + 1] = p[i + 1]
        BY <1>2, <2>1
    <2> QED
        BY <1>2, <1>4, <2>1, <2>2, HoldsIn
<1>6. ASSUME Holds(c, q) PROVE Holds(c, r)
    <2>1. PICK j \in 1 .. n : j % 2 = 1 /\ j + 1 \in 1 .. n /\ q[j] <= c /\ c < q[j + 1]
        BY <1>1, <1>6, HoldsIn
    <2>2. PICK i : i = m + j
        OBVIOUS
    <2>3. i \in 1 .. m + n /\ i + 1 \in 1 .. m + n /\ i + 1 = m + (j + 1)
        BY <1>2, <2>1, <2>2
    <2>5. i % 2 = 1
        <3>1. j \in Nat
            BY <1>2, <2>1
        <3>2. (m + j) % 2 = 1 <=> j % 2 = 1
            BY <1>2, <1>3, <3>1, OddShift
        <3> QED
            BY <2>1, <2>2, <3>2
    <2>4. r[i] = q[j] /\ r[i + 1] = q[j + 1]
        BY <1>2, <2>1, <2>2, <2>3
    <2> QED
        BY <1>2, <1>4, <2>1, <2>3, <2>4, <2>5, HoldsIn
<1>7. ASSUME Holds(c, r) PROVE Holds(c, p) \/ Holds(c, q)
    <2>1. PICK i \in 1 .. m + n : i % 2 = 1 /\ i + 1 \in 1 .. m + n /\ r[i] <= c /\ c < r[i + 1]
        BY <1>2, <1>4, <1>7, HoldsIn
    <2>2. CASE i <= m
        <3>1. i \in 1 .. m /\ i + 1 \in 1 .. m
            BY <1>2, <1>3, <2>1, <2>2
        <3>2. r[i] = p[i] /\ r[i + 1] = p[i + 1]
            BY <1>2, <3>1
        <3> QED
            BY <1>1, <2>1, <3>1, <3>2, HoldsIn
    <2>3. CASE ~(i <= m)
        <3>1. PICK j : j = i - m
            OBVIOUS
        <3>4. j \in 1 .. n /\ i = m + j /\ i + 1 = m + (j + 1)
            BY <1>2, <2>1, <2>3, <3>1
        <3>5. j % 2 = 1
            <4>1. j \in Nat
                BY <1>2, <3>4
            <4>2. (m + j) % 2 = 1 <=> j % 2 = 1
                BY <1>2, <1>3, <4>1, OddShift
            <4> QED
                BY <2>1, <3>4, <4>2
        <3>2. j \in 1 .. n /\ j + 1 \in 1 .. n /\ i = m + j /\ i + 1 = m + (j + 1) /\ j % 2 = 1
            BY <1>2, <1>3, <3>4, <3>5
        <3>3. r[i] = q[j] /\ r[i + 1] = q[j + 1]
            BY <1>2, <3>2
        <3> QED
            BY <1>1, <2>1, <3>2, <3>3, HoldsIn
    <2> QED
        BY <2>2, <2>3
<1> QED
    BY <1>1, <1>2, <1>4, <1>5, <1>6, <1>7

LEMMA HoldsPair ==
    ASSUME NEW a \in Nat, NEW b \in Nat, NEW c \in Nat
    PROVE  /\ << a, b >> \in Seq(Nat) /\ IsEven(<< a, b >>)
           /\ Holds(c, << a, b >>) <=> a <= c /\ c < b
<1>1. PICK p : p = << a, b >>
    OBVIOUS
<1>2. p \in Seq(Nat) /\ Len(p) = 2 /\ p[1] = a /\ p[2] = b
    BY <1>1
<1>3. IsEven(p)
    BY <1>2 DEF IsEven
<1>4. \A i \in 1 .. 2 : i % 2 = 1 /\ i + 1 \in 1 .. 2 <=> i = 1
    OBVIOUS
<1>6. Holds(c, p) <=> \E i \in 1 .. Len(p) : /\ i % 2 = 1 /\ i + 1 \in 1 .. Len(p)
                                               /\ p[i] <= c /\ c < p[i + 1]
    BY <1>2, <1>3, HoldsIn
<1>5. Holds(c, p) <=> p[1] <= c /\ c < p[1 + 1]
    BY <1>2, <1>4, <1>6
<1> QED
    BY <1>1, <1>2, <1>3, <1>5

LEMMA HoldsNone == \A c : ~Holds(c, << >>)
BY DEF Holds

(* A point in a code set lies below its end.                               *)
LEMMA HoldsBelow ==
    ASSUME NEW p, IsCodeSet(p), NEW c \in Nat, Holds(c, p)
    PROVE  c < Infinity
<1>1. p \in Seq(Nat) /\ IsEven(p) /\ \A i \in 1 .. Len(p) : p[i] \in Nat /\ p[i] <= Infinity
    BY OrderedPoints DEF IsCodeSet, Bounded
<1>2. PICK i \in 1 .. Len(p) : i % 2 = 1 /\ i + 1 \in 1 .. Len(p) /\ p[i] <= c /\ c < p[i + 1]
    BY <1>1, HoldsIn
<1> QED
    BY <1>1, <1>2 DEF Infinity

-----------------------------------------------------------------------------
(* cr_compress.                                                            *)
(* All the way from i to where the inner loop stops, each interval touches *)
(* the next.                                                               *)
LEMMA RunTouches ==
    ASSUME NEW p, IsCodeSet(p), NEW i \in Nat, i % 2 = 1, i + 1 <= Len(p),
           NEW k \in Nat, i <= k, k < RunEnd(p, i), (k - i) % 2 = 0
    PROVE  k + 3 <= Len(p) /\ p[k + 1] = p[k + 2]
<1> DEFINE T == { j \in i .. Len(p) :
                    /\ (j - i) % 2 = 0
                    /\ ~(j + 3 <= Len(p) /\ p[j + 1] = p[j + 2]) }
<1>1. PICK n \in Nat : n = Len(p)
    BY OrderedPoints DEF IsCodeSet
<1>2. RunEnd(p, i) \in i .. n
    BY <1>1, RunEndIs
<1>3. T \subseteq Nat
    BY <1>1
<1>4. k \in i .. Len(p)
    BY <1>1, <1>2
<1>5. CASE k \notin T
    BY <1>4, <1>5
<1>6. CASE k \in T
    <2> HIDE DEF T
    <2>1. Min(T) <= k
        BY <1>3, <1>6, SmallestOne
    <2>2. RunEnd(p, i) <= k
        BY <2>1 DEF RunEnd, T
    <2> QED
        BY <1>2, <2>2
<1> QED
    BY <1>5, <1>6

LEMMA OddGap ==
    ASSUME NEW i \in Nat, i % 2 = 1, NEW l \in Nat, l % 2 = 1, i <= l
    PROVE  (l - i) % 2 = 0
OBVIOUS

LEMMA RunHolds ==
    ASSUME NEW p, IsCodeSet(p), NEW i \in Nat, i % 2 = 1, i + 1 <= Len(p), NEW c \in Nat,
           NEW j, j = RunEnd(p, i)
    PROVE  (\E k \in i .. j : k % 2 = 1 /\ p[k] <= c /\ c < p[k + 1])
               <=> p[i] <= c /\ c < p[j + 1]
<1>1. PICK n \in Nat : n = Len(p)
    BY OrderedPoints DEF IsCodeSet
<1>2. /\ \A k \in 1 .. n : p[k] \in Nat
      /\ \A k, l \in 1 .. n : k <= l => p[k] <= p[l]
    BY <1>1, OrderedPoints DEF IsCodeSet, IsOrdered
<1>3. j \in i .. n /\ (j - i) % 2 = 0 /\ j + 1 <= n /\ j % 2 = 1
    <2>1. j \in i .. n /\ (j - i) % 2 = 0 /\ j + 1 <= n
        BY <1>1, RunEndIs
    <2> QED
        BY <2>1
<1>4. ASSUME NEW k \in i .. j, k % 2 = 1, p[k] <= c, c < p[k + 1]
      PROVE  p[i] <= c /\ c < p[j + 1]
    <2>1. i \in 1 .. n /\ k \in 1 .. n /\ k + 1 \in 1 .. n /\ j + 1 \in 1 .. n
        BY <1>1, <1>3
    <2>2. p[i] <= p[k] /\ p[k + 1] <= p[j + 1]
        BY <1>2, <1>3, <2>1
    <2> QED
        BY <1>2, <1>4, <2>1, <2>2
<1>5. ASSUME p[i] <= c, c < p[j + 1]
      PROVE  \E k \in i .. j : k % 2 = 1 /\ p[k] <= c /\ c < p[k + 1]
    <2> DEFINE S == { k \in i .. j : k % 2 = 1 /\ c < p[k + 1] }
    <2>1. S \subseteq Nat /\ j \in S
        BY <1>1, <1>3, <1>5
    <2>2. PICK k \in S : \A l \in S : k <= l
        <3> HIDE DEF S
        <3> QED
            BY <2>1, LeastOne
    <2>3. k \in i .. j /\ k % 2 = 1 /\ c < p[k + 1]
        OBVIOUS
    <2>4. CASE k = i
        BY <1>5, <2>3, <2>4
    <2>5. CASE k # i
        <3>1. PICK l : l = k - 2
            OBVIOUS
        <3>8. k \in Nat /\ j \in Nat /\ i <= k /\ k <= j /\ k % 2 = 1 /\ k # i
            BY <1>1, <1>3, <2>3, <2>5
        <3>9. k # i + 1
            BY <3>8
        <3>10. l \in Nat /\ l + 2 = k /\ i <= l
            BY <3>1, <3>8, <3>9
        <3>11. l % 2 = 1
            BY <3>8, <3>10
        <3>12. (l - i) % 2 = 0
            BY <3>10, <3>11, OddGap
        <3>2. l \in i .. j /\ l % 2 = 1 /\ (l - i) % 2 = 0 /\ l < j /\ l + 2 = k /\ l < k /\ l \in Nat
            BY <3>8, <3>10, <3>11, <3>12
        <3>3. l \notin S
            BY <2>2, <3>2
        <3>4. ~(c < p[l + 1])
            BY <3>2, <3>3
        <3>5. p[l + 1] = p[l + 2]
            BY <1>1, <3>2, RunTouches
        <3>6. k \in 1 .. n
            BY <1>1, <1>3, <2>3
        <3>7. p[k] \in Nat /\ ~(c < p[k])
            BY <1>2, <3>2, <3>4, <3>5, <3>6
        <3> QED
            BY <2>3, <3>7
    <2> QED
        BY <2>4, <2>5
<1> QED
    BY <1>4, <1>5

(* c is in one of the intervals from i on.                                 *)
Coming(c, p, i) ==
    \E k \in i .. Len(p) : /\ k % 2 = 1 /\ k + 1 \in 1 .. Len(p)
                           /\ p[k] <= c /\ c < p[k + 1]

LEMMA CompressOneSays ==
    ASSUME NEW p, IsCodeSet(p), NEW s \in CompressStates(p), NEW c \in Nat
    PROVE  LET t == CompressOne(p, s)
           IN  /\ Holds(c, t.out) \/ Coming(c, p, t.i)
                      <=> Holds(c, s.out) \/ Coming(c, p, s.i)
               /\ t.i > s.i \/ (t.i = s.i /\ s.i > Len(p))
<1>1. PICK i, out, n : i = s.i /\ out = s.out /\ n = Len(p)
    OBVIOUS
<1>2. /\ i \in Nat /\ out \in Seq(Nat) /\ s = [i |-> i, out |-> out]
      /\ i % 2 = 1 /\ i <= n + 1 /\ IsEven(out)
    BY <1>1 DEF CompressStates, IsCodeSet
<1>3. /\ n \in Nat /\ n % 2 = 0
      /\ \A l \in 1 .. n : p[l] \in Nat
    BY <1>1, OrderedPoints DEF IsCodeSet, IsEven
<1>5. CASE i + 1 > n
    <2>1. CompressOne(p, s) = s
        BY <1>1, <1>5 DEF CompressOne
    <2>2. i > n
        BY <1>2, <1>3, <1>5
    <2> QED
        BY <1>1, <2>1, <2>2
<1>6. CASE ~(i + 1 > n) /\ p[i] = p[i + 1]
    <2>1. CompressOne(p, s) = [i |-> i + 2, out |-> out]
        BY <1>1, <1>2, <1>6 DEF CompressOne
    <2>2. ASSUME NEW k \in i .. n, k % 2 = 1, p[k] <= c, c < p[k + 1]
          PROVE  k \in i + 2 .. n
        <3>1. k # i + 1
            BY <1>2, <2>2
        <3>2. k # i
            <4>1. i \in 1 .. n
                BY <1>2, <1>3, <1>6
            <4>2. p[i] \in Nat
                BY <1>3, <4>1
            <4> QED
                BY <1>6, <2>2, <4>2
        <3> QED
            BY <1>2, <1>3, <3>1, <3>2
    <2>3. \A k \in i + 2 .. n : k \in i .. n
        BY <1>2, <1>3
    <2>4. Coming(c, p, i + 2) <=> Coming(c, p, i)
        BY <1>1, <2>2, <2>3 DEF Coming
    <2>5. i + 2 > i
        BY <1>2
    <2> QED
        BY <1>1, <2>1, <2>4, <2>5
<1>7. CASE ~(i + 1 > n) /\ p[i] # p[i + 1]
    <2>1. PICK j : j = RunEnd(p, i)
        OBVIOUS
    <2>2. CompressOne(p, s) = [i |-> j + 2, out |-> out \o << p[i], p[j + 1] >>]
        BY <1>1, <1>7, <2>1 DEF CompressOne
    <2>3. j \in Nat /\ i <= j /\ (j - i) % 2 = 0 /\ j + 1 <= n
        BY <1>1, <1>2, <1>3, <1>7, <2>1, RunEndIs
    <2>4. PICK a, b : a = p[i] /\ b = p[j + 1]
        OBVIOUS
    <2>5. i \in 1 .. n /\ j + 1 \in 1 .. n
        BY <1>2, <1>3, <2>3
    <2>6. a \in Nat /\ b \in Nat
        BY <1>3, <2>4, <2>5
    <2>7. PICK o, q : q = << a, b >> /\ o = out \o q
        OBVIOUS
    <2>8. q \in Seq(Nat) /\ IsEven(q) /\ (Holds(c, q) <=> a <= c /\ c < b)
        BY <2>6, <2>7, HoldsPair
    <2>9. Holds(c, o) <=> Holds(c, out) \/ (a <= c /\ c < b)
        BY <1>2, <2>7, <2>8, HoldsJoined
    <2>10. (\E k \in i .. j : k % 2 = 1 /\ p[k] <= c /\ c < p[k + 1]) <=> a <= c /\ c < b
        <3>1. i + 1 <= Len(p)
            BY <1>1, <1>2, <1>3, <1>7
        <3>2. (\E k \in i .. j : k % 2 = 1 /\ p[k] <= c /\ c < p[k + 1])
                  <=> p[i] <= c /\ c < p[j + 1]
            BY <1>2, <2>1, <3>1, RunHolds
        <3> QED
            BY <2>4, <3>2
    <2>11. ASSUME NEW k \in i .. n, k % 2 = 1
           PROVE  k \in i .. j \/ k \in j + 2 .. n
        BY <1>2, <1>3, <2>3, <2>11
    <2>12. \A k \in i .. j : k \in i .. n /\ k + 1 \in 1 .. n
        BY <1>2, <1>3, <2>3
    <2>13. \A k \in j + 2 .. n : k \in i .. n
        BY <1>2, <1>3, <2>3
    <2>14. Coming(c, p, i) <=> (a <= c /\ c < b) \/ Coming(c, p, j + 2)
        BY <1>1, <2>10, <2>11, <2>12, <2>13 DEF Coming
    <2>15. j + 2 > i
        BY <1>2, <2>3
    <2>16. PICK t : t = [i |-> j + 2, out |-> o]
        OBVIOUS
    <2>17. t.i = j + 2 /\ t.out = o /\ CompressOne(p, s) = t
        BY <2>2, <2>4, <2>7, <2>16
    <2> QED
        BY <1>1, <2>9, <2>14, <2>15, <2>17
<1> QED
    BY <1>5, <1>6, <1>7

(* cr_compress drops empty intervals and joins those that touch, and the   *)
(* set is the same: no code point comes in or goes out.                    *)
THEOREM CompressSays ==
    ASSUME NEW p, IsCodeSet(p), NEW c \in Nat
    PROVE  Holds(c, Compress(p)) <=> Holds(c, p)
<1>1. PICK n \in Nat : n = Len(p)
    BY OrderedPoints DEF IsCodeSet
<1>2. PICK g : /\ g[0] = [i |-> 1, out |-> << >>]
               /\ \A k \in 1 .. n : g[k] = CompressOne(p, g[k - 1])
               /\ \A k \in 0 .. n : g[k] \in CompressStates(p)
               /\ Compress(p) = g[n].out
    BY <1>1, CompressRuns
<1>3. \A k \in 0 .. n : g[k].i \in Nat
    BY <1>2 DEF CompressStates
<1> DEFINE P == { k \in 0 .. n : /\ Holds(c, g[k].out) \/ Coming(c, p, g[k].i) <=> Holds(c, p)
                                 /\ g[k].i > k \/ g[k].i > n }
<1>4. 0 \in P
    <2>1. g[0].i = 1 /\ g[0].out = << >>
        BY <1>2
    <2>2. ~Holds(c, g[0].out)
        BY <2>1, HoldsNone
    <2>3. Coming(c, p, 1) <=> Holds(c, p)
        BY OrderedPoints, HoldsIn DEF Coming, IsCodeSet
    <2> QED
        BY <2>1, <2>2, <2>3
<1>5. ASSUME NEW k \in 1 .. n, k - 1 \in P PROVE k \in P
    <2>1. PICK s, t : s = g[k - 1] /\ t = g[k]
        OBVIOUS
    <2>2. k - 1 \in 0 .. n /\ k \in 0 .. n
        OBVIOUS
    <2>3. s \in CompressStates(p) /\ t = CompressOne(p, s) /\ s.i \in Nat /\ t.i \in Nat
        BY <1>2, <1>3, <2>1, <2>2
    <2>4. /\ Holds(c, t.out) \/ Coming(c, p, t.i) <=> Holds(c, s.out) \/ Coming(c, p, s.i)
          /\ t.i > s.i \/ (t.i = s.i /\ s.i > n)
        BY <1>1, <2>3, CompressOneSays
    <2>5. /\ Holds(c, s.out) \/ Coming(c, p, s.i) <=> Holds(c, p)
          /\ s.i > k - 1 \/ s.i > n
        BY <1>5, <2>1
    <2>7. t.i > k \/ t.i > n
        BY <2>3, <2>4, <2>5
    <2> QED
        BY <2>1, <2>2, <2>4, <2>5, <2>7
<1> HIDE DEF P
<1>6. \A k \in 0 .. n : k \in P
    BY <1>4, <1>5, UpTo
<1>7. n \in P /\ n \in 0 .. n
    BY <1>6
<1>8. /\ Holds(c, g[n].out) \/ Coming(c, p, g[n].i) <=> Holds(c, p)
      /\ g[n].i > n
    BY <1>7 DEF P
<1>9. ~Coming(c, p, g[n].i)
    BY <1>1, <1>3, <1>7, <1>8 DEF Coming
<1> QED
    BY <1>2, <1>8, <1>9

-----------------------------------------------------------------------------
(* cr_invert.                                                              *)
LEMMA SplitsSomewhere ==
    ASSUME NEW p, IsOrdered(p), NEW c \in Nat
    PROVE  \E n \in 0 .. Len(p) : Splits(c, p, n)
<1>1. PICK m \in Nat : m = Len(p)
    BY OrderedPoints
<1>2. /\ \A k \in 1 .. m : p[k] \in Nat
      /\ \A k, l \in 1 .. m : k <= l => p[k] <= p[l]
    BY <1>1, OrderedPoints DEF IsOrdered
<1> DEFINE S == { n \in 0 .. m : \A i \in n + 1 .. m : c < p[i] }
<1>3. S \subseteq Nat /\ m \in S
    OBVIOUS
<1>4. PICK n \in S : \A l \in S : n <= l
    <2> HIDE DEF S
    <2> QED
        BY <1>3, LeastOne
<1>5. n \in 0 .. m /\ \A i \in n + 1 .. m : c < p[i]
    OBVIOUS
<1>6. \A i \in 1 .. n : p[i] <= c
    <2> SUFFICES ASSUME NEW i \in 1 .. n PROVE p[i] <= c
        OBVIOUS
    <2>1. n - 1 \in 0 .. m /\ ~(n <= n - 1) /\ n \in 1 .. m /\ i \in 1 .. m /\ i <= n /\ (n - 1) + 1 = n
        BY <1>1, <1>5
    <2>2. n - 1 \notin S
        BY <1>4, <2>1
    <2>3. \E k \in n .. m : ~(c < p[k])
        BY <2>1, <2>2
    <2>4. PICK k \in n .. m : ~(c < p[k])
        BY <2>3
    <2>5. k \notin n + 1 .. m
        BY <1>5, <2>4
    <2>6. k = n
        BY <1>1, <1>5, <2>4, <2>5
    <2>7. p[i] <= p[n] /\ p[i] \in Nat /\ p[n] \in Nat
        BY <1>2, <2>1
    <2> QED
        BY <2>4, <2>6, <2>7
<1> QED
    BY <1>1, <1>5, <1>6 DEF Splits

(* cr_invert holds exactly the code points that the set did not hold, up   *)
(* to the end that stands for no end.                                      *)
THEOREM InvertSays ==
    ASSUME NEW p, IsCodeSet(p), NEW c \in Nat, c < Infinity
    PROVE  Holds(c, Invert(p)) <=> ~Holds(c, p)
<1>1. PICK n \in Nat : n = Len(p)
    BY OrderedPoints DEF IsCodeSet
<1>2. PICK m, o : m = << 0 >> \o p /\ o = m \o << Infinity >>
    OBVIOUS
<1>3. IsCodeSet(o) /\ Invert(p) = Compress(o)
    BY <1>2, InvertedPoints DEF Invert
<1>4. p \in Seq(Nat) /\ IsOrdered(p) /\ IsOrdered(o)
    BY <1>3, OrderedPoints DEF IsCodeSet
<1>5. /\ Len(o) = n + 2 /\ o[1] = 0 /\ o[n + 2] = Infinity
      /\ \A i \in 1 .. n : o[i + 1] = p[i]
    <2>1. << 0 >> \in Seq(Nat) /\ Len(<< 0 >>) = 1 /\ << 0 >>[1] = 0
        OBVIOUS
    <2>2. << Infinity >> \in Seq(Nat) /\ Len(<< Infinity >>) = 1 /\ << Infinity >>[1] = Infinity
        BY DEF Infinity
    <2>3. /\ m \in Seq(Nat) /\ Len(m) = 1 + n /\ m[1] = 0
          /\ \A i \in 1 .. n : m[1 + i] = p[i]
        <3>1. PICK a : a = << 0 >>
            OBVIOUS
        <3>2. a \in Seq(Nat) /\ Len(a) = 1 /\ a[1] = 0 /\ m = a \o p /\ 1 \in 1 .. 1
            BY <1>2, <2>1, <3>1
        <3>3. /\ a \o p \in Seq(Nat) /\ Len(a \o p) = Len(a) + Len(p)
              /\ \A i \in 1 .. Len(a) : (a \o p)[i] = a[i]
              /\ \A j \in 1 .. Len(p) : (a \o p)[Len(a) + j] = p[j]
            BY <1>4, <3>2, Joined
        <3> QED
            BY <1>1, <3>2, <3>3
    <2>4. /\ Len(o) = (1 + n) + 1 /\ o[(1 + n) + 1] = Infinity
          /\ \A i \in 1 .. 1 + n : o[i] = m[i]
        <3>1. PICK b : b = << Infinity >>
            OBVIOUS
        <3>2. b \in Seq(Nat) /\ Len(b) = 1 /\ b[1] = Infinity /\ o = m \o b /\ 1 \in 1 .. 1
            BY <1>2, <2>2, <3>1
        <3>3. /\ Len(m \o b) = Len(m) + Len(b)
              /\ \A i \in 1 .. Len(m) : (m \o b)[i] = m[i]
              /\ \A j \in 1 .. Len(b) : (m \o b)[Len(m) + j] = b[j]
            BY <2>3, <3>2, Joined
        <3> QED
            BY <2>3, <3>2, <3>3
    <2>5. (1 + n) + 1 = n + 2 /\ 1 \in 1 .. 1 + n
        BY <1>1
    <2>6. \A i \in 1 .. n : 1 + i \in 1 .. 1 + n /\ 1 + i = i + 1
        BY <1>1
    <2> QED
        BY <2>3, <2>4, <2>5, <2>6
<1>6. PICK k \in 0 .. n : Splits(c, p, k)
    BY <1>1, <1>4, SplitsSomewhere
<1>7. (\A i \in 1 .. k : p[i] <= c) /\ (\A i \in k + 1 .. n : c < p[i])
    BY <1>1, <1>6 DEF Splits
<1>8. k + 1 \in 0 .. n + 2 /\ Splits(c, o, k + 1)
    <2>1. \A i \in 1 .. k + 1 : o[i] <= c
        <3> SUFFICES ASSUME NEW i \in 1 .. k + 1 PROVE o[i] <= c
            OBVIOUS
        <3>1. CASE i = 1
            BY <1>5, <3>1
        <3>2. CASE i # 1
            <4>1. i - 1 \in 1 .. k /\ i - 1 \in 1 .. n /\ (i - 1) + 1 = i
                BY <1>1, <1>6, <3>2
            <4> QED
                BY <1>5, <1>7, <4>1
        <3> QED
            BY <3>1, <3>2
    <2>2. \A i \in (k + 1) + 1 .. n + 2 : c < o[i]
        <3> SUFFICES ASSUME NEW i \in (k + 1) + 1 .. n + 2 PROVE c < o[i]
            OBVIOUS
        <3>1. CASE i = n + 2
            BY <1>5, <3>1
        <3>2. CASE i # n + 2
            <4>1. i - 1 \in k + 1 .. n /\ i - 1 \in 1 .. n /\ (i - 1) + 1 = i
                BY <1>1, <1>6, <3>2
            <4> QED
                BY <1>5, <1>7, <4>1
        <3> QED
            BY <3>1, <3>2
    <2>3. k + 1 \in 0 .. n + 2
        BY <1>1, <1>6
    <2> QED
        BY <1>5, <2>1, <2>2, <2>3 DEF Splits
<1>9. Holds(c, o) <=> (k + 1) % 2 = 1
    BY <1>4, <1>5, <1>8, HoldsByCount
<1>10. Holds(c, p) <=> k % 2 = 1
    BY <1>1, <1>4, <1>6, HoldsByCount
<1>11. (k + 1) % 2 = 1 <=> ~(k % 2 = 1)
    BY <1>6, Parity
<1>12. Holds(c, Invert(p)) <=> Holds(c, o)
    BY <1>3, CompressSays
<1> QED
    BY <1>9, <1>10, <1>11, <1>12

-----------------------------------------------------------------------------
(* The loop of cr_sort_and_remove_overlap, over intervals in the order of  *)
(* where they begin.                                                       *)
BeginsBy(p, a) == p # << >> => p[Len(p) - 1] <= a

LEMMA AbsorbSays ==
    ASSUME NEW p, IsCodeSet(p), NEW v \in INTERVALS, BeginsBy(p, v[1]), NEW c \in Nat,
           NEW q, q = Absorb(p, v)
    PROVE  /\ Holds(c, q) <=> Holds(c, p) \/ (v[1] <= c /\ c < v[2])
           /\ BeginsBy(q, v[1])
<1>1. PICK a, b : a = v[1] /\ b = v[2]
    OBVIOUS
<1>2. v = << a, b >> /\ a \in Nat /\ b \in Nat /\ a <= b /\ b <= Infinity
    BY <1>1, IntervalIs
<1>3. PICK n \in Nat : n = Len(p)
    BY OrderedPoints DEF IsCodeSet
<1>4. /\ p \in Seq(Nat) /\ IsEven(p) /\ \A i \in 1 .. n : p[i] \in Nat
      /\ \A i, j \in 1 .. n : i <= j => p[i] <= p[j]
    BY <1>3, OrderedPoints DEF IsCodeSet, IsOrdered
<1>5. n % 2 = 0
    BY <1>3, <1>4 DEF IsEven
<1>6. CASE n = 0 \/ a > p[n]
    <2>1. q = p \o << a, b >>
        BY <1>1, <1>2, <1>3, <1>6 DEF Absorb
    <2>2. PICK r : r = << a, b >>
        OBVIOUS
    <2>3. r \in Seq(Nat) /\ IsEven(r) /\ (Holds(c, r) <=> a <= c /\ c < b) /\ Len(r) = 2 /\ r[1] = a
        <3>1. Len(r) = 2 /\ r[1] = a
            BY <2>2
        <3>2. /\ << a, b >> \in Seq(Nat) /\ IsEven(<< a, b >>)
              /\ Holds(c, << a, b >>) <=> a <= c /\ c < b
            BY <1>2, HoldsPair
        <3> QED
            BY <2>2, <3>1, <3>2
    <2>4. Holds(c, q) <=> Holds(c, p) \/ Holds(c, r)
        <3>1. Holds(c, p \o r) <=> Holds(c, p) \/ Holds(c, r)
            BY <1>4, <2>3, HoldsJoined
        <3> QED
            BY <2>1, <2>2, <3>1
    <2>5. Len(q) = n + 2 /\ q[n + 1] = a
        <3>1. 1 \in 1 .. 2
            OBVIOUS
        <3>2. Len(p \o r) = n + Len(r) /\ \A j \in 1 .. Len(r) : (p \o r)[n + j] = r[j]
            BY <1>3, <1>4, <2>3, Joined
        <3> QED
            BY <2>1, <2>2, <2>3, <3>1, <3>2
    <2>6. q[Len(q) - 1] = a
        <3>1. Len(q) - 1 = n + 1
            BY <1>3, <2>5
        <3> QED
            BY <2>5, <3>1
    <2>7. BeginsBy(q, a)
        BY <1>2, <2>6 DEF BeginsBy
    <2> QED
        BY <1>1, <2>3, <2>4, <2>7
<1>7. CASE ~(n = 0 \/ a > p[n])
    <2>1. n - 1 \in 1 .. n /\ n \in 1 .. n /\ (n - 1) % 2 = 1 /\ (n - 1) + 1 = n
        BY <1>5, <1>7
    <2>2. p[n - 1] \in Nat /\ p[n] \in Nat /\ a <= p[n] /\ p[n - 1] <= a
        <3>1. p # << >>
            BY <1>3, <1>7, EmptySet
        <3> QED
            BY <1>1, <1>2, <1>3, <1>4, <1>7, <2>1, <3>1 DEF BeginsBy
    <2>3. CASE b <= p[n]
        <3>1. q = p
            BY <1>1, <1>3, <1>7, <2>3 DEF Absorb
        <3>2. ASSUME a <= c, c < b PROVE Holds(c, p)
            <4>1. p[n - 1] <= c /\ c < p[n]
                BY <1>2, <2>2, <2>3, <3>2
            <4> QED
                BY <1>3, <1>4, <2>1, <4>1, HoldsIn
        <3>3. BeginsBy(p, a)
            BY <1>1
        <3> QED
            BY <1>1, <3>1, <3>2, <3>3
    <2>4. CASE ~(b <= p[n])
        <3>1. q = [p EXCEPT ![n] = b]
            BY <1>1, <1>3, <1>7, <2>4 DEF Absorb
        <3>2. p \in [1 .. n -> Nat]
            BY <1>3, <1>4, LenProperties
        <3>3. q \in [1 .. n -> Nat] /\ q[n] = b /\ \A i \in 1 .. n : i # n => q[i] = p[i]
            BY <1>2, <2>1, <3>1, <3>2
        <3>4. q \in Seq(Nat) /\ Len(q) = n
            BY <3>3
        <3>5. IsEven(q)
            BY <1>5, <3>4 DEF IsEven
        <3>6. q[n - 1] = p[n - 1]
            BY <2>1, <3>3
        <3>7. ASSUME NEW i \in 1 .. n, i % 2 = 1, i + 1 \in 1 .. n, i # n - 1
              PROVE  q[i] = p[i] /\ q[i + 1] = p[i + 1]
            <4>1. i # n /\ i + 1 # n
                BY <1>5, <3>7
            <4> QED
                BY <3>3, <3>7, <4>1
        <3>8. ASSUME Holds(c, q) PROVE Holds(c, p) \/ (a <= c /\ c < b)
            <4>1. PICK i \in 1 .. n : i % 2 = 1 /\ i + 1 \in 1 .. n /\ q[i] <= c /\ c < q[i + 1]
                BY <3>4, <3>5, <3>8, HoldsIn
            <4>2. CASE i # n - 1
                <5>1. p[i] <= c /\ c < p[i + 1]
                    BY <3>7, <4>1, <4>2
                <5> QED
                    BY <1>3, <1>4, <4>1, <5>1, HoldsIn
            <4>3. CASE i = n - 1
                <5>1. p[n - 1] <= c /\ c < b
                    BY <2>1, <3>3, <3>6, <4>1, <4>3
                <5>2. CASE a <= c
                    BY <5>1, <5>2
                <5>3. CASE ~(a <= c)
                    <6>1. c < p[n]
                        BY <1>2, <2>2, <5>3
                    <6> QED
                        BY <1>3, <1>4, <2>1, <5>1, <6>1, HoldsIn
                <5> QED
                    BY <5>2, <5>3
            <4> QED
                BY <4>2, <4>3
        <3>9. ASSUME Holds(c, p) PROVE Holds(c, q)
            <4>1. PICK i \in 1 .. n : i % 2 = 1 /\ i + 1 \in 1 .. n /\ p[i] <= c /\ c < p[i + 1]
                BY <1>3, <1>4, <3>9, HoldsIn
            <4>2. CASE i # n - 1
                <5>1. q[i] <= c /\ c < q[i + 1]
                    BY <3>7, <4>1, <4>2
                <5> QED
                    BY <3>4, <3>5, <4>1, <5>1, HoldsIn
            <4>3. CASE i = n - 1
                <5>1. p[n - 1] <= c /\ c < p[n]
                    BY <2>1, <4>1, <4>3
                <5>2. q[n - 1] <= c /\ c < q[n]
                    BY <1>2, <2>2, <2>4, <3>3, <3>6, <5>1
                <5> QED
                    BY <2>1, <3>4, <3>5, <5>2, HoldsIn
            <4> QED
                BY <4>2, <4>3
        <3>10. ASSUME a <= c, c < b PROVE Holds(c, q)
            <4>1. q[n - 1] <= c /\ c < q[n]
                BY <1>2, <2>2, <3>3, <3>6, <3>10
            <4> QED
                BY <2>1, <3>4, <3>5, <4>1, HoldsIn
        <3>11. BeginsBy(q, a)
            BY <2>2, <3>4, <3>6 DEF BeginsBy
        <3> QED
            BY <1>1, <3>8, <3>9, <3>10, <3>11
    <2> QED
        BY <2>3, <2>4
<1> QED
    BY <1>6, <1>7

(* The loop of cr_sort_and_remove_overlap: for intervals sorted by where   *)
(* they begin, in any overlap, the set it leaves is their union.           *)
THEOREM AbsorbAllSays ==
    ASSUME NEW intervals, NEW n \in Nat, n = Len(intervals),
           \A k \in 1 .. n : intervals[k] \in INTERVALS,
           \A k, l \in 1 .. n : k <= l => intervals[k][1] <= intervals[l][1],
           NEW c \in Nat
    PROVE  Holds(c, AbsorbAll(intervals))
               <=> \E k \in 1 .. n : intervals[k][1] <= c /\ c < intervals[k][2]
<1>1. PICK g : /\ g[0] = << >>
               /\ \A k \in 1 .. n : g[k] = Absorb(g[k - 1], intervals[k])
               /\ \A k \in 0 .. n : IsCodeSet(g[k])
               /\ AbsorbAll(intervals) = g[n]
    BY AbsorbRuns
<1> DEFINE Hit(l) == intervals[l][1] <= c /\ c < intervals[l][2]
           P == { k \in 0 .. n : /\ Holds(c, g[k]) <=> \E l \in 1 .. k : Hit(l)
                                 /\ \A l \in k + 1 .. n : BeginsBy(g[k], intervals[l][1]) }
<1>2. 0 \in P
    <2>1. ~Holds(c, g[0])
        BY <1>1, HoldsNone
    <2>2. \A a : BeginsBy(g[0], a)
        BY <1>1 DEF BeginsBy
    <2> QED
        BY <2>1, <2>2
<1>3. ASSUME NEW k \in 1 .. n, k - 1 \in P PROVE k \in P
    <2>1. PICK p, q, v : p = g[k - 1] /\ q = g[k] /\ v = intervals[k]
        OBVIOUS
    <2>2. k - 1 \in 0 .. n /\ k \in 0 .. n /\ k \in (k - 1) + 1 .. n
        OBVIOUS
    <2>3. q = Absorb(p, v) /\ IsCodeSet(p) /\ IsCodeSet(q) /\ v \in INTERVALS
        BY <1>1, <2>1, <2>2
    <2>4. /\ Holds(c, p) <=> \E l \in 1 .. k - 1 : Hit(l)
          /\ BeginsBy(p, v[1])
        BY <1>3, <2>1, <2>2
    <2>5. (Holds(c, q) <=> Holds(c, p) \/ (v[1] <= c /\ c < v[2])) /\ BeginsBy(q, v[1])
        BY <2>3, <2>4, AbsorbSays
    <2>6. Holds(c, q) <=> \E l \in 1 .. k : Hit(l)
        <3>1. Hit(k) <=> v[1] <= c /\ c < v[2]
            BY <2>1
        <3>2. \A l \in 1 .. k : l \in 1 .. k - 1 \/ l = k
            OBVIOUS
        <3>3. \A l \in 1 .. k - 1 : l \in 1 .. k
            OBVIOUS
        <3>4. k \in 1 .. k
            OBVIOUS
        <3> HIDE DEF Hit
        <3> QED
            BY <2>4, <2>5, <3>1, <3>2, <3>3, <3>4
    <2>7. ASSUME NEW l \in k + 1 .. n PROVE BeginsBy(q, intervals[l][1])
        <3>1. PICK w : w = intervals[l]
            OBVIOUS
        <3>2. l \in 1 .. n /\ k <= l
            OBVIOUS
        <3>3. w \in INTERVALS /\ v[1] <= w[1]
            BY <2>1, <3>1, <3>2
        <3>4. v[1] \in Nat /\ w[1] \in Nat
            BY <2>3, <3>3, IntervalIs
        <3>5. q # << >> => q[Len(q) - 1] \in Nat
            <4>1. PICK m : m = Len(q)
                OBVIOUS
            <4>2. m \in Nat /\ m % 2 = 0 /\ q \in Seq(Nat) /\ \A i \in 1 .. m : q[i] \in Nat
                BY <2>3, <4>1, OrderedPoints DEF IsCodeSet, IsEven
            <4>3. q # << >> => m # 0
                BY <4>1, <4>2, EmptySeq
            <4>4. q # << >> => m - 1 \in 1 .. m
                BY <4>2, <4>3
            <4> QED
                BY <4>1, <4>2, <4>4
        <3> QED
            BY <2>5, <3>1, <3>3, <3>4, <3>5 DEF BeginsBy
    <2> QED
        BY <2>1, <2>2, <2>6, <2>7
<1> HIDE DEF P
<1>4. \A k \in 0 .. n : k \in P
    BY <1>2, <1>3, UpTo
<1>5. n \in P
    BY <1>4
<1> QED
    BY <1>1, <1>5 DEF P

-----------------------------------------------------------------------------
(* Pairs of points, and the code points between them.                      *)
LEMMA IntervalsSay ==
    ASSUME NEW p, InPairs(p), NEW c \in Nat
    PROVE  Holds(c, p) <=> \E k \in 1 .. Len(Intervals(p)) :
                               Intervals(p)[k][1] <= c /\ c < Intervals(p)[k][2]
<1>1. PICK n : n = Len(p)
    OBVIOUS
<1>2. n \in Nat /\ n % 2 = 0 /\ p \in Seq(Nat) /\ IsEven(p)
    BY <1>1, LenProperties DEF InPairs, IsEven
<1>3. PICK h : h = n \div 2
    OBVIOUS
<1>4. h \in Nat /\ 2 * h = n
    BY <1>2, <1>3, Halved
<1>5. PICK v : v = Intervals(p)
    OBVIOUS
<1>6. v = [i \in 1 .. h |-> << p[2 * i - 1], p[2 * i] >>]
    BY <1>1, <1>3, <1>5 DEF Intervals
<1>7. Len(v) = h
    BY <1>4, <1>6
<1>8. \A k \in 1 .. h : v[k][1] = p[2 * k - 1] /\ v[k][2] = p[2 * k]
    BY <1>6
<1>9. ASSUME NEW i \in 1 .. n, i % 2 = 1, i + 1 \in 1 .. n
      PROVE  \E k \in 1 .. h : 2 * k - 1 = i /\ 2 * k = i + 1
    <2>1. PICK k : k = (i + 1) \div 2
        OBVIOUS
    <2>2. k \in 1 .. h /\ 2 * k - 1 = i /\ 2 * k = i + 1
        BY <1>2, <1>4, <1>9, <2>1
    <2> QED
        BY <2>2
<1>10. ASSUME NEW k \in 1 .. h
       PROVE  /\ 2 * k - 1 \in 1 .. n /\ (2 * k - 1) % 2 = 1 /\ (2 * k - 1) + 1 \in 1 .. n
              /\ (2 * k - 1) + 1 = 2 * k
    BY <1>4
<1>11. Holds(c, p) <=>
           \E i \in 1 .. n : i % 2 = 1 /\ i + 1 \in 1 .. n /\ p[i] <= c /\ c < p[i + 1]
    BY <1>1, <1>2, HoldsIn
<1>12. ASSUME Holds(c, p) PROVE \E k \in 1 .. h : v[k][1] <= c /\ c < v[k][2]
    <2>1. PICK i \in 1 .. n : i % 2 = 1 /\ i + 1 \in 1 .. n /\ p[i] <= c /\ c < p[i + 1]
        BY <1>11, <1>12
    <2>2. PICK k \in 1 .. h : 2 * k - 1 = i /\ 2 * k = i + 1
        BY <1>9, <2>1
    <2>3. v[k][1] = p[i] /\ v[k][2] = p[i + 1]
        BY <1>8, <2>2
    <2> QED
        BY <2>1, <2>3
<1>13. ASSUME NEW k \in 1 .. h, v[k][1] <= c, c < v[k][2] PROVE Holds(c, p)
    <2>1. PICK i : i = 2 * k - 1
        OBVIOUS
    <2>2. i \in 1 .. n /\ i % 2 = 1 /\ i + 1 \in 1 .. n /\ i + 1 = 2 * k
        BY <1>10, <2>1
    <2>3. v[k][1] = p[i] /\ v[k][2] = p[i + 1]
        BY <1>8, <2>1, <2>2
    <2> QED
        BY <1>11, <1>13, <2>2, <2>3
<1> QED
    BY <1>5, <1>7, <1>12, <1>13

Has(p, x) == \E k \in 1 .. Len(p) : p[k] = x

LEMMA HasJoined ==
    ASSUME NEW p \in Seq(Nat), NEW q \in Seq(Nat), NEW x
    PROVE  Has(p \o q, x) <=> Has(p, x) \/ Has(q, x)
<1>1. PICK m, n, r : m = Len(p) /\ n = Len(q) /\ r = p \o q
    OBVIOUS
<1>2. /\ Len(r) = m + n /\ m \in Nat /\ n \in Nat
      /\ \A i \in 1 .. m : r[i] = p[i]
      /\ \A j \in 1 .. n : r[m + j] = q[j]
      /\ \A i \in 1 .. m + n : \/ i \in 1 .. m
                               \/ i - m \in 1 .. n /\ i = m + (i - m)
    BY <1>1, Joined
<1>3. ASSUME NEW i \in 1 .. m + n PROVE (\E k \in 1 .. m : r[i] = p[k]) \/ \E k \in 1 .. n : r[i] = q[k]
    BY <1>2
<1>4. ASSUME NEW i \in 1 .. m PROVE \E k \in 1 .. m + n : r[k] = p[i]
    <2>1. i \in 1 .. m + n
        BY <1>2
    <2> QED
        BY <1>2, <2>1
<1>5. ASSUME NEW j \in 1 .. n PROVE \E k \in 1 .. m + n : r[k] = q[j]
    <2>1. m + j \in 1 .. m + n
        BY <1>2
    <2> QED
        BY <1>2, <2>1
<1>6. Has(r, x) => Has(p, x) \/ Has(q, x)
    BY <1>1, <1>2, <1>3 DEF Has
<1>7. Has(p, x) => Has(r, x)
    BY <1>1, <1>2, <1>4 DEF Has
<1>8. Has(q, x) => Has(r, x)
    <2> SUFFICES ASSUME NEW j \in 1 .. n, q[j] = x PROVE \E k \in 1 .. Len(r) : r[k] = x
        BY <1>1 DEF Has
    <2>1. PICK k \in 1 .. m + n : r[k] = q[j]
        BY <1>5
    <2> QED
        BY <1>2, <2>1
<1> QED
    BY <1>1, <1>6, <1>7, <1>8

LEMMA FlattenHas ==
    ASSUME NEW seqs \in Seq(Seq(Nat)), NEW x
    PROVE  Has(FlattenSeq(seqs), x) <=> \E i \in 1 .. Len(seqs) : Has(seqs[i], x)
<1>1. PICK n : n = Len(seqs)
    OBVIOUS
<1>2. n \in Nat /\ \A i \in 1 .. n : seqs[i] \in Seq(Nat)
    BY <1>1, LenProperties, ElementOfSeq
<1>3. CASE n = 0
    <2>1. seqs = << >> /\ FlattenSeq(seqs) = seqs
        BY <1>1, <1>3, EmptySeq DEF FlattenSeq
    <2> QED
        BY <2>1 DEF Has
<1>4. CASE n # 0
    <2>1. PICK g : /\ g[1] = seqs[1]
                   /\ \A i \in 2 .. n : g[i] = g[i - 1] \o seqs[i]
                   /\ FlattenSeq(seqs) = g[n]
        BY <1>1, <1>2, <1>4, FlattenIs
    <2>2. PICK m \in Nat : n = m + 1
        <3>1. n - 1 \in Nat /\ n = (n - 1) + 1
            BY <1>2, <1>4
        <3> QED
            BY <3>1
    <2> DEFINE P == { k \in 0 .. m : /\ g[k + 1] \in Seq(Nat)
                                     /\ Has(g[k + 1], x) <=> \E i \in 1 .. k + 1 : Has(seqs[i], x) }
    <2>3. 0 \in P
        <3>1. 0 + 1 = 1 /\ 1 \in 1 .. n /\ \A i \in 1 .. 1 : i = 1
            BY <2>2
        <3> QED
            BY <1>2, <2>1, <2>2, <3>1
    <2>4. ASSUME NEW k \in 1 .. m, k - 1 \in P PROVE k \in P
        <3>1. k + 1 \in 2 .. n /\ (k + 1) - 1 = k /\ (k - 1) + 1 = k /\ k + 1 \in 1 .. n
            BY <2>2
        <3>2. g[k] \in Seq(Nat) /\ (Has(g[k], x) <=> \E i \in 1 .. k : Has(seqs[i], x))
            BY <2>4, <3>1
        <3>3. g[k + 1] = g[k] \o seqs[k + 1]
            BY <2>1, <3>1
        <3>4. g[k + 1] \in Seq(Nat) /\ (Has(g[k + 1], x) <=> Has(g[k], x) \/ Has(seqs[k + 1], x))
            BY <1>2, <3>1, <3>2, <3>3, Joined, HasJoined
        <3>5. /\ \A i \in 1 .. k + 1 : i \in 1 .. k \/ i = k + 1
              /\ \A i \in 1 .. k : i \in 1 .. k + 1
              /\ k + 1 \in 1 .. k + 1 /\ k \in 0 .. m
            OBVIOUS
        <3>6. Has(g[k + 1], x) <=> \E i \in 1 .. k + 1 : Has(seqs[i], x)
            BY <3>2, <3>4, <3>5
        <3> QED
            BY <3>4, <3>5, <3>6
    <2> HIDE DEF P
    <2>5. \A k \in 0 .. m : k \in P
        BY <2>3, <2>4, UpTo
    <2>6. m \in P
        BY <2>5
    <2> QED
        BY <1>1, <2>1, <2>2, <2>6 DEF P
<1> QED
    BY <1>3, <1>4

LEMMA FlattenHolds ==
    ASSUME NEW seqs \in Seq(Seq(Nat)), \A i \in 1 .. Len(seqs) : IsEven(seqs[i]), NEW c \in Nat
    PROVE  Holds(c, FlattenSeq(seqs)) <=> \E i \in 1 .. Len(seqs) : Holds(c, seqs[i])
<1>1. PICK n : n = Len(seqs)
    OBVIOUS
<1>2. n \in Nat /\ \A i \in 1 .. n : seqs[i] \in Seq(Nat) /\ IsEven(seqs[i])
    BY <1>1, LenProperties, ElementOfSeq
<1>3. CASE n = 0
    <2>1. seqs = << >> /\ FlattenSeq(seqs) = seqs
        BY <1>1, <1>3, EmptySeq DEF FlattenSeq
    <2>2. \A i \in 1 .. 0 : FALSE
        OBVIOUS
    <2> QED
        BY <1>1, <1>3, <2>1, <2>2, HoldsNone
<1>4. CASE n # 0
    <2>1. PICK g : /\ g[1] = seqs[1]
                   /\ \A i \in 2 .. n : g[i] = g[i - 1] \o seqs[i]
                   /\ FlattenSeq(seqs) = g[n]
        BY <1>1, <1>2, <1>4, FlattenIs
    <2>2. PICK m \in Nat : n = m + 1
        <3>1. n - 1 \in Nat /\ n = (n - 1) + 1
            BY <1>2, <1>4
        <3> QED
            BY <3>1
    <2> DEFINE P == { k \in 0 .. m : /\ g[k + 1] \in Seq(Nat) /\ IsEven(g[k + 1])
                                     /\ Holds(c, g[k + 1]) <=> \E i \in 1 .. k + 1 : Holds(c, seqs[i]) }
    <2>3. 0 \in P
        <3>1. 0 + 1 = 1 /\ 1 \in 1 .. n /\ \A i \in 1 .. 1 : i = 1
            BY <2>2
        <3> QED
            BY <1>2, <2>1, <2>2, <3>1
    <2>4. ASSUME NEW k \in 1 .. m, k - 1 \in P PROVE k \in P
        <3>1. k + 1 \in 2 .. n /\ (k + 1) - 1 = k /\ (k - 1) + 1 = k /\ k + 1 \in 1 .. n
            BY <2>2
        <3>2. /\ g[k] \in Seq(Nat) /\ IsEven(g[k])
              /\ Holds(c, g[k]) <=> \E i \in 1 .. k : Holds(c, seqs[i])
            BY <2>4, <3>1
        <3>3. g[k + 1] = g[k] \o seqs[k + 1]
            BY <2>1, <3>1
        <3>4. /\ g[k + 1] \in Seq(Nat) /\ IsEven(g[k + 1])
              /\ Holds(c, g[k + 1]) <=> Holds(c, g[k]) \/ Holds(c, seqs[k + 1])
            BY <1>2, <3>1, <3>2, <3>3, HoldsJoined
        <3>5. /\ \A i \in 1 .. k + 1 : i \in 1 .. k \/ i = k + 1
              /\ \A i \in 1 .. k : i \in 1 .. k + 1
              /\ k + 1 \in 1 .. k + 1 /\ k \in 0 .. m
            OBVIOUS
        <3>6. Holds(c, g[k + 1]) <=> \E i \in 1 .. k + 1 : Holds(c, seqs[i])
            BY <3>2, <3>4, <3>5
        <3> QED
            BY <3>4, <3>5, <3>6
    <2> HIDE DEF P
    <2>5. \A k \in 0 .. m : k \in P
        BY <2>3, <2>4, UpTo
    <2>6. m \in P
        BY <2>5
    <2> QED
        BY <1>1, <2>1, <2>2, <2>6 DEF P
<1> QED
    BY <1>3, <1>4

(* The loops over a set take each of its code points, and no other.        *)
LEMMA CodePointsSay ==
    ASSUME NEW p, IsCodeSet(p), NEW c \in Nat
    PROVE  CodePoints(p) \in Seq(Nat) /\ (Has(CodePoints(p), c) <=> Holds(c, p))
<1>1. PICK v, n : v = Intervals(p) /\ n = Len(v)
    OBVIOUS
<1>2. n \in Nat /\ v = [i \in 1 .. n |-> v[i]] /\ \A i \in 1 .. n : v[i] \in INTERVALS
    BY <1>1, CodeSetInPairs, IntervalsIn
<1>3. PICK s : s = [i \in 1 .. n |-> [k \in 1 .. v[i][2] - v[i][1] |-> v[i][1] + k - 1]]
    OBVIOUS
<1>4. DOMAIN v = 1 .. n
    <2>1. DOMAIN [i \in 1 .. n |-> v[i]] = 1 .. n
        OBVIOUS
    <2> QED
        BY <1>2, <2>1
<1>5. CodePoints(p) = FlattenSeq(s)
    BY <1>1, <1>3, <1>4 DEF CodePoints
<1>6. ASSUME NEW i \in 1 .. n
      PROVE  s[i] \in Seq(Nat) /\ (Has(s[i], c) <=> v[i][1] <= c /\ c < v[i][2])
    <2>1. PICK a, b : a = v[i][1] /\ b = v[i][2]
        OBVIOUS
    <2>2. v[i] \in INTERVALS
        BY <1>2
    <2>3. a \in Nat /\ b \in Nat /\ a <= b
        BY <2>1, <2>2, IntervalIs
    <2>4. PICK m \in Nat : m = b - a
        <3>1. b - a \in Nat
            BY <2>3
        <3> QED
            BY <3>1
    <2>5. PICK r : r = [k \in 1 .. m |-> a + k - 1]
        OBVIOUS
    <2>6. s[i] = r
        BY <1>3, <2>1, <2>4, <2>5
    <2>7. r \in Seq(Nat) /\ Len(r) = m
        <3>1. \A k \in 1 .. m : a + k - 1 \in Nat
            BY <2>3
        <3>2. r \in [1 .. m -> Nat]
            BY <2>5, <3>1
        <3> QED
            BY <3>2
    <2>8. ASSUME NEW k \in 1 .. m, r[k] = c PROVE a <= c /\ c < b
        <3>1. r[k] = a + k - 1
            BY <2>5
        <3> QED
            BY <2>3, <2>4, <2>8, <3>1
    <2>9. ASSUME a <= c, c < b PROVE \E k \in 1 .. m : r[k] = c
        <3>1. PICK k : k = c - a + 1
            OBVIOUS
        <3>2. k \in 1 .. m /\ a + k - 1 = c
            BY <2>3, <2>4, <2>9, <3>1
        <3>3. r[k] = c
            BY <2>5, <3>2
        <3> QED
            BY <3>2, <3>3
    <2>10. Has(r, c) <=> a <= c /\ c < b
        BY <2>7, <2>8, <2>9 DEF Has
    <2> QED
        BY <2>1, <2>6, <2>7, <2>10
<1>7. s \in Seq(Seq(Nat)) /\ Len(s) = n
    <2>1. s \in [1 .. n -> Seq(Nat)]
        BY <1>3, <1>6
    <2> QED
        BY <1>2, <2>1
<1>8. Has(FlattenSeq(s), c) <=> \E i \in 1 .. n : Has(s[i], c)
    BY <1>7, FlattenHas
<1>9. Holds(c, p) <=> \E i \in 1 .. n : v[i][1] <= c /\ c < v[i][2]
    BY <1>1, CodeSetInPairs, IntervalsSay
<1> QED
    BY <1>5, <1>6, <1>8, <1>9, CodePointsTyped

-----------------------------------------------------------------------------
(* The table: its entries are apart, and the binary search finds the one   *)
(* that covers a code point.                                               *)
TableSize == Len(CaseTable)

LEMMA TableIs ==
    /\ TableSize \in Nat /\ DOMAIN CaseTable = 1 .. TableSize
    /\ \A i \in 1 .. TableSize : CaseTable[i].code \in Nat /\ CaseTable[i].len \in Nat
<1>1. CaseTable \in Seq([code : CODES, len : Nat \ {0}, type : CASE_TYPES, data : Seq(CODES)])
    BY CaseTableAssumption
<1>2. Len(CaseTable) \in Nat /\ DOMAIN CaseTable = 1 .. Len(CaseTable)
    BY <1>1, LenProperties
<1> QED
    BY <1>2, EntryIs DEF TableSize

LEMMA EntriesApart ==
    \A i, j \in 1 .. TableSize : i < j => CaseTable[i].code + CaseTable[i].len <= CaseTable[j].code
<1> DEFINE End(i) == CaseTable[i].code + CaseTable[i].len
           P == { k \in 0 .. TableSize :
                    \A i \in 1 .. TableSize : i < k => End(i) <= CaseTable[k].code }
<1>1. 0 \in P
    BY TableIs
<1>2. ASSUME NEW k \in 1 .. TableSize, k - 1 \in P PROVE k \in P
    <2> SUFFICES ASSUME NEW i \in 1 .. TableSize, i < k PROVE End(i) <= CaseTable[k].code
        BY TableIs
    <2>1. PICK j : j = k - 1
        OBVIOUS
    <2>2. j \in 1 .. TableSize /\ j \in 1 .. TableSize - 1 /\ j + 1 = k /\ i <= j
        BY <2>1, TableIs
    <2>3. End(j) <= CaseTable[k].code
        BY <2>2, CaseTableAssumption DEF TableSize
    <2>4. CASE i = j
        BY <2>3, <2>4
    <2>5. CASE i # j
        <3>1. End(i) <= CaseTable[j].code
            BY <1>2, <2>1, <2>2, <2>5, TableIs
        <3>2. /\ CaseTable[j].code \in Nat /\ CaseTable[j].len \in Nat
              /\ CaseTable[i].code \in Nat /\ CaseTable[i].len \in Nat
              /\ CaseTable[k].code \in Nat
            BY <2>2, TableIs
        <3> QED
            BY <2>3, <3>1, <3>2
    <2> QED
        BY <2>4, <2>5
<1> HIDE DEF P
<1>3. \A k \in 0 .. TableSize : k \in P
    BY <1>1, <1>2, TableIs, UpTo
<1>4. \A k \in 1 .. TableSize : k \in P
    BY <1>3, TableIs
<1> QED
    BY <1>4 DEF P

LEMMA CoversOnce ==
    ASSUME NEW c \in Nat, NEW i \in 1 .. TableSize, NEW j \in 1 .. TableSize,
           Covers(CaseTable[i], c), Covers(CaseTable[j], c)
    PROVE  i = j
<1>1. /\ CaseTable[i].code \in Nat /\ CaseTable[i].len \in Nat
      /\ CaseTable[j].code \in Nat /\ CaseTable[j].len \in Nat
      /\ i \in Nat /\ j \in Nat
    BY TableIs
<1>2. /\ CaseTable[i].code <= c /\ c < CaseTable[i].code + CaseTable[i].len
      /\ CaseTable[j].code <= c /\ c < CaseTable[j].code + CaseTable[j].len
    BY DEF Covers
<1>3. CASE i < j
    <2>1. CaseTable[i].code + CaseTable[i].len <= CaseTable[j].code
        BY <1>3, EntriesApart
    <2> QED
        BY <1>1, <1>2, <2>1
<1>4. CASE j < i
    <2>1. CaseTable[j].code + CaseTable[j].len <= CaseTable[i].code
        BY <1>4, EntriesApart
    <2> QED
        BY <1>1, <1>2, <2>1
<1> QED
    BY <1>1, <1>3, <1>4

FindsIn(f, c, n) ==
    f = [part \in (1 .. n + 1) \X (0 .. n) |->
            LET lo == part[1]
                hi == part[2]
                idx == (lo + hi) \div 2
                e == CaseTable[idx]
            IN  IF lo > hi THEN 0
                ELSE IF c < e.code THEN f[<< lo, idx - 1 >>]
                ELSE IF c >= e.code + e.len THEN f[<< idx + 1, hi >>]
                ELSE idx]

(* The binary search of lre_case_conv and lre_canonicalize finds the entry *)
(* that covers a code point if there is one, and nothing otherwise.        *)
THEOREM FindCaseIs ==
    ASSUME NEW c \in Nat
    PROVE  \/ /\ FindCase(c) = 0
              /\ \A i \in DOMAIN CaseTable : ~Covers(CaseTable[i], c)
           \/ FindCase(c) \in DOMAIN CaseTable /\ Covers(CaseTable[FindCase(c)], c)
<1>1. PICK n \in Nat : n = Len(CaseTable)
    BY TableIs DEF TableSize
<1>2. n = TableSize
    BY <1>1 DEF TableSize
<1>3. PICK found \in 0 .. n :
          /\ found # 0 => Covers(CaseTable[found], c)
          /\ \A i \in 1 .. n : Covers(CaseTable[i], c) => i = found
    <2>1. CASE \E i \in 1 .. n : Covers(CaseTable[i], c)
        <3>1. PICK i \in 1 .. n : Covers(CaseTable[i], c)
            BY <2>1
        <3>2. \A j \in 1 .. n : Covers(CaseTable[j], c) => j = i
            BY <1>2, <3>1, CoversOnce
        <3>3. i \in 0 .. n
            OBVIOUS
        <3> QED
            BY <3>1, <3>2, <3>3
    <2>2. CASE ~\E i \in 1 .. n : Covers(CaseTable[i], c)
        <3>1. 0 \in 0 .. n
            OBVIOUS
        <3> QED
            BY <2>2, <3>1
    <2> QED
        BY <2>1, <2>2
<1> DEFINE w(lo, hi) == IF found \in lo .. hi THEN found ELSE 0
           Find(f) == \A lo \in 1 .. n + 1, hi \in 0 .. n :
                         f[<< lo, hi >>] =
                             LET idx == (lo + hi) \div 2
                                 e == CaseTable[idx]
                             IN  IF lo > hi THEN 0
                                 ELSE IF c < e.code THEN f[<< lo, idx - 1 >>]
                                 ELSE IF c >= e.code + e.len THEN f[<< idx + 1, hi >>]
                                 ELSE idx
(* What one probe leaves of the search.                                    *)
<1>4. ASSUME NEW lo \in 1 .. n + 1, NEW hi \in 0 .. n, lo <= hi,
             NEW idx, idx = (lo + hi) \div 2, NEW e, e = CaseTable[idx]
      PROVE  /\ idx \in lo .. hi /\ idx - 1 \in 0 .. n /\ idx + 1 \in 1 .. n + 1
             /\ c < e.code => w(lo, hi) = w(lo, idx - 1)
             /\ ~(c < e.code) /\ c >= e.code + e.len => w(lo, hi) = w(idx + 1, hi)
             /\ ~(c < e.code) /\ ~(c >= e.code + e.len) => w(lo, hi) = idx
    <2>1. idx \in lo .. hi /\ idx \in 1 .. n /\ idx - 1 \in 0 .. n /\ idx + 1 \in 1 .. n + 1
        BY <1>4
    <2>2. e.code \in Nat /\ e.len \in Nat
        BY <1>2, <1>4, <2>1, TableIs
    <2>3. ASSUME found # 0
          PROVE  /\ c < e.code => found < idx
                 /\ c >= e.code + e.len => found > idx
        <3>1. PICK t : t = CaseTable[found]
            OBVIOUS
        <3>2. found \in 1 .. n
            BY <2>3
        <3>3. t.code \in Nat /\ t.len \in Nat /\ t.code <= c /\ c < t.code + t.len
            BY <1>2, <1>3, <2>3, <3>1, <3>2, TableIs DEF Covers
        <3>4. idx < found => e.code + e.len <= t.code
            BY <1>2, <1>4, <2>1, <3>1, <3>2, EntriesApart
        <3>5. found < idx => t.code + t.len <= e.code
            BY <1>2, <1>4, <2>1, <3>1, <3>2, EntriesApart
        <3>6. found = idx => t = e
            BY <1>4, <3>1
        <3> QED
            BY <2>1, <2>2, <3>2, <3>3, <3>4, <3>5, <3>6
    <2>4. ~(c < e.code) /\ ~(c >= e.code + e.len) => found = idx
        <3>1. ~(c < e.code) /\ ~(c >= e.code + e.len) => Covers(e, c)
            BY <2>2 DEF Covers
        <3> QED
            BY <1>3, <1>4, <2>1, <3>1
    <2>5. c < e.code => w(lo, hi) = w(lo, idx - 1)
        BY <2>1, <2>3
    <2>6. ~(c < e.code) /\ c >= e.code + e.len => w(lo, hi) = w(idx + 1, hi)
        BY <2>1, <2>3
    <2>7. ~(c < e.code) /\ ~(c >= e.code + e.len) => w(lo, hi) = idx
        BY <2>1, <2>4
    <2> QED
        BY <2>1, <2>5, <2>6, <2>7
<1>5. ASSUME NEW lo \in 1 .. n + 1, NEW hi \in 0 .. n, lo > hi PROVE w(lo, hi) = 0
    BY <1>5
<1>6. w(1, n) = found
    OBVIOUS
<1> HIDE DEF w
<1>7. \E f : FindsIn(f, c, n)
    <2>1. PICK f : f = [part \in (1 .. n + 1) \X (0 .. n) |-> w(part[1], part[2])]
        OBVIOUS
    <2>2. \A lo \in 1 .. n + 1, hi \in 0 .. n : f[<< lo, hi >>] = w(lo, hi)
        BY <2>1
    <2>3. ASSUME NEW lo \in 1 .. n + 1, NEW hi \in 0 .. n
          PROVE  w(lo, hi) = LET idx == (lo + hi) \div 2
                                 e == CaseTable[idx]
                             IN  IF lo > hi THEN 0
                                 ELSE IF c < e.code THEN f[<< lo, idx - 1 >>]
                                 ELSE IF c >= e.code + e.len THEN f[<< idx + 1, hi >>]
                                 ELSE idx
        <3>1. CASE lo > hi
            BY <1>5, <3>1
        <3>2. CASE ~(lo > hi)
            <4>1. PICK idx, e : idx = (lo + hi) \div 2 /\ e = CaseTable[idx]
                OBVIOUS
            <4>2. /\ idx \in lo .. hi /\ idx - 1 \in 0 .. n /\ idx + 1 \in 1 .. n + 1
                  /\ c < e.code => w(lo, hi) = w(lo, idx - 1)
                  /\ ~(c < e.code) /\ c >= e.code + e.len => w(lo, hi) = w(idx + 1, hi)
                  /\ ~(c < e.code) /\ ~(c >= e.code + e.len) => w(lo, hi) = idx
                BY <1>4, <3>2, <4>1
            <4>3. f[<< lo, idx - 1 >>] = w(lo, idx - 1) /\ f[<< idx + 1, hi >>] = w(idx + 1, hi)
                BY <2>2, <4>2
            <4> QED
                BY <3>2, <4>1, <4>2, <4>3
        <3> QED
            BY <3>1, <3>2
    <2> DEFINE look(part) ==
                   LET lo == part[1]
                       hi == part[2]
                       idx == (lo + hi) \div 2
                       e == CaseTable[idx]
                   IN  IF lo > hi THEN 0
                       ELSE IF c < e.code THEN f[<< lo, idx - 1 >>]
                       ELSE IF c >= e.code + e.len THEN f[<< idx + 1, hi >>]
                       ELSE idx
    <2>4. ASSUME NEW part \in (1 .. n + 1) \X (0 .. n)
          PROVE  w(part[1], part[2]) = look(part)
        <3>1. part[1] \in 1 .. n + 1 /\ part[2] \in 0 .. n
            OBVIOUS
        <3> QED
            BY <2>3, <3>1
    <2> HIDE DEF look
    <2>5. f = [part \in (1 .. n + 1) \X (0 .. n) |-> look(part)]
        BY <2>1, <2>4
    <2>6. FindsIn(f, c, n)
        BY <2>5 DEF FindsIn, look
    <2> QED
        BY <2>6
<1>8. ASSUME NEW f, FindsIn(f, c, n) PROVE f[<< 1, n >>] = found
    <2>1. Find(f)
        BY <1>8 DEF FindsIn
    <2> HIDE DEF Find
    <2> DEFINE P == { m \in 0 .. n : \A lo \in 1 .. n + 1, hi \in 0 .. n :
                                        hi - lo < m => f[<< lo, hi >>] = w(lo, hi) }
    <2>2. 0 \in P
        <3> SUFFICES ASSUME NEW lo \in 1 .. n + 1, NEW hi \in 0 .. n, hi - lo < 0
                     PROVE  f[<< lo, hi >>] = w(lo, hi)
            OBVIOUS
        <3>1. lo > hi
            OBVIOUS
        <3>2. f[<< lo, hi >>] = 0
            BY <2>1, <3>1 DEF Find
        <3> QED
            BY <1>5, <3>1, <3>2
    <2>3. ASSUME NEW m \in 1 .. n, m - 1 \in P PROVE m \in P
        <3> SUFFICES ASSUME NEW lo \in 1 .. n + 1, NEW hi \in 0 .. n, hi - lo < m
                     PROVE  f[<< lo, hi >>] = w(lo, hi)
            OBVIOUS
        <3>1. \A l \in 1 .. n + 1, h \in 0 .. n : h - l < m - 1 => f[<< l, h >>] = w(l, h)
            BY <2>3
        <3>2. CASE lo > hi
            <4>1. f[<< lo, hi >>] = 0
                BY <2>1, <3>2 DEF Find
            <4> QED
                BY <1>5, <3>2, <4>1
        <3>3. CASE ~(lo > hi)
            <4>1. PICK idx, e : idx = (lo + hi) \div 2 /\ e = CaseTable[idx]
                OBVIOUS
            <4>2. /\ idx \in lo .. hi /\ idx - 1 \in 0 .. n /\ idx + 1 \in 1 .. n + 1
                  /\ c < e.code => w(lo, hi) = w(lo, idx - 1)
                  /\ ~(c < e.code) /\ c >= e.code + e.len => w(lo, hi) = w(idx + 1, hi)
                  /\ ~(c < e.code) /\ ~(c >= e.code + e.len) => w(lo, hi) = idx
                BY <1>4, <3>3, <4>1
            <4>3. (idx - 1) - lo < m - 1 /\ hi - (idx + 1) < m - 1
                BY <4>2
            <4>4. f[<< lo, idx - 1 >>] = w(lo, idx - 1) /\ f[<< idx + 1, hi >>] = w(idx + 1, hi)
                BY <3>1, <4>2, <4>3
            <4>5. f[<< lo, hi >>] = IF c < e.code THEN f[<< lo, idx - 1 >>]
                              ELSE IF c >= e.code + e.len THEN f[<< idx + 1, hi >>]
                              ELSE idx
                BY <2>1, <3>3, <4>1 DEF Find
            <4> QED
                BY <4>2, <4>4, <4>5
        <3> QED
            BY <3>2, <3>3
    <2> HIDE DEF P
    <2>4. \A m \in 0 .. n : m \in P
        BY <2>2, <2>3, UpTo
    <2>5. n \in P
        BY <2>4
    <2>6. 1 \in 1 .. n + 1 /\ n \in 0 .. n /\ n - 1 < n
        OBVIOUS
    <2>7. f[<< 1, n >>] = w(1, n)
        BY <2>5, <2>6 DEF P
    <2> QED
        BY <1>6, <2>7
<1>9. FindCase(c) = found
    <2> DEFINE g == CHOOSE h : FindsIn(h, c, n)
    <2>1. FindsIn(g, c, n)
        BY <1>7
    <2>2. FindCase(c) = g[<< 1, n >>]
        BY <1>1 DEF FindCase, FindsIn
    <2> HIDE DEF g
    <2> QED
        BY <1>8, <2>1, <2>2
<1>10. DOMAIN CaseTable = 1 .. n
    BY <1>2, TableIs
<1> QED
    BY <1>3, <1>9, <1>10

-----------------------------------------------------------------------------
(* What the entries of the mask leave out does not change.                 *)
LEMMA TypeIs ==
    ASSUME NEW i \in DOMAIN CaseTable
    PROVE  CaseTable[i].type \in CASE_TYPES
<1>1. PICK R : R = [code : CODES, len : Nat \ {0}, type : CASE_TYPES, data : Seq(CODES)]
    OBVIOUS
<1>2. CaseTable \in Seq(R)
    BY <1>1, CaseTableAssumption
<1>3. CaseTable[i] \in R
    BY <1>2, ElementOfSeq, LenProperties
<1> QED
    BY <1>1, <1>3

LEMMA AlternateHolds ==
    ASSUME NEW first \in Nat, NEW h \in Nat \ {0}, NEW k \in 1 .. h
    PROVE  Holds(first + 2 * (k - 1), FlattenSeq(Alternate(first, h)))
<1>1. PICK s : s = Alternate(first, h)
    OBVIOUS
<1>2. s = [i \in 1 .. h |-> << first + 2 * (i - 1), first + 2 * (i - 1) + 1 >>]
    BY <1>1 DEF Alternate
<1>3. ASSUME NEW i \in 1 .. h
      PROVE  /\ s[i] \in Seq(Nat) /\ IsEven(s[i])
             /\ Holds(first + 2 * (i - 1), s[i])
    <2>1. PICK a : a = first + 2 * (i - 1)
        OBVIOUS
    <2>2. a \in Nat /\ a + 1 \in Nat /\ a <= a /\ a < a + 1
        BY <2>1
    <2>3. s[i] = << a, a + 1 >>
        BY <1>2, <2>1
    <2>4. << a, a + 1 >> \in Seq(Nat) /\ IsEven(<< a, a + 1 >>) /\ Holds(a, << a, a + 1 >>)
        BY <2>2, HoldsPair
    <2> QED
        BY <2>1, <2>3, <2>4
<1>4. s \in Seq(Seq(Nat)) /\ Len(s) = h
    <2>1. s = [i \in 1 .. h |-> s[i]]
        BY <1>2
    <2>2. s \in [1 .. h -> Seq(Nat)]
        BY <1>3, <2>1
    <2> QED
        BY <2>2
<1>5. PICK c \in Nat : c = first + 2 * (k - 1)
    <2>1. first + 2 * (k - 1) \in Nat
        OBVIOUS
    <2> QED
        BY <2>1
<1>6. Holds(c, FlattenSeq(s)) <=> \E i \in 1 .. Len(s) : Holds(c, s[i])
    BY <1>3, <1>4, FlattenHolds
<1> QED
    BY <1>1, <1>3, <1>4, <1>5, <1>6

LEMMA CaseOutside ==
    ASSUME NEW i \in DOMAIN CaseTable, NEW e, e = CaseTable[i], NEW conv \in { Upper, Fold },
           NEW c \in Nat, Covers(e, c),
           ~(e.type \in RunMask(conv) /\ Holds(c, CasePoints(e, { conv })))
    PROVE  CaseEntry(c, conv, e) = << c >>
<1>1. PICK code, len, a : code = e.code /\ len = e.len /\ a = c - code
    OBVIOUS
<1>2. /\ code \in Nat /\ len \in Nat \ {0}
      /\ e.type = "UL" => len % 2 = 0
      /\ e.type = "LSU" => len = 3
    BY <1>1, EntryIs
<1>3. a \in 0 .. len - 1 /\ c = code + a
    BY <1>1, <1>2 DEF Covers
<1>4. ~(Upper \in { conv } /\ { conv } # { Upper })
    BY DEF Upper, Fold
<1>5. e.type \in CASE_TYPES
    BY TypeIs
<1>6. conv # Lower /\ (conv = Upper \/ (conv = Fold /\ conv # Upper)) /\ Upper # Lower
    BY DEF Upper, Fold, Lower
<1>7. CASE e.type = "UL"
    <2>1. e.type \in RunMask(conv)
        BY <1>7 DEF RunMask, Upper, Fold, Lower
    <2>2. PICK h \in Nat \ {0} : h = (len + 1) \div 2 /\ len = 2 * h
        BY <1>2, <1>7, Halves
    <2>3. PICK odd \in { 0, 1 } : odd = IF conv = Upper THEN 1 ELSE 0
        OBVIOUS
    <2>4. CasePoints(e, { conv }) = FlattenSeq(Alternate(code + odd, h))
        <3>1. PICK first : first = IF Upper \in { conv } THEN code + 1 ELSE code
            OBVIOUS
        <3>2. CasePoints(e, { conv }) = FlattenSeq(Alternate(first, h))
            BY <1>1, <1>4, <1>7, <2>2, <3>1 DEF CasePoints, Alternate
        <3>3. first = code + odd
            BY <1>2, <2>3, <3>1
        <3> QED
            BY <3>2, <3>3
    <2>5. a % 2 # odd
        <3> SUFFICES ASSUME a % 2 = odd PROVE FALSE
            OBVIOUS
        <3>1. PICK k : k = (a - odd) \div 2 + 1
            OBVIOUS
        <3>2. k \in 1 .. h /\ c = (code + odd) + 2 * (k - 1)
            BY <1>2, <1>3, <2>2, <2>3, <3>1
        <3>3. code + odd \in Nat
            BY <1>2, <2>3
        <3>4. Holds((code + odd) + 2 * (k - 1), FlattenSeq(Alternate(code + odd, h)))
            BY <3>2, <3>3, AlternateHolds
        <3> QED
            BY <2>1, <2>4, <3>2, <3>4
    <2>6. CaseEntryOnce(c, conv, e) =
              << IF a % 2 # 1 - (IF conv # Upper THEN 1 ELSE 0) THEN c
                 ELSE IF a % 2 = 0 THEN c + 1 ELSE c - 1 >>
        BY <1>1, <1>7 DEF CaseEntryOnce
    <2>7. CaseEntryOnce(c, conv, e) = << c >>
        BY <2>3, <2>5, <2>6
    <2> QED
        BY <1>7, <2>7 DEF CaseEntry
<1>8. CASE e.type = "LSU"
    <2>1. e.type \in RunMask(conv)
        BY <1>8 DEF RunMask, Upper, Fold, Lower
    <2>2. PICK first : first = IF conv = Upper THEN code + 1 ELSE code
        OBVIOUS
    <2>3. PICK p, q : p = << first, first + 1 >> /\ q = << first + 1, first + 2 >>
        OBVIOUS
    <2>4. CasePoints(e, { conv }) = p \o q
        <3>1. CASE conv = Upper
            <4>1. CasePoints(e, { conv }) = << code + 1, code + 1 + 1 >> \o << code + 2, code + 2 + 1 >>
                BY <1>1, <1>4, <1>8, <3>1 DEF CasePoints
            <4>2. first + 1 = code + 1 + 1 /\ first + 1 = code + 2 /\ first + 2 = code + 2 + 1 /\ first = code + 1
                BY <1>2, <2>2, <3>1
            <4> QED
                BY <2>3, <4>1, <4>2
        <3>2. CASE conv # Upper
            <4>1. CasePoints(e, { conv }) = << code, code + 1 >> \o << code + 1, code + 1 + 1 >>
                BY <1>1, <1>4, <1>8, <3>2 DEF CasePoints
            <4>2. first = code /\ first + 2 = code + 1 + 1
                BY <1>2, <2>2, <3>2
            <4> QED
                BY <2>3, <4>1, <4>2
        <3> QED
            BY <3>1, <3>2
    <2>5. ~(first <= c /\ c < first + 2)
        <3>1. first \in Nat /\ first + 1 \in Nat /\ first + 2 \in Nat
            BY <1>2, <2>2
        <3>2. /\ p \in Seq(Nat) /\ IsEven(p) /\ (Holds(c, p) <=> first <= c /\ c < first + 1)
            BY <2>3, <3>1, HoldsPair
        <3>3. /\ q \in Seq(Nat) /\ IsEven(q) /\ (Holds(c, q) <=> first + 1 <= c /\ c < first + 2)
            BY <2>3, <3>1, HoldsPair
        <3>4. ~Holds(c, p) /\ ~Holds(c, q)
            BY <2>1, <2>4, <3>2, <3>3, HoldsJoined
        <3> QED
            BY <3>1, <3>2, <3>3, <3>4
    <2>6. a = IF conv = Upper THEN 0 ELSE 2
        BY <1>2, <1>3, <1>8, <2>2, <2>5
    <2>7. PICK low : low = IF conv # Upper THEN 1 ELSE 0
        OBVIOUS
    <2>8. CaseEntryOnce(c, conv, e) =
              << IF a = 1 THEN c + 2 * low - 1
                 ELSE IF a = (1 - low) * 2 THEN c + (2 * low - 1) * 2
                 ELSE c >>
        BY <1>1, <1>8, <2>7 DEF CaseEntryOnce
    <2>9. a # 1 /\ a # (1 - low) * 2
        BY <2>6, <2>7
    <2>10. CaseEntryOnce(c, conv, e) = << c >>
        BY <2>8, <2>9
    <2> QED
        BY <1>8, <2>10 DEF CaseEntry
<1>9. CASE e.type # "UL" /\ e.type # "LSU"
    <2>1. CasePoints(e, { conv }) = << code, code + len >>
        BY <1>1, <1>9 DEF CasePoints
    <2>2. Holds(c, << code, code + len >>)
        <3>1. code <= c /\ c < code + len /\ code + len \in Nat
            BY <1>2, <1>3
        <3> QED
            BY <1>2, <3>1, HoldsPair
    <2>3. e.type \notin RunMask(conv)
        BY <2>1, <2>2
    <2>4. CASE conv = Upper
        <3>1. e.type \in { "L", "LF", "LF_EXT", "LF_EXT2" }
            BY <1>5, <1>9, <2>3, <2>4 DEF RunMask, CASE_TYPES, Upper, Lower, Fold
        <3>2. CaseEntryOnce(c, conv, e) = << c >>
            BY <1>1, <1>6, <2>4, <3>1 DEF CaseEntryOnce, Upper, Fold, Lower
        <3> QED
            BY <2>4, <3>2 DEF CaseEntry, Upper, Fold
    <2>5. CASE conv = Fold
        <3>1. e.type \in { "U", "L", "U_EXT" }
            BY <1>5, <1>9, <2>3, <2>5 DEF RunMask, CASE_TYPES, Upper, Lower, Fold
        <3>2. CaseEntryOnce(c, conv, e) = << c >>
            BY <1>1, <1>6, <2>5, <3>1 DEF CaseEntryOnce, Upper, Fold, Lower
        <3>3. e.type \notin { "UF_EXT2", "UF_EXT3" }
            BY <3>1
        <3> QED
            BY <3>2, <3>3 DEF CaseEntry
    <2> QED
        BY <2>4, <2>5
<1> QED
    BY <1>7, <1>8, <1>9

(* What unicode_case1 collects are the points of the entries of the runs   *)
(* of its mask.                                                            *)
LEMMA CaseRangeSays ==
    ASSUME NEW m \in { Upper, Fold }, NEW c \in Nat
    PROVE  Holds(c, CaseRange({ m })) <=>
               \E i \in DOMAIN CaseTable : /\ CaseTable[i].type \in RunMask(m)
                                           /\ Holds(c, CasePoints(CaseTable[i], { m }))
<1> DEFINE hit(e) == \E k \in { m } : e.type \in RunMask(k)
           s == [i \in DOMAIN CaseTable |->
                    IF hit(CaseTable[i]) THEN CasePoints(CaseTable[i], { m }) ELSE << >>]
<1>1. CaseRange({ m }) = FlattenSeq(s)
    BY DEF CaseRange
<1>2. PICK n : n = TableSize
    OBVIOUS
<1>3. n \in Nat /\ DOMAIN CaseTable = 1 .. n
    BY <1>2, TableIs
<1>4. { m } \in MASKS
    BY DEF MASKS
<1>5. \A i \in 1 .. n :
          s[i] = IF CaseTable[i].type \in RunMask(m) THEN CasePoints(CaseTable[i], { m }) ELSE << >>
    BY <1>3
<1>6. ASSUME NEW i \in 1 .. n PROVE s[i] \in Seq(Nat) /\ IsEven(s[i])
    <2>1. IsCodeSet(CasePoints(CaseTable[i], { m }))
        BY <1>3, <1>4, CasePointsKeep
    <2> QED
        BY <1>5, <2>1, EmptySet DEF IsCodeSet, IsOrdered
<1>7. s \in Seq(Seq(Nat)) /\ Len(s) = n
    <2>1. s = [i \in 1 .. n |-> s[i]]
        BY <1>3
    <2> HIDE DEF s
    <2>2. s \in [1 .. n -> Seq(Nat)]
        BY <1>6, <2>1
    <2> QED
        BY <1>3, <2>2
<1> HIDE DEF s
<1>8. Holds(c, FlattenSeq(s)) <=> \E i \in 1 .. n : Holds(c, s[i])
    BY <1>6, <1>7, FlattenHolds
<1>9. ASSUME NEW i \in 1 .. n
      PROVE  Holds(c, s[i]) <=> /\ CaseTable[i].type \in RunMask(m)
                                /\ Holds(c, CasePoints(CaseTable[i], { m }))
    BY <1>5, HoldsNone
<1> QED
    BY <1>1, <1>3, <1>8, <1>9

(* lre_canonicalize takes what the entry says, if there is one.            *)
Mode(is_unicode) == IF is_unicode THEN Fold ELSE Upper

LEMMA CanonicalIs ==
    ASSUME NEW c \in Nat, NEW u \in BOOLEAN
    PROVE  /\ \A i \in DOMAIN CaseTable :
                 Covers(CaseTable[i], c) => Canonicalize(c, u) = FoldingEntry(c, CaseTable[i], u)
           /\ (\A i \in DOMAIN CaseTable : ~Covers(CaseTable[i], c)) => Canonicalize(c, u) = c
<1>1. DOMAIN CaseTable = 1 .. TableSize /\ 0 \notin DOMAIN CaseTable
    BY TableIs
<1>2. CASE ~(c < 128)
    <2>1. PICK idx : idx = FindCase(c)
        OBVIOUS
    <2>2. Canonicalize(c, u) = IF idx = 0 THEN c ELSE FoldingEntry(c, CaseTable[idx], u)
        BY <1>2, <2>1 DEF Canonicalize
    <2>3. \/ idx = 0 /\ \A i \in DOMAIN CaseTable : ~Covers(CaseTable[i], c)
          \/ idx \in DOMAIN CaseTable /\ Covers(CaseTable[idx], c)
        BY <2>1, FindCaseIs
    <2>4. ASSUME NEW i \in DOMAIN CaseTable, Covers(CaseTable[i], c)
          PROVE  Canonicalize(c, u) = FoldingEntry(c, CaseTable[i], u)
        <3>1. idx = i
            BY <1>1, <2>3, <2>4, CoversOnce
        <3> QED
            BY <1>1, <2>2, <3>1
    <2>5. ASSUME \A i \in DOMAIN CaseTable : ~Covers(CaseTable[i], c)
          PROVE  Canonicalize(c, u) = c
        BY <2>2, <2>3, <2>5
    <2> QED
        BY <2>4, <2>5
<1>3. CASE c < 128
    <2>1. c \in 0 .. 127
        BY <1>3
    <2>2. AsciiConv(c, Lower) = AsciiConv(c, Fold)
        BY DEF AsciiConv, Upper, Lower, Fold
    <2>3. Canonicalize(c, u) = AsciiConv(c, Mode(u))
        BY <1>3, <2>2 DEF Canonicalize, Mode
    <2>4. Mode(u) \in { Upper, Fold }
        BY DEF Mode
    <2>5. /\ \A i \in DOMAIN CaseTable : Covers(CaseTable[i], c) =>
                 CaseEntry(c, Mode(u), CaseTable[i]) = << AsciiConv(c, Mode(u)) >>
          /\ (\A i \in DOMAIN CaseTable : ~Covers(CaseTable[i], c)) => AsciiConv(c, Mode(u)) = c
        BY <2>1, <2>4, AsciiAssumption
    <2>6. ASSUME NEW i \in DOMAIN CaseTable, Covers(CaseTable[i], c)
          PROVE  Canonicalize(c, u) = FoldingEntry(c, CaseTable[i], u)
        <3>1. CASE u
            <4>1. PICK r : r = CaseEntry(c, Fold, CaseTable[i])
                OBVIOUS
            <4>2. r = << AsciiConv(c, Fold) >>
                BY <2>5, <2>6, <3>1, <4>1 DEF Mode
            <4>3. FoldingEntry(c, CaseTable[i], u) = IF Len(r) = 1 THEN r[1] ELSE SpecialFold(c)
                BY <3>1, <4>1 DEF FoldingEntry
            <4>4. Len(r) = 1 /\ r[1] = AsciiConv(c, Fold)
                BY <4>2
            <4> QED
                BY <2>3, <3>1, <4>3, <4>4 DEF Mode
        <3>2. CASE ~u
            <4>1. FoldingEntry(c, CaseTable[i], u) = AsciiConv(c, Upper)
                BY <1>3, <3>2 DEF FoldingEntry
            <4> QED
                BY <2>3, <3>2, <4>1 DEF Mode
        <3> QED
            BY <3>1, <3>2
    <2> QED
        BY <2>3, <2>5, <2>6
<1> QED
    BY <1>2, <1>3

(* The mask of cr_regexp_canonicalize leaves nothing out: a code point     *)
(* that unicode_case1 does not collect is compared as itself.              *)
THEOREM CanonicalOutside ==
    ASSUME NEW c \in Nat, NEW u \in BOOLEAN, ~Holds(c, CaseRange({ Mode(u) }))
    PROVE  Canonicalize(c, u) = c
<1>1. Mode(u) \in { Upper, Fold }
    BY DEF Mode
<1>2. CASE \A i \in DOMAIN CaseTable : ~Covers(CaseTable[i], c)
    BY <1>2, CanonicalIs
<1>3. ASSUME NEW i \in DOMAIN CaseTable, Covers(CaseTable[i], c) PROVE Canonicalize(c, u) = c
    <2>1. PICK e : e = CaseTable[i]
        OBVIOUS
    <2>2. ~(e.type \in RunMask(Mode(u)) /\ Holds(c, CasePoints(e, { Mode(u) })))
        BY <1>1, <2>1, CaseRangeSays
    <2>3. CaseEntry(c, Mode(u), e) = << c >>
        BY <1>1, <1>3, <2>1, <2>2, CaseOutside
    <2>4. Canonicalize(c, u) = FoldingEntry(c, e, u)
        BY <1>3, <2>1, CanonicalIs
    <2>5. PICK r : r = CaseEntry(c, Mode(u), e)
        OBVIOUS
    <2>6. Len(r) = 1 /\ r[1] = c
        BY <2>3, <2>5
    <2>7. CASE u
        <3>1. FoldingEntry(c, e, u) = IF Len(r) = 1 THEN r[1] ELSE SpecialFold(c)
            BY <2>5, <2>7 DEF FoldingEntry, Mode
        <3> QED
            BY <2>4, <2>6, <3>1
    <2>8. CASE ~u /\ c < 128
        <3>1. FoldingEntry(c, e, u) = AsciiConv(c, Upper)
            BY <2>8 DEF FoldingEntry
        <3>2. CaseEntry(c, Upper, e) = << AsciiConv(c, Upper) >>
            <4>1. c \in 0 .. 127 /\ Upper \in { Upper, Fold }
                BY <2>8
            <4> QED
                BY <1>3, <2>1, <4>1, AsciiAssumption
        <3>3. r = << AsciiConv(c, Upper) >>
            BY <2>5, <2>8, <3>2 DEF Mode
        <3> QED
            BY <2>4, <2>6, <3>1, <3>3
    <2>9. CASE ~u /\ ~(c < 128)
        <3>1. FoldingEntry(c, e, u) = IF Len(r) = 1 /\ r[1] >= 128 THEN r[1] ELSE c
            BY <2>5, <2>9 DEF FoldingEntry, Mode
        <3> QED
            BY <2>4, <2>6, <3>1
    <2> QED
        BY <2>7, <2>8, <2>9
<1> QED
    BY <1>2, <1>3

(* Nothing folds into what is looked at, or out of it.                     *)
LEMMA CanonicalStays ==
    ASSUME NEW c \in Nat, NEW u \in BOOLEAN
    PROVE  Canonicalize(c, u) \in Universe <=> c \in Universe
<1>1. CASE \A i \in DOMAIN CaseTable : ~Covers(CaseTable[i], c)
    BY <1>1, CanonicalIs
<1>2. ASSUME NEW i \in DOMAIN CaseTable, Covers(CaseTable[i], c)
      PROVE  Canonicalize(c, u) \in Universe <=> c \in Universe
    <2>1. PICK e : e = CaseTable[i]
        OBVIOUS
    <2>2. Canonicalize(c, u) = FoldingEntry(c, e, u)
        BY <1>2, <2>1, CanonicalIs
    <2>3. e.code \in Nat /\ e.len \in Nat \ {0}
        BY <2>1, EntryIs
    <2>4. c \in e.code .. e.code + e.len - 1
        BY <1>2, <2>1, <2>3 DEF Covers
    <2>5. FoldingEntry(c, e, u) \in Universe <=> c \in Universe
        BY <2>1, <2>4, UniverseAssumption
    <2> QED
        BY <2>2, <2>5
<1> QED
    BY <1>1, <1>2

LEMMA UniverseIs == \A c \in Universe : c \in Nat /\ c < Infinity
<1>1. Infinity \in Nat
    BY CodesAre
<1> QED
    BY <1>1, UniverseAssumption

(* What one turn of the folding loop adds is what the code point is        *)
(* compared as, and nothing that was there is lost.                        *)
LEMMA FoldsSay ==
    ASSUME NEW idx \in Nat \ {0}, NEW now \in Seq(Nat), NowOrNone(now),
           NEW c \in Nat, NEW u \in BOOLEAN,
           NEW s, s = [idx |-> idx, now |-> now, done |-> << >>], HasEntry(s, c),
           NEW t, t = FoldOne(s, c, u), NEW x \in Nat
    PROVE  Holds(x, t.done) \/ Holds(x, t.now) <=> Holds(x, now) \/ x = Canonicalize(c, u)
<1>1. PICK i \in DOMAIN CaseTable, d \in Nat :
          /\ Covers(CaseTable[i], c)
          /\ d = FoldingEntry(c, CaseTable[i], u)
          /\ Lengthened(t, i, now, d) \/ Begun(t, i, now, d)
  BY FoldOneIs
<1>2. Canonicalize(c, u) = d
  BY <1>1, CanonicalIs
<1>3. CASE Lengthened(t, i, now, d)
  <2>1. PICK a \in Nat : /\ now = << a, d >> /\ a <= d
                         /\ t = [idx |-> i, now |-> << a, d + 1 >>, done |-> << >>]
    BY <1>3 DEF Lengthened
  <2>2. ~Holds(x, t.done)
    BY <2>1, HoldsNone
  <2>3. Holds(x, << a, d >>) <=> a <= x /\ x < d
    BY HoldsPair
  <2>4. Holds(x, << a, d + 1 >>) <=> a <= x /\ x < d + 1
    <3>1. d + 1 \in Nat
      OBVIOUS
    <3> QED BY <3>1, HoldsPair
  <2>5. t.now = << a, d + 1 >>
    BY <2>1
  <2> QED BY <1>2, <2>1, <2>2, <2>3, <2>4, <2>5
<1>4. CASE Begun(t, i, now, d)
  <2>1. t.now = << d, d + 1 >> /\ t.done = now
    BY <1>4 DEF Begun
  <2>2. Holds(x, << d, d + 1 >>) <=> d <= x /\ x < d + 1
    <3>1. d + 1 \in Nat
      OBVIOUS
    <3> QED BY <3>1, HoldsPair
  <2> QED BY <1>2, <2>1, <2>2
<1> QED BY <1>1, <1>3, <1>4

-----------------------------------------------------------------------------
(* What the sets mean at every place inside a call: as much as is needed   *)
(* to know, when the call ends, that it made of the set of the client what *)
(* its name says.                                                          *)
Value == Meaning(IF at = "idle" THEN Points("cr") ELSE before)
Asking == Asked(Seen.name, Meaning(Seen.operand), Seen.is_unicode)
promiseVars == << Value, Asking, ~failed, lost >>

(* The calls that a client makes.                                          *)
IsRequest(r) ==
    \/ \E op \in { "union", "inter", "xor", "sub" }, b \in Operands : r = Asked(op, b, FALSE)
    \/ r = Asked("complement", << >>, FALSE)
    \/ \E is_unicode \in BOOLEAN : r = Asked("canonicalize", << >>, is_unicode)

SomeHolds(intervals, x) ==
    \E k \in 1 .. Len(intervals) : intervals[k][1] <= x /\ x < intervals[k][2]

(* What is gathered is what is asked for, or less if something was lost.   *)
Agreed(P, Q) == (P => Q) /\ (~lost => (Q => P))

MaskOf(f) == CaseRange({ Mode(f.is_unicode) })

(* x is what a point of the set folds to; of those in the mask only.       *)
Image(x, is_unicode) == \E y \in Nat : Holds(y, before) /\ x = Canonicalize(y, is_unicode)

FoldedIn(x) ==
    \E y \in Nat : /\ Holds(y, before) /\ Holds(y, MaskOf(folding))
                   /\ x = Canonicalize(y, folding.is_unicode)

ToCome(x) == \E y \in Nat : Has(todo, y) /\ x = Canonicalize(y, folding.is_unicode)

InterSays ==
    \A c \in Nat :
        Holds(c, sets["inter"].points) <=> Holds(c, MaskOf(folding)) /\ Holds(c, before)

SubSays ==
    \A c \in Nat : c < Infinity =>
        (Holds(c, sets["sub"].points) <=> Holds(c, before) /\ ~Holds(c, MaskOf(folding)))

GatheredSays ==
    \A x \in Nat : Agreed(Holds(x, sets["result"].points) \/ Holds(x, folding.now) \/ ToCome(x),
                          FoldedIn(x))

GivenSays == \A x \in Nat : Agreed(SomeHolds(given, x), FoldedIn(x))

OfOperand ==
    /\ merge.a = before /\ merge.b \in Operands
    /\ merge.op \in { "union", "inter", "xor", "sub" }
    /\ asked = Asked(merge.op, merge.b, FALSE)

ForCanonicalize == asked = Asked("canonicalize", << >>, folding.is_unicode)

OfFolded ==
    /\ merge.op = "union" /\ ForCanonicalize
    /\ \A x \in Universe :
          Agreed(Holds(x, merge.a) \/ Holds(x, merge.b), Image(x, folding.is_unicode))

Flags ==
    /\ failed \in BOOLEAN /\ lost \in BOOLEAN
    /\ failed => at \in { "failed", "over" }

MaskSays ==
    /\ at = "add" => sets["cr"].points = before /\ todo \in Operands
    /\ at \in { "invert", "mask" } => sets["cr"].points = before
    /\ at = "mask" => sets["mask"].points \o todo = MaskOf(folding)
    /\ at \in { "merge", "invert" } /\ into \in { "inter", "mask" } =>
          sets["cr"].points = before /\ sets["mask"].points = MaskOf(folding)

MergeMeans ==
    /\ at = "merge" /\ into = "inter" =>
          merge.a = MaskOf(folding) /\ merge.b = before /\ merge.op = "inter"
    /\ at = "invert" /\ into = "mask" => InterSays
    /\ at = "merge" /\ into = "sub" =>
          InterSays /\ merge.a = Invert(MaskOf(folding)) /\ merge.b = before
             /\ merge.op = "inter"
    /\ at = "merge" /\ into = "cr" => OfOperand \/ OfFolded

FoldMeans ==
    /\ at = "fold" => SubSays /\ GatheredSays
    /\ at = "sort" => SubSays /\ GivenSays

MeaningInv == Flags /\ MaskSays /\ MergeMeans /\ FoldMeans

(* Wherever a call stands, it is the call that was made.                   *)
Canonicalizing ==
    \/ at \in { "mask", "fold", "sort" }
    \/ at \in { "merge", "invert" } /\ into \in { "inter", "sub", "mask" }

AskedSays ==
    /\ at = "add" => asked = Asked("union", todo, FALSE)
    /\ at = "invert" /\ into = "cr" => asked = Asked("complement", << >>, FALSE)
    /\ Canonicalizing => ForCanonicalize

LEMMA NothingMeans == Meaning(<< >>) = {}
BY HoldsNone DEF Meaning

LEMMA RestAsks ==
    /\ at \in { "idle", "failed", "over" } => Asking = Promise!NoCall
    /\ at' \in { "idle", "failed", "over" } => Asking' = Promise!NoCall
<1>1. Asked(NoCall.name, Meaning(NoCall.operand), NoCall.is_unicode) = Promise!NoCall
  BY NothingMeans DEF NoCall, Asked, Promise!NoCall, Promise!Asked
<1>2. at \in { "idle", "failed", "over" } => Seen = NoCall
  BY DEF Seen, InCall
<1>3. at' \in { "idle", "failed", "over" } => Seen' = NoCall
  BY DEF Seen, InCall
<1> QED BY <1>1, <1>2, <1>3 DEF Asking

LEMMA InWorkAsks ==
    /\ at \notin { "idle", "failed", "over" } =>
          Asking = Asked(asked.name, Meaning(asked.operand), asked.is_unicode)
    /\ at' \notin { "idle", "failed", "over" } =>
          Asking' = Asked(asked'.name, Meaning(asked'.operand), asked'.is_unicode)
BY DEF Asking, Seen, InCall

LEMMA ValueBegins ==
    ASSUME at = "idle", at' \notin { "idle", "failed", "over" },
           before' = sets["cr"].points, IsRequest(asked'),
           failed = FALSE, failed' = failed, lost' = FALSE
    PROVE  Promise!Next
<1>1. Value' = Value
  BY DEF Value, Points
<1>2. Asking = Promise!NoCall
  BY RestAsks
<1>3. Asking' = Asked(asked'.name, Meaning(asked'.operand), asked'.is_unicode)
  BY InWorkAsks
<1>4. Promise!IsRequest(Asking')
  <2>1. ASSUME NEW op \in { "union", "inter", "xor", "sub" }, NEW b \in Operands,
               asked' = Asked(op, b, FALSE)
        PROVE  Promise!IsRequest(Asking')
    <3>1. Asking' = Promise!Asked(op, Meaning(b), FALSE)
      BY <1>3, <2>1 DEF Asked, Promise!Asked
    <3>2. Meaning(b) \in { Meaning(d) : d \in Operands }
      OBVIOUS
    <3> QED BY <3>1, <3>2 DEF Promise!IsRequest
  <2>2. ASSUME asked' = Asked("complement", << >>, FALSE)
        PROVE  Promise!IsRequest(Asking')
    <3>1. Asking' = Promise!Asked("complement", {}, FALSE)
      BY <1>3, <2>2, NothingMeans DEF Asked, Promise!Asked
    <3> QED BY <3>1 DEF Promise!IsRequest
  <2>3. ASSUME NEW u \in BOOLEAN, asked' = Asked("canonicalize", << >>, u)
        PROVE  Promise!IsRequest(Asking')
    <3>1. Asking' = Promise!Asked("canonicalize", {}, u)
      BY <1>3, <2>3, NothingMeans DEF Asked, Promise!Asked
    <3> QED BY <3>1 DEF Promise!IsRequest
  <2> QED BY <2>1, <2>2, <2>3 DEF IsRequest
<1>5. Promise!Begin
  BY <1>1, <1>2, <1>4 DEF Promise!Begin, Value, Asking
<1> QED BY <1>5 DEF Promise!Next

LEMMA ValueWaits ==
    ASSUME at \notin { "idle", "failed", "over" }, at' \notin { "idle", "failed", "over" },
           UNCHANGED << before, failed, lost, asked >>
    PROVE  UNCHANGED promiseVars
BY DEF promiseVars, Value, Asking, Seen, InCall

(* A call that returns has done what it was asked for.                     *)
LEMMA ValueReturns ==
    ASSUME at \notin { "idle", "failed", "over" }, at' = "idle",
           failed = FALSE, UNCHANGED << failed, lost >>, Asking.name # "none",
           IF lost THEN Value' \in SUBSET Promise!Promised(Value, Asking)
                   ELSE Value' = Promise!Promised(Value, Asking)
    PROVE  Promise!Next
<1>1. Asking' = Promise!NoCall
  BY RestAsks
<1>2. Asking # Promise!NoCall
  BY DEF Promise!NoCall, Promise!Asked
<1>3. Promise!Return
  BY <1>1, <1>2 DEF Promise!Return, Value, Asking
<1> QED BY <1>3 DEF Promise!Next

LEMMA InitMeaning == Init => MeaningInv /\ Promise!Init
<1> SUFFICES ASSUME Init PROVE MeaningInv /\ Promise!Init
  OBVIOUS
<1>1. /\ failed = FALSE /\ lost = FALSE /\ asked = NoCall /\ before = << >>
      /\ at \in { "idle", "over" }
  BY DEF Init
<1>2. MeaningInv
  BY <1>1 DEF MeaningInv, Flags, MaskSays, MergeMeans, FoldMeans
<1>3. at = "idle" => sets["cr"].points = << >>
  BY Names, FreshIs DEF Init
<1>4. Value = {}
  BY <1>1, <1>3, NothingMeans DEF Value, Points
<1>5. Asking = Promise!NoCall
  BY <1>1, RestAsks
<1> QED BY <1>1, <1>2, <1>4, <1>5 DEF Promise!Init, Value, Asking

LEMMA Op1Means == ASSUME SetsInv, MeaningInv, Op1 PROVE MeaningInv' /\ Promise!Next
<1>1. at = "idle" /\ at' = "merge" /\ into' = "cr" /\ before' = sets["cr"].points
      /\ lost' = FALSE /\ failed' = failed
  BY DEF Op1, Calls, Points
<1>2. PICK b \in Operands, op \in { "union", "inter", "xor", "sub" } :
          merge' = Start(sets["cr"].points, b, op) /\ asked' = Asked(op, b, FALSE)
  BY DEF Op1, Points
<1>3. OfOperand'
  BY <1>1, <1>2 DEF OfOperand, Start
<1>4. Flags' /\ MaskSays' /\ MergeMeans' /\ FoldMeans'
  BY <1>1, <1>3 DEF MeaningInv, Flags, MaskSays, MergeMeans, FoldMeans
<1>5. IsRequest(asked')
  BY <1>2 DEF IsRequest
<1>6. failed = FALSE
  BY <1>1 DEF MeaningInv, Flags
<1> QED BY <1>1, <1>4, <1>5, <1>6, ValueBegins DEF MeaningInv

LEMMA AddBehindMeans ==
    ASSUME SetsInv, MeaningInv, AddBehind PROVE MeaningInv' /\ Promise!Next
<1>1. at = "idle" /\ at' = "add" /\ before' = sets["cr"].points /\ sets' = sets
      /\ lost' = FALSE /\ failed' = failed /\ todo' \in Operands
      /\ asked' = Asked("union", todo', FALSE)
  BY DEF AddBehind, Calls, Points
<1>2. Flags' /\ MaskSays' /\ MergeMeans' /\ FoldMeans'
  BY <1>1 DEF MeaningInv, Flags, MaskSays, MergeMeans, FoldMeans
<1>3. IsRequest(asked') /\ failed = FALSE
  BY <1>1 DEF IsRequest, MeaningInv, Flags
<1> QED BY <1>1, <1>2, <1>3, ValueBegins DEF MeaningInv

LEMMA CallInvertMeans ==
    ASSUME SetsInv, MeaningInv, CallInvert PROVE MeaningInv' /\ Promise!Next
<1>1. at = "idle" /\ at' = "invert" /\ into' = "cr" /\ before' = sets["cr"].points
      /\ sets' = sets /\ lost' = FALSE /\ failed' = failed
      /\ asked' = Asked("complement", << >>, FALSE)
  BY DEF CallInvert, Calls, Points
<1>2. Flags' /\ MaskSays' /\ MergeMeans' /\ FoldMeans'
  BY <1>1 DEF MeaningInv, Flags, MaskSays, MergeMeans, FoldMeans
<1>3. IsRequest(asked') /\ failed = FALSE
  BY <1>1 DEF IsRequest, MeaningInv, Flags
<1> QED BY <1>1, <1>2, <1>3, ValueBegins DEF MeaningInv

LEMMA CallCanonicalizeMeans ==
    ASSUME SetsInv, MeaningInv, CallCanonicalize PROVE MeaningInv' /\ Promise!Next
<1>1. at = "idle" /\ at' = "mask" /\ before' = sets["cr"].points
      /\ lost' = FALSE /\ failed' = failed
  BY DEF CallCanonicalize, Calls, Points
<1>2. sets' = [n \in NAMES |-> IF n \in FOUR THEN Fresh ELSE sets[n]]
  BY DEF CallCanonicalize
<1>3. sets'["cr"] = sets["cr"] /\ sets'["mask"] = Fresh
  BY <1>2, Names DEF FOUR
<1>4. PICK u \in BOOLEAN : /\ folding' = [folding EXCEPT !.is_unicode = u]
                           /\ todo' = CaseRange({ Mode(u) })
                           /\ asked' = Asked("canonicalize", << >>, u)
  BY DEF CallCanonicalize, Mode
<1>5. folding \in Folding
  BY DEF SetsInv, CallTyped
<1>6. folding'.is_unicode = u
  BY <1>4, <1>5 DEF Folding
<1>7. todo' = MaskOf(folding')
  BY <1>4, <1>6 DEF MaskOf
<1>8. todo' \in Seq(Nat)
  <2>1. { Mode(u) } \in MASKS
    BY DEF MASKS, Mode
  <2>2. IsCodeSet(CaseRange({ Mode(u) }))
    BY <2>1, CaseRangeKeeps
  <2> QED BY <1>4, <2>2 DEF IsCodeSet, IsOrdered
<1>9. sets'["mask"].points \o todo' = todo'
  <2>1. sets'["mask"].points = << >>
    BY <1>3, FreshIs
  <2> QED BY <2>1, <1>8
<1>10. Flags' /\ MaskSays' /\ MergeMeans' /\ FoldMeans'
  BY <1>1, <1>3, <1>7, <1>9 DEF MeaningInv, Flags, MaskSays, MergeMeans, FoldMeans
<1>11. IsRequest(asked') /\ failed = FALSE
  BY <1>1, <1>4 DEF IsRequest, MeaningInv, Flags
<1> QED BY <1>1, <1>10, <1>11, ValueBegins DEF MeaningInv

LEMMA MergeTurnMeans ==
    ASSUME SetsInv, MeaningInv, MergeTurn PROVE MeaningInv' /\ UNCHANGED promiseVars
<1>1. at = "merge" /\ at' = "merge" /\ into' = into /\ merge' = Turn(merge) /\ ~Ended(merge)
      /\ UNCHANGED << failed, lost, asked, before, folding >>
  BY DEF MergeTurn, Inside, Turned
<1>2. merge'.a = merge.a /\ merge'.b = merge.b /\ merge'.op = merge.op
  <2>1. Merging(merge)
    BY <1>1 DEF SetsInv, Filled, MergeSound
  <2> QED BY <1>1, <2>1, TurnOf
<1>3. into \in { "cr", "inter", "sub" }
  BY <1>1 DEF SetsInv, CallTyped
<1>4. /\ into # "cr" => sets'["cr"] = sets["cr"]
      /\ sets'["mask"] = sets["mask"]
      /\ into # "inter" => sets'["inter"] = sets["inter"]
  <2>1. sets' = [sets EXCEPT ![into] = With(@, Turned.out)] /\ sets \in [NAMES -> CharSets]
    BY DEF MergeTurn, SetsInv, SetsTyped
  <2> QED BY <1>3, <2>1, Names
<1>5. OfOperand => OfOperand'
  BY <1>1, <1>2 DEF OfOperand
<1>6. OfFolded => OfFolded'
  BY <1>1, <1>2 DEF OfFolded, ForCanonicalize, Image, Agreed
<1>7. into = "sub" /\ InterSays => InterSays'
  BY <1>1, <1>4 DEF InterSays
<1>8. Flags' /\ MaskSays' /\ MergeMeans' /\ FoldMeans'
  BY <1>1, <1>2, <1>3, <1>4, <1>5, <1>6, <1>7
     DEF MeaningInv, Flags, MaskSays, MergeMeans, FoldMeans
<1> QED BY <1>1, <1>8, ValueWaits DEF MeaningInv

LEMMA MergedMeans ==
    ASSUME SetsInv, at = "merge", Ended(merge), NEW c \in Nat
    PROVE  Holds(c, Compress(merge.out))
               <=> IsIn(merge.op, Holds(c, merge.a), Holds(c, merge.b))
<1>1. MergeSound
  BY DEF SetsInv, Filled
<1>2. IsCodeSet(merge.out) /\ Merging(merge)
  BY <1>1, MergeEnded DEF MergeSound
<1>3. Holds(c, Compress(merge.out)) <=> Holds(c, merge.out)
  BY <1>2, CompressSays
<1>4. Holds(c, merge.out) <=> IsIn(merge.op, Holds(c, merge.a), Holds(c, merge.b))
  BY <1>2, MergeIsRight
<1> QED BY <1>3, <1>4

LEMMA InterEnds ==
    ASSUME SetsInv, MeaningInv, MergeEnds, into = "inter"
    PROVE  MeaningInv' /\ UNCHANGED promiseVars
<1>1. at = "merge" /\ Ended(merge) /\ at' = "invert" /\ into' = "mask"
      /\ sets' = [sets EXCEPT !["inter"].points = Compress(@)]
      /\ UNCHANGED << failed, lost, asked, before, folding >>
  BY DEF MergeEnds, Inside
<1>2. sets["inter"].points = merge.out
  BY <1>1 DEF SetsInv, Filled
<1>3. /\ sets'["inter"].points = Compress(merge.out)
      /\ sets'["cr"] = sets["cr"] /\ sets'["mask"] = sets["mask"]
  <2>1. sets \in [NAMES -> CharSets]
    BY DEF SetsInv, SetsTyped
  <2> QED BY <1>1, <1>2, <2>1, Names DEF CharSets
<1>4. merge.a = MaskOf(folding) /\ merge.b = before /\ merge.op = "inter"
  BY <1>1 DEF MeaningInv, MergeMeans
<1>5. ASSUME NEW c \in Nat
      PROVE  Holds(c, sets'["inter"].points) <=> Holds(c, MaskOf(folding)) /\ Holds(c, before)
  <2>1. Holds(c, Compress(merge.out)) <=> IsIn("inter", Holds(c, merge.a), Holds(c, merge.b))
    BY <1>1, <1>4, MergedMeans
  <2> QED BY <1>3, <1>4, <2>1 DEF IsIn
<1>6. InterSays'
  BY <1>1, <1>5 DEF InterSays
<1>7. Flags' /\ MaskSays' /\ MergeMeans' /\ FoldMeans'
  BY <1>1, <1>3, <1>6 DEF MeaningInv, Flags, MaskSays, MergeMeans, FoldMeans
<1> QED BY <1>1, <1>7, ValueWaits DEF MeaningInv

LEMMA MaskIsSet ==
    ASSUME CallTyped
    PROVE  IsCodeSet(MaskOf(folding)) /\ folding.is_unicode \in BOOLEAN
<1>1. folding.is_unicode \in BOOLEAN
  BY DEF CallTyped, Folding
<1>2. { Mode(folding.is_unicode) } \in MASKS
  BY <1>1 DEF MASKS, Mode
<1> QED BY <1>1, <1>2, CaseRangeKeeps DEF MaskOf

LEMMA SubEnds ==
    ASSUME SetsInv, MeaningInv, MergeEnds, into = "sub"
    PROVE  MeaningInv' /\ UNCHANGED promiseVars
<1>1. at = "merge" /\ Ended(merge) /\ at' = "fold"
      /\ sets' = [sets EXCEPT !["sub"].points = Compress(@)]
      /\ todo' = CodePoints(sets["inter"].points)
      /\ folding' = [folding EXCEPT !.idx = 1, !.now = << >>]
      /\ UNCHANGED << failed, lost, asked, before >>
  BY DEF MergeEnds, Inside, Points, NoInterval
<1>2. sets["sub"].points = merge.out /\ IsCodeSet(sets["inter"].points)
      /\ sets["result"].points = << >>
  BY <1>1 DEF SetsInv, Filled
<1>3. sets'["sub"].points = Compress(merge.out) /\ sets'["result"] = sets["result"]
  <2>1. sets \in [NAMES -> CharSets]
    BY DEF SetsInv, SetsTyped
  <2> QED BY <1>1, <1>2, <2>1, Names DEF CharSets
<1>4. /\ InterSays /\ merge.a = Invert(MaskOf(folding)) /\ merge.b = before
      /\ merge.op = "inter"
  BY <1>1 DEF MeaningInv, MergeMeans
<1>5. folding'.is_unicode = folding.is_unicode /\ folding'.now = << >>
  <2>1. folding \in Folding
    BY DEF SetsInv, CallTyped
  <2> QED BY <1>1, <2>1 DEF Folding
<1>6. MaskOf(folding') = MaskOf(folding)
  BY <1>5 DEF MaskOf
<1>7. ASSUME NEW c \in Nat, c < Infinity
      PROVE  Holds(c, sets'["sub"].points) <=> Holds(c, before) /\ ~Holds(c, MaskOf(folding))
  <2>1. Holds(c, Compress(merge.out)) <=> IsIn("inter", Holds(c, merge.a), Holds(c, merge.b))
    BY <1>1, <1>4, MergedMeans
  <2>2. Holds(c, Invert(MaskOf(folding))) <=> ~Holds(c, MaskOf(folding))
    BY <1>7, MaskIsSet, InvertSays DEF SetsInv
  <2> QED BY <1>3, <1>4, <2>1, <2>2 DEF IsIn
<1>8. SubSays'
  BY <1>1, <1>6, <1>7 DEF SubSays
<1>9. ASSUME NEW y \in Nat
      PROVE  Has(todo', y) <=> Holds(y, before) /\ Holds(y, MaskOf(folding))
  <2>1. Has(todo', y) <=> Holds(y, sets["inter"].points)
    BY <1>1, <1>2, CodePointsSay
  <2> QED BY <1>4, <2>1 DEF InterSays
<1>10. ASSUME NEW x \in Nat
       PROVE  ToCome(x)' <=> FoldedIn(x)'
  BY <1>1, <1>6, <1>9 DEF ToCome, FoldedIn
<1>11. ASSUME NEW x \in Nat
       PROVE  ~Holds(x, sets'["result"].points) /\ ~Holds(x, folding'.now)
  BY <1>2, <1>3, <1>5, HoldsNone
<1>12. GatheredSays'
  BY <1>10, <1>11 DEF GatheredSays, Agreed
<1>13. Flags' /\ MaskSays' /\ MergeMeans' /\ FoldMeans'
  BY <1>1, <1>8, <1>12 DEF MeaningInv, Flags, MaskSays, MergeMeans, FoldMeans
<1> QED BY <1>1, <1>13, ValueWaits DEF MeaningInv

LEMMA OperandMeans ==
    ASSUME NEW b \in Operands, NEW s, NEW op \in { "union", "inter", "xor", "sub" },
           NEW r, \A c \in Nat : Holds(c, r) <=> IsIn(op, Holds(c, s), Holds(c, b)),
           at \notin { "idle", "failed", "over" }, at' = "idle", asked = Asked(op, b, FALSE),
           failed = FALSE, UNCHANGED << failed, lost >>,
           Value = Meaning(s), Value' = Meaning(r)
    PROVE  Promise!Next
<1>1. \A c \in Universe : Holds(c, r) <=> IsIn(op, Holds(c, s), Holds(c, b))
  BY UniverseIs
<1>2. Meaning(r) = Promise!Combined(Meaning(s), op, Meaning(b))
  <2>1. ASSUME NEW c \in Universe
        PROVE  c \in Meaning(r) <=> c \in Promise!Combined(Meaning(s), op, Meaning(b))
    <3>1. c \in Promise!Combined(Meaning(s), op, Meaning(b))
              <=> IsIn(op, c \in Meaning(s), c \in Meaning(b))
      BY CombinedIs
    <3>2. /\ c \in Meaning(r) <=> Holds(c, r)
          /\ c \in Meaning(s) <=> Holds(c, s)
          /\ c \in Meaning(b) <=> Holds(c, b)
      BY DEF Meaning
    <3> QED BY <1>1, <3>1, <3>2 DEF IsIn
  <2>2. ASSUME NEW c \in Promise!Combined(Meaning(s), op, Meaning(b)) PROVE c \in Universe
    <3>1. IsIn(op, c \in Meaning(s), c \in Meaning(b))
      BY <2>2, CombinedIs
    <3>2. c \in Meaning(s) \/ c \in Meaning(b)
      BY <3>1 DEF IsIn
    <3> QED BY <3>2 DEF Meaning
  <2>3. Meaning(r) \subseteq Universe
    BY DEF Meaning
  <2> QED BY <2>1, <2>2, <2>3
<1>3. Asking = Asked(op, Meaning(b), FALSE)
  BY InWorkAsks DEF Asked
<1>4. Value' = Promise!Promised(Value, Asking)
  <2>1. Asking.name = op /\ Asking.operand = Meaning(b)
    BY <1>3 DEF Asked
  <2> QED BY <1>2, <2>1 DEF Promise!Promised
<1>5. Asking.name # "none"
  BY <1>3 DEF Asked
<1>6. IF lost THEN Value' \in SUBSET Promise!Promised(Value, Asking)
              ELSE Value' = Promise!Promised(Value, Asking)
  BY <1>4
<1> QED BY <1>5, <1>6, ValueReturns

LEMMA ImageIs ==
    ASSUME NEW x \in Universe, NEW u \in BOOLEAN
    PROVE  Image(x, u) <=> \E y \in Meaning(before) : x = Canonicalize(y, u)
<1>1. ASSUME NEW y \in Nat, Holds(y, before), x = Canonicalize(y, u)
      PROVE  y \in Meaning(before)
  BY <1>1, CanonicalStays DEF Meaning
<1>2. ASSUME NEW y \in Meaning(before)
      PROVE  y \in Nat /\ Holds(y, before)
  BY UniverseIs DEF Meaning
<1> QED BY <1>1, <1>2 DEF Image

LEMMA ImageInside ==
    ASSUME NEW u \in BOOLEAN, NEW y \in Meaning(before)
    PROVE  Canonicalize(y, u) \in Universe
<1>1. y \in Universe /\ y \in Nat
  BY UniverseIs DEF Meaning
<1> QED BY <1>1, CanonicalStays

LEMMA FoldedMeans ==
    ASSUME Flags, failed = FALSE, UNCHANGED << failed, lost >>, NEW u \in BOOLEAN, NEW r,
           at \notin { "idle", "failed", "over" }, at' = "idle",
           asked = Asked("canonicalize", << >>, u),
           Value = Meaning(before), Value' = Meaning(r),
           \A x \in Universe : Agreed(Holds(x, r), Image(x, u))
    PROVE  Promise!Next
<1> DEFINE image == { Canonicalize(c, u) : c \in Meaning(before) }
<1>1. ASSUME NEW x \in Universe
      PROVE  Image(x, u) <=> x \in image
  BY ImageIs
<1>2. image \subseteq Universe
  BY ImageInside
<1>3. Meaning(r) \subseteq image
  BY <1>1 DEF Meaning, Agreed
<1>4. ~lost => image \subseteq Meaning(r)
  BY <1>1, <1>2 DEF Meaning, Agreed
<1>5. IF lost THEN Value' \in SUBSET image ELSE Value' = image
  BY <1>3, <1>4
<1>6. image = { Canonicalize(c, u) : c \in Value }
  OBVIOUS
<1>7. Asking.name = "canonicalize" /\ Asking.is_unicode = u
  BY InWorkAsks DEF Asked
<1>8. Promise!Promised(Value, Asking) = image
  BY <1>6, <1>7 DEF Promise!Promised
<1> QED BY <1>5, <1>7, <1>8, ValueReturns

LEMMA SetEnds ==
    ASSUME SetsInv, MeaningInv, MergeEnds, into = "cr"
    PROVE  MeaningInv' /\ Promise!Next
<1>1. at = "merge" /\ Ended(merge) /\ at' = "idle"
      /\ UNCHANGED << failed, lost, asked, before >>
  BY DEF MergeEnds, Inside
<1>2. sets["cr"].points = merge.out
  BY <1>1 DEF SetsInv, Filled
<1>3. sets'["cr"].points = Compress(merge.out)
  <2>1. sets \in [NAMES -> CharSets]
    BY DEF SetsInv, SetsTyped
  <2>2. sets'["cr"] = [sets EXCEPT !["cr"].points = Compress(@)]["cr"]
    BY Names DEF MergeEnds
  <2> QED BY <1>2, <2>1, <2>2, Names DEF CharSets
<1>4. Value = Meaning(before) /\ Value' = Meaning(Compress(merge.out))
  BY <1>1, <1>3 DEF Value, Points
<1>5. failed = FALSE
  BY <1>1 DEF MeaningInv, Flags
<1>6. ASSUME NEW c \in Nat
      PROVE  Holds(c, Compress(merge.out))
                 <=> IsIn(merge.op, Holds(c, merge.a), Holds(c, merge.b))
  BY <1>1, MergedMeans
<1>7. CASE OfOperand
  <2>1. merge.a = before /\ merge.b \in Operands
        /\ merge.op \in { "union", "inter", "xor", "sub" }
        /\ asked = Asked(merge.op, merge.b, FALSE)
    BY <1>7 DEF OfOperand
  <2>2. \A c \in Nat : Holds(c, Compress(merge.out))
                           <=> IsIn(merge.op, Holds(c, before), Holds(c, merge.b))
    BY <1>6, <2>1
  <2>3. Promise!Next
    BY <1>1, <1>4, <1>5, <2>1, <2>2, OperandMeans
  <2> QED BY <1>1, <2>3 DEF MeaningInv, Flags, MaskSays, MergeMeans, FoldMeans
<1>8. CASE OfFolded
  <2>1. PICK u \in BOOLEAN :
            /\ asked = Asked("canonicalize", << >>, u)
            /\ \A x \in Universe :
                  Agreed(Holds(x, merge.a) \/ Holds(x, merge.b), Image(x, u))
    BY <1>8, MaskIsSet DEF OfFolded, ForCanonicalize, SetsInv
  <2>2. ASSUME NEW x \in Universe
        PROVE  Agreed(Holds(x, Compress(merge.out)), Image(x, u))
    <3>1. Holds(x, Compress(merge.out)) <=> Holds(x, merge.a) \/ Holds(x, merge.b)
      <4>1. merge.op = "union" /\ x \in Nat
        BY <1>8, UniverseIs DEF OfFolded
      <4>2. Holds(x, Compress(merge.out))
                <=> IsIn("union", Holds(x, merge.a), Holds(x, merge.b))
        BY <1>6, <4>1
      <4> QED BY <4>2 DEF IsIn
    <3> QED BY <2>1, <3>1 DEF Agreed
  <2>3. Promise!Next
    BY <1>1, <1>4, <1>5, <2>1, <2>2, FoldedMeans DEF MeaningInv
  <2> QED BY <1>1, <2>3 DEF MeaningInv, Flags, MaskSays, MergeMeans, FoldMeans
<1> QED BY <1>1, <1>7, <1>8 DEF MeaningInv, MergeMeans

LEMMA MergeEndsMeans ==
    ASSUME SetsInv, MeaningInv, MergeEnds
    PROVE  MeaningInv' /\ (Promise!Next \/ UNCHANGED promiseVars)
<1>1. into \in { "cr", "inter", "sub" }
  BY DEF SetsInv, CallTyped, MergeEnds
<1> QED BY <1>1, SetEnds, InterEnds, SubEnds

LEMMA AddMeans == ASSUME SetsInv, MeaningInv, AskedSays, Add PROVE MeaningInv' /\ Promise!Next
<1>1. at = "add" /\ at' = "idle" /\ UNCHANGED << failed, lost, asked, before >>
  BY DEF Add, Inside
<1>2. sets["cr"].points = before /\ todo \in Operands /\ failed = FALSE
      /\ asked = Asked("union", todo, FALSE)
  BY <1>1 DEF MeaningInv, Flags, MaskSays, AskedSays
<1>3. Len(todo) = 2 /\ IsCodeSet(before \o todo) /\ SetsTyped
  BY <1>1, <1>2 DEF SetsInv, Filled
<1>4. IsCodeSet(todo)
  BY <1>2, OperandIsSet
<1>5. before \in Seq(Nat) /\ todo \in Seq(Nat)
  BY <1>2, <1>3, <1>4, PointsOf, Names DEF IsCodeSet, IsOrdered
<1>6. IsEven(before)
  <2>1. Len(before \o todo) = Len(before) + Len(todo) /\ Len(before) \in Nat
    BY <1>5, Joined
  <2>2. Len(before \o todo) = 2 + Len(before)
    BY <1>3, <2>1
  <2>3. Len(before \o todo) % 2 = 0
    BY <1>3 DEF IsCodeSet, IsEven
  <2>4. \A m \in Nat : (2 + m) % 2 = 0 <=> m % 2 = 0
    OBVIOUS
  <2> QED BY <2>1, <2>2, <2>3, <2>4 DEF IsEven
<1>7. todo = << todo[1], todo[2] >>
  BY <1>3, <1>5
<1>8. sets'["cr"].points = before \o todo
  <2>1. sets' = [sets EXCEPT !["cr"] = With(@, AddInterval(@.points, todo[1], todo[2]))]
    BY DEF Add
  <2>2. sets' = [sets EXCEPT !["cr"] = With(@, before \o todo)]
    BY <1>2, <1>7, <2>1 DEF AddInterval
  <2>3. before \o todo \in Seq(Nat)
    BY <1>3 DEF IsCodeSet, IsOrdered
  <2> QED BY <1>3, <2>2, <2>3, WrittenWith, Names
<1>9. \A c \in Nat : Holds(c, before \o todo)
                         <=> IsIn("union", Holds(c, before), Holds(c, todo))
  <2>1. ASSUME NEW c \in Nat
        PROVE  Holds(c, before \o todo) <=> Holds(c, before) \/ Holds(c, todo)
    BY <1>4, <1>5, <1>6, HoldsJoined DEF IsCodeSet
  <2> QED BY <2>1 DEF IsIn
<1>10. Value = Meaning(before) /\ Value' = Meaning(before \o todo)
  BY <1>1, <1>8 DEF Value, Points
<1>11. Promise!Next
  BY <1>1, <1>2, <1>9, <1>10, OperandMeans
<1> QED BY <1>1, <1>11 DEF MeaningInv, Flags, MaskSays, MergeMeans, FoldMeans

LEMMA InvertedIs ==
    ASSUME NEW x \in CharSets, IsCodeSet(x.points)
    PROVE  Inverted(x).points = Invert(x.points)
<1>1. PICK size \in Nat :
          Room(x, Len(x.points) + 2) = [points |-> x.points, size |-> size, live |-> x.live]
  <2>1. Len(x.points) + 2 \in Nat
    BY DEF IsCodeSet, IsOrdered
  <2> QED BY <2>1, RoomFor
<1> QED BY <1>1 DEF Inverted

LEMMA ComplementMeans ==
    ASSUME SetsInv, MeaningInv, AskedSays, InvertSet, into = "cr" PROVE MeaningInv' /\ Promise!Next
<1>1. at = "invert" /\ at' = "idle" /\ UNCHANGED << failed, lost, asked, before >>
      /\ sets' = [sets EXCEPT !["cr"] = Inverted(@)]
  BY DEF InvertSet, Inside
<1>2. sets["cr"].points = before /\ failed = FALSE
  BY <1>1 DEF MeaningInv, Flags, MaskSays
<1>3. IsCodeSet(before) /\ SetsTyped
  BY <1>1, <1>2 DEF SetsInv, Filled
<1>4. sets'["cr"].points = Invert(before)
  <2>1. Inverted(sets["cr"]).points = Invert(before)
    BY <1>2, <1>3, InvertedIs, PointsOf, Names
  <2>2. sets'["cr"] = Inverted(sets["cr"])
    BY <1>1, <1>3, Names DEF SetsTyped
  <2> QED BY <2>1, <2>2
<1>5. Value = Meaning(before) /\ Value' = Meaning(Invert(before))
  BY <1>1, <1>4 DEF Value, Points
<1>6. ASSUME NEW c \in Universe
      PROVE  Holds(c, Invert(before)) <=> ~Holds(c, before)
  BY <1>3, UniverseIs, InvertSays
<1>7. Value' = Universe \ Value
  BY <1>5, <1>6 DEF Meaning
<1>8. Promise!Next
  <2>1. Asking.name = "complement"
    BY <1>1, InWorkAsks DEF AskedSays, Asked
  <2>2. Value' = Promise!Promised(Value, Asking)
    BY <1>7, <2>1 DEF Promise!Promised
  <2>3. IF lost THEN Value' \in SUBSET Promise!Promised(Value, Asking)
                ELSE Value' = Promise!Promised(Value, Asking)
    BY <2>2
  <2> QED BY <1>1, <1>2, <2>1, <2>3, ValueReturns
<1> QED BY <1>1, <1>8 DEF MeaningInv, Flags, MaskSays, MergeMeans, FoldMeans

LEMMA InvertMaskMeans ==
    ASSUME SetsInv, MeaningInv, InvertSet, into = "mask"
    PROVE  MeaningInv' /\ UNCHANGED promiseVars
<1>1. at = "invert" /\ at' = "merge" /\ into' = "sub"
      /\ UNCHANGED << failed, lost, asked, before, folding >>
      /\ sets' = [sets EXCEPT !["mask"] = Inverted(@)]
      /\ merge' = Start(Invert(sets["mask"].points), sets["cr"].points, "inter")
  BY DEF InvertSet, Inside, Points
<1>2. /\ sets["cr"].points = before /\ sets["mask"].points = MaskOf(folding)
      /\ InterSays
  BY <1>1 DEF MeaningInv, MaskSays, MergeMeans
<1>3. merge'.a = Invert(MaskOf(folding)) /\ merge'.b = before /\ merge'.op = "inter"
  BY <1>1, <1>2 DEF Start
<1>4. sets'["inter"] = sets["inter"]
  BY <1>1, Names DEF SetsInv, SetsTyped
<1>5. InterSays'
  BY <1>1, <1>2, <1>4 DEF InterSays
<1>6. Flags' /\ MaskSays' /\ MergeMeans' /\ FoldMeans'
  BY <1>1, <1>3, <1>5 DEF MeaningInv, Flags, MaskSays, MergeMeans, FoldMeans
<1> QED BY <1>1, <1>6, ValueWaits DEF MeaningInv

LEMMA InvertSetMeans ==
    ASSUME SetsInv, MeaningInv, AskedSays, InvertSet
    PROVE  MeaningInv' /\ (Promise!Next \/ UNCHANGED promiseVars)
<1>1. into \in { "cr", "mask" }
  BY DEF SetsInv, CallTyped, InvertSet
<1> QED BY <1>1, ComplementMeans, InvertMaskMeans

LEMMA MaskTurnMeans ==
    ASSUME SetsInv, MeaningInv, MaskTurn PROVE MeaningInv' /\ UNCHANGED promiseVars
<1>1. at = "mask" /\ at' = "mask" /\ todo # << >>
      /\ UNCHANGED << failed, lost, asked, before, folding >>
      /\ sets' = [sets EXCEPT !["mask"] = With(@, AddInterval(@.points, todo[1], todo[2]))]
      /\ todo' = SubSeq(todo, 3, Len(todo))
  BY DEF MaskTurn, Inside
<1>2. /\ sets["cr"].points = before
      /\ sets["mask"].points \o todo = MaskOf(folding)
  BY <1>1 DEF MeaningInv, MaskSays
<1>3. IsEven(todo) /\ todo \in Seq(Nat) /\ SetsTyped
  BY <1>1 DEF SetsInv, Filled, CallTyped
<1>4. /\ << todo[1], todo[2] >> \in Seq(Nat) /\ todo' \in Seq(Nat)
      /\ << todo[1], todo[2] >> \o todo' = todo
  BY <1>1, <1>3, TakeTwo
<1>5. sets["mask"].points \in Seq(Nat)
  BY <1>3, PointsOf, Names
<1>6. sets'["mask"].points = sets["mask"].points \o << todo[1], todo[2] >>
      /\ sets'["cr"] = sets["cr"]
  <2>1. sets' = [sets EXCEPT !["mask"] = With(@, sets["mask"].points \o << todo[1], todo[2] >>)]
    BY <1>1 DEF AddInterval
  <2>2. sets["mask"].points \o << todo[1], todo[2] >> \in Seq(Nat)
    BY <1>4, <1>5, Joined
  <2> QED BY <1>3, <2>1, <2>2, WrittenWith, Names
<1>7. sets'["mask"].points \o todo' = MaskOf(folding)
  <2>1. (sets["mask"].points \o << todo[1], todo[2] >>) \o todo'
            = sets["mask"].points \o (<< todo[1], todo[2] >> \o todo')
    BY <1>4, <1>5, JoinedThrice
  <2> QED BY <1>2, <1>4, <1>6, <2>1
<1>8. Flags' /\ MaskSays' /\ MergeMeans' /\ FoldMeans'
  BY <1>1, <1>2, <1>6, <1>7 DEF MeaningInv, Flags, MaskSays, MergeMeans, FoldMeans
<1> QED BY <1>1, <1>8, ValueWaits DEF MeaningInv

LEMMA MaskEndsMeans ==
    ASSUME SetsInv, MeaningInv, MaskEnds PROVE MeaningInv' /\ UNCHANGED promiseVars
<1>1. at = "mask" /\ at' = "merge" /\ into' = "inter" /\ todo = << >>
      /\ UNCHANGED << sets, failed, lost, asked, before, folding >>
      /\ merge' = Start(sets["mask"].points, sets["cr"].points, "inter")
  BY DEF MaskEnds, Inside, Points
<1>2. /\ sets["cr"].points = before
      /\ sets["mask"].points \o todo = MaskOf(folding)
  BY <1>1 DEF MeaningInv, MaskSays
<1>3. sets["mask"].points = MaskOf(folding)
  <2>1. sets["mask"].points \in Seq(Nat)
    BY PointsOf, Names DEF SetsInv
  <2> QED BY <1>1, <1>2, <2>1
<1>4. merge'.a = MaskOf(folding) /\ merge'.b = before /\ merge'.op = "inter"
  BY <1>1, <1>2, <1>3 DEF Start
<1>5. Flags' /\ MaskSays' /\ MergeMeans' /\ FoldMeans'
  BY <1>1, <1>2, <1>3, <1>4 DEF MeaningInv, Flags, MaskSays, MergeMeans, FoldMeans
<1> QED BY <1>1, <1>5, ValueWaits DEF MeaningInv

LEMMA NowIs ==
    ASSUME NEW v, NowOrNone(v)
    PROVE  v \in Seq(Nat) /\ IsEven(v)
<1>1. CASE v = << >>
  BY <1>1, EmptySet DEF IsCodeSet, IsOrdered
<1>2. CASE v \in INTERVALS
  <2>1. IsCodeSet(<< v[1], v[2] >>)
    BY <1>2, IntervalIs, Pair
  <2> QED BY <1>2, <2>1, IntervalIs DEF IsCodeSet, IsOrdered
<1> QED BY <1>1, <1>2 DEF NowOrNone

LEMMA HeadOrTail ==
    ASSUME NEW q \in Seq(Nat), q # << >>, NEW y
    PROVE  Has(q, y) <=> y = Head(q) \/ Has(Tail(q), y)
<1>1. /\ Len(q) \in Nat /\ Len(q) # 0 /\ Len(Tail(q)) = Len(q) - 1 /\ Head(q) = q[1]
      /\ \A k \in 1 .. Len(q) - 1 : Tail(q)[k] = q[k + 1]
  BY HeadTailProperties
<1>2. ASSUME Has(q, y), y # Head(q) PROVE Has(Tail(q), y)
  <2>1. PICK k \in 1 .. Len(q) : q[k] = y
    BY <1>2 DEF Has
  <2>2. k # 1
    BY <1>1, <1>2, <2>1
  <2>3. k - 1 \in 1 .. Len(q) - 1 /\ k = (k - 1) + 1
    BY <1>1, <2>1, <2>2
  <2> QED BY <1>1, <2>1, <2>3 DEF Has
<1>3. ASSUME Has(Tail(q), y) PROVE Has(q, y)
  <2>1. PICK k \in 1 .. Len(q) - 1 : Tail(q)[k] = y
    BY <1>1, <1>3 DEF Has
  <2>2. k + 1 \in 1 .. Len(q) /\ q[k + 1] = y
    BY <1>1, <2>1
  <2> QED BY <2>2 DEF Has
<1>4. ASSUME y = Head(q) PROVE Has(q, y)
  BY <1>1, <1>4 DEF Has
<1> QED BY <1>2, <1>3, <1>4

(* A turn of the folding loop takes a code point that is still to come and *)
(* puts what it folds to where it is not lost any more.                    *)
LEMMA FoldTakes ==
    ASSUME CallTyped, todo # << >>, HasEntry(folding, Head(todo)), todo' = Tail(todo),
           folding' = [folding EXCEPT !.idx = Folds.idx, !.now = Folds.now]
    PROVE  /\ folding'.is_unicode = folding.is_unicode
           /\ Folds.done \in Seq(Nat) /\ IsEven(Folds.done)
           /\ \A x \in Nat :
                 Holds(x, Folds.done) \/ Holds(x, folding'.now) \/ ToCome(x)'
                     <=> Holds(x, folding.now) \/ ToCome(x)
<1>1. todo \in Seq(Nat) /\ folding \in Folding
  BY DEF CallTyped
<1>2. Head(todo) \in Nat /\ Tail(todo) \in Seq(Nat)
  BY <1>1, HeadTailProperties
<1>3. PICK i, v, u, c : i = folding.idx /\ v = folding.now /\ u = folding.is_unicode
                        /\ c = Head(todo)
  OBVIOUS
<1>4. i \in Nat \ {0} /\ v \in Seq(Nat) /\ NowOrNone(v) /\ u \in BOOLEAN /\ c \in Nat
  BY <1>1, <1>2, <1>3 DEF Folding
<1>5. PICK s, t : s = [idx |-> i, now |-> v, done |-> << >>] /\ t = FoldOne(s, c, u)
  OBVIOUS
<1>6. HasEntry(s, c)
  BY <1>3, <1>5 DEF HasEntry
<1>7. Folds = t
  BY <1>3, <1>5 DEF Folds
<1>8. t.done \in Seq(Nat) /\ IsEven(t.done)
  <2>1. NowOrNone(t.done)
    BY <1>4, <1>5, <1>6, FoldOneKeeps
  <2> QED BY <2>1, NowIs
<1>9. folding'.is_unicode = u /\ folding'.now = t.now
  BY <1>1, <1>3, <1>7 DEF Folding
<1>10. ASSUME NEW x \in Nat
       PROVE  Holds(x, t.done) \/ Holds(x, t.now) <=> Holds(x, v) \/ x = Canonicalize(c, u)
  BY <1>4, <1>5, <1>6, FoldsSay
<1>11. ASSUME NEW x \in Nat
       PROVE  ToCome(x) <=> x = Canonicalize(c, u) \/ ToCome(x)'
  <2>1. \A y \in Nat : Has(todo, y) <=> y = c \/ Has(todo', y)
    BY <1>1, <1>3, HeadOrTail
  <2> QED BY <1>3, <1>4, <1>9, <2>1 DEF ToCome
<1> QED BY <1>3, <1>7, <1>8, <1>9, <1>10, <1>11

LEMMA FoldTurnMeans ==
    ASSUME SetsInv, MeaningInv, FoldTurn PROVE MeaningInv' /\ UNCHANGED promiseVars
<1>1. at = "fold" /\ at' = "fold" /\ todo # << >> /\ HasEntry(folding, Head(todo))
      /\ UNCHANGED << failed, lost, asked, before >> /\ todo' = Tail(todo)
      /\ sets' = [sets EXCEPT !["result"] = With(@, @.points \o Folds.done)]
      /\ folding' = [folding EXCEPT !.idx = Folds.idx, !.now = Folds.now]
  BY DEF FoldTurn, Inside
<1>2. CallTyped /\ SetsTyped /\ InPairs(sets["result"].points)
  BY <1>1 DEF SetsInv, Filled
<1>3. sets["result"].points \in Seq(Nat) /\ IsEven(sets["result"].points)
  BY <1>2 DEF InPairs
<1>4. /\ folding'.is_unicode = folding.is_unicode
      /\ Folds.done \in Seq(Nat) /\ IsEven(Folds.done)
      /\ \A x \in Nat : Holds(x, Folds.done) \/ Holds(x, folding'.now) \/ ToCome(x)'
                            <=> Holds(x, folding.now) \/ ToCome(x)
  BY <1>1, <1>2, FoldTakes
<1>5. /\ sets'["result"].points = sets["result"].points \o Folds.done
      /\ sets'["sub"] = sets["sub"]
  <2>1. sets["result"].points \o Folds.done \in Seq(Nat)
    BY <1>3, <1>4, Joined
  <2> QED BY <1>1, <1>2, <2>1, WrittenWith, Names
<1>6. MaskOf(folding') = MaskOf(folding)
  BY <1>4 DEF MaskOf
<1>7. SubSays /\ GatheredSays
  BY <1>1 DEF MeaningInv, FoldMeans
<1>8. SubSays'
  BY <1>1, <1>5, <1>6, <1>7 DEF SubSays
<1>9. ASSUME NEW x \in Nat
      PROVE  /\ FoldedIn(x)' <=> FoldedIn(x)
             /\ Holds(x, sets'["result"].points) \/ Holds(x, folding'.now) \/ ToCome(x)'
                    <=> Holds(x, sets["result"].points) \/ Holds(x, folding.now) \/ ToCome(x)
  <2>1. FoldedIn(x)' <=> FoldedIn(x)
    BY <1>1, <1>4, <1>6 DEF FoldedIn
  <2>2. Holds(x, sets["result"].points \o Folds.done)
            <=> Holds(x, sets["result"].points) \/ Holds(x, Folds.done)
    BY <1>3, <1>4, HoldsJoined
  <2> QED BY <1>4, <1>5, <2>1, <2>2
<1>10. GatheredSays'
  BY <1>1, <1>7, <1>9 DEF GatheredSays, Agreed
<1>11. Flags' /\ MaskSays' /\ MergeMeans' /\ FoldMeans'
  BY <1>1, <1>8, <1>10 DEF MeaningInv, Flags, MaskSays, MergeMeans, FoldMeans
<1> QED BY <1>1, <1>11, ValueWaits DEF MeaningInv

LEMMA IntervalDroppedMeans ==
    ASSUME SetsInv, MeaningInv, AskedSays, IntervalDropped
    PROVE  MeaningInv' /\ (Promise!Next \/ UNCHANGED promiseVars)
<1>1. at = "fold" /\ at' = "fold" /\ todo # << >> /\ HasEntry(folding, Head(todo))
      /\ UNCHANGED << sets, failed, asked, before >> /\ todo' = Tail(todo) /\ lost' = TRUE
      /\ folding' = [folding EXCEPT !.idx = Folds.idx, !.now = Folds.now]
  BY DEF IntervalDropped
<1>2. CallTyped
  BY DEF SetsInv
<1>3. /\ folding'.is_unicode = folding.is_unicode
      /\ \A x \in Nat : Holds(x, Folds.done) \/ Holds(x, folding'.now) \/ ToCome(x)'
                            <=> Holds(x, folding.now) \/ ToCome(x)
  BY <1>1, <1>2, FoldTakes
<1>4. MaskOf(folding') = MaskOf(folding)
  BY <1>3 DEF MaskOf
<1>5. SubSays /\ GatheredSays
  BY <1>1 DEF MeaningInv, FoldMeans
<1>6. SubSays'
  BY <1>1, <1>4, <1>5 DEF SubSays
<1>7. ASSUME NEW x \in Nat
      PROVE  Holds(x, sets["result"].points) \/ Holds(x, folding'.now) \/ ToCome(x)'
                 => FoldedIn(x)'
  <2>1. FoldedIn(x)' <=> FoldedIn(x)
    BY <1>1, <1>3, <1>4 DEF FoldedIn
  <2> QED BY <1>3, <1>5, <2>1 DEF GatheredSays, Agreed
<1>8. GatheredSays'
  BY <1>1, <1>7 DEF GatheredSays, Agreed
<1>9. Flags' /\ MaskSays' /\ MergeMeans' /\ FoldMeans'
  BY <1>1, <1>6, <1>8 DEF MeaningInv, Flags, MaskSays, MergeMeans, FoldMeans
<1>10. Value' = Value
  BY <1>1 DEF Value
<1>11. Promise!Next
  <2>1. failed = FALSE
    BY <1>1 DEF MeaningInv, Flags
  <2>2. Asking.name = "canonicalize" /\ Asking' = Asking
    BY <1>1, InWorkAsks DEF AskedSays, Canonicalizing, ForCanonicalize, Asked
  <2>3. Promise!Lose
    BY <1>1, <1>10, <2>2 DEF Promise!Lose, Value, Asking
  <2> QED BY <2>1, <2>3 DEF Promise!Next
<1> QED BY <1>9, <1>11 DEF MeaningInv

LEMMA FoldEndsMeans ==
    ASSUME SetsInv, MeaningInv, FoldEnds PROVE MeaningInv' /\ UNCHANGED promiseVars
<1>1. PICK all : all = sets["result"].points \o folding.now
  OBVIOUS
<1>2. at = "fold" /\ at' = "sort" /\ todo = << >> /\ given' = Intervals(all)
      /\ UNCHANGED << failed, lost, asked, before, folding >>
      /\ sets' = [sets EXCEPT !["result"] = With(@, all)]
  BY <1>1 DEF FoldEnds, Points, Call
<1>3. CallTyped /\ SetsTyped /\ InPairs(sets["result"].points)
  BY <1>2 DEF SetsInv, Filled
<1>4. sets["result"].points \in Seq(Nat) /\ IsEven(sets["result"].points)
  BY <1>3 DEF InPairs
<1>5. NowOrNone(folding.now)
  BY <1>3 DEF CallTyped, Folding
<1>6. folding.now \in Seq(Nat) /\ IsEven(folding.now)
  BY <1>5, NowIs
<1>7. InPairs(all) /\ all \in Seq(Nat)
  <2>1. InPairs(sets["result"].points \o folding.now)
    BY <1>3, <1>5, PairsOrNone
  <2> QED BY <1>1, <2>1 DEF InPairs
<1>8. sets'["sub"] = sets["sub"]
  BY <1>2, <1>3, <1>7, WrittenWith, Names
<1>9. SubSays /\ GatheredSays
  BY <1>2 DEF MeaningInv, FoldMeans
<1>10. SubSays'
  BY <1>2, <1>8, <1>9 DEF SubSays
<1>11. ASSUME NEW x \in Nat
       PROVE  Agreed(SomeHolds(Intervals(all), x), FoldedIn(x))
  <2>1. SomeHolds(Intervals(all), x) <=> Holds(x, all)
    BY <1>7, IntervalsSay DEF SomeHolds
  <2>2. Holds(x, all) <=> Holds(x, sets["result"].points) \/ Holds(x, folding.now)
    BY <1>1, <1>4, <1>6, HoldsJoined
  <2>3. ~ToCome(x)
    <3>1. \A y : ~Has(<< >>, y)
      BY DEF Has
    <3> QED BY <1>2, <3>1 DEF ToCome
  <2> QED BY <1>9, <2>1, <2>2, <2>3 DEF GatheredSays, Agreed
<1>12. GivenSays'
  <2>1. \A x \in Nat : FoldedIn(x)' <=> FoldedIn(x)
    BY <1>2 DEF FoldedIn
  <2> QED BY <1>2, <1>11, <2>1 DEF GivenSays, Agreed
<1>13. Flags' /\ MaskSays' /\ MergeMeans' /\ FoldMeans'
  BY <1>2, <1>10, <1>12 DEF MeaningInv, Flags, MaskSays, MergeMeans, FoldMeans
<1> QED BY <1>2, <1>13, ValueWaits DEF MeaningInv

(* What rqsort leaves is in order and covers what it was given.            *)
LEMMA ArrayMeans ==
    ASSUME SortInv, sorting = "done", \A k \in 1 .. Len(given) : given[k] \in INTERVALS
    PROVE  /\ \A k, l \in 1 .. Len(array) : k <= l => array[k][1] <= array[l][1]
           /\ \A x : SomeHolds(array, x) <=> SomeHolds(given, x)
<1>1. PICK n : n = Len(given)
  OBVIOUS
<1>2. n \in Nat /\ array \in Arranged(given, 1, n, n)
  BY <1>1, SortFacts DEF SortInv, Total
<1>3. PICK p \in Perms(1, n, n) : array = [i \in 1 .. n |-> given[p[i]]]
  BY <1>2 DEF Arranged
<1>4. p \in [1 .. n -> 1 .. n] /\ \A k \in 1 .. n : \E i \in 1 .. n : p[i] = k
  BY DEF Perms
<1>5. Len(array) = n /\ \A k \in 1 .. n : array[k] \in INTERVALS
  BY <1>1, ArrayOfIntervals
<1>6. \A i \in 1 .. n : array[i] = given[p[i]] /\ p[i] \in 1 .. n
  BY <1>3, <1>4
<1>7. ASSUME NEW x
      PROVE  SomeHolds(array, x) <=> SomeHolds(given, x)
  <2>1. ASSUME SomeHolds(array, x) PROVE SomeHolds(given, x)
    <3>1. PICK i \in 1 .. n : array[i][1] <= x /\ x < array[i][2]
      BY <1>5, <2>1 DEF SomeHolds
    <3> QED BY <1>1, <1>6, <3>1 DEF SomeHolds
  <2>2. ASSUME SomeHolds(given, x) PROVE SomeHolds(array, x)
    <3>1. PICK k \in 1 .. n : given[k][1] <= x /\ x < given[k][2]
      BY <1>1, <2>2 DEF SomeHolds
    <3>2. PICK i \in 1 .. n : p[i] = k
      BY <1>4
    <3> QED BY <1>5, <1>6, <3>1, <3>2 DEF SomeHolds
  <2> QED BY <2>1, <2>2
<1>8. Pending = {}
  <2>1. segments = << >> /\ ~InWork
    BY DEF SortInv, SortTypes, InWork
  <2>2. Len(segments) = 0
    BY <2>1
  <2>3. 1 .. 0 = {}
    OBVIOUS
  <2> QED BY <2>1, <2>2, <2>3 DEF Pending, Waiting
<1>9. OrderedBut(array, n, {})
  BY <1>1, <1>8 DEF SortInv, Total
<1>10. ASSUME NEW k \in 1 .. n, NEW l \in 1 .. n, k <= l
       PROVE  array[k][1] <= array[l][1]
  <2>1. array[k][1] \in Nat
    BY <1>5, IntervalIs
  <2>2. CASE k = l
    BY <2>1, <2>2
  <2>3. CASE k # l
    <3>1. k < l
      BY <1>2, <1>10, <2>3
    <3> QED BY <1>9, <3>1 DEF OrderedBut, Key
  <2> QED BY <2>2, <2>3
<1> QED BY <1>5, <1>7, <1>10

(* The folded and the unfolded part together are what the set folds to.    *)
LEMMA ImageSplits ==
    ASSUME CallTyped, NEW x \in Nat
    PROVE  Image(x, folding.is_unicode)
               <=> FoldedIn(x) \/ (Holds(x, before) /\ ~Holds(x, MaskOf(folding)))
<1>1. folding.is_unicode \in BOOLEAN
  BY DEF CallTyped, Folding
<1>2. \A y \in Nat : ~Holds(y, MaskOf(folding)) => Canonicalize(y, folding.is_unicode) = y
  BY <1>1, CanonicalOutside DEF MaskOf
<1> QED BY <1>2 DEF Image, FoldedIn

LEMMA SortedMeans ==
    ASSUME SetsInv, MeaningInv, AskedSays, Sorted PROVE MeaningInv' /\ UNCHANGED promiseVars
<1>1. PICK r : r = AbsorbAll(array)
  OBVIOUS
<1>2. /\ at = "sort" /\ at' = "merge" /\ into' = "cr" /\ sorting = "done"
      /\ UNCHANGED << failed, lost, asked, before, folding >>
      /\ merge' = Start(r, sets["sub"].points, "union")
  BY <1>1 DEF Sorted, Points, Call
<1>3. /\ CallTyped /\ SortInv
      /\ \A k \in 1 .. Len(given) : given[k] \in INTERVALS
  BY <1>2 DEF SetsInv, Filled
<1>4. SubSays /\ GivenSays
  BY <1>2 DEF MeaningInv, FoldMeans
<1>5. PICK n \in Nat : n = Len(array) /\ \A k \in 1 .. n : array[k] \in INTERVALS
  BY <1>3, ArrayOfIntervals
<1>6. ASSUME NEW x \in Nat
      PROVE  Holds(x, r) <=> SomeHolds(given, x)
  <2>1. \A k, l \in 1 .. n : k <= l => array[k][1] <= array[l][1]
    BY <1>2, <1>3, <1>5, ArrayMeans
  <2>2. Holds(x, AbsorbAll(array))
            <=> \E k \in 1 .. n : array[k][1] <= x /\ x < array[k][2]
    BY <1>5, <2>1, AbsorbAllSays
  <2>3. SomeHolds(array, x) <=> SomeHolds(given, x)
    BY <1>2, <1>3, ArrayMeans
  <2> QED BY <1>1, <1>5, <2>2, <2>3 DEF SomeHolds
<1>7. ASSUME NEW x \in Universe
      PROVE  Agreed(Holds(x, r) \/ Holds(x, sets["sub"].points), Image(x, folding.is_unicode))
  <2>1. x \in Nat /\ x < Infinity
    BY UniverseIs
  <2>2. Holds(x, sets["sub"].points) <=> Holds(x, before) /\ ~Holds(x, MaskOf(folding))
    BY <1>4, <2>1 DEF SubSays
  <2>3. Agreed(SomeHolds(given, x), FoldedIn(x))
    BY <1>4, <2>1 DEF GivenSays
  <2>4. Image(x, folding.is_unicode)
            <=> FoldedIn(x) \/ (Holds(x, before) /\ ~Holds(x, MaskOf(folding)))
    BY <1>3, <2>1, ImageSplits
  <2> QED BY <1>6, <2>1, <2>2, <2>3, <2>4 DEF Agreed
<1>8. OfFolded'
  <2>1. folding.is_unicode \in BOOLEAN
    BY <1>3 DEF CallTyped, Folding
  <2>2. merge'.a = r /\ merge'.b = sets["sub"].points /\ merge'.op = "union"
    BY <1>2 DEF Start
  <2>3. \A x \in Universe : Image(x, folding.is_unicode)' <=> Image(x, folding.is_unicode)
    BY <1>2 DEF Image
  <2>4. asked' = Asked("canonicalize", << >>, folding'.is_unicode)
    BY <1>2 DEF AskedSays, Canonicalizing, ForCanonicalize
  <2> QED BY <1>2, <1>7, <2>1, <2>2, <2>3, <2>4 DEF OfFolded, ForCanonicalize, Agreed, Image
<1>9. Flags' /\ MaskSays' /\ MergeMeans' /\ FoldMeans'
  BY <1>2, <1>8 DEF MeaningInv, Flags, MaskSays, MergeMeans, FoldMeans
<1> QED BY <1>2, <1>9, ValueWaits DEF MeaningInv

LEMMA CallIsNamed ==
    ASSUME SetsInv, MeaningInv, AskedSays, at \notin { "idle", "failed", "over" }
    PROVE  asked.name # "none"
<1>1. \/ at = "add" \/ Canonicalizing
      \/ at \in { "invert", "merge" } /\ into = "cr"
  BY DEF SetsInv, CallTyped, Canonicalizing
<1>2. at = "merge" /\ into = "cr" => OfOperand \/ OfFolded
  BY DEF MeaningInv, MergeMeans
<1> QED BY <1>1, <1>2 DEF AskedSays, OfOperand, OfFolded, ForCanonicalize, Asked

LEMMA OutOfMemoryMeans ==
    ASSUME SetsInv, MeaningInv, AskedSays, OutOfMemory PROVE MeaningInv' /\ Promise!Next
<1>1. at # "idle" /\ at' = "failed" /\ failed' = TRUE /\ UNCHANGED << lost, before >>
  BY DEF OutOfMemory, Refused
<1>2. at \notin { "failed", "over" }
  <2> SUFFICES ASSUME at \in { "failed", "over" } PROVE FALSE
    OBVIOUS
  <2>1. Request = Nothing
    BY DEF Request
  <2>2. 0 > sets["cr"].size
    BY <2>1 DEF OutOfMemory, Refused, Nothing, Asks
  <2>3. sets["cr"].size \in Nat
    BY Names, PointsOf DEF SetsInv
  <2> QED BY <2>2, <2>3
<1>3. failed = FALSE
  BY <1>2 DEF MeaningInv, Flags
<1>4. Value' = Value
  BY <1>1 DEF Value
<1>5. Promise!Next
  <2>1. Asking' = Promise!NoCall
    BY <1>1, RestAsks
  <2>2. Asking # Promise!NoCall
    <3>1. Asking.name = asked.name
      BY <1>1, <1>2, InWorkAsks DEF Asked
    <3>2. asked.name # "none"
      BY <1>1, <1>2, CallIsNamed
    <3> QED BY <3>1, <3>2 DEF Promise!NoCall, Promise!Asked
  <2>3. Promise!Fail
    BY <1>1, <1>4, <2>1, <2>2 DEF Promise!Fail, Value, Asking
  <2> QED BY <1>3, <2>3 DEF Promise!Next
<1>6. Flags' /\ MaskSays' /\ MergeMeans' /\ FoldMeans'
  BY <1>1 DEF MeaningInv, Flags, MaskSays, MergeMeans, FoldMeans
<1> QED BY <1>5, <1>6 DEF MeaningInv

LEMMA ClientFreesMeans ==
    ASSUME SetsInv, MeaningInv, ClientFrees PROVE MeaningInv' /\ UNCHANGED promiseVars
<1>1. at \in { "idle", "failed" } /\ at' = "over" /\ UNCHANGED << failed, lost >>
      /\ before' = IF at = "idle" THEN Points("cr") ELSE before
  BY DEF ClientFrees
<1>2. UNCHANGED promiseVars
  <2>1. Value' = Value
    BY <1>1 DEF Value
  <2>2. Asking' = Asking
    BY <1>1, RestAsks
  <2> QED BY <1>1, <2>1, <2>2 DEF promiseVars
<1>3. Flags' /\ MaskSays' /\ MergeMeans' /\ FoldMeans'
  BY <1>1 DEF MeaningInv, Flags, MaskSays, MergeMeans, FoldMeans
<1> QED BY <1>2, <1>3 DEF MeaningInv

LEMMA SameMeaning ==
    ASSUME MeaningInv, UNCHANGED setVars, given' = given
    PROVE  MeaningInv' /\ UNCHANGED promiseVars
<1>1. UNCHANGED << sets, at, merge, into, todo, folding, failed, lost, asked, before >>
  BY DEF setVars
<1>2. Flags'
  BY <1>1 DEF MeaningInv, Flags
<1>3. MaskSays'
  BY <1>1 DEF MeaningInv, MaskSays
<1>4. MergeMeans'
  BY <1>1 DEF MeaningInv, MergeMeans, InterSays, OfOperand, OfFolded, ForCanonicalize,
                           Agreed, Image
<1>5. FoldMeans'
  BY <1>1 DEF MeaningInv, FoldMeans, SubSays, GatheredSays, GivenSays, Agreed, FoldedIn, ToCome
<1>6. UNCHANGED promiseVars
  BY <1>1 DEF promiseVars, Value, Points, Asking, Seen, InCall
<1> QED BY <1>2, <1>3, <1>4, <1>5, <1>6 DEF MeaningInv

LEMMA NextMeans ==
    SetsInv /\ MeaningInv /\ AskedSays /\ [Next]_<< setVars, sortVars >>
        => MeaningInv' /\ [Promise!Next]_promiseVars
<1> SUFFICES ASSUME SetsInv, MeaningInv, AskedSays, [Next]_<< setVars, sortVars >>
             PROVE  MeaningInv' /\ (Promise!Next \/ UNCHANGED promiseVars)
  OBVIOUS
<1>1. CASE UNCHANGED << setVars, sortVars >>
  BY <1>1, SameMeaning DEF sortVars
<1>2. CASE Op1
  BY <1>2, Op1Means
<1>3. CASE AddBehind
  BY <1>3, AddBehindMeans
<1>4. CASE CallInvert
  BY <1>4, CallInvertMeans
<1>5. CASE CallCanonicalize
  BY <1>5, CallCanonicalizeMeans
<1>6. CASE MergeTurn
  BY <1>6, MergeTurnMeans
<1>7. CASE MergeEnds
  BY <1>7, MergeEndsMeans
<1>8. CASE Add
  BY <1>8, AddMeans
<1>9. CASE InvertSet
  BY <1>9, InvertSetMeans
<1>10. CASE MaskTurn
  BY <1>10, MaskTurnMeans
<1>11. CASE MaskEnds
  BY <1>11, MaskEndsMeans
<1>12. CASE FoldTurn
  BY <1>12, FoldTurnMeans
<1>13. CASE FoldEnds
  BY <1>13, FoldEndsMeans
<1>14. CASE Sorted
  BY <1>14, SortedMeans
<1>15. CASE OutOfMemory
  BY <1>15, OutOfMemoryMeans
<1>16. CASE IntervalDropped
  BY <1>16, IntervalDroppedMeans
<1>17. CASE ClientFrees
  BY <1>17, ClientFreesMeans
<1>18. CASE SortStep /\ UNCHANGED setVars
  BY <1>18, SameMeaning, GivenStays
<1> QED BY <1>1, <1>2, <1>3, <1>4, <1>5, <1>6, <1>7, <1>8, <1>9, <1>10, <1>11, <1>12, <1>13,
           <1>14, <1>15, <1>16, <1>17, <1>18 DEF Next

(* The call that was made is not forgotten on the way.                     *)
LEMMA AskedKeeps ==
    SetsInv /\ AskedSays /\ [Next]_<< setVars, sortVars >> => AskedSays'
<1> SUFFICES ASSUME SetsInv, AskedSays, [Next]_<< setVars, sortVars >> PROVE AskedSays'
  OBVIOUS
<1>1. folding \in Folding /\ into \in { "cr", "mask", "inter", "sub" }
  BY DEF SetsInv, CallTyped
<1>2. ASSUME UNCHANGED << at, into, asked >>, folding'.is_unicode = folding.is_unicode,
             at = "add" => todo' = todo
      PROVE  AskedSays'
  BY <1>2 DEF AskedSays, Canonicalizing, ForCanonicalize
<1>3. CASE Op1
  BY <1>3 DEF Op1, AskedSays, Canonicalizing
<1>4. CASE AddBehind
  BY <1>4 DEF AddBehind, AskedSays, Canonicalizing
<1>5. CASE CallInvert
  BY <1>5 DEF CallInvert, AskedSays, Canonicalizing
<1>6. CASE CallCanonicalize
  <2>1. PICK u \in BOOLEAN : asked' = Asked("canonicalize", << >>, u)
                             /\ folding' = [folding EXCEPT !.is_unicode = u]
    BY <1>6 DEF CallCanonicalize
  <2>2. folding'.is_unicode = u
    BY <1>1, <2>1 DEF Folding
  <2> QED BY <1>6, <2>1, <2>2 DEF CallCanonicalize, AskedSays, Canonicalizing, ForCanonicalize
<1>7. CASE MergeTurn
  BY <1>2, <1>7 DEF MergeTurn, Inside
<1>8. CASE MergeEnds
  <2>1. at = "merge" /\ asked' = asked /\ into \in { "inter", "sub", "cr" }
    BY <1>8 DEF MergeEnds, Inside, SetsInv, CallTyped
  <2>2. CASE into = "inter"
    BY <1>8, <2>1, <2>2 DEF MergeEnds, AskedSays, Canonicalizing, ForCanonicalize
  <2>3. CASE into = "sub"
    <3>1. at' = "fold" /\ folding' = [folding EXCEPT !.idx = 1, !.now = NoInterval]
      BY <1>8, <2>3 DEF MergeEnds
    <3>2. folding'.is_unicode = folding.is_unicode
      BY <1>1, <3>1 DEF Folding
    <3> QED BY <2>1, <2>3, <3>1, <3>2 DEF AskedSays, Canonicalizing, ForCanonicalize
  <2>4. CASE into = "cr"
    BY <1>8, <2>4 DEF MergeEnds, AskedSays, Canonicalizing
  <2> QED BY <2>1, <2>2, <2>3, <2>4
<1>9. CASE Add
  BY <1>9 DEF Add, AskedSays, Canonicalizing
<1>10. CASE InvertSet
  BY <1>1, <1>10 DEF InvertSet, Inside, AskedSays, Canonicalizing, ForCanonicalize,
                     SetsInv, CallTyped
<1>11. CASE MaskTurn
  BY <1>2, <1>11 DEF MaskTurn, Inside
<1>12. CASE MaskEnds
  BY <1>12 DEF MaskEnds, Inside, AskedSays, Canonicalizing, ForCanonicalize
<1>13. ASSUME folding' = [folding EXCEPT !.idx = Folds.idx, !.now = Folds.now],
              UNCHANGED << at, into, asked >>, at = "fold"
       PROVE  AskedSays'
  BY <1>1, <1>2, <1>13 DEF Folding
<1>14. CASE FoldTurn
  BY <1>13, <1>14 DEF FoldTurn, Inside
<1>15. CASE FoldEnds
  BY <1>15 DEF FoldEnds, AskedSays, Canonicalizing, ForCanonicalize
<1>16. CASE Sorted
  BY <1>16 DEF Sorted, AskedSays, Canonicalizing
<1>17. CASE OutOfMemory
  BY <1>17 DEF OutOfMemory, AskedSays, Canonicalizing
<1>18. CASE IntervalDropped
  BY <1>13, <1>18 DEF IntervalDropped
<1>19. CASE ClientFrees
  BY <1>19 DEF ClientFrees, AskedSays, Canonicalizing
<1>20. CASE SortStep /\ UNCHANGED setVars
  BY <1>2, <1>20 DEF setVars
<1>21. CASE UNCHANGED << setVars, sortVars >>
  BY <1>2, <1>21 DEF setVars
<1> QED BY <1>3, <1>4, <1>5, <1>6, <1>7, <1>8, <1>9, <1>10, <1>11, <1>12, <1>14, <1>15, <1>16,
           <1>17, <1>18, <1>19, <1>20, <1>21 DEF Next

LEMMA MeaningStays == Spec => [](MeaningInv /\ AskedSays)
<1>1. Init => MeaningInv /\ AskedSays
  BY InitMeaning DEF Init, AskedSays, Canonicalizing
<1>2. SetsInv /\ MeaningInv /\ AskedSays /\ [Next]_<< setVars, sortVars >>
          => MeaningInv' /\ AskedSays'
  BY NextMeans, AskedKeeps
<1> QED BY <1>1, <1>2, SetsStayRight, PTL DEF Spec

(* Seen from outside, cr_op1, cr_add_interval, cr_invert and               *)
(* cr_regexp_canonicalize each make of the set what their own name         *)
(* promises, of the argument they were called with, or fail and say so,    *)
(* however their loops, the sort and the memory behave: for every table of *)
(* case conversions, every set that is merged in and every allocation that *)
(* fails, UnicodeSets implements CodePointSets.                            *)
THEOREM SetsKeepPromise == Spec => KeepsPromise
<1>1. Init => Promise!Init
  BY InitMeaning
<1>2. SetsInv /\ MeaningInv /\ AskedSays /\ [Next]_<< setVars, sortVars >>
          => [Promise!Next]_(Promise!vars)
  BY NextMeans DEF promiseVars, Value, Asking, Promise!vars
<1> QED BY <1>1, <1>2, SetsStayRight, MeaningStays, PTL DEF Spec, KeepsPromise, Promise!Spec
=============================================================================
