----------------------------- MODULE CharRange -----------------------------
(***************************************************************************)
(* The sets of code points of libunicode.c (struct CharRange).  A set is a *)
(* sequence of points: the odd ones open an interval, the even ones close  *)
(* it and are not in it.  cr_op merges two such sequences point by point;  *)
(* a turn of its loop is the operator Turn, so that the loop can be run    *)
(* to its end (Combine) and can be stepped through (UnicodeSets).          *)
(***************************************************************************)
EXTENDS Integers, SequencesExt

(* UINT32_MAX, the end of a set that has no end: the largest number that   *)
(* stands above every code point.                                          *)
Infinity == 2147483647
CODES == 0 .. Infinity

(* What a sequence of points means: the number of points up to c is odd.   *)
Holds(c, points) ==
    \E i \in DOMAIN points :
        /\ i % 2 = 1
        /\ points[i] <= c
        /\ i < Len(points) => c < points[i + 1]

(* Every operation needs, and leaves, points in order and in pairs.        *)
IsRange(points) ==
    /\ Len(points) % 2 = 0
    /\ \A i \in 1 .. Len(points) - 1 : points[i] <= points[i + 1]

-----------------------------------------------------------------------------
(* cr_op: a_idx and b_idx points of a and b are behind us.                 *)
Start(a, b, op) ==
    [a |-> a, b |-> b, op |-> op, ai |-> 0, bi |-> 0, out |-> << >>]

MoreA(s) == s.ai < Len(s.a)
MoreB(s) == s.bi < Len(s.b)

TakesA(s) == MoreA(s) /\ (MoreB(s) => s.a[s.ai + 1] <= s.b[s.bi + 1])
TakesB(s) == MoreB(s) /\ (MoreA(s) => s.b[s.bi + 1] <= s.a[s.ai + 1])

Point(s) == IF TakesA(s) THEN s.a[s.ai + 1] ELSE s.b[s.bi + 1]

(* Mutant: the case of the symmetric difference falls through to the union. *)
IsInEither(op, inA, inB) ==
    \/ op \in { "union", "xor" } /\ (inA \/ inB)
    \/ op = "inter" /\ inA /\ inB
    \/ op = "sub" /\ inA /\ ~inB

(* Whether the code points from here on are in the result.                 *)
IsIn(op, inA, inB) ==
    \/ op = "union" /\ (inA \/ inB)
    \/ op = "inter" /\ inA /\ inB
    \/ op = "xor" /\ ~(inA <=> inB)
    \/ op = "sub" /\ inA /\ ~inB

(* One turn of the loop: the next point of a or b, or of both, is added if *)
(* it changes whether we are inside.                                       *)
Turn(s) ==
    LET ai == IF TakesA(s) THEN s.ai + 1 ELSE s.ai
        bi == IF TakesB(s) THEN s.bi + 1 ELSE s.bi
        in == IsIn(s.op, ai % 2 = 1, bi % 2 = 1)
    IN  [s EXCEPT !.ai = ai, !.bi = bi,
            !.out = IF in # (Len(s.out) % 2 = 1)
                    THEN Append(s.out, Point(s)) ELSE s.out]

Ended(s) == ~MoreA(s) /\ ~MoreB(s)

(* cr_compress: drop empty intervals, join those that touch.  RunEnd is    *)
(* where the inner loop stops: at the last interval that touches the one   *)
(* before it, all the way from the interval at i.                          *)
RunEnd(points, i) ==
    Min({ j \in i .. Len(points) :
             /\ (j - i) % 2 = 0
             /\ ~(j + 3 <= Len(points) /\ points[j + 1] = points[j + 2]) })

CompressOne(points, s) ==
    IF s.i + 1 > Len(points) THEN s
    ELSE IF points[s.i] = points[s.i + 1] THEN [s EXCEPT !.i = @ + 2]
    ELSE LET j == RunEnd(points, s.i)
         IN  [i |-> j + 2, out |-> s.out \o << points[s.i], points[j + 1] >>]

Compress(points) ==
    LET loop[k \in 0 .. Len(points)] ==
            IF k = 0 THEN [i |-> 1, out |-> << >>] ELSE CompressOne(points, loop[k - 1])
    IN  loop[Len(points)].out

(* The whole of cr_op and cr_op1.                                          *)
Combine(a, b, op) ==
    LET TurnOrStay(t, i) == IF Ended(t) THEN t ELSE Turn(t)
        turns == [i \in 1 .. Len(a) + Len(b) |-> i]
    IN  Compress(FoldLeft(TurnOrStay, Start(a, b, op), turns).out)

Invert(points) == Compress(<< 0 >> \o points \o << Infinity >>)

(* cr_add_interval appends without looking; cr_union_interval does not,    *)
(* and its bounds are both inside.                                         *)
AddInterval(points, c1, c2) == points \o << c1, c2 >>
UnionInterval(points, c1, c2) == Combine(points, << c1, c2 + 1 >>, "union")

(* Mutant: the sorted intervals are left as they are.                      *)
AbsorbNothing(points, interval) == points \o interval

(* The loop of cr_sort_and_remove_overlap: an interval that starts inside  *)
(* the current one, or right behind it, only moves its end.                *)
Absorb(points, interval) ==
    LET n == Len(points)
    IN  IF n = 0 \/ interval[1] > points[n] THEN points \o interval
        ELSE IF interval[2] <= points[n] THEN points
        ELSE [points EXCEPT ![n] = interval[2]]

Intervals(points) ==
    [i \in 1 .. Len(points) \div 2 |-> << points[2 * i - 1], points[2 * i] >>]

AbsorbAll(intervals) ==
    LET loop[k \in 0 .. Len(intervals)] ==
            IF k = 0 THEN << >> ELSE Absorb(loop[k - 1], intervals[k])
    IN  loop[Len(intervals)]

SortAndRemoveOverlap(points) ==
    AbsorbAll(SortSeq(Intervals(points), LAMBDA i, j : i[1] < j[1]))
=============================================================================
