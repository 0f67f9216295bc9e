------------------------------- MODULE Rqsort -------------------------------
(***************************************************************************)
(* rqsort (cutils.c): a quicksort with a stack of its own.  An element is  *)
(* a tuple and is compared by its first component: the code point an       *)
(* interval starts with (point_cmp), the length of a string                *)
(* (re_string_cmp_len).  Fragments of the array that are still to be       *)
(* sorted wait on the stack; the smaller half is gone on with.             *)
(***************************************************************************)
EXTENDS Integers, SequencesExt

CONSTANTS InsertionMax,   \* fragments up to here are sorted by insertion: 6
          DepthMax,       \* deeper fragments are sorted with a heap: 50
          StackSlots      \* the entries of the stack: 50

ASSUME RqsortAssumption ==
    /\ InsertionMax \in Nat \ {0}
    /\ DepthMax \in Nat
    /\ StackSlots \in Nat \ {0}
    /\ DepthMax <= StackSlots

VARIABLES array,      \* the elements
          given,      \* history: the elements as they were handed in
          segments,   \* the stack of fragments: base, count and depth
          fragment,   \* the fragment in work
          cursor,     \* plt, pi, pj and pgt of the partition
          sorting     \* where rqsort stands

sortVars == << array, given, segments, fragment, cursor, sorting >>

NoCursor == [lt |-> 0, i |-> 0, j |-> 0, gt |-> 0]
Fragment(base, count, depth) == [base |-> base, count |-> count, depth |-> depth]
NoFragment == Fragment(1, 0, 0)

Key(e) == e[1]

Swap(a, i, j) == [a EXCEPT ![i] = a[j], ![j] = a[i]]

(* swap_block: n elements from i on with the n elements from j on.         *)
SwapBlock(a, i, j, n) ==
    [k \in DOMAIN a |-> CASE k \in i .. i + n - 1 -> a[k - i + j]
                          [] k \in j .. j + n - 1 -> a[k - j + i]
                          [] OTHER -> a[k]]

Med3(a, i, j, k) ==
    LET lt(x, y) == Key(a[x]) < Key(a[y])
    IN  IF lt(i, j)
        THEN IF lt(j, k) THEN j ELSE IF lt(i, k) THEN k ELSE i
        ELSE IF lt(k, j) THEN j ELSE IF lt(i, k) THEN i ELSE k

(* heapsortx: SiftDown moves the element at r down in the heap of the      *)
(* first n elements from base on; positions count from 0.                  *)
SiftDown(a, base, from, n) ==
    LET key(s, p) == Key(s[base + p])
        sift[k \in 0 .. n] ==
            IF k = 0 THEN [arr |-> a, r |-> from]
            ELSE LET s == sift[k - 1]
                     left == 2 * s.r + 1
                     c == IF left < n - 1 /\ key(s.arr, left) <= key(s.arr, left + 1)
                          THEN left + 1 ELSE left
                 IN  IF left >= n \/ key(s.arr, s.r) > key(s.arr, c) THEN s
                     ELSE [arr |-> Swap(s.arr, base + s.r, base + c), r |-> c]
    IN  sift[n].arr

HeapSort(a, base, n) ==
    LET heap[k \in 0 .. n \div 2] ==
            IF k = 0 THEN a ELSE SiftDown(heap[k - 1], base, n \div 2 - k, n)
        taken[k \in 0 .. n - 1] ==
            IF k = 0 THEN heap[n \div 2]
            ELSE SiftDown(Swap(taken[k - 1], base, base + n - k), base, 0, n - k)
    IN  IF n > 1 THEN taken[n - 1] ELSE a

(* The insertion sort of a fragment: each element sinks to its place among *)
(* those before it.                                                        *)
Sink(a, base, i) ==
    LET place == Max({ p \in base .. i : p > base => Key(a[p - 1]) <= Key(a[i]) })
    IN  [k \in DOMAIN a |-> CASE k = place -> a[i]
                              [] k \in place + 1 .. i -> a[k - 1]
                              [] OTHER -> a[k]]

InsertionSort(a, base, n) ==
    LET sunk[k \in 0 .. n] == IF k < 2 THEN a ELSE Sink(sunk[k - 1], base, base + k - 1)
    IN  sunk[n]

-----------------------------------------------------------------------------
(* A call of rqsort; fewer than two elements need no work.                 *)
Whole(elements) ==
    IF Len(elements) < 2 THEN << >> ELSE << Fragment(1, Len(elements), 0) >>
FirstPhase(elements) == IF Len(elements) < 2 THEN "done" ELSE "pop"

Begins(elements) ==
    /\ array = elements
    /\ given = elements
    /\ segments = Whole(elements)
    /\ fragment = NoFragment
    /\ cursor = NoCursor
    /\ sorting = FirstPhase(elements)

Call(elements) ==
    /\ sorting = "done"
    /\ array' = elements
    /\ given' = elements
    /\ segments' = Whole(elements)
    /\ fragment' = NoFragment
    /\ cursor' = NoCursor
    /\ sorting' = FirstPhase(elements)

(* while (sp > stack): the next fragment, or the end.                      *)
Pop ==
    /\ sorting = "pop"
    /\ segments # << >>
    /\ fragment' = Last(segments)
    /\ segments' = Front(segments)
    /\ sorting' = "split"
    /\ UNCHANGED << array, given, cursor >>

Done ==
    /\ sorting = "pop"
    /\ segments = << >>
    /\ sorting' = "done"
    /\ UNCHANGED << array, given, segments, fragment, cursor >>

(* Mutant: the depth is tested before it is counted.                       *)
DeepLate == fragment.depth > DepthMax

(* The test that keeps the worst case logarithmic.                         *)
Deep == fragment.depth + 1 > DepthMax

(* The pivot, the median of the elements at 1/4, 1/2 and 3/4, is moved to  *)
(* the start.                                                              *)
ChoosePivot ==
    LET base == fragment.base
        n == fragment.count
        m4 == n \div 4
        m == Med3(array, base + m4, base + 2 * m4, base + 3 * m4)
    IN  /\ sorting = "split"
        /\ n > InsertionMax
        /\ ~Deep
        /\ fragment' = [fragment EXCEPT !.depth = @ + 1]
        /\ array' = Swap(array, base, m)
        /\ cursor' = [lt |-> base + 1, i |-> base + 1, j |-> base + n, gt |-> base + n]
        /\ sorting' = "up"
        /\ UNCHANGED << given, segments >>

(* Too deep: the heap takes over, and nothing is left to be split.         *)
TooDeep ==
    /\ sorting = "split"
    /\ fragment.count > InsertionMax
    /\ Deep
    /\ array' = HeapSort(array, fragment.base, fragment.count)
    /\ fragment' = [fragment EXCEPT !.count = 0, !.depth = @ + 1]
    /\ sorting' = "pop"
    /\ UNCHANGED << given, segments, cursor >>

(* From below, up to an element larger than the pivot; those equal to it   *)
(* are put aside at the start.                                             *)
Pivot == Key(array[fragment.base])

Up ==
    LET i == cursor.i
        goes_on == i < cursor.j /\ Key(array[i]) <= Pivot
        equal == goes_on /\ Key(array[i]) = Pivot
    IN  /\ sorting = "up"
        /\ array' = IF equal THEN Swap(array, cursor.lt, i) ELSE array
        /\ cursor' = IF goes_on
                     THEN [cursor EXCEPT !.i = i + 1, !.lt = IF equal THEN @ + 1 ELSE @]
                     ELSE cursor
        /\ sorting' = IF goes_on THEN "up" ELSE "down"
        /\ UNCHANGED << given, segments, fragment >>

(* From above, down to an element smaller than the pivot; those equal to   *)
(* it are put aside at the end.                                            *)
Down ==
    LET j == cursor.j - 1
        equal == Key(array[j]) = Pivot
    IN  /\ sorting = "down"
        /\ cursor.i < j
        /\ Key(array[j]) >= Pivot
        /\ array' = IF equal THEN Swap(array, cursor.gt - 1, j) ELSE array
        /\ cursor' = [cursor EXCEPT !.j = j, !.gt = IF equal THEN @ - 1 ELSE @]
        /\ UNCHANGED << given, segments, fragment, sorting >>

Exchange ==
    LET j == cursor.j - 1
    IN  /\ sorting = "down"
        /\ cursor.i < j
        /\ Key(array[j]) < Pivot
        /\ array' = Swap(array, cursor.i, j)
        /\ cursor' = [cursor EXCEPT !.i = @ + 1, !.j = j]
        /\ sorting' = "up"
        /\ UNCHANGED << given, segments, fragment >>

Meet ==
    /\ sorting = "down"
    /\ cursor.i >= cursor.j - 1
    /\ cursor' = [cursor EXCEPT !.j = @ - 1]
    /\ sorting' = "gather"
    /\ UNCHANGED << array, given, segments, fragment >>

(* Mutant: those put aside at the end stay there.                          *)
GatheredBelow ==
    LET below == cursor.i - cursor.lt
        aside == cursor.lt - fragment.base
        low == IF aside > below THEN below ELSE aside
    IN  SwapBlock(array, fragment.base, cursor.i - low, low)

(* The elements equal to the pivot go to the middle; the larger of the     *)
(* parts beside them is stacked, and the smaller one is the next fragment. *)
Gathered ==
    LET c == cursor
        base == fragment.base
        top == base + fragment.count
        span(x, y) == IF x > y THEN y ELSE x
        low == span(c.lt - base, c.i - c.lt)
        high == span(top - c.gt, c.gt - c.i)
    IN  SwapBlock(SwapBlock(array, base, c.i - low, low), c.i, top - high, high)

Gather ==
    LET depth == fragment.depth
        below == Fragment(fragment.base, cursor.i - cursor.lt, depth)
        above == Fragment(fragment.base + fragment.count - (cursor.gt - cursor.i),
                          cursor.gt - cursor.i, depth)
        larger == IF below.count > above.count THEN below ELSE above
        smaller == IF below.count > above.count THEN above ELSE below
    IN  /\ sorting = "gather"
        /\ array' = Gathered
        /\ segments' = Append(segments, larger)
        /\ fragment' = smaller
        /\ sorting' = "split"
        /\ UNCHANGED << given, cursor >>

Insert ==
    /\ sorting = "split"
    /\ fragment.count <= InsertionMax
    /\ array' = InsertionSort(array, fragment.base, fragment.count)
    /\ sorting' = "pop"
    /\ UNCHANGED << given, segments, fragment, cursor >>

SortStep ==
    \/ Pop \/ Done
    \/ ChoosePivot \/ TooDeep
    \/ Up \/ Down \/ Exchange \/ Meet
    \/ Gather \/ Insert

-----------------------------------------------------------------------------
(* At the end the array holds what was handed in, in order: no element is  *)
(* lost when those equal to the pivot are moved around, whatever the sort  *)
(* a fragment ended with.                                                  *)
Occurrences(a, e) == Cardinality({ i \in DOMAIN a : a[i] = e })

SortsArray ==
    sorting = "done" =>
        /\ \A i \in 1 .. Len(array) - 1 : Key(array[i]) <= Key(array[i + 1])
        /\ Len(array) = Len(given)
        /\ \A i \in DOMAIN given : Occurrences(array, given[i]) = Occurrences(given, given[i])

(* The stack has a fixed number of entries and no check.  That rqsort goes *)
(* on with the smaller part keeps it low, as long as the partition is      *)
(* right; the depth at which the heap takes over bounds it whatever is     *)
(* compared.                                                               *)
StackFits == Len(segments) <= StackSlots
=============================================================================
