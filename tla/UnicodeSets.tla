---------------------------- MODULE UnicodeSets ----------------------------
(***************************************************************************)
(* The sets of code points of libunicode.c, with their memory: a client    *)
(* (the compiler of regular expressions) builds a set by calling cr_op1,   *)
(* cr_add_interval, cr_invert and cr_regexp_canonicalize.  The calls run   *)
(* point by point, and any growth of a set may fail.  The sort inside      *)
(* cr_regexp_canonicalize is Rqsort, stepped along.                        *)
(***************************************************************************)
EXTENDS UnicodeCase, Rqsort

CONSTANTS Operands,       \* the sets that the client merges into its own
          SortedElsewhere,\* arrays that re_emit_string_list sorts
          Universe,       \* the code points that are looked at
          MaxCalls,       \* bound on the calls of the client
          MaxFaults       \* bound on the allocations that fail

ASSUME SetsAssumption ==
    /\ \A b \in Operands : b \in Seq(CODES) /\ IsRange(b)
    /\ SortedElsewhere \subseteq Seq(Int \X Int)

(* The entry of a code point says the same as the tests for ASCII letters  *)
(* that come before the table.                                             *)
ASSUME AsciiAssumption ==
    \A c \in 0 .. 127, conv \in { Upper, Fold } :
        /\ \A i \in DOMAIN CaseTable :
              Covers(CaseTable[i], c) =>
                  CaseEntry(c, conv, CaseTable[i]) = << AsciiConv(c, conv) >>
        /\ (\A i \in DOMAIN CaseTable : ~Covers(CaseTable[i], c)) => AsciiConv(c, conv) = c

(* Nothing folds from outside into what is looked at, or out of it.        *)
ASSUME UniverseAssumption ==
    /\ Universe \subseteq 0 .. Infinity - 1
    /\ \A i \in DOMAIN CaseTable, is_unicode \in BOOLEAN :
          LET e == CaseTable[i]
          IN  \A c \in e.code .. e.code + e.len - 1 :
                  FoldingEntry(c, e, is_unicode) \in Universe <=> c \in Universe

VARIABLES sets,           \* the set cr of the client, and those made on the way
          at,             \* where the call in work stands
          merge,          \* the loop of cr_op
          into,           \* the set it writes
          todo,           \* what the loops of cr_regexp_canonicalize still take
          folding,        \* idx, now (the interval d_start, d_end) and is_unicode
          failed,         \* whether a call returned -1
          asked,          \* history: the call in work and its arguments
          lost,           \* history: whether it dropped an interval silently
          before,         \* history: the set before it
          calls, faults

setVars == << sets, at, merge, into, todo, folding, failed, asked, lost, before,
              calls, faults >>

NAMES == { "cr", "mask", "inter", "result", "sub", "old" }
FOUR == { "mask", "inter", "result", "sub" }

(* cr_init, cr_free.                                                       *)
Fresh == [points |-> << >>, size |-> 0, live |-> TRUE]
Freed == [Fresh EXCEPT !.live = FALSE]
Free(names) == [n \in NAMES |-> IF n \in names THEN Freed ELSE sets[n]]

Points(n) == sets[n].points

(* cr_realloc.                                                             *)
Room(set, size) ==
    IF size <= set.size THEN set
    ELSE LET more == (set.size * 3) \div 2
         IN  [set EXCEPT !.size = IF size > more THEN size ELSE more]

Asked(name, operand, is_unicode) ==
    [name |-> name, operand |-> operand, is_unicode |-> is_unicode]
NoCall == Asked("none", << >>, FALSE)

With(set, points) == [Room(set, Len(points)) EXCEPT !.points = points]

(* Either a client begins with an empty set, or rqsort is called for some  *)
(* strings and no set is there.                                            *)
Init ==
    /\ \/ /\ at = "idle"
          /\ sets = [n \in NAMES |-> IF n = "cr" THEN Fresh ELSE Freed]
          /\ Begins(<< >>)
       \/ /\ at = "over"
          /\ sets = [n \in NAMES |-> Freed]
          /\ \E elements \in SortedElsewhere : Begins(elements)
    /\ merge = Start(<< >>, << >>, "union")
    /\ into = "cr"
    /\ todo = << >>
    /\ folding = [idx |-> 1, now |-> NoInterval, is_unicode |-> FALSE]
    /\ failed = FALSE
    /\ asked = NoCall
    /\ lost = FALSE
    /\ before = << >>
    /\ calls = 0
    /\ faults = 0

-----------------------------------------------------------------------------
(* The calls.                                                              *)
Calls ==
    /\ at = "idle"
    /\ sorting = "done"
    /\ calls < MaxCalls
    /\ calls' = calls + 1
    /\ before' = Points("cr")
    /\ lost' = FALSE
    /\ UNCHANGED << failed, faults, sortVars >>

(* cr_op1, and so cr_union_interval: the points move to a set of their own *)
(* and are merged with b into an empty one.                                *)
Op1 ==
    /\ Calls
    /\ \E b \in Operands, op \in { "union", "inter", "xor", "sub" } :
          /\ merge' = Start(Points("cr"), b, op)
          /\ asked' = Asked(op, b, FALSE)
    /\ sets' = [sets EXCEPT !["old"] = sets["cr"], !["cr"] = Fresh]
    /\ into' = "cr"
    /\ at' = "merge"
    /\ UNCHANGED << todo, folding >>

(* cr_add_interval: the client adds behind what is there.                  *)
AddBehind ==
    /\ Calls
    /\ \E b \in Operands :
          /\ Len(b) = 2
          /\ Points("cr") # << >> => Last(Points("cr")) <= b[1]
          /\ todo' = b
          /\ asked' = Asked("union", b, FALSE)
    /\ at' = "add"
    /\ UNCHANGED << sets, merge, into, folding >>

CallInvert ==
    /\ Calls
    /\ asked' = Asked("complement", << >>, FALSE)
    /\ at' = "invert"
    /\ into' = "cr"
    /\ UNCHANGED << sets, merge, todo, folding >>

CallCanonicalize ==
    /\ Calls
    /\ sets' = [n \in NAMES |-> IF n \in FOUR THEN Fresh ELSE sets[n]]
    /\ \E is_unicode \in BOOLEAN :
          /\ asked' = Asked("canonicalize", << >>, is_unicode)
          /\ folding' = [folding EXCEPT !.is_unicode = is_unicode]
          /\ todo' = CaseRange({ IF is_unicode THEN Fold ELSE Upper })
    /\ at' = "mask"
    /\ UNCHANGED << merge, into >>

-----------------------------------------------------------------------------
(* The set a step is about to grow, and the room it asks for.              *)
Turned == Turn(merge)
Folds == FoldOne([idx |-> folding.idx, now |-> folding.now, done |-> << >>],
                 Head(todo), folding.is_unicode)

Asks(n, size) == [n |-> n, size |-> size]
Nothing == Asks("cr", 0)

Request ==
    CASE at = "merge" /\ ~Ended(merge) -> Asks(into, Len(Turned.out))
      [] at = "add" -> Asks("cr", Len(Points("cr")) + 2)
      [] at = "invert" -> Asks(into, Len(Points(into)) + 2)
      [] at = "mask" /\ todo # << >> -> Asks("mask", Len(Points("mask")) + 2)
      [] at = "fold" /\ todo # << >> -> Asks("result", Len(Points("result") \o Folds.done))
      [] at = "fold" /\ todo = << >> -> Asks("result", Len(Points("result") \o folding.now))
      [] OTHER -> Nothing

Inside ==
    /\ sorting = "done"
    /\ UNCHANGED << failed, asked, before, calls, faults, sortVars >>

(* A turn of the loop of cr_op.                                            *)
MergeTurn ==
    /\ Inside
    /\ at = "merge"
    /\ ~Ended(merge)
    /\ merge' = Turned
    /\ sets' = [sets EXCEPT ![into] = With(@, Turned.out)]
    /\ UNCHANGED << at, into, todo, folding, lost >>

(* The end of cr_op, and who called it.                                    *)
MergeEnds ==
    /\ Inside
    /\ at = "merge"
    /\ Ended(merge)
    /\ LET merged == [sets EXCEPT ![into].points = Compress(@)]
       IN  CASE into = "inter" ->
                  /\ sets' = merged
                  /\ at' = "invert"
                  /\ into' = "mask"
                  /\ UNCHANGED << todo, folding >>
             [] into = "sub" ->
                  /\ sets' = merged
                  /\ at' = "fold"
                  /\ todo' = CodePoints(Points("inter"))
                  /\ folding' = [folding EXCEPT !.idx = 1, !.now = NoInterval]
                  /\ UNCHANGED into
             [] into = "cr" ->
                  /\ sets' = [n \in NAMES |-> IF n = "cr" THEN merged[n] ELSE Freed]
                  /\ at' = "idle"
                  /\ UNCHANGED << into, todo, folding >>
    /\ UNCHANGED << merge, lost >>

Add ==
    /\ Inside
    /\ at = "add"
    /\ sets' = [sets EXCEPT !["cr"] = With(@, AddInterval(@.points, todo[1], todo[2]))]
    /\ at' = "idle"
    /\ todo' = << >>
    /\ UNCHANGED << merge, into, folding, lost >>

(* cr_invert makes room for two points first, whatever is left of them.    *)
Inverted(set) ==
    [Room(set, Len(set.points) + 2) EXCEPT !.points = Invert(set.points)]

InvertSet ==
    /\ Inside
    /\ at = "invert"
    /\ sets' = [sets EXCEPT ![into] = Inverted(@)]
    /\ IF into = "cr"
       THEN at' = "idle" /\ UNCHANGED << merge, into >>
       ELSE /\ at' = "merge"
            /\ into' = "sub"
            /\ merge' = Start(Invert(Points("mask")), Points("cr"), "inter")
    /\ UNCHANGED << todo, folding, lost >>

(* unicode_case1: the code points that change, interval by interval.       *)
MaskTurn ==
    /\ Inside
    /\ at = "mask"
    /\ todo # << >>
    /\ sets' = [sets EXCEPT !["mask"] = With(@, AddInterval(@.points, todo[1], todo[2]))]
    /\ todo' = SubSeq(todo, 3, Len(todo))
    /\ UNCHANGED << at, merge, into, folding, lost >>

MaskEnds ==
    /\ Inside
    /\ at = "mask"
    /\ todo = << >>
    /\ at' = "merge"
    /\ into' = "inter"
    /\ merge' = Start(Points("mask"), Points("cr"), "inter")
    /\ UNCHANGED << sets, todo, folding, lost >>

(* One code point is folded; a finished interval goes to the result.       *)
FoldTurn ==
    /\ Inside
    /\ at = "fold"
    /\ todo # << >>
    /\ HasEntry(folding, Head(todo))
    /\ sets' = [sets EXCEPT !["result"] = With(@, @.points \o Folds.done)]
    /\ folding' = [folding EXCEPT !.idx = Folds.idx, !.now = Folds.now]
    /\ todo' = Tail(todo)
    /\ UNCHANGED << at, merge, into, lost >>

(* The last interval, and the call of rqsort on what has come together.    *)
FoldEnds ==
    /\ at = "fold"
    /\ todo = << >>
    /\ LET all == Points("result") \o folding.now
       IN  /\ sets' = [sets EXCEPT !["result"] = With(@, all)]
           /\ Call(Intervals(all))
    /\ at' = "sort"
    /\ UNCHANGED << merge, into, todo, folding, failed, asked, lost, before, calls, faults >>

(* The rest of cr_sort_and_remove_overlap; cr is emptied, and becomes the  *)
(* union of what was folded and what does not fold.                        *)
Sorted ==
    /\ at = "sort"
    /\ Call(<< >>)
    /\ LET result == AbsorbAll(array)
       IN  /\ sets' = [sets EXCEPT !["result"].points = result, !["cr"].points = << >>]
           /\ merge' = Start(result, Points("sub"), "union")
    /\ at' = "merge"
    /\ into' = "cr"
    /\ UNCHANGED << todo, folding, failed, asked, lost, before, calls, faults >>

-----------------------------------------------------------------------------
(* An allocation fails.  The call returns -1 and has freed what it made    *)
(* (cr_op1 its old points, cr_regexp_canonicalize its four sets), except   *)
(* that the result of cr_add_interval is not looked at while code points   *)
(* are folded: the finished interval is dropped.                           *)
Refused ==
    /\ sorting = "done"
    /\ at # "idle"
    /\ faults < MaxFaults
    /\ faults' = faults + 1
    /\ Request.size > sets[Request.n].size

(* Mutant: cr_op1 returns before it frees the old points.                  *)
OutOfMemoryAtOnce ==
    /\ Refused
    /\ ~(at = "fold" /\ todo # << >>)
    /\ sets' = Free(FOUR)
    /\ failed' = TRUE
    /\ at' = "failed"
    /\ UNCHANGED << merge, into, todo, folding, asked, lost, before, calls, sortVars >>

OutOfMemory ==
    /\ Refused
    /\ ~(at = "fold" /\ todo # << >>)
    /\ sets' = Free(FOUR \union { "old" })
    /\ failed' = TRUE
    /\ at' = "failed"
    /\ UNCHANGED << merge, into, todo, folding, asked, lost, before, calls, sortVars >>

IntervalDropped ==
    /\ Refused
    /\ at = "fold"
    /\ todo # << >>
    /\ HasEntry(folding, Head(todo))
    /\ lost' = TRUE
    /\ folding' = [folding EXCEPT !.idx = Folds.idx, !.now = Folds.now]
    /\ todo' = Tail(todo)
    /\ UNCHANGED << sets, at, merge, into, failed, asked, before, calls, sortVars >>

(* The client frees its set, when it is done and when a call failed.       *)
ClientFrees ==
    /\ sorting = "done"
    /\ at \in { "idle", "failed" }
    /\ sets' = Free({ "cr" })
    /\ at' = "over"
    /\ before' = IF at = "idle" THEN Points("cr") ELSE before
    /\ UNCHANGED << merge, into, todo, folding, failed, asked, lost, calls, faults, sortVars >>

Next ==
    \/ Op1 \/ AddBehind \/ CallInvert \/ CallCanonicalize
    \/ MergeTurn \/ MergeEnds \/ Add \/ InvertSet
    \/ MaskTurn \/ MaskEnds \/ FoldTurn \/ FoldEnds \/ Sorted
    \/ OutOfMemory \/ IntervalDropped \/ ClientFrees
    \/ SortStep /\ UNCHANGED setVars

Spec == Init /\ [][Next]_<< setVars, sortVars >>

-----------------------------------------------------------------------------
(* No set outgrows its buffer, and between two calls, and after a failed   *)
(* one, only the set of the client is left to be freed; at the end none.   *)
OneSetLeft ==
    /\ \A n \in NAMES : Len(Points(n)) <= sets[n].size
    /\ at \in { "idle", "add", "failed" } =>
          \A n \in NAMES : sets[n].live <=> n = "cr"
    /\ at = "over" => \A n \in NAMES : ~sets[n].live

(* What the points of a set mean.                                          *)
Meaning(points) == { c \in Universe : Holds(c, points) }

(* Seen from outside, the set is what it was until a call returns.         *)
InCall == at \notin { "idle", "failed", "over" }
Seen == IF InCall THEN asked ELSE NoCall

Promise == INSTANCE CodePointSets WITH
    Arguments <- { Meaning(b) : b \in Operands },
    Folded <- Canonicalize,
    value <- Meaning(IF at = "idle" THEN Points("cr") ELSE before),
    call <- Asked(Seen.name, Meaning(Seen.operand), Seen.is_unicode),
    ok <- ~failed,
    lossy <- lost

(* Every call makes of the set what its own name promises, of the argument *)
(* it was given, however its loops, its sort and its memory behave.        *)
KeepsPromise == Promise!Spec

(* Below every point that is still to come, the points written so far say  *)
(* what the operation promises of the two sets that are read.  This is     *)
(* what makes cr_op right, and it needs both sets, and so every set that a *)
(* call leaves behind, in order.                                           *)
Ahead(c, points, idx) == \A i \in idx + 1 .. Len(points) : c < points[i]

MergedSoFar ==
    at = "merge" =>
        LET points == ToSet(merge.a) \union ToSet(merge.b)
            InSet(p) == { c \in points : Holds(c, p) }
        IN  /\ IsRange(merge.a) /\ IsRange(merge.b)
            /\ \A c \in points :
                  Ahead(c, merge.a, merge.ai) /\ Ahead(c, merge.b, merge.bi) =>
                      (Holds(c, Points(into)) <=>
                          c \in Promise!Combined(InSet(merge.a), merge.op, InSet(merge.b)))
=============================================================================
