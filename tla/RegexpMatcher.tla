--------------------------- MODULE RegexpMatcher ---------------------------
(***************************************************************************)
(* The matcher of libregexp.c: lre_exec and lre_exec_backtrack, run on a   *)
(* program by a caller like the examples of src/include/bellard/main.c.    *)
(* Every action is one instruction, or one turn of a loop inside one.      *)
(* What the matcher has to come back to is kept on a stack of states of    *)
(* its own (REExecState), which grows by reallocation; the counters of     *)
(* loops and the places of empty matches are on a second one (stack),      *)
(* whose size the compiler worked out.                                     *)
(***************************************************************************)
EXTENDS RegexpProgram, UnicodeCase

CONSTANTS
    Jobs,                   \* what callers run: [prog, input, type, from, all]
    InterruptCounterInit,   \* INTERRUPT_COUNTER_INIT, steps between two polls
    MayTimeout,             \* may lre_check_timeout say that time is up?
    StateChunk,             \* the smallest state stack, 8 states
    MaxFaults               \* how many reallocations fail

ASSUME JobsAssumption ==
    \A j \in Jobs :
        /\ WellFormed(j.prog)
        /\ j.prog.captures \in 1 .. CapturesMax
        /\ j.prog.unicode \in BOOLEAN
        /\ j.type \in 0 .. 1
        /\ j.from \in 0 .. Len(j.input)
        /\ j.input \in Seq(Nat)
ASSUME LimitsAssumption ==
    /\ InterruptCounterInit \in Nat \ {0}
    /\ MayTimeout \in BOOLEAN
    /\ StateChunk \in Nat \ {0, 1}
    /\ MaxFaults \in Nat

VARIABLES
    job,        \* the arguments of lre_exec
    pos,        \* cindex
    mode,       \* idle, run, quant, counted, compare, unwind, returned, done
    pc, cptr,   \* the instruction and the next character
    capture,    \* start and end of each group
    stack,      \* counters and positions
    states,     \* what to come back to
    room,       \* state_stack_size
    quant,      \* the quantifier whose atom is being counted
    ref,        \* the part of a back reference still to compare
    ticks,      \* interrupt_counter
    ret,        \* what lre_exec_backtrack returns
    found,      \* what the caller has been told
    faults

vars == << job, pos, mode, pc, cptr, capture, stack, states, room, quant, ref,
           ticks, ret, found, faults >>

None == -1          \* a capture that is NULL
NoQuant == << >>
NoRef == << >>

NoMatch == 0        \* the values of ret
Matched == 1
MemoryError == -1   \* LRE_RET_MEMORY_ERROR
Timeout == -2       \* LRE_RET_TIMEOUT

prog == job.prog
code == prog.code
input == job.input
clen == Len(input)
is_unicode == prog.unicode
instr == code[pc]
next == Follow(code, pc)
target == Target(code, pc)

-----------------------------------------------------------------------------
(* GET_CHAR, GET_PREV_CHAR and the others: a pair of surrogates is one     *)
(* character if the program is for Unicode (cbuf_type 2).                  *)
Utf16 == job.type = 1 /\ is_unicode

IsHigh(c) == c \in 55296 .. 56319
IsLow(c) == c \in 56320 .. 57343
FromSurrogate(h, l) == 65536 + 1024 * (h % 1024) + (l % 1024)

CharAt(p, end) ==
    IF Utf16 /\ IsHigh(input[p + 1]) /\ p + 1 < end /\ IsLow(input[p + 2])
    THEN [c |-> FromSurrogate(input[p + 1], input[p + 2]), p |-> p + 2]
    ELSE [c |-> input[p + 1], p |-> p + 1]

CharBefore(p, start) ==
    IF Utf16 /\ IsLow(input[p]) /\ p - 1 > start /\ IsHigh(input[p - 1])
    THEN [c |-> FromSurrogate(input[p - 1], input[p]), p |-> p - 2]
    ELSE [c |-> input[p], p |-> p - 1]

(* Between the two halves of a pair.                                       *)
InPair(p) ==
    Utf16 /\ 0 < p /\ p < clen /\ IsLow(input[p + 1]) /\ IsHigh(input[p])

(* PREV_CHAR, n times.                                                     *)
Back(p, n) ==
    IF ~Utf16 THEN p - n
    ELSE LET back[k \in 0 .. n] == IF k = 0 THEN p ELSE CharBefore(back[k - 1], 0).p
         IN  back[n]

is_line_terminator(c) == c \in { 10, 13, 8232, 8233 }
is_word_char(c) == c \in (48 .. 57) \union (65 .. 90) \union (97 .. 122) \union {95}

IgnoresCase == instr.op \in { "char_i", "char32_i", "range_i", "range32_i",
                              "word_boundary_i", "not_word_boundary_i",
                              "back_reference_i", "backward_back_reference_i" }
Folded(c) == IF IgnoresCase THEN Canonicalize(c, is_unicode) ELSE c

-----------------------------------------------------------------------------
Init ==
    /\ job \in Jobs
    /\ pos = job.from
    /\ mode = "idle"
    /\ pc = 1 /\ cptr = 0
    /\ capture = << >> /\ stack = << >> /\ states = << >>
    /\ room = 0
    /\ quant = NoQuant /\ ref = NoRef
    /\ ticks = InterruptCounterInit
    /\ ret = NoMatch
    /\ found = << >>
    /\ faults = 0

(* lre_exec, up to the call of lre_exec_backtrack.  A start in the middle  *)
(* of a pair of surrogates moves to its front.                             *)
Exec ==
    /\ mode = "idle"
    /\ mode' = "run"
    /\ pc' = 1
    /\ cptr' = IF InPair(pos) THEN pos - 1 ELSE pos
    /\ capture' = [i \in 0 .. 2 * prog.captures - 1 |-> None]
    /\ stack' = << >> /\ states' = << >>
    /\ room' = 0
    /\ ticks' = InterruptCounterInit
    /\ UNCHANGED << job, pos, quant, ref, ret, found, faults >>

(* goto no_match: unwind the states, or end the count of an atom.          *)
Fail ==
    /\ mode' = IF quant = NoQuant THEN "unwind" ELSE "counted"
    /\ ret' = NoMatch
    /\ UNCHANGED << pc, cptr >>

Proceed(p, c) == pc' = p /\ cptr' = c /\ UNCHANGED << mode, ret >>

(* An instruction that only tests characters leaves the rest alone.        *)
Test == UNCHANGED << job, pos, capture, stack, states, room, quant, ref, ticks,
                     found, faults >>

At(ops) == mode = "run" /\ instr.op \in ops

(* REOP_char and REOP_char32.                                              *)
Char ==
    /\ At({ "char", "char_i", "char32", "char32_i" })
    /\ IF cptr < clen /\ Folded(CharAt(cptr, clen).c) = instr.args[1]
       THEN Proceed(next, CharAt(cptr, clen).p)
       ELSE Fail
    /\ Test

AnyChar ==
    /\ At({ "dot", "any" })
    /\ IF /\ cptr # clen
          /\ instr.op = "dot" => ~is_line_terminator(CharAt(cptr, clen).c)
       THEN Proceed(next, CharAt(cptr, clen).p)
       ELSE Fail
    /\ Test

(* REOP_range and REOP_range32: the binary search among the intervals,     *)
(* whose bounds are both inside.  In 16 bits the last number stands for    *)
(* everything above it.                                                    *)
Search(c, points) ==
    LET n == Len(points) \div 2
        search[lo \in 1 .. n + 1, hi \in 0 .. n] ==
            /\ lo <= hi
            /\ LET idx == (lo + hi) \div 2
               IN  IF c < points[2 * idx - 1] THEN search[lo, idx - 1]
                   ELSE IF c > points[2 * idx] THEN search[idx + 1, hi]
                   ELSE TRUE
    IN  search[1, n]

InRange(c, i) ==
    LET last == i.args[Len(i.args)]
    IN  /\ c >= i.args[1]
        /\ \/ i.op \in { "range", "range_i" } /\ c >= 65535 /\ last = 65535
           \/ c <= last /\ Search(c, i.args)

Range16or32 ==
    /\ At({ "range", "range_i", "range32", "range32_i" })
    /\ IF cptr < clen /\ InRange(Folded(CharAt(cptr, clen).c), instr)
       THEN Proceed(next, CharAt(cptr, clen).p)
       ELSE Fail
    /\ Test

LineStart ==
    /\ At({ "line_start", "line_start_m" })
    /\ IF \/ cptr = 0
          \/ /\ instr.op = "line_start_m"
             /\ is_line_terminator(CharBefore(cptr, 0).c)
       THEN Proceed(next, cptr)
       ELSE Fail
    /\ Test

LineEnd ==
    /\ At({ "line_end", "line_end_m" })
    /\ IF \/ cptr = clen
          \/ /\ instr.op = "line_end_m"
             /\ is_line_terminator(CharAt(cptr, clen).c)
       THEN Proceed(next, cptr)
       ELSE Fail
    /\ Test

WordBoundary ==
    /\ At({ "word_boundary", "word_boundary_i",
            "not_word_boundary", "not_word_boundary_i" })
    /\ LET before == cptr # 0 /\ is_word_char(Folded(CharBefore(cptr, 0).c))
           after == cptr < clen /\ is_word_char(Folded(CharAt(cptr, clen).c))
           boundary == instr.op \in { "word_boundary", "word_boundary_i" }
       IN  IF (before # after) = boundary THEN Proceed(next, cptr) ELSE Fail
    /\ Test

Prev ==
    /\ At({ "prev" })
    /\ IF cptr = 0 THEN Fail ELSE Proceed(next, CharBefore(cptr, 0).p)
    /\ Test

-----------------------------------------------------------------------------
Save ==
    /\ At({ "save_start", "save_end" })
    /\ LET place == 2 * instr.args[1] + (IF instr.op = "save_end" THEN 1 ELSE 0)
       IN  capture' = [capture EXCEPT ![place] = cptr]
    /\ Proceed(next, cptr)
    /\ UNCHANGED << job, pos, stack, states, room, quant, ref, ticks, found, faults >>

(* Mutant: the end of the last group is left alone.                        *)
SaveResetShort ==
    /\ At({ "save_reset" })
    /\ capture' = [i \in DOMAIN capture |->
                      IF i \in 2 * instr.args[1] .. 2 * instr.args[2] THEN None ELSE capture[i]]
    /\ Proceed(next, cptr)
    /\ UNCHANGED << job, pos, stack, states, room, quant, ref, ticks, found, faults >>

SaveReset ==
    /\ At({ "save_reset" })
    /\ capture' = [i \in DOMAIN capture |->
                      IF i \in 2 * instr.args[1] .. 2 * instr.args[2] + 1
                      THEN None ELSE capture[i]]
    /\ Proceed(next, cptr)
    /\ UNCHANGED << job, pos, stack, states, room, quant, ref, ticks, found, faults >>

Counters ==
    /\ UNCHANGED << job, pos, capture, states, room, quant, ref, found, faults >>

Push ==
    /\ At({ "push_i32", "push_char_pos" })
    /\ stack' = Append(stack, IF instr.op = "push_i32" THEN instr.args[1] ELSE cptr)
    /\ Proceed(next, cptr)
    /\ Counters /\ UNCHANGED ticks

Drop ==
    /\ At({ "drop" })
    /\ stack' = Front(stack)
    /\ Proceed(next, cptr)
    /\ Counters /\ UNCHANGED ticks

CheckAdvance ==
    /\ At({ "check_advance" })
    /\ stack' = Front(stack)
    /\ IF Last(stack) = cptr THEN Fail ELSE Proceed(next, cptr)
    /\ Counters /\ UNCHANGED ticks

(* lre_poll_timeout: every InterruptCounterInit calls the time is looked   *)
(* at.  Poll is what the call does when there is time left.                *)
PollDue == ticks <= 1
Poll == ticks' = IF PollDue THEN InterruptCounterInit ELSE ticks - 1

Goto ==
    /\ At({ "goto" })
    /\ Proceed(target, cptr)
    /\ Poll
    /\ Counters /\ UNCHANGED stack

(* Mutant: the counter on the stack keeps its value.                       *)
LoopForever ==
    /\ At({ "loop" })
    /\ IF Last(stack) - 1 # 0
       THEN Proceed(target, cptr) /\ Poll
       ELSE Proceed(next, cptr) /\ UNCHANGED ticks
    /\ UNCHANGED stack
    /\ Counters

Loop ==
    /\ At({ "loop" })
    /\ LET count == Last(stack) - 1
       IN  /\ stack' = [stack EXCEPT ![Len(stack)] = count]
           /\ IF count # 0
              THEN Proceed(target, cptr) /\ Poll
              ELSE Proceed(next, cptr) /\ UNCHANGED ticks
    /\ Counters

-----------------------------------------------------------------------------
(* push_state, when there is room or the reallocation gives some.          *)
State(type, p, count) ==
    [type |-> type, pc |-> p, cptr |-> cptr, count |-> count,
     capture |-> capture, stack |-> stack]

Larger ==
    LET grown == (room * 3) \div 2 IN IF grown < StateChunk THEN StateChunk ELSE grown
(* Mutant: the state to be pushed is not counted.                          *)
GrowLate == room' = IF Len(states) > room THEN Larger ELSE room

Grow == room' = IF Len(states) + 1 > room THEN Larger ELSE room

Split ==
    /\ At({ "split_goto_first", "split_next_first" })
    /\ LET first == instr.op = "split_goto_first"
       IN  /\ states' = Append(states, State("split", IF first THEN next ELSE target, 0))
           /\ Proceed(IF first THEN target ELSE next, cptr)
    /\ Grow
    /\ UNCHANGED << job, pos, capture, stack, quant, ref, ticks, found, faults >>

Lookahead ==
    /\ At({ "lookahead", "negative_lookahead" })
    /\ states' = Append(states, State(instr.op, target, 0))
    /\ Proceed(next, cptr)
    /\ Grow
    /\ UNCHANGED << job, pos, capture, stack, quant, ref, ticks, found, faults >>

(* REOP_simple_greedy_quant: an atom that only tests characters is matched *)
(* as often as it can be, by calls of lre_exec_backtrack (no_recurse), one *)
(* behind the other.                                                       *)
SimpleQuant ==
    /\ At({ "simple_greedy_quant" })
    /\ quant' = [pc |-> pc, q |-> 0, cptr |-> cptr]
    /\ mode' = "quant"
    /\ UNCHANGED << job, pos, pc, cptr, capture, stack, states, room, ref, ticks,
                    ret, found, faults >>

QuantTurn ==
    /\ mode = "quant"
    /\ Poll
    /\ mode' = "run"
    /\ pc' = Follow(code, quant.pc)
    /\ cptr' = quant.cptr
    /\ UNCHANGED << job, pos, capture, stack, states, room, quant, ref, ret, found,
                    faults >>

(* REOP_match of the atom: the nested call returns the place it got to.    *)
AtomMatched ==
    /\ At({ "match" }) /\ quant # NoQuant
    /\ quant' = [quant EXCEPT !.q = @ + 1, !.cptr = cptr]
    /\ LET most == code[quant.pc].args[3]
       IN  mode' = IF quant.q + 1 >= most /\ most # Infinite
                   THEN "counted" ELSE "quant"
    /\ UNCHANGED << job, pos, pc, cptr, capture, stack, states, room, ref, ticks,
                    ret, found, faults >>

(* The state that is kept gives the matches back one by one, down to the   *)
(* least number.                                                           *)
QuantDone ==
    /\ mode = "counted"
    /\ LET least == code[quant.pc].args[2]
           kept == [State("greedy_quant", quant.pc, quant.q - least)
                       EXCEPT !.cptr = quant.cptr]
       IN  IF quant.q < least
           THEN /\ mode' = "unwind" /\ ret' = NoMatch
                /\ UNCHANGED << pc, cptr, states, room >>
           ELSE /\ mode' = "run"
                /\ pc' = Target(code, quant.pc)
                /\ cptr' = quant.cptr
                /\ IF quant.q > least
                   THEN states' = Append(states, kept) /\ Grow
                   ELSE UNCHANGED << states, room >>
                /\ UNCHANGED ret
    /\ quant' = NoQuant
    /\ UNCHANGED << job, pos, capture, stack, ref, ticks, found, faults >>

-----------------------------------------------------------------------------
(* REOP_back_reference: a group that has not matched is empty.  The loop   *)
(* over the characters of the group takes a turn at a time.                *)
BackReference ==
    /\ At(REFERENCES)
    /\ LET group == instr.args[1]
           start == capture[2 * group]
           end == capture[2 * group + 1]
           forward == instr.op \in { "back_reference", "back_reference_i" }
       IN  IF group >= prog.captures
           THEN Fail /\ UNCHANGED ref
           ELSE IF start = None \/ end = None
           THEN Proceed(next, cptr) /\ UNCHANGED ref
           ELSE /\ mode' = "compare"
                /\ ref' = [at |-> IF forward THEN start ELSE end,
                           start |-> start, end |-> end, forward |-> forward]
                /\ UNCHANGED << pc, cptr, ret >>
    /\ UNCHANGED << job, pos, capture, stack, states, room, quant, ticks, found, faults >>

Compare ==
    /\ mode = "compare"
    /\ LET more == IF ref.forward THEN ref.at < ref.end ELSE ref.at > ref.start
           stuck == IF ref.forward THEN cptr >= clen ELSE cptr = 0
           c1 == IF ref.forward THEN CharAt(ref.at, ref.end) ELSE CharBefore(ref.at, ref.start)
           c2 == IF ref.forward THEN CharAt(cptr, clen) ELSE CharBefore(cptr, 0)
       IN  IF ~more
           THEN /\ mode' = "run" /\ pc' = next /\ ref' = NoRef
                /\ UNCHANGED << cptr, ret >>
           ELSE IF stuck \/ Folded(c1.c) # Folded(c2.c)
           THEN Fail /\ ref' = NoRef
           ELSE /\ cptr' = c2.p
                /\ ref' = [ref EXCEPT !.at = c1.p]
                /\ UNCHANGED << mode, pc, ret >>
    /\ UNCHANGED << job, pos, capture, stack, states, room, quant, ticks, found, faults >>

-----------------------------------------------------------------------------
(* REOP_match, and the loop at recurse: the states are taken off until one *)
(* of them goes on.                                                        *)
Match ==
    /\ At({ "match" }) /\ quant = NoQuant
    /\ mode' = "unwind"
    /\ ret' = Matched
    /\ UNCHANGED << job, pos, pc, cptr, capture, stack, states, room, quant, ref,
                    ticks, found, faults >>

Unwinding == mode = "unwind" /\ Poll

Bottom ==
    /\ Unwinding
    /\ states = << >>
    /\ mode' = "returned"
    /\ UNCHANGED << job, pos, pc, cptr, capture, stack, states, room, quant, ref,
                    ret, found, faults >>

(* A choice is not needed any more when what came behind it has matched.   *)
Discard ==
    /\ Unwinding
    /\ states # << >>
    /\ LET type == Last(states).type
       IN  \/ type \in { "split", "greedy_quant" } /\ ret = Matched /\ UNCHANGED ret
           \/ type = "lookahead" /\ ret = NoMatch /\ UNCHANGED ret
           \/ type = "negative_lookahead" /\ ret = Matched /\ ret' = NoMatch
    /\ states' = Front(states)
    /\ UNCHANGED << job, pos, mode, pc, cptr, capture, stack, room, quant, ref,
                    found, faults >>

(* pop_state: the other branch of a split, or what follows a lookahead. A  *)
(* lookahead that matched keeps the captures made inside it.               *)
Resume ==
    /\ Unwinding
    /\ states # << >>
    /\ LET rs == Last(states)
       IN  /\ \/ rs.type \in { "split", "negative_lookahead" } /\ ret = NoMatch
              \/ rs.type = "lookahead" /\ ret = Matched
           /\ pc' = rs.pc /\ cptr' = rs.cptr /\ stack' = rs.stack
           /\ capture' = IF rs.type = "lookahead" THEN capture ELSE rs.capture
           /\ ret' = IF rs.type = "negative_lookahead" THEN Matched ELSE ret
    /\ mode' = "run"
    /\ states' = Front(states)
    /\ UNCHANGED << job, pos, room, quant, ref, found, faults >>

(* One match less of a quantifier.                                         *)
GiveBack ==
    /\ Unwinding
    /\ states # << >>
    /\ LET rs == Last(states)
           back == Back(rs.cptr, code[rs.pc].args[4])
       IN  /\ rs.type = "greedy_quant" /\ ret = NoMatch
           /\ capture' = rs.capture /\ stack' = rs.stack
           /\ pc' = Target(code, rs.pc)
           /\ cptr' = back
           /\ states' = IF rs.count = 1 THEN Front(states)
                        ELSE [states EXCEPT ![Len(states)] =
                                 [rs EXCEPT !.cptr = back, !.count = @ - 1]]
    /\ mode' = "run"
    /\ UNCHANGED << job, pos, room, quant, ref, ret, found, faults >>

-----------------------------------------------------------------------------
(* The two ways to give up: lre_check_timeout says so where it is asked,   *)
(* and a reallocation in push_state fails.                                 *)
GiveUp(error) ==
    /\ mode' = "returned"
    /\ ret' = error
    /\ quant' = NoQuant
    /\ UNCHANGED << job, pos, pc, cptr, capture, stack, states, room, ref, ticks, found >>

TimeIsUp ==
    /\ MayTimeout /\ PollDue
    /\ \/ mode \in { "unwind", "quant" }
       \/ At({ "goto" })
       \/ At({ "loop" }) /\ Last(stack) # 1
    /\ GiveUp(Timeout)
    /\ UNCHANGED faults

OutOfMemory ==
    /\ faults < MaxFaults
    /\ Len(states) + 1 > room
    /\ \/ At({ "split_goto_first", "split_next_first", "lookahead", "negative_lookahead" })
       \/ mode = "counted" /\ quant.q > code[quant.pc].args[2]
    /\ GiveUp(MemoryError)
    /\ faults' = faults + 1

(* lre_exec gives the states back to the caller's allocator and returns.   *)
(* The caller of example 4 goes on behind the match until there is none;   *)
(* the others ask once.                                                    *)
Return ==
    /\ mode = "returned"
    /\ states' = << >> /\ room' = 0
    /\ found' = Append(found, [ret |-> ret, capture |-> capture])
    /\ IF job.all /\ ret = Matched /\ capture[1] < clen
       THEN mode' = "idle" /\ pos' = capture[1]
       ELSE mode' = "done" /\ UNCHANGED pos
    /\ UNCHANGED << job, pc, cptr, capture, stack, quant, ref, ticks, ret, faults >>

Done == mode = "done" /\ UNCHANGED vars

Step ==
    \/ Exec \/ Return
    \/ Char \/ AnyChar \/ Range16or32 \/ LineStart \/ LineEnd \/ WordBoundary \/ Prev
    \/ Save \/ SaveReset \/ Push \/ Drop \/ CheckAdvance \/ Goto \/ Loop
    \/ Split \/ Lookahead \/ SimpleQuant \/ QuantTurn \/ AtomMatched \/ QuantDone
    \/ BackReference \/ Compare
    \/ Match \/ Bottom \/ Discard \/ Resume \/ GiveBack
    \/ TimeIsUp \/ OutOfMemory

Next == Step \/ Done

Spec == Init /\ [][Next]_vars /\ WF_vars(Step)

-----------------------------------------------------------------------------
(* The matcher is never inside of a pair of surrogates.                    *)
Places == { p \in 0 .. clen : ~InPair(p) }
CharsBefore(p) == Cardinality({ q \in Places : q < p })

CapturesFit(c) == c \in [0 .. 2 * prog.captures - 1 -> Places \union { None }]

StackFits(s, p) ==
    s \in Seq(Int) /\ Len(s) = StackDepth(code)[p] /\ Len(s) <= prog.stack

StateFits(rs) ==
    /\ rs.pc \in Heads(code)
    /\ rs.cptr \in Places
    /\ CapturesFit(rs.capture)
    /\ StackFits(rs.stack, rs.pc)

(* What a quantifier can still give back, count times the characters of    *)
(* its atom, is there.                                                     *)
GreedyFits(rs) ==
    rs.type = "greedy_quant" =>
        /\ code[rs.pc].op = "simple_greedy_quant"
        /\ rs.count \in Nat \ {0}
        /\ rs.count * code[rs.pc].args[4] <= CharsBefore(rs.cptr)

(* What the loops of lre_exec_backtrack rely on, none of which it checks:  *)
(* the captures and the stack have the sizes they were allocated with, at  *)
(* every instruction, also at those to be come back to, the stack is as    *)
(* high as compute_stack_size reckoned, and every place is one of the text *)
(* between two of its characters.                                          *)
InBounds ==
    /\ pos \in 0 .. clen /\ cptr \in Places
    /\ pc \in Heads(code)
    /\ mode \in { "run", "quant", "counted", "compare" } =>
          CapturesFit(capture) /\ StackFits(stack, IF quant = NoQuant THEN pc ELSE quant.pc)
    /\ mode = "compare" => { ref.at, ref.start, ref.end } \subseteq Places
    /\ \A i \in DOMAIN states : StateFits(states[i]) /\ GreedyFits(states[i])
    /\ Len(states) <= room

(* A group that matched has both its ends, in order, and one that did not  *)
(* has neither: the callers compute lengths from the difference            *)
(* (main.c:69, 107, 222).                                                  *)
GroupsPaired ==
    \A i \in DOMAIN found : found[i].ret = Matched =>
        \A g \in 0 .. prog.captures - 1 :
            LET start == found[i].capture[2 * g]
                end == found[i].capture[2 * g + 1]
            IN  \/ start = None /\ end = None
                \/ start # None /\ start <= end

(* Every call returns: also of patterns that repeat what can be empty,     *)
(* where only the check of the advance ends the loop.                      *)
Terminates == <>(mode = "done")
=============================================================================
