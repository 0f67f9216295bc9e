--------------------------- MODULE RegexpProgram ---------------------------
(***************************************************************************)
(* The byte code of libregexp.c: what the compiler (RegexpCompiler) writes *)
(* and the matcher (RegexpMatcher) runs.  A program is a sequence with one *)
(* cell per byte: the first byte of an instruction holds the whole of it,  *)
(* the others hold Pad, so that the places of instructions and the         *)
(* distances of jumps are the numbers of the code.  Its pc is ours less    *)
(* one.                                                                    *)
(***************************************************************************)
EXTENDS Integers, FiniteSets, SequencesExt

Infinite == 2147483647        \* INT32_MAX, no upper bound of a quantifier
CapturesMax == 255            \* CAPTURE_COUNT_MAX
StackMax == 255               \* STACK_SIZE_MAX

Instr(op, args) == [op |-> op, args |-> args]
Pad == Instr("pad", << >>)

(* reopcode_info[].size, with the intervals of a range behind it.          *)
Size(i) ==
    CASE i.op \in { "range", "range_i" } -> 3 + 2 * Len(i.args)
      [] i.op \in { "range32", "range32_i" } -> 3 + 4 * Len(i.args)
      [] i.op \in { "char", "char_i", "save_reset" } -> 3
      [] i.op \in { "char32", "char32_i", "goto", "split_goto_first",
                    "split_next_first", "loop", "push_i32", "lookahead",
                    "negative_lookahead" } -> 5
      [] i.op \in { "save_start", "save_end", "back_reference", "back_reference_i",
                    "backward_back_reference", "backward_back_reference_i" } -> 2
      [] i.op = "simple_greedy_quant" -> 17
      [] OTHER -> 1

Bytes(i) == << i >> \o [k \in 1 .. Size(i) - 1 |-> Pad]

Heads(code) == { p \in DOMAIN code : code[p] # Pad }
Follow(code, p) == p + Size(code[p])

(* The operand of a jump counts from the end of the instruction; that of   *)
(* a quantifier is the length of the atom behind it, which ends in a match.*)
Target(code, p) == Follow(code, p) + code[p].args[1]

CHARS == { "char", "char_i", "char32", "char32_i", "dot", "any",
           "range", "range_i", "range32", "range32_i" }
TESTS == { "line_start", "line_start_m", "line_end", "line_end_m",
           "word_boundary", "word_boundary_i",
           "not_word_boundary", "not_word_boundary_i" }
JUMPS == { "goto", "split_goto_first", "split_next_first", "loop",
           "lookahead", "negative_lookahead", "simple_greedy_quant" }
REFERENCES == { "back_reference", "back_reference_i",
                "backward_back_reference", "backward_back_reference_i" }

(* compute_stack_size: the words on the stack at each instruction, and the *)
(* most there ever are.  The analysis runs straight down the code.         *)
PUSHES == { "push_i32", "push_char_pos" }
POPS == { "drop", "check_advance" }
Effect(op) == IF op \in PUSHES THEN 1 ELSE IF op \in POPS THEN -1 ELSE 0

Above(code, p, ops) == Cardinality({ q \in 1 .. p - 1 : code[q].op \in ops })

StackDepth(code) ==
    [p \in 1 .. Len(code) + 1 |-> Above(code, p, PUSHES) - Above(code, p, POPS)]
StackSize(code) ==
    LET depths == { StackDepth(code)[p] : p \in 1 .. Len(code) + 1 }
    IN  CHOOSE n \in depths : \A d \in depths : d <= n

(* re_is_simple_quantifier: the number of characters an atom takes, or -1  *)
(* if it does anything but test characters.                                *)
CharsTaken(code) == [p \in 1 .. Len(code) + 1 |-> Above(code, p, CHARS)]

SimpleQuantifier(code) ==
    IF \A p \in Heads(code) : code[p].op \in CHARS \union TESTS
    THEN CharsTaken(code)[Len(code) + 1]
    ELSE -1

(* re_need_check_advance: may the atom match without moving?               *)
NeedCheckAdvance(code) ==
    LET ops == { code[p].op : p \in Heads(code) }
    IN  \/ ops \intersect CHARS = {}
        \/ \E op \in ops :
               op \notin CHARS \union TESTS \union REFERENCES \union
                   { "push_i32", "push_char_pos", "drop", "prev",
                     "save_start", "save_end", "save_reset" }

-----------------------------------------------------------------------------
(* Where the code goes from p, but for the atom of a quantifier, which is  *)
(* entered by a call of its own.                                           *)
Successors(code, p) ==
    { Follow(code, p) : x \in { code[p].op } \ { "goto", "match", "simple_greedy_quant" } }
    \union { Target(code, p) : x \in { code[p].op } \intersect JUMPS }

(* The instructions inside the bodies of those with an op among ops.       *)
Enclosed(code, ops) ==
    LET heads == Heads(code)
        around == { p \in heads : code[p].op \in ops }
    IN  { h \in heads : \E p \in around : Follow(code, p) <= h /\ h < Target(code, p) }

LOOKS == { "lookahead", "negative_lookahead" }
InLooks(code) == Enclosed(code, LOOKS)
InAtoms(code) == Enclosed(code, { "simple_greedy_quant" })

(* What lre_exec_backtrack takes for granted of a program: it never checks *)
(* a jump, a capture index (but in assertions) or the room on its stack.   *)
(* Bodies are entered from the front only, and the match that ends the     *)
(* program comes right behind the end of group 0, which the callers of     *)
(* lre_exec read.                                                          *)
WellFormed(prog) ==
    LET code == prog.code
        heads == Heads(code)
        depth == StackDepth(code)
        chars == CharsTaken(code)
        looks == InLooks(code)
        atoms == InAtoms(code)
        ends == { "goto", "match" }
        Body(p) == { h \in heads : Follow(code, p) <= h /\ h < Target(code, p) }
    IN  /\ code \in Seq([op : STRING, args : Seq(Int)])
        /\ prog.stack \in Nat
        /\ 1 \in heads \ (looks \union atoms)
        /\ code[1].op # "match"
        /\ \A p \in heads \ atoms : \A s \in Successors(code, p) :
              /\ s \notin atoms
              /\ s \in looks => p \in looks \/ (code[p].op \in LOOKS /\ s # Target(code, p))
              /\ code[s].op = "match" /\ s \notin looks =>
                    code[p].op = "save_end" /\ code[p].args[1] = 0
        /\ \A p \in heads :
              LET i == code[p]
                  next == Follow(code, p)
                  to == Target(code, p)
              IN  /\ depth[p] \in 0 .. prog.stack
                  /\ i.op \notin ends \union { "simple_greedy_quant" } =>
                        /\ next \in heads
                        /\ depth[next] = depth[p] + Effect(i.op)
                        /\ chars[next] = chars[p] + (IF i.op \in CHARS THEN 1 ELSE 0)
                  /\ i.op \in JUMPS => to \in heads /\ depth[to] = depth[p]
                  /\ i.op \in { "loop", "drop", "check_advance" } => depth[p] >= 1
                  /\ i.op = "push_i32" => i.args[1] \in 1 .. Infinite
                  /\ i.op \in { "save_start", "save_end" } =>
                        i.args[1] \in 0 .. prog.captures - 1
                  /\ i.op \in REFERENCES => i.args[1] \in Nat
                  /\ i.op = "save_reset" =>
                        i.args[1] \in Nat /\ i.args[2] \in 0 .. prog.captures - 1
                  /\ i.op \in { "range", "range_i", "range32", "range32_i" } =>
                        /\ Len(i.args) >= 2
                        /\ \A k \in 1 .. Len(i.args) - 1 : i.args[k] <= i.args[k + 1]
                  /\ i.op = "simple_greedy_quant" =>
                        /\ i.args[2] \in Nat
                        /\ i.args[3] \in Nat
                        /\ i.args[4] = chars[to - 1] - chars[next]
                        /\ i.args[4] >= 1
                        /\ next \in heads
                        /\ to - 1 \in heads
                        /\ next <= to - 1
                        /\ code[to - 1].op = "match"
                        /\ \A h \in Body(p) :
                              /\ depth[h] = depth[p]
                              /\ chars[h] <= chars[to - 1]
                              /\ h # to - 1 => /\ code[h].op \in CHARS \union TESTS
                                               /\ Follow(code, h) <= to - 1
=============================================================================
