--------------------------- MODULE CodePointSets ---------------------------
(***************************************************************************)
(* What libunicode.c promises of a CharRange: it is a set of code points,  *)
(* a call makes of it what its name says, and a call that runs out of      *)
(* memory says so and leaves a set that can only be freed.                 *)
(***************************************************************************)
EXTENDS Integers

CONSTANTS Universe,        \* the code points
          Arguments,       \* the sets that calls are made with
          Folded(_, _)     \* what a code point is compared as: lre_canonicalize

VARIABLES value,           \* the set
          call,            \* the call in work
          ok,              \* whether every call so far succeeded
          lossy            \* whether the call may have lost code points

vars == << value, call, ok, lossy >>

Asked(name, operand, is_unicode) ==
    [name |-> name, operand |-> operand, is_unicode |-> is_unicode]

NoCall == Asked("none", {}, FALSE)

IsRequest(c) ==
    \/ \E op \in { "union", "inter", "sub", "xor" }, b \in Arguments : c = Asked(op, b, FALSE)
    \/ c = Asked("complement", {}, FALSE)
    \/ \E is_unicode \in BOOLEAN : c = Asked("canonicalize", {}, is_unicode)

Combined(s, op, b) ==
    CASE op = "union" -> s \union b
      [] op = "inter" -> s \intersect b
      [] op = "sub" -> s \ b
      [] op = "xor" -> (s \ b) \union (b \ s)

Promised(s, c) ==
    CASE c.name = "complement" -> Universe \ s
      [] c.name = "canonicalize" -> { Folded(x, c.is_unicode) : x \in s }
      [] OTHER -> Combined(s, c.name, c.operand)

Init ==
    /\ value = {}
    /\ call = NoCall
    /\ ok = TRUE
    /\ lossy = FALSE

Begin ==
    /\ call = NoCall
    /\ IsRequest(call')
    /\ lossy' = FALSE
    /\ UNCHANGED << value, ok >>

(* The one call that may forget code points and not say so.                *)
Lose ==
    /\ call.name = "canonicalize"
    /\ lossy' = TRUE
    /\ UNCHANGED << value, call, ok >>

Return ==
    /\ call # NoCall
    /\ IF lossy THEN value' \in SUBSET Promised(value, call)
                ELSE value' = Promised(value, call)
    /\ call' = NoCall
    /\ UNCHANGED << ok, lossy >>

Fail ==
    /\ call # NoCall
    /\ call' = NoCall
    /\ ok' = FALSE
    /\ UNCHANGED << value, lossy >>

Next == ok /\ (Begin \/ Lose \/ Return \/ Fail)

Spec == Init /\ [][Next]_vars
=============================================================================
