--------------------------- MODULE RegexpCompiler ---------------------------
(***************************************************************************)
(* The compiler of regular expressions (libregexp.c): lre_compile and the  *)
(* recursive descent below it, which writes the byte code as it reads the  *)
(* pattern and goes back into what it wrote to put a loop around it.       *)
(***************************************************************************)
EXTENDS RegexpClasses

(* re_emit_op and its variants; the size of the code so far.               *)
Emit(s, op, args) == [s EXCEPT !.code = @ \o Bytes(Instr(op, args))]
Size0(s) == Len(s.code)

(* dbuf_insert and the instruction put there, put_u32 on an operand.       *)
Insert(s, at, i) ==
    [s EXCEPT !.code = SubSeq(@, 1, at) \o Bytes(i) \o SubSeq(@, at + 1, Len(@))]
Patch(s, at, value) == [s EXCEPT !.code[at + 1].args[1] = value]

-----------------------------------------------------------------------------
(* re_parse_group_name, behind the <.  The name, or "" if it is not one.   *)
IsIdentFirst(c) ==
    IF c < 128 THEN c \in (65 .. 90) \union (97 .. 122) \union { 36, 95 } ELSE c \in IdStart
IsIdentNext(c) ==
    \/ c < 128 /\ (IsIdentFirst(c) \/ c \in 48 .. 57)
    \/ c \in { 8204, 8205 }
    \/ c >= 128 /\ c \in IdContinue

NameMax == 128 - 6 - 1      \* TMP_BUF_SIZE - UTF8_CHAR_LEN_MAX - 1

RECURSIVE GroupName(_, _)
GroupName(s, name) ==
    LET escaped == Here(s) = "\\"
        e == lre_parse_escape(Skip(s, 1), TRUE)
        c == IF escaped THEN e.c ELSE CharCode[Here(s)]
        letter == IF escaped THEN CHOOSE l \in DOMAIN CharCode : CharCode[l] = c ELSE Here(s)
    IN  IF Here(s) = ">" /\ name # "" THEN [name |-> name, s |-> Skip(s, 1)]
        ELSE IF \/ Here(s) \in { ">", NUL }
                \/ escaped /\ (At(s, 1) # "u" \/ c < 0)
                \/ name = "" /\ ~IsIdentFirst(c)
                \/ name # "" /\ ~IsIdentNext(c)
                \/ Len(name) > NameMax
        THEN [name |-> "", s |-> s]
        ELSE GroupName(IF escaped THEN e.s ELSE Skip(s, 1), name \o letter)

re_parse_group_name(s) == GroupName(s, "")

(* re_parse_captures: a scan of the whole pattern that knows just enough   *)
(* of it to count the groups, or to find the one with a name, which may be *)
(* one that is defined further on.                                         *)
RECURSIVE SkipClass(_), ScanCaptures(_, _, _, _)
SkipClass(s) ==
    IF AtEnd(s) \/ Here(s) = "]" THEN s
    ELSE SkipClass(Skip(s, IF Here(s) = "\\" THEN 2 ELSE 1))

ScanCaptures(s, index, named, wanted) ==
    LET group == Here(s) = "("
        is_named == /\ group /\ At(s, 1) = "?" /\ At(s, 2) = "<"
                    /\ At(s, 3) \notin { "=", "!" }
        read == re_parse_group_name(Skip(s, 3))
        look == is_named /\ wanted # ""
        resume == IF look THEN IF read.name # "" THEN read.s ELSE Skip(s, 3)
                  ELSE IF Here(s) = "\\" THEN Skip(s, 1)
                  ELSE IF Here(s) = "[" THEN SkipClass(Skip(s, 1))
                  ELSE s
        capture == is_named \/ (group /\ At(s, 1) # "?")
        is_last == capture /\ index + 1 >= CapturesMax
    IN  IF AtEnd(s)
        THEN [index |-> IF wanted # "" THEN -1 ELSE index, named |-> named]
        ELSE IF look /\ read.name = wanted
        THEN [index |-> index, named |-> TRUE]
        ELSE IF is_last
        THEN [index |-> IF wanted # "" THEN -1 ELSE index + 1, named |-> named \/ is_named]
        ELSE ScanCaptures(Skip(resume, 1), IF capture THEN index + 1 ELSE index,
                          named \/ is_named, wanted)

re_parse_captures(s, wanted) == ScanCaptures([s EXCEPT !.p = 1], 1, FALSE, wanted)

(* re_count_captures and re_has_named_captures scan once, when first asked.*)
Counted(s) ==
    IF s.total >= 0 THEN s
    ELSE LET scan == re_parse_captures(s, "")
         IN  [s EXCEPT !.total = scan.index, !.named = IF scan.named THEN 1 ELSE 0]

HasNamed(s) == (IF s.named < 0 THEN Counted(s) ELSE s).named = 1

(* find_group_name among the groups that are open or closed; -1 for none.  *)
find_group_name(s, name) ==
    IF \E i \in DOMAIN s.names : s.names[i] = name
    THEN CHOOSE i \in DOMAIN s.names :
            s.names[i] = name /\ \A j \in 1 .. i - 1 : s.names[j] # name
    ELSE -1

-----------------------------------------------------------------------------
(* The quantifier of an atom whose code starts at start, and in which the  *)
(* groups from last_captures on were opened.                               *)
QuantifierCode(s, start, last_captures, min, max, greedy) ==
    LET before == SubSeq(s.code, 1, start)
        atom == SubSeq(s.code, start + 1, Len(s.code))
        len == Len(atom)
        chars == SimpleQuantifier(atom)
        add_zero_advance_check == NeedCheckAdvance(atom)
        checks == IF add_zero_advance_check THEN 2 ELSE 0
        guarded == IF add_zero_advance_check
                   THEN Bytes(Instr("push_char_pos", << >>)) \o atom
                        \o Bytes(Instr("check_advance", << >>))
                   ELSE atom
        split(n) == Bytes(Instr(IF greedy THEN "split_next_first" ELSE "split_goto_first", << n >>))
        back(op) == Bytes(Instr(op, << -(5 + len + checks + 5) >>))
        push(n) == Bytes(Instr("push_i32", << n >>))
        drop == Bytes(Instr("drop", << >>))
        reset == IF last_captures # s.captures
                 THEN Bytes(Instr("save_reset", << last_captures, s.captures - 1 >>))
                 ELSE << >>
        forever == split(len + checks + 5) \o guarded \o back("goto")
        atmost(n) == push(n) \o split(len + checks + 5) \o guarded \o back("loop") \o drop
        exactly(n) == push(n) \o atom \o Bytes(Instr("loop", << -(len + 5) >>)) \o drop
        again == IF greedy THEN "split_goto_first" ELSE "split_next_first"
    IN  [s EXCEPT !.code = before \o
            IF greedy /\ max > 0 /\ chars > 0
            THEN Bytes(Instr("simple_greedy_quant", << len + 1, min, max, chars >>))
                 \o atom \o Bytes(Instr("match", << >>))
            ELSE IF min = 0
            THEN reset \o
                 (IF max = 0 THEN << >>
                  ELSE IF max = 1 THEN split(len + checks) \o guarded
                  ELSE IF max = Infinite THEN forever
                  ELSE atmost(max))
            ELSE IF min = 1 /\ max = Infinite /\ ~add_zero_advance_check
            THEN atom \o Bytes(Instr(again, << -(len + 5) >>))
            ELSE (IF min = 1 THEN atom ELSE exactly(min)) \o
                 (IF max = Infinite THEN forever
                  ELSE IF max > min THEN atmost(max - min)
                  ELSE << >>)]

(* The quantifier behind a term t, if there is one and the term can have   *)
(* one (start >= 0).                                                       *)
Term(s, start, captures) == [s |-> s, start |-> start, captures |-> captures]

Greedily(t, s, min, max) ==
    LET greedy == Here(s) # "?"
    IN  QuantifierCode(IF greedy THEN s ELSE Skip(s, 1), t.start, t.captures, min, max, greedy)

Quantified(t) ==
    LET s == t.s
        least == parse_digits(Skip(s, 1), TRUE)
        comma == Here(least.s) = ","
        most == IF ~comma THEN least
                ELSE IF is_digit(At(least.s, 1)) THEN parse_digits(Skip(least.s, 1), TRUE)
                ELSE [v |-> Infinite, s |-> Skip(least.s, 1)]
    IN  IF Failed(s) \/ t.start < 0 THEN s
        ELSE IF Here(s) = "*" THEN Greedily(t, Skip(s, 1), 0, Infinite)
        ELSE IF Here(s) = "+" THEN Greedily(t, Skip(s, 1), 1, Infinite)
        ELSE IF Here(s) = "?" THEN Greedily(t, Skip(s, 1), 0, 1)
        ELSE IF Here(s) # "{" THEN s
        ELSE IF ~is_digit(At(s, 1))
        THEN IF s.is_unicode THEN Error(s, "invalid repetition count") ELSE s
        ELSE IF most.v < least.v THEN Error(s, "invalid repetition count")
        ELSE IF Here(most.s) = "}" THEN Greedily(t, Skip(most.s, 1), least.v, most.v)
        ELSE IF s.is_unicode THEN Error(s, "expecting '}'")
        ELSE s

-----------------------------------------------------------------------------
(* re_emit_range: intervals with bounds inside, of 16 bits if they fit.    *)
re_emit_range(s, cr) ==
    LET n == Len(cr)
        high == IF cr[n] = Infinity THEN cr[n - 1] ELSE cr[n]
        wide == high > 65535
        last(c) == IF c = Infinity /\ ~wide THEN 65535 ELSE c - 1
        op == (IF wide THEN "range32" ELSE "range") \o (IF s.ignore_case THEN "_i" ELSE "")
    IN  IF n \div 2 >= 65535 THEN Error(s, "too many ranges")
        ELSE IF n = 0 THEN Emit(s, "char32", << -1 >>)
        ELSE Emit(s, op, [i \in 1 .. n |-> IF i % 2 = 1 THEN cr[i] ELSE last(cr[i])])

re_emit_char(s, c) ==
    Emit(s, (IF c <= 65535 THEN "char" ELSE "char32") \o (IF s.ignore_case THEN "_i" ELSE ""),
         << c >>)

(* re_emit_string_list: the strings, the longest first, then the single    *)
(* characters, then nothing, as alternatives.  All but the last begin with *)
(* a split and, if strings, end with a goto to the end, which is patched   *)
(* when the end is known.                                                  *)
EmitStrings(s, class) ==
    LET strings == SetToSortSeq(class.strings \ { << >> },
                                LAMBDA a, b : Len(a) > Len(b))
        has_empty == << >> \in class.strings
        has_chars == class.cr # << >>
        Alternative(t, i) ==
            LET is_last == ~has_empty /\ ~has_chars /\ i = Len(strings)
                split == Size0(t.s)
                opened == IF is_last THEN t.s ELSE Emit(t.s, "split_next_first", << 0 >>)
                written == FoldLeft(re_emit_char, opened, strings[i])
                closed == Emit(written, "goto", << 0 >>)
            IN  IF is_last THEN [t EXCEPT !.s = written]
                ELSE [s |-> Patch(closed, split, Size0(closed) - (split + 5)),
                      gotos |-> t.gotos \union { Size0(written) }]
        alternatives == FoldLeft(Alternative, [s |-> s, gotos |-> {}],
                                 [i \in DOMAIN strings |-> i])
        Chars(t) ==
            LET split == Size0(t)
                opened == IF has_empty THEN Emit(t, "split_next_first", << 0 >>) ELSE t
                written == re_emit_range(opened, class.cr)
            IN  IF has_empty THEN Patch(written, split, Size0(written) - (split + 5))
                ELSE written
        all == IF has_chars THEN Chars(alternatives.s) ELSE alternatives.s
    IN  FoldSet(LAMBDA at, t : Patch(t, at, Size0(t) - (at + 5)), all, alternatives.gotos)

re_emit_string_list(s, class) ==
    IF class.strings = {} THEN re_emit_range(s, class.cr) ELSE EmitStrings(s, class)

(* A character or a class, with a step back before and behind it if the    *)
(* text is read backward.                                                  *)
(* Mutant: the text is read forward behind a lookbehind, too.              *)
BeforeNever(s, back) == s

Before(s, back) == IF back THEN Emit(s, "prev", << >>) ELSE s

CharTerm(s, c, back) ==
    Term(Before(re_emit_char(Before(s, back), Canonical(s, c)), back), Size0(s), s.captures)

ClassTerm(s, class, back) ==
    Term(Before(re_emit_string_list(Before(s, back), class), back), Size0(s), s.captures)

AtomTerm(s, back) ==
    LET a == get_class_atom(s, TRUE, FALSE)
    IN  IF Failed(a.s) THEN Term(a.s, -1, 0)
        ELSE IF a.c = ClassBase THEN ClassTerm(a.s, a.class, back)
        ELSE CharTerm(a.s, a.c, back)

-----------------------------------------------------------------------------
(* Terms that begin with a backslash.                                      *)
BackReferenceTerm(s, group, back) ==
    LET op == (IF back THEN "backward_back_reference" ELSE "back_reference")
              \o (IF s.ignore_case THEN "_i" ELSE "")
    IN  Term(Emit(s, op, << group >>), Size0(s), s.captures)

Refused(s, message) == Term(Error(s, message), -1, 0)

NamedReference(s, back) ==
    LET read == re_parse_group_name(Skip(s, 3))
        known == find_group_name(s, read.name)
        group == IF known >= 0 THEN known ELSE re_parse_captures(s, read.name).index
        strict == s.is_unicode \/ HasNamed(s)
        t == IF s.is_unicode \/ s.named >= 0 THEN s ELSE Counted(s)
        bad(message) == IF strict THEN Refused(s, message) ELSE AtomTerm(t, back)
    IN  IF At(s, 2) # "<" THEN bad("expecting group name")
        ELSE IF read.name = "" THEN bad("invalid group name")
        ELSE IF group < 0 THEN bad("group name not defined")
        ELSE BackReferenceTerm(read.s, group, back)

(* \0 and what may follow it.                                              *)
ZeroTerm(s, back) ==
    LET octal(k) == At(s, k) # NUL /\ is_octal(At(s, k))
    IN  IF s.is_unicode
        THEN IF is_digit(At(s, 2))
             THEN Refused(s, "invalid decimal escape in regular expression")
             ELSE CharTerm(Skip(s, 2), 0, back)
        ELSE IF ~octal(2) THEN CharTerm(Skip(s, 2), 0, back)
        ELSE IF ~octal(3) THEN CharTerm(Skip(s, 3), Digit(At(s, 2)), back)
        ELSE CharTerm(Skip(s, 4), 8 * Digit(At(s, 2)) + Digit(At(s, 3)), back)

(* \1 to \9: a reference if there is such a group anywhere, else a number  *)
(* in octal, else the digit.                                               *)
NumberTerm(s, back) ==
    LET n == parse_digits(Skip(s, 1), FALSE)
        t == IF n.v >= 0 /\ n.v >= s.captures THEN Counted(s) ELSE s
        exists == n.v >= 0 /\ (n.v < s.captures \/ n.v < t.total)
        d1 == IF At(s, 1) \in { "1", "2", "3" } THEN Digit(At(s, 1)) ELSE 0
        from == IF d1 > 0 THEN 2 ELSE 1
        octal(k) == At(s, k) # NUL /\ is_octal(At(s, k))
    IN  IF exists THEN BackReferenceTerm([n.s EXCEPT !.total = t.total, !.named = t.named], n.v, back)
        ELSE IF s.is_unicode
        THEN Refused(s, "back reference out of range in regular expression")
        ELSE IF At(s, 1) \in { "8", "9" }
        THEN CharTerm(Skip(t, 2), CharCode[At(s, 1)], back)
        ELSE IF ~octal(from) THEN CharTerm(Skip(t, from), d1, back)
        ELSE IF ~octal(from + 1)
        THEN CharTerm(Skip(t, from + 1), 8 * d1 + Digit(At(s, from)), back)
        ELSE CharTerm(Skip(t, from + 2),
                      8 * (8 * d1 + Digit(At(s, from))) + Digit(At(s, from + 1)), back)

EscapeTerm(s, back) ==
    LET c == At(s, 1)
        i == IF s.ignore_case THEN "_i" ELSE ""
    IN  IF c = "b" THEN Term(Emit(Skip(s, 2), "word_boundary" \o i, << >>), -1, 0)
        ELSE IF c = "B" THEN Term(Emit(Skip(s, 2), "not_word_boundary" \o i, << >>), -1, 0)
        ELSE IF c = "k" THEN NamedReference(s, back)
        ELSE IF c = "0" THEN ZeroTerm(s, back)
        ELSE IF is_digit(c) THEN NumberTerm(s, back)
        ELSE AtomTerm(s, back)

-----------------------------------------------------------------------------
(* re_parse_modifiers: a set of i, m and s, each once.                     *)
RECURSIVE Modifiers(_, _)
Modifiers(s, mask) ==
    LET c == Here(s)
    IN  IF c \notin { "i", "m", "s" } THEN [s |-> s, mask |-> mask]
        ELSE IF c \in mask THEN [s |-> Error(s, "duplicate modifier"), mask |-> mask]
        ELSE Modifiers(Skip(s, 1), mask \union {c})

re_parse_modifiers(s) == Modifiers(s, {})

Modified(s, add, remove) ==
    LET update(val, m) == (val \/ m \in add) /\ m \notin remove
    IN  [s EXCEPT !.ignore_case = update(@, "i"), !.multi_line = update(@, "m"),
                  !.dotall = update(@, "s")]

RECURSIVE re_parse_disjunction(_, _), re_parse_alternative(_, _, _)

(* The group that s is in, up to its closing parenthesis.                  *)
Inside(s, back) ==
    LET t == re_parse_disjunction(s, back) IN IF Failed(t) THEN t ELSE Expect(t, ")")

ModifierGroup(s, back) ==
    LET add == re_parse_modifiers(Skip(s, 2))
        minus == Here(add.s) = "-"
        remove == IF minus THEN re_parse_modifiers(Skip(add.s, 1)) ELSE [add EXCEPT !.mask = {}]
        open == Expect(remove.s, ":")
        t == Inside(Modified(open, add.mask, remove.mask), back)
    IN  IF Failed(add.s) THEN Term(add.s, -1, 0)
        ELSE IF Failed(remove.s) THEN Term(remove.s, -1, 0)
        ELSE IF \/ add.mask \union remove.mask = {}
                \/ add.mask \intersect remove.mask # {}
        THEN Refused(s, "invalid modifiers")
        ELSE IF Failed(open) THEN Term(open, -1, 0)
        ELSE Term([t EXCEPT !.ignore_case = s.ignore_case, !.multi_line = s.multi_line,
                            !.dotall = s.dotall], Size0(s), s.captures)

(* A lookahead, or a lookbehind, whose text is read backward.  Only a      *)
(* lookahead may be repeated, and that not in Unicode patterns.            *)
LookTerm(s, width, is_neg, backward) ==
    LET at == Size0(s)
        t == Inside(Emit(Skip(s, width), IF is_neg THEN "negative_lookahead" ELSE "lookahead",
                         << 0 >>), backward)
        u == Emit(t, "match", << >>)
    IN  IF Failed(t) THEN Term(t, -1, 0)
        ELSE Term(Patch(u, at, Size0(u) - (at + 5)),
                  IF ~s.is_unicode /\ ~backward THEN at ELSE -1, s.captures)

(* parse_capture.  Backward, the end of the group comes first.             *)
CaptureTerm(s, name, back) ==
    LET group == s.captures
        first == IF back THEN "save_end" ELSE "save_start"
        second == IF back THEN "save_start" ELSE "save_end"
        t == re_parse_disjunction(
                 [Emit(s, first, << group >>) EXCEPT !.captures = @ + 1,
                                                     !.names = Append(@, name)], back)
    IN  IF s.captures >= CapturesMax THEN Refused(s, "too many captures")
        ELSE IF Failed(t) THEN Term(t, -1, 0)
        ELSE Term(Expect(Emit(t, second, << group >>), ")"), Size0(s), s.captures)

NamedGroup(s, back) ==
    LET read == re_parse_group_name(Skip(s, 3))
    IN  IF read.name = "" THEN Refused(s, "invalid group name")
        ELSE IF find_group_name(s, read.name) > 0 THEN Refused(s, "duplicate group name")
        ELSE CaptureTerm([read.s EXCEPT !.named = 1], read.name, back)

GroupTerm(s, back) ==
    LET kind == At(s, 2)
        behind == kind = "<" /\ At(s, 3) \in { "=", "!" }
    IN  IF At(s, 1) # "?" THEN CaptureTerm(Skip(s, 1), "", back)
        ELSE IF kind = ":" THEN Term(Inside(Skip(s, 3), back), Size0(s), s.captures)
        ELSE IF kind \in { "i", "m", "s", "-" } THEN ModifierGroup(s, back)
        ELSE IF kind \in { "=", "!" } THEN LookTerm(s, 3, kind = "!", FALSE)
        ELSE IF behind THEN LookTerm(s, 4, At(s, 3) = "!", TRUE)
        ELSE IF kind = "<" THEN NamedGroup(s, back)
        ELSE Refused(s, "invalid group")

(* A { that reads like a repetition count has nothing to repeat; any other *)
(* is a character.                                                         *)
LikeACount(s) ==
    LET n == parse_digits(Skip(s, 1), TRUE).s
        m == IF Here(n) # "," THEN n
             ELSE IF is_digit(At(n, 1)) THEN parse_digits(Skip(n, 1), TRUE).s
             ELSE Skip(n, 1)
    IN  is_digit(At(s, 1)) /\ Here(m) = "}"

AnyTerm(s, back) ==
    Term(Before(Emit(Before(Skip(s, 1), back), IF s.dotall THEN "any" ELSE "dot", << >>), back),
         Size0(s), s.captures)

ClassInBrackets(s, back) ==
    LET a == re_parse_nested_class(s)
    IN  IF Failed(a.s) THEN Term(a.s, -1, 0) ELSE ClassTerm(a.s, a.class, back)

re_parse_term(s, back) ==
    LET c == Here(s)
        m == IF s.multi_line THEN "_m" ELSE ""
    IN  Quantified(
            IF c = "^" THEN Term(Emit(Skip(s, 1), "line_start" \o m, << >>), -1, 0)
            ELSE IF c = "$" THEN Term(Emit(Skip(s, 1), "line_end" \o m, << >>), -1, 0)
            ELSE IF c = "." THEN AnyTerm(s, back)
            ELSE IF c = "{" /\ s.is_unicode THEN Refused(s, "syntax error")
            ELSE IF c \in { "*", "+", "?" } \/ (c = "{" /\ LikeACount(s))
            THEN Refused(s, "nothing to repeat")
            ELSE IF c = "(" THEN GroupTerm(s, back)
            ELSE IF c = "\\" THEN EscapeTerm(s, back)
            ELSE IF c = "[" THEN ClassInBrackets(s, back)
            ELSE IF c \in { "]", "}" } /\ s.is_unicode THEN Refused(s, "syntax error")
            ELSE AtomTerm(s, back))

(* Read backward, the code of a later term goes before that of the others. *)
re_parse_alternative(s, back, start) ==
    LET t == re_parse_term(s, back)
        earlier == SubSeq(s.code, start + 1, Len(s.code))
        later == SubSeq(t.code, Len(s.code) + 1, Len(t.code))
    IN  IF Here(s) \in { NUL, "|", ")" } THEN s
        ELSE IF Failed(t) THEN t
        ELSE re_parse_alternative(
                 IF ~back THEN t
                 ELSE [t EXCEPT !.code = SubSeq(@, 1, start) \o later \o earlier],
                 back, start)

(* Every bar puts a split before all that came before it, and a goto       *)
(* behind it.                                                              *)
RECURSIVE Alternatives(_, _, _)
Alternatives(s, back, start) ==
    LET len == Size0(s) - start
        split == Insert(Skip(s, 1), start, Instr("split_next_first", << len + 5 >>))
        at == Size0(split)
        t == re_parse_alternative(Emit(split, "goto", << 0 >>), back, at + 5)
    IN  IF Failed(s) \/ Here(s) # "|" THEN s
        ELSE IF Failed(t) THEN t
        ELSE Alternatives(Patch(t, at, Size0(t) - (at + 5)), back, start)

re_parse_disjunction(s, back) ==
    Alternatives(re_parse_alternative(s, back, Size0(s)), back, Size0(s))

-----------------------------------------------------------------------------
(* lre_compile.  A pattern that is not sticky is tried at every place.     *)
Parser(src, flags) ==
    [src |-> src, p |-> 1, code |-> << >>, captures |-> 1, names |-> << >>,
     total |-> -1, named |-> -1, err |-> "",
     is_unicode |-> flags \intersect { "unicode", "unicode_sets" } # {},
     unicode_sets |-> "unicode_sets" \in flags, ignore_case |-> "ignorecase" \in flags,
     multi_line |-> "multiline" \in flags, dotall |-> "dotall" \in flags]

Prefix(s) == Emit(Emit(Emit(s, "split_goto_first", << 6 >>), "any", << >>), "goto", << -11 >>)

lre_compile(src, flags) ==
    LET s == Parser(src, flags)
        t == re_parse_disjunction(
                 Emit(IF "sticky" \in flags THEN s ELSE Prefix(s), "save_start", << 0 >>), FALSE)
        u == Emit(Emit(t, "save_end", << 0 >>), "match", << >>)
        failed(message) == [ok |-> FALSE, error |-> message]
    IN  IF Failed(t) THEN failed(t.err)
        ELSE IF ~AtEnd(t) THEN failed("extraneous characters at the end")
        ELSE IF StackSize(u.code) > StackMax THEN failed("too many imbricated quantifiers")
        ELSE [ok |-> TRUE,
              prog |-> [code |-> u.code, captures |-> u.captures,
                        stack |-> StackSize(u.code), unicode |-> u.is_unicode,
                        names |-> IF \A i \in DOMAIN u.names : u.names[i] = "" THEN << >>
                                  ELSE u.names]]
=============================================================================
