--------------------------- MODULE RegexpClasses ---------------------------
(***************************************************************************)
(* The part of the regular expression compiler (libregexp.c) below terms:  *)
(* numbers, escapes, single characters and character classes.  The parser  *)
(* is a record s (REParseState); an operation returns it with p moved on,  *)
(* or with err set.  The characters of a pattern are strings of one        *)
(* letter, or names for letters outside ASCII; CharCode gives their code   *)
(* points.                                                                 *)
(***************************************************************************)
EXTENDS RegexpProgram, UnicodeCase, FiniteSetsExt

CONSTANTS
    CharCode,               \* the code point of each character
    IdStart, IdContinue,    \* code points of identifiers, outside ASCII
    UnicodeProperty         \* <<kind, name>> -> [cr, strings], in its domain
                            \* the properties that there are

NUL == ""                   \* the zero behind the pattern
At(s, k) == IF s.p + k <= Len(s.src) THEN s.src[s.p + k] ELSE NUL
Here(s) == At(s, 0)
Skip(s, n) == [s EXCEPT !.p = @ + n]
AtEnd(s) == s.p > Len(s.src)

Failed(s) == s.err # ""
Error(s, message) == [s EXCEPT !.err = message]    \* re_parse_error

Expect(s, c) ==
    IF Here(s) = c THEN Skip(s, 1) ELSE Error(s, "expecting '" \o c \o "'")

DIGITS == << "0", "1", "2", "3", "4", "5", "6", "7", "8", "9" >>
is_digit(c) == c \in ToSet(DIGITS)
Digit(c) == CharCode[c] - 48

(* parse_digits: the number at p and where it ends.  A number of INT32_MAX *)
(* or more is INT32_MAX, or -1 if it may not overflow.                     *)
RECURSIVE Digits(_, _, _)
Digits(s, v, allow_overflow) ==
    IF ~is_digit(Here(s)) THEN [v |-> v, s |-> s]
    ELSE LET d == Digit(Here(s))
             over == v > 214748364 \/ (v = 214748364 /\ d >= 7)
         IN  IF over /\ ~allow_overflow THEN [v |-> -1, s |-> s]
             ELSE Digits(Skip(s, 1), IF over THEN Infinite ELSE 10 * v + d,
                         allow_overflow)

parse_digits(s, allow_overflow) == Digits(s, 0, allow_overflow)

from_hex(c) ==
    IF c = NUL \/ CharCode[c] >= 128 THEN -1
    ELSE LET v == CharCode[c]
         IN  IF v \in 48 .. 57 THEN v - 48
             ELSE IF v \in 65 .. 70 THEN v - 55
             ELSE IF v \in 97 .. 102 THEN v - 87
             ELSE -1

-----------------------------------------------------------------------------
(* lre_parse_escape, behind the backslash: the character, -1 for a         *)
(* malformed escape, -2 for none.  unicode is allow_utf16, which is 0 or 2.*)
Nothing == -2
Malformed == -1
Escape(c, s) == [c |-> c, s |-> s]

(* n digits at offset k, or -1.                                            *)
Hex(s, k, n) ==
    IF \E i \in k .. k + n - 1 : from_hex(At(s, i)) = -1 THEN -1
    ELSE FoldLeft(LAMBDA v, i : 16 * v + from_hex(At(s, k + i - 1)), 0,
                  [i \in 1 .. n |-> i])

(* From the first digit of \u{...} or \x{...} on.                          *)
RECURSIVE Braced(_, _)
Braced(s, v) ==
    LET h == from_hex(Here(s))
    IN  IF h = -1 \/ 16 * v + h > 1114111 THEN Escape(Malformed, s)
        ELSE IF At(s, 1) = "}" THEN Escape(16 * v + h, Skip(s, 2))
        ELSE Braced(Skip(s, 1), 16 * v + h)

HexEscape(s, unicode) ==
    LET n == IF Here(s) = "x" THEN 2 ELSE 4
        c == Hex(s, 1, n)
    IN  IF At(s, 1) = "{" /\ unicode THEN Braced(Skip(s, 2), 0)
        ELSE IF c = -1 THEN Escape(Malformed, s)
        ELSE IF /\ c \in 55296 .. 56319 /\ unicode
                /\ At(s, n + 1) = "\\" /\ At(s, n + 2) = "u"
                /\ Hex(s, n + 3, 4) \in 56320 .. 57343
        THEN Escape(65536 + 1024 * (c % 1024) + (Hex(s, n + 3, 4) % 1024), Skip(s, n + 7))
        ELSE Escape(c, Skip(s, n + 1))

is_octal(c) == c \in { DIGITS[i] : i \in 1 .. 8 }

(* A legacy octal number of at most three digits, less than 256.           *)
OctalEscape(s) ==
    LET one == Digit(Here(s))
        two == 8 * one + Digit(At(s, 1))
    IN  IF ~is_octal(At(s, 1)) THEN Escape(one, Skip(s, 1))
        ELSE IF two >= 32 \/ ~is_octal(At(s, 2)) THEN Escape(two, Skip(s, 2))
        ELSE Escape(8 * two + Digit(At(s, 2)), Skip(s, 3))

ControlEscapes ==
    [c \in { "b", "f", "n", "r", "t", "v" } |->
        CASE c = "b" -> 8 [] c = "f" -> 12 [] c = "n" -> 10
          [] c = "r" -> 13 [] c = "t" -> 9 [] c = "v" -> 11]

lre_parse_escape(s, unicode) ==
    LET c == Here(s)
    IN  IF c \in DOMAIN ControlEscapes THEN Escape(ControlEscapes[c], Skip(s, 1))
        ELSE IF c \in { "x", "u" } THEN HexEscape(s, unicode)
        ELSE IF ~is_octal(c) THEN Escape(Nothing, s)
        ELSE IF ~unicode THEN OctalEscape(s)
        ELSE IF c # "0" \/ is_digit(At(s, 1)) THEN Escape(Malformed, s)
        ELSE Escape(0, Skip(s, 1))

-----------------------------------------------------------------------------
(* A class is a set of code points and a set of strings of a length other  *)
(* than one (REStringList; the hash table of the code is the set).         *)
Class(cr, strings) == [cr |-> cr, strings |-> strings]
NoClass == Class(<< >>, {})

AddString(class, str) ==
    IF Len(str) = 1 THEN [class EXCEPT !.cr = UnionInterval(@, str[1], str[1])]
    ELSE [class EXCEPT !.strings = @ \union {str}]

StringListOp(a, b, op) ==
    Class(Combine(a.cr, b.cr, op),
          CASE op = "union" -> a.strings \union b.strings
            [] op = "inter" -> a.strings \intersect b.strings
            [] op = "sub"   -> a.strings \ b.strings)

CanonicalizeClass(class, is_unicode) ==
    LET canonical(str) == [i \in DOMAIN str |-> Canonicalize(str[i], is_unicode)]
    IN  Class(RegexpCanonicalize(class.cr, is_unicode),
              { canonical(str) : str \in class.strings })

InvertClass(class) == [class EXCEPT !.cr = Invert(@)]

Canonical(s, c) == IF s.ignore_case THEN Canonicalize(c, s.is_unicode) ELSE c

(* cr_init_char_range: \d, \s and \w, and the rest of the code points.     *)
char_range_d == << 48, 58 >>
char_range_s == << 9, 14, 32, 33, 160, 161, 5760, 5761, 8192, 8203, 8232, 8234,
                   8239, 8240, 8287, 8288, 12288, 12289, 65279, 65280 >>
char_range_w == << 48, 58, 65, 91, 95, 96, 97, 123 >>

CharRangeOf(c) ==
    CASE c = "d" -> char_range_d [] c = "D" -> Invert(char_range_d)
      [] c = "s" -> char_range_s [] c = "S" -> Invert(char_range_s)
      [] c = "w" -> char_range_w [] c = "W" -> Invert(char_range_w)

(* What reading an atom of a class returns: a character c, or a class and  *)
(* c = ClassBase.                                                          *)
ClassBase == 1073741824
Atom(s, c) == [s |-> s, c |-> c, class |-> NoClass]
ClassAtom(s, class) == [s |-> s, c |-> ClassBase, class |-> class]

(* parse_unicode_property: \p{name} and \p{name=value}, with names and      *)
(* values of up to 63 characters.                                          *)
is_word(c) ==
    c # NUL /\ CharCode[c] \in (48 .. 57) \union (65 .. 90) \union (97 .. 122) \union {95}

RECURSIVE Word(_, _)
Word(s, word) ==
    IF is_word(Here(s)) /\ Len(word) < 63 THEN Word(Skip(s, 1), word \o Here(s))
    ELSE [s |-> s, word |-> word]

(* The tables to look in, one after the other, and what to look for.       *)
Lookups(s, name, value, is_inv) ==
    CASE name \in { "Script", "sc" } -> << << "script", value >> >>
      [] name \in { "Script_Extensions", "scx" } -> << << "script_ext", value >> >>
      [] name \in { "General_Category", "gc" } -> << << "category", value >> >>
      [] OTHER ->
            IF value # "" THEN << >>
            ELSE << << "category", name >>, << "property", name >> >>
                 \o IF s.unicode_sets /\ ~is_inv THEN << << "sequence", name >> >>
                    ELSE << >>

(* Sets are folded before they are inverted only in the unicode sets mode. *)
parse_unicode_property(s, is_inv) ==
    LET name == Word(Skip(s, 1), "")
        value == IF Here(name.s) = "=" THEN Word(Skip(name.s, 1), "")
                 ELSE [s |-> name.s, word |-> ""]
        known == SelectSeq(Lookups(s, name.word, value.word, is_inv),
                           LAMBDA k : k \in DOMAIN UnicodeProperty)
        class == UnicodeProperty[known[1]]
        fold(cl) == IF s.ignore_case THEN CanonicalizeClass(cl, s.is_unicode) ELSE cl
        invert(cl) == IF is_inv THEN InvertClass(cl) ELSE cl
    IN  IF Here(s) # "{" THEN Atom(Error(s, "expecting '{' after \\p"), -1)
        ELSE IF is_word(Here(name.s))
        THEN Atom(Error(s, "unknown unicode property name"), -1)
        ELSE IF is_word(Here(value.s))
        THEN Atom(Error(s, "unknown unicode property value"), -1)
        ELSE IF Here(value.s) # "}" THEN Atom(Error(s, "expecting '}'"), -1)
        ELSE IF known = << >> THEN Atom(Error(s, "unknown unicode property name"), -1)
        ELSE ClassAtom(Skip(value.s, 1),
                       IF s.unicode_sets THEN invert(fold(class)) ELSE fold(invert(class)))

-----------------------------------------------------------------------------
(* get_class_atom.  with_class says whether the caller can do with a class *)
(* (cr # NULL).                                                            *)
ESCAPABLE == { "^", "$", "\\", ".", "*", "+", "?", "(", ")", "[", "]", "{", "}",
               "|", "/" }
DOUBLED == { "&", "!", "#", "$", "%", "*", "+", ",", ".", ":", ";", "<", "=",
             ">", "?", "@", "^", "grave accent", "~" }
RESERVED == { "(", ")", "[", "]", "{", "}", "/", "-", "|" }

NormalChar(s) ==
    LET c == CharCode[Here(s)]
    IN  IF c > 65535 /\ ~s.is_unicode THEN Atom(Error(s, "malformed unicode char"), -1)
        ELSE Atom(Skip(s, 1), c)

InvalidEscape(s) ==
    Atom(Error(s, "invalid escape sequence in regular expression"), -1)

(* \cX; without a letter behind it the backslash stands for itself.        *)
ControlLetter(s, inclass) ==
    LET c == At(s, 1)
        letter == is_word(c) /\ ~is_digit(c) /\ c # "_"
        annex_b == is_word(c) /\ inclass /\ ~s.is_unicode
    IN  IF letter \/ annex_b THEN Atom(Skip(s, 2), CharCode[c] % 32)
        ELSE IF s.is_unicode THEN InvalidEscape(s)
        ELSE Atom(s, CharCode["\\"])

DefaultEscape(s) ==
    LET e == lre_parse_escape(s, s.is_unicode)
    IN  IF e.c >= 0 THEN Atom(e.s, e.c)
        ELSE IF s.is_unicode THEN InvalidEscape(s)
        ELSE NormalChar(s)

RECURSIVE get_class_atom(_, _, _), StringDisjunction(_, _, _)

(* parse_class_string_disjunction: \q{ab|c|...}.                           *)
StringDisjunction(s, str, class) ==
    LET a == get_class_atom(s, FALSE, FALSE)
        added == AddString(class, str)
        canonical == IF s.ignore_case THEN CanonicalizeClass(added, TRUE) ELSE added
    IN  IF Here(s) = "}" THEN ClassAtom(Skip(s, 1), canonical)
        ELSE IF Here(s) = "|" THEN StringDisjunction(Skip(s, 1), << >>, added)
        ELSE IF Failed(a.s) THEN a
        ELSE StringDisjunction(a.s, Append(str, a.c), class)

(* Behind a backslash.                                                     *)
EscapedAtom(s, with_class, inclass) ==
    LET c == Here(s)
    IN  IF AtEnd(s) THEN Atom(Error(s, "unexpected end"), -1)
        ELSE IF c \in { "d", "D", "s", "S", "w", "W" } /\ with_class
        THEN ClassAtom(Skip(s, 1), Class(CharRangeOf(c), {}))
        ELSE IF c = "c" THEN ControlLetter(s, inclass)
        ELSE IF c = "-" /\ ~inclass /\ s.is_unicode THEN InvalidEscape(s)
        ELSE IF c \in ESCAPABLE \union {"-"} THEN Atom(Skip(s, 1), CharCode[c])
        ELSE IF c \in { "p", "P" } /\ s.is_unicode /\ with_class
        THEN parse_unicode_property(Skip(s, 1), c = "P")
        ELSE IF c = "q" /\ s.unicode_sets /\ with_class /\ inclass
        THEN IF At(s, 1) = "{" THEN StringDisjunction(Skip(s, 2), << >>, NoClass)
             ELSE Atom(Error(s, "expecting '{' after \\q"), -1)
        ELSE DefaultEscape(s)

get_class_atom(s, with_class, inclass) ==
    LET c == Here(s)
    IN  IF c = "\\" THEN EscapedAtom(Skip(s, 1), with_class, inclass)
        ELSE IF AtEnd(s) THEN Atom(Error(s, "unexpected end"), -1)
        ELSE IF c \in DOUBLED /\ s.unicode_sets /\ At(s, 1) = c
        THEN Atom(Error(s, "invalid class set operation in regular expression"), -1)
        ELSE IF c \in RESERVED /\ s.unicode_sets
        THEN Atom(Error(s, "invalid character in class in regular expression"), -1)
        ELSE NormalChar(s)

-----------------------------------------------------------------------------
(* re_parse_nested_class, from the bracket on.                             *)
OneChar(s, c) == LET d == Canonical(s, c) IN Class(<< d, d + 1 >>, {})

IntervalOf(s, c1, c2) ==
    Class(IF s.ignore_case
          THEN RegexpCanonicalize(AddInterval(<< >>, c1, c2 + 1), s.is_unicode)
          ELSE << c1, c2 + 1 >>, {})

AsClass(a) == IF a.c = ClassBase THEN a.class ELSE OneChar(a.s, a.c)

IsIntersection(s) == Here(s) = "&" /\ At(s, 1) = "&" /\ At(s, 2) # "&"
IsSubtraction(s) == Here(s) = "-" /\ At(s, 1) = "-"

RECURSIVE re_parse_nested_class(_), ClassUnion(_, _, _), SetOperation(_, _, _)

re_parse_nested_class(s) ==
    LET invert == At(s, 1) = "^"
        a == ClassUnion(Skip(s, IF invert THEN 2 ELSE 1), NoClass, TRUE)
    IN  IF Failed(a.s) \/ ~invert THEN a
        ELSE IF a.class.strings # {}
        THEN Atom(Error(s, "negated character class with strings in regular expression debugger eval code"), -1)
        ELSE [a EXCEPT !.class = InvertClass(@)]

(* A turn of the loop that handles unions: a nested class, an atom, or an  *)
(* interval of two characters.  Behind the first operand an intersection   *)
(* or a subtraction can start.                                             *)
ClassUnion(s, class, is_first) ==
    LET nested == Here(s) = "[" /\ s.unicode_sets
        a == IF nested THEN re_parse_nested_class(s) ELSE get_class_atom(s, TRUE, TRUE)
        t == a.s
        dash == /\ ~nested /\ Here(t) = "-" /\ At(t, 1) # "]"
                /\ ~(At(t, 1) = "-" /\ s.unicode_sets /\ is_first)
        b == get_class_atom(Skip(t, 1), TRUE, TRUE)
        union(cl) == StringListOp(class, cl, "union")
        add(next, cl) ==
            IF s.unicode_sets /\ is_first /\ IsIntersection(next)
            THEN SetOperation(next, union(cl), "inter")
            ELSE IF s.unicode_sets /\ is_first /\ IsSubtraction(next)
            THEN SetOperation(next, union(cl), "sub")
            ELSE ClassUnion(next, union(cl), FALSE)
        invalid == Atom(Error(s, "invalid class range"), -1)
    IN  IF Here(s) = "]" THEN ClassAtom(Skip(s, 1), class)
        ELSE IF Failed(t) THEN a
        ELSE IF ~dash THEN add(t, AsClass(a))
        ELSE IF a.c = ClassBase
        THEN IF s.is_unicode THEN invalid ELSE add(t, a.class)
        ELSE IF Failed(b.s) THEN b
        ELSE IF b.c = ClassBase
        THEN IF s.is_unicode THEN invalid ELSE add(t, AsClass(a))
        ELSE IF b.c < a.c THEN invalid
        ELSE ClassUnion(b.s, union(IntervalOf(s, a.c, b.c)), FALSE)

(* The loops of && and --, whose operands are nested classes and atoms     *)
(* (re_parse_class_set_operand).                                           *)
SetOperation(s, class, op) ==
    LET continues == IF op = "inter" THEN IsIntersection(s) ELSE IsSubtraction(s)
        t == Skip(s, 2)
        a == IF Here(t) = "[" THEN re_parse_nested_class(t) ELSE get_class_atom(t, TRUE, TRUE)
    IN  IF Here(s) = "]" THEN ClassAtom(Skip(s, 1), class)
        ELSE IF ~continues
        THEN Atom(Error(s, "invalid operation in regular expression"), -1)
        ELSE IF Failed(a.s) THEN a
        ELSE SetOperation(a.s, StringListOp(class, AsClass(a), op), op)
=============================================================================
