------------------------------ MODULE MCRegexp ------------------------------
(***************************************************************************)
(* Instances of RegexpMatcher: regular expressions are written as trees,   *)
(* printed as patterns, compiled with RegexpCompiler and run on all the    *)
(* texts of a set.  What a tree matches is also said directly, by listing  *)
(* its matches in the order in which they are preferred; the first of the  *)
(* list is what the matcher must find.                                     *)
(***************************************************************************)
EXTENDS RegexpMatcher, FiniteSetsExt

Ascii ==
    << " !\"#$%&'()*+,-./0123456789:;<=>?@ABCDEFGHIJKLMNOPQRSTUVWXYZ[\\]^_",
       "abcdefghijklmnopqrstuvwxyz{|}~" >>

Letters(str) == [i \in 1 .. Len(str) |-> SubSeq(str, i, i)]

MCCharCode ==
    [c \in ToSet(Letters(Ascii[1])) \union ToSet(Letters(Ascii[2])) |->
        LET row == IF c \in ToSet(Letters(Ascii[1])) THEN 1 ELSE 2
            i == CHOOSE i \in 1 .. Len(Ascii[row]) : Letters(Ascii[row])[i] = c
        IN  i + (IF row = 1 THEN 31 ELSE 96)]

Codes(str) == [i \in 1 .. Len(str) |-> MCCharCode[SubSeq(str, i, i)]]

(* Entries of case_conv_table1: the letters of ASCII, and the long s.      *)
Entry(first, len, type, data) ==
    [code |-> first, len |-> len, type |-> type, data |-> data]
MCCaseTable ==
    << Entry(65, 26, "LF", << 97 >>), Entry(97, 26, "U", << 65 >>),
       Entry(181, 1, "UF_D20", << 924 >>), Entry(383, 1, "UF_D20", << 83 >>) >>

MCUnicodeProperty ==
    [k \in { << "category", "Lu" >> } |-> [cr |-> << 65, 91 >>, strings |-> {}]]

Compiler == INSTANCE RegexpCompiler WITH
    CharCode <- MCCharCode, IdStart <- {}, IdContinue <- {},
    UnicodeProperty <- MCUnicodeProperty

-----------------------------------------------------------------------------
(* Trees.                                                                  *)
OneOf(pattern, codes, neg) ==
    [kind |-> "set", pattern |-> pattern, codes |-> codes, neg |-> neg]
Set(pattern, codes) == OneOf(pattern, codes, FALSE)
NotIn(pattern, codes) == OneOf(pattern, codes, TRUE)
Chr(c) == Set(c, { MCCharCode[c] })
Empty == [kind |-> "empty"]
Cat(l, r) == [kind |-> "cat", l |-> l, r |-> r]
Alt(l, r) == [kind |-> "alt", l |-> l, r |-> r]
NamedGroup(n, name, e) == [kind |-> "group", n |-> n, name |-> name, e |-> e]
NamedRef(n, name) == [kind |-> "ref", n |-> n, name |-> name]
Group(n, e) == NamedGroup(n, "", e)
Ref(n) == NamedRef(n, "")
Quant(e, min, max, greedy) ==
    [kind |-> "quant", e |-> e, min |-> min, max |-> max, greedy |-> greedy]
Look(e, neg, behind) == [kind |-> "look", e |-> e, neg |-> neg, behind |-> behind]
Anchor(pattern) == [kind |-> "assert", pattern |-> pattern]

Str(str) == FoldLeft(LAMBDA e, c : Cat(e, Chr(c)), Empty, Letters(str))

CountString(q) ==
    (CASE q.max = Infinite /\ q.min = 0 -> "*"
       [] q.max = Infinite /\ q.min = 1 -> "+"
       [] q.max = 1 /\ q.min = 0 -> "?"
       [] q.max = Infinite /\ q.min > 1 -> "{" \o ToString(q.min) \o ",}"
       [] q.max = q.min -> "{" \o ToString(q.min) \o "}"
       [] OTHER -> "{" \o ToString(q.min) \o "," \o ToString(q.max) \o "}")
    \o (IF q.greedy THEN "" ELSE "?")

RECURSIVE Pattern(_)
Pattern(e) ==
    CASE e.kind \in { "set", "assert" } -> e.pattern
      [] e.kind = "empty" -> ""
      [] e.kind = "cat" -> Pattern(e.l) \o Pattern(e.r)
      [] e.kind = "alt" -> "(?:" \o Pattern(e.l) \o "|" \o Pattern(e.r) \o ")"
      [] e.kind = "group" ->
            (IF e.name = "" THEN "(" ELSE "(?<" \o e.name \o ">") \o Pattern(e.e) \o ")"
      [] e.kind = "ref" ->
            IF e.name = "" THEN "\\" \o ToString(e.n) ELSE "\\k<" \o e.name \o ">"
      [] e.kind = "quant" ->
            (IF e.e.kind \in { "cat", "empty", "quant" } THEN "(?:" \o Pattern(e.e) \o ")"
             ELSE Pattern(e.e)) \o CountString(e)
      [] e.kind = "look" ->
            (IF e.behind THEN "(?<" ELSE "(?") \o (IF e.neg THEN "!" ELSE "=")
            \o Pattern(e.e) \o ")"

RECURSIVE GroupsIn(_)
GroupsIn(e) ==
    CASE e.kind = "group" -> {e.n} \union GroupsIn(e.e)
      [] e.kind \in { "cat", "alt" } -> GroupsIn(e.l) \union GroupsIn(e.r)
      [] e.kind \in { "quant", "look" } -> GroupsIn(e.e)
      [] OTHER -> {}

-----------------------------------------------------------------------------
(* What a tree matches.  A text is t = [input, pairs, fold, multi]; a      *)
(* place x in it is where we are and what the groups hold.  All lists the  *)
(* places that e leads to from x, the preferred one first.                 *)
Ahead(t, p) ==
    IF /\ t.pairs /\ p + 2 <= Len(t.input)
       /\ t.input[p + 1] \in 55296 .. 56319 /\ t.input[p + 2] \in 56320 .. 57343
    THEN << p + 2, 65536 + 1024 * (t.input[p + 1] - 55296) + (t.input[p + 2] - 56320) >>
    ELSE << p + 1, t.input[p + 1] >>

Behind(t, p) ==
    IF p >= 2 /\ Ahead(t, p - 2)[1] = p THEN << p - 2, Ahead(t, p - 2)[2] >>
    ELSE << p - 1, t.input[p] >>

Same(t, c, d) == c = d \/ (t.fold /\ Canonicalize(c, t.pairs) = Canonicalize(d, t.pairs))
Has(t, e, c) == (\E d \in e.codes : Same(t, c, d)) # e.neg

Wordy(t, p) ==
    p \in 1 .. Len(t.input) /\ \E w \in 48 .. 122 : is_word_char(w) /\ Same(t, w, t.input[p])

Holds0(t, pattern, p) ==
    CASE pattern = "^" -> p = 0 \/ (t.multi /\ t.input[p] = 10)
      [] pattern = "$" -> p = Len(t.input) \/ (t.multi /\ t.input[p + 1] = 10)
      [] pattern = "\\b" -> Wordy(t, p) # Wordy(t, p + 1)
      [] pattern = "\\B" -> Wordy(t, p) = Wordy(t, p + 1)

RECURSIVE All(_, _, _, _), Chain(_, _, _, _), Turns(_, _, _, _, _)

Chain(e, t, places, back) ==
    IF places = << >> THEN << >>
    ELSE All(e, t, Head(places), back) \o Chain(e, t, Tail(places), back)

All(e, t, x, back) ==
    CASE e.kind = "empty" -> << x >>
      [] e.kind = "set" ->
            LET stuck == IF back THEN x.p = 0 ELSE x.p = Len(t.input)
                step == IF back THEN Behind(t, x.p) ELSE Ahead(t, x.p)
            IN  IF ~stuck /\ Has(t, e, step[2]) THEN << [x EXCEPT !.p = step[1]] >>
                ELSE << >>
      [] e.kind = "assert" -> IF Holds0(t, e.pattern, x.p) THEN << x >> ELSE << >>
      [] e.kind = "cat" ->
            IF back THEN Chain(e.l, t, All(e.r, t, x, back), back)
            ELSE Chain(e.r, t, All(e.l, t, x, back), back)
      [] e.kind = "alt" -> All(e.l, t, x, back) \o All(e.r, t, x, back)
      [] e.kind = "group" ->
            LET ends == All(e.e, t, [x EXCEPT !.g[e.n] = << >>], back)
            IN  [i \in DOMAIN ends |->
                    [ends[i] EXCEPT !.g[e.n] = IF back THEN << ends[i].p, x.p >>
                                               ELSE << x.p, ends[i].p >>]]
      [] e.kind = "ref" ->
            LET text == SubSeq(t.input, x.g[e.n][1] + 1, x.g[e.n][2])
                from == IF back THEN x.p - Len(text) ELSE x.p
            IN  IF x.g[e.n] = << >> THEN << x >>
                ELSE IF /\ from \in 0 .. Len(t.input) - Len(text)
                        /\ \A i \in DOMAIN text : Same(t, text[i], t.input[from + i])
                THEN << [x EXCEPT !.p = IF back THEN from ELSE from + Len(text)] >>
                ELSE << >>
      [] e.kind = "look" ->
            LET found1 == All(e.e, t, x, e.behind)
            IN  IF e.neg THEN IF found1 = << >> THEN << x >> ELSE << >>
                ELSE IF found1 = << >> THEN << >> ELSE << [x EXCEPT !.g = found1[1].g] >>
      [] e.kind = "quant" ->
            LET inside == GroupsIn(e.e)
                cleared == [x EXCEPT !.g = [n \in DOMAIN @ |->
                               IF e.min = 0 /\ n \in inside THEN << >> ELSE @[n]]]
            IN  Turns(e, t, << cleared >>, back, 0)

(* The turns of a quantifier from the k-th on.  Turns that are not         *)
(* required must move on.                                                  *)
Turns(e, t, places, back, k) ==
    LET x == Head(places)
        turns == SelectSeq(All(e.e, t, x, back), LAMBDA y : k < e.min \/ y.p # x.p)
        more == Turns(e, t, turns, back, k + 1)
        ends == IF k = e.max THEN << x >>
                ELSE IF k < e.min THEN more
                ELSE IF e.greedy THEN more \o << x >>
                ELSE << x >> \o more
    IN  IF places = << >> THEN << >> ELSE ends \o Turns(e, t, Tail(places), back, k)

(* The match a search from a place on finds: the first place at which      *)
(* there is one, or this one only.                                         *)
RECURSIVE Find(_, _, _, _), FindAll(_, _, _, _, _)
Find(e, t, from, groups) ==
    LET ends == All(e, t, [p |-> from, g |-> [n \in 1 .. groups |-> << >>]], FALSE)
        pair(n) == IF n = 0 THEN << from, ends[1].p >>
                   ELSE IF ends[1].g[n] = << >> THEN << None, None >> ELSE ends[1].g[n]
    IN  IF ends # << >>
        THEN [ret |-> Matched,
              capture |-> [i \in 0 .. 2 * groups + 1 |-> pair(i \div 2)[1 + (i % 2)]]]
        ELSE IF t.sticky \/ from = Len(t.input) THEN [ret |-> NoMatch, capture |-> << >>]
        ELSE Find(e, t, Ahead(t, from)[1], groups)

(* One match, or all of them, one behind the other.                        *)
FindAll(e, t, from, groups, all) ==
    LET first == Find(e, t, IF from > 0 /\ Ahead(t, from - 1)[1] = from + 1
                            THEN from - 1 ELSE from, groups)
    IN  IF ~all \/ first.ret = NoMatch \/ first.capture[1] >= Len(t.input)
        THEN << first >>
        ELSE << first >> \o FindAll(e, t, first.capture[1], groups, all)

-----------------------------------------------------------------------------
(* The trees that are run.                                                 *)
la == Chr("a")
lb == Chr("b")
dot == NotIn(".", {10, 13, 8232, 8233})
not_a == NotIn("[^a]", {97})
Star(e) == Quant(e, 0, Infinite, TRUE)
Plus(e) == Quant(e, 1, Infinite, TRUE)

Quants == << << 0, Infinite >>, << 1, Infinite >>, << 0, 1 >>, << 2, 2 >>,
             << 0, 2 >>, << 1, 2 >>, << 2, Infinite >>, << 0, 0 >> >>

(* What quantifiers are put around: characters, groups, alternatives, one  *)
(* of which is empty, assertions, and quantifiers.                         *)
Atoms ==
    << la, not_a, Group(1, la), Alt(la, Cat(la, lb)), Group(1, Alt(la, Empty)),
       Cat(Group(1, la), Star(lb)), Alt(Group(1, la), Group(2, lb)),
       Look(Group(1, la), FALSE, FALSE), Quant(Group(1, Alt(la, lb)), 0, Infinite, FALSE),
       Cat(la, Anchor("\\b")) >>

Both(f(_, _), S) == [i \in DOMAIN S |-> f(S[i], TRUE)] \o [i \in DOMAIN S |-> f(S[i], FALSE)]
Each(f(_, _), S, R) ==
    [i \in 1 .. Len(S) * Len(R) |-> f(S[1 + ((i - 1) \div Len(R))], R[1 + ((i - 1) % Len(R))])]

Repeated ==
    LET Times(e, q) == << e, q[1], q[2] >>
        Behind0(x, greedy) == Cat(Quant(x[1], x[2], x[3], greedy), lb)
    IN  Both(Behind0, Each(Times, Atoms, Quants))

(* Assertions, looking behind, references to groups before, around and     *)
(* behind them.                                                            *)
Others ==
    << Cat(Look(Cat(Group(1, la), Star(lb)), FALSE, TRUE), dot),
      Cat(Look(Cat(Ref(1), Group(1, dot)), FALSE, TRUE), lb),
      Cat(Look(Group(1, Alt(Cat(la, lb), lb)), TRUE, TRUE), lb),
      Look(Quant(Group(1, dot), 2, 2, TRUE), FALSE, TRUE),
      Cat(Group(1, Plus(dot)), Ref(1)),
      Cat(Group(1, Quant(la, 0, Infinite, FALSE)), Cat(lb, Ref(1))),
      Cat(Plus(Alt(Group(1, la), Group(2, lb))), Cat(Ref(1), Ref(2))),
      Cat(Look(Cat(dot, Look(lb, TRUE, FALSE)), TRUE, FALSE), dot),
      Cat(Look(Group(1, Plus(la)), FALSE, FALSE), Cat(Quant(la, 0, 1, FALSE), Cat(Ref(1), lb))),
      Cat(Anchor("^"), Cat(Quant(Quant(Group(1, la), 1, 2, TRUE), 2, 2, FALSE), Anchor("$"))),
      Star(Cat(Quant(Group(1, la), 0, 1, TRUE), lb)),
      Cat(NamedGroup(1, "n", Plus(la)), Cat(lb, NamedRef(1, "n"))),
      Plus(Alt(Cat(la, NamedRef(1, "n")), NamedGroup(1, "n", lb))),
      Cat(Anchor("\\B"), Star(Alt(Cat(lb, Anchor("\\b")), la))) >>

(* Letters of two cases, one of which is outside ASCII.                    *)
Folding ==
    << Cat(Group(1, Set("[a-s]", 97 .. 115)), Ref(1)), Str("sa"), Anchor("\\b"),
      Look(Cat(Ref(1), Group(1, la)), FALSE, TRUE), NotIn("[^s]", { 115 }) >>

(* Lines, and pairs of surrogates.                                         *)
Lines ==
    << Cat(Anchor("^"), Quant(dot, 1, 2, TRUE)), Cat(not_a, Anchor("$")),
      Cat(Look(Plus(Group(1, dot)), FALSE, TRUE), dot), Cat(Star(not_a), la) >>

(* The five examples of main.c.                                            *)
Letter == (65 .. 90) \union (97 .. 122)
Figure == 48 .. 57
WordChar == Letter \union Figure \union {95}
Words == Plus(Set("\\w", WordChar))
NameChars == Plus(Set("[a-zA-Z0-9_-]", WordChar \union {45}))

Email == Cat(Group(1, Words),
             Cat(Chr("@"), Group(2, Cat(Words, Cat(Set("\\.", {46}), Words)))))
Interpolation ==
    Cat(Cat(Chr("#"), Set("\\{", {123})),
        Cat(Group(1, Cat(Set("[a-zA-Z_]", Letter \union {95}),
                         Star(Set("[a-zA-Z0-9_]", WordChar)))), Set("\\}", {125})))
Tag ==
    Cat(Anchor("^"), Cat(Group(1, Plus(Set("[a-z]", 97 .. 122))),
        Cat(Quant(Group(2, Cat(Set("\\.", {46}), Group(3, NameChars))), 0, 1, TRUE),
            Quant(Group(4, Cat(Chr("#"), Group(5, NameChars))), 0, 1, TRUE))))

-----------------------------------------------------------------------------
(* Tasks: a tree, what it is run on, and how.                              *)
CONSTANT MaxText    \* the length of the texts

Texts(letters, n) == UNION { [1 .. k -> letters] : k \in 0 .. n }

Task(tree, texts, flags, from, all) ==
    [tree |-> tree, texts |-> { x \in texts : from <= Len(x) }, flags |-> flags,
     from |-> from, all |-> all,
     prog |-> Compiler!lre_compile(Letters(Pattern(tree)), flags).prog]

Tasks ==
    LET Plain(e) == Task(e, Texts({ 97, 98 }, MaxText), {}, 0, FALSE)
        Fold1(e, u) == Task(e, Texts({ 65, 115, 383 }, 2),
                            { "ignorecase" } \union (IF u THEN { "unicode" } ELSE {}), 0, FALSE)
        Line1(e, u) == Task(e, Texts({ 97, 10, 55357, 56832 }, MaxText),
                            { "multiline", IF u THEN "unicode" ELSE "ignorecase" }, 0, FALSE)
        Middle(e, once) == Task(e, Texts({ 97, 55357, 56832 }, 2),
                                { "unicode" } \union (IF once THEN { "sticky" } ELSE {}), 1, TRUE)
        Example(e, str, flags, all) == Task(e, { Codes(str) }, flags, 0, all)
    IN  [i \in DOMAIN Repeated |-> Plain(Repeated[i])]
        \o [i \in DOMAIN Others |-> Plain(Others[i])]
        \o Both(Fold1, Folding) \o Both(Line1, Lines) \o Both(Middle, << not_a >>)
        \o << Example(Str("hello"), "hello world", {}, FALSE),
              Example(Email, "carlos@swb.cl", {}, FALSE),
              Example(Str("hello"), "HELLO World", { "ignorecase" }, FALSE),
              Example(Interpolation, "Hello #{name}, you have #{count} messages", {}, TRUE),
              Example(Tag, "div.container#main", {}, FALSE) >>

(* What a call has to find.                                                *)
Wide(text) == \E i \in DOMAIN text : text[i] > 255
Expected(task, text) ==
    LET t == [input |-> text, multi |-> "multiline" \in task.flags,
              fold |-> "ignorecase" \in task.flags, sticky |-> "sticky" \in task.flags,
              pairs |-> task.prog.unicode /\ Wide(text)]
    IN  FindAll(task.tree, t, task.from, task.prog.captures - 1, task.all)

(* The calls: every text of every task.  Texts of units of 16 bits are of  *)
(* type 1.                                                                 *)
MCJobs ==
    LET tasks == Tasks
        Call(task, text) ==
            [prog |-> task.prog, input |-> text, type |-> IF Wide(text) THEN 1 ELSE 0,
             from |-> task.from, all |-> task.all, expected |-> Expected(task, text)]
    IN  UNION { { Call(tasks[k], text) : text \in tasks[k].texts } : k \in DOMAIN tasks }

(* The matcher agrees with the trees: what it finds is the first match in  *)
(* the order of preference, with its groups, and it says that there is     *)
(* none exactly when there is none (lre_compile, and lre_exec called as    *)
(* the examples of main.c call it).                                        *)
Finds(outcome, expected) ==
    /\ outcome.ret = expected.ret
    /\ outcome.ret = Matched => outcome.capture = expected.capture

FindsTheFirstMatch ==
    /\ \A i \in DOMAIN found : found[i].ret >= 0 => Finds(found[i], job.expected[i])
    /\ mode = "done" /\ Last(found).ret >= 0 => Len(found) = Len(job.expected)

-----------------------------------------------------------------------------
(* References to groups by name.  A name may be defined further on than it *)
(* is used: "Otherwise, return the capture index corresponding to          *)
(* capture_name or -1 if none" (libregexp.c:1664).                         *)
NamedPatterns ==
    { "(?<n>b)\\k<n>", "\\k<n>(?<n>b)", "\\k<n>(a)(?<n>b)", "\\k<n>(?<m>a)(?<n>b)",
      "\\k<n>(?<m>(a))(?<n>b)" }

MCNamedJobs ==
    LET Call(program, text) ==
            [prog |-> program, input |-> text, type |-> 0, from |-> 0, all |-> FALSE,
             wanted |-> "n"]
        programs == { Compiler!lre_compile(Letters(p), {}).prog : p \in NamedPatterns }
    IN  { Call(program, text) : program \in programs, text \in Texts({ 97, 98 }, MaxText) }

(* The group a reference by name compares with has that name               *)
(* (re_parse_captures, called by re_parse_term for a name that is not      *)
(* known yet).                                                             *)
NamedGroupsFound ==
    At(REFERENCES) => prog.names[instr.args[1]] = job.wanted
=============================================================================
