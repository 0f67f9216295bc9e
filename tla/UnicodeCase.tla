---------------------------- MODULE UnicodeCase ----------------------------
(***************************************************************************)
(* Case conversion and the case-insensitive comparison of regular          *)
(* expressions (libunicode.c): lre_case_conv, lre_canonicalize, and the    *)
(* functions that do the same to whole sets of code points.                *)
(***************************************************************************)
EXTENDS CharRange

CONSTANT CaseTable    \* case_conv_table1, 2 and case_conv_ext, unpacked

(* An entry stands for len code points from code on.  What type says about *)
(* them is spelled out in CaseEntry; data are the numbers it refers to.    *)
CASE_TYPES == { "U", "L", "UF", "LF", "UL", "LSU", "U2L_399_EXT2", "UF_D20",
                "UF_D1_EXT", "U_EXT", "LF_EXT", "UF_EXT2", "LF_EXT2", "UF_EXT3" }

ASSUME CaseTableAssumption ==
    /\ CaseTable \in Seq([code : CODES, len : Nat \ {0}, type : CASE_TYPES, data : Seq(CODES)])
    /\ \A i \in DOMAIN CaseTable :
          /\ CaseTable[i].code + CaseTable[i].len < Infinity
          /\ CaseTable[i].type = "UL" => CaseTable[i].len % 2 = 0
          /\ CaseTable[i].type = "LSU" => CaseTable[i].len = 3
    /\ \A i \in 1 .. Len(CaseTable) - 1 :
          CaseTable[i].code + CaseTable[i].len <= CaseTable[i + 1].code

Covers(e, c) == e.code <= c /\ c < e.code + e.len

(* The binary search for the entry of c; 0 if it has none.                 *)
FindCase(c) ==
    LET n == Len(CaseTable)
        find[part \in (1 .. n + 1) \X (0 .. n)] ==
            LET lo == part[1]
                hi == part[2]
                idx == (lo + hi) \div 2
                e == CaseTable[idx]
            IN  IF lo > hi THEN 0
                ELSE IF c < e.code THEN find[<< lo, idx - 1 >>]
                ELSE IF c >= e.code + e.len THEN find[<< idx + 1, hi >>]
                ELSE idx
    IN  find[<< 1, n >>]

Upper == 0      \* the values of conv_type
Lower == 1
Fold  == 2

AsciiConv(c, conv) ==
    IF conv = Upper
    THEN IF c \in 97 .. 122 THEN c - 32 ELSE c
    ELSE IF c \in 65 .. 90 THEN c + 32 ELSE c

(* lre_case_conv_entry, as far as the characters written by an entry of    *)
(* several are not converted again.                                        *)
CaseEntryOnce(c, conv, e) ==
    LET a == c - e.code
        d == e.data
        is_lower == IF conv # Upper THEN 1 ELSE 0
    IN  CASE e.type \in { "U", "L", "UF", "LF" } ->
               << IF \/ conv = (IF e.type \in { "U", "UF" } THEN Upper ELSE Lower)
                     \/ e.type \in { "UF", "LF" } /\ conv = Fold
                  THEN a + d[1] ELSE c >>
          [] e.type = "UL" ->
               << IF a % 2 # 1 - is_lower THEN c
                  ELSE IF a % 2 = 0 THEN c + 1 ELSE c - 1 >>
          [] e.type = "LSU" ->
               << IF a = 1 THEN c + 2 * is_lower - 1
                  ELSE IF a = (1 - is_lower) * 2 THEN c + (2 * is_lower - 1) * 2
                  ELSE c >>
          [] e.type = "U2L_399_EXT2" ->
               IF conv = Upper THEN << a + d[1], \h399 >> ELSE << a + d[2] >>
          [] e.type = "UF_D20" ->
               << IF conv = Lower THEN c ELSE d[1] + (IF conv = Fold THEN 32 ELSE 0) >>
          [] e.type = "UF_D1_EXT" ->
               << IF conv = Lower THEN c ELSE d[1] + (IF conv = Fold THEN 1 ELSE 0) >>
          [] e.type = "U_EXT"  -> << IF conv # Upper THEN c ELSE d[1] >>
          [] e.type = "LF_EXT" -> << IF conv = Upper THEN c ELSE d[1] >>
          [] e.type = "LF_EXT2" ->
               IF conv = Upper THEN << c >> ELSE << a + d[1], d[2] >>
          [] e.type = "UF_EXT2" ->
               IF conv = Lower THEN << c >> ELSE << a + d[1], d[2] >>
          [] e.type = "UF_EXT3" -> IF conv = Lower THEN << c >> ELSE d

CaseConvOnce(c, conv) ==
    IF c < 128 THEN << AsciiConv(c, conv) >>
    ELSE LET idx == FindCase(c)
         IN  IF idx = 0 THEN << c >> ELSE CaseEntryOnce(c, conv, CaseTable[idx])

(* lre_case_conv1: the first character of a conversion.                    *)
CaseConv1(c, conv) == CaseConvOnce(c, conv)[1]

(* Folding to several characters folds to the lower case of each.          *)
CaseEntry(c, conv, e) ==
    LET res == CaseEntryOnce(c, conv, e)
    IN  IF conv = Fold /\ e.type \in { "UF_EXT2", "UF_EXT3" }
        THEN [i \in DOMAIN res |-> CaseConv1(res[i], Lower)]
        ELSE res

CaseConv(c, conv) ==
    IF c < 128 THEN << AsciiConv(c, conv) >>
    ELSE LET idx == FindCase(c)
         IN  IF idx = 0 THEN << c >> ELSE CaseEntry(c, conv, CaseTable[idx])

-----------------------------------------------------------------------------
(* lre_case_folding_entry and lre_canonicalize: what a character is        *)
(* replaced by before it is compared.                                      *)
SpecialFold(c) ==
    CASE c = \hfb06 -> \hfb05
      [] c = \h1fd3 -> \h390
      [] c = \h1fe3 -> \h3b0
      [] OTHER -> c

FoldingEntry(c, e, is_unicode) ==
    IF is_unicode
    THEN LET res == CaseEntry(c, Fold, e)
         IN  IF Len(res) = 1 THEN res[1] ELSE SpecialFold(c)
    ELSE IF c < 128 THEN AsciiConv(c, Upper)
    ELSE LET res == CaseEntry(c, Upper, e)
         IN  IF Len(res) = 1 /\ res[1] >= 128 THEN res[1] ELSE c

Canonicalize(c, is_unicode) ==
    IF c < 128 THEN AsciiConv(c, IF is_unicode THEN Lower ELSE Upper)
    ELSE LET idx == FindCase(c)
         IN  IF idx = 0 THEN c ELSE FoldingEntry(c, CaseTable[idx], is_unicode)

(* Whatever folds, folds to a code point.                                  *)
ASSUME FoldingAssumption ==
    \A i \in DOMAIN CaseTable, is_unicode \in BOOLEAN :
        LET e == CaseTable[i]
        IN  \A c \in e.code .. e.code + e.len - 1 :
                FoldingEntry(c, e, is_unicode) \in 0 .. Infinity - 1

-----------------------------------------------------------------------------
(* unicode_case1: the code points that a conversion of the mask changes.   *)
RunMask(m) ==
    CASE m = Upper -> { "U", "UF", "UL", "LSU", "U2L_399_EXT2", "UF_D20",
                        "UF_D1_EXT", "U_EXT", "UF_EXT2", "UF_EXT3" }
      [] m = Lower -> { "L", "LF", "UL", "LSU", "U2L_399_EXT2", "LF_EXT", "LF_EXT2" }
      [] m = Fold  -> { "UF", "LF", "UL", "LSU", "U2L_399_EXT2", "LF_EXT", "LF_EXT2",
                        "UF_D20", "UF_D1_EXT", "UF_EXT2", "UF_EXT3" }

(* The points one entry adds.  In alternating runs, and in the triples of  *)
(* a title case letter, upper and lower case are told apart unless both    *)
(* are asked for.                                                          *)
CasePoints(e, mask) ==
    LET code == e.code
        one(c) == << c, c + 1 >>
        mixed == Upper \in mask /\ mask # { Upper }
        first == IF Upper \in mask THEN code + 1 ELSE code
    IN  IF e.type = "UL" /\ ~mixed
        THEN FlattenSeq([i \in 1 .. (e.len + 1) \div 2 |-> one(first + 2 * (i - 1))])
        ELSE IF e.type = "LSU" /\ ~mixed
        THEN IF Upper \in mask THEN one(code + 1) \o one(code + 2)
             ELSE one(code) \o one(code + 1)
        ELSE << code, code + e.len >>

CaseRange(mask) ==
    LET hit(e) == \E m \in mask : e.type \in RunMask(m)
    IN  FlattenSeq([i \in DOMAIN CaseTable |->
            IF hit(CaseTable[i]) THEN CasePoints(CaseTable[i], mask) ELSE << >>])

(* The loop of cr_regexp_canonicalize over the code points to be folded:   *)
(* the table is walked along with them, from entry to entry; neighbours    *)
(* that fold to neighbours become one interval.                            *)
NoInterval == << >>

(* assert(idx < countof(case_conv_table1)).                                *)
HasEntry(s, c) == \E i \in s.idx .. Len(CaseTable) : Covers(CaseTable[i], c)

FoldOne(s, c, is_unicode) ==
    LET idx == CHOOSE i \in s.idx .. Len(CaseTable) :
                  /\ Covers(CaseTable[i], c)
                  /\ \A j \in s.idx .. i - 1 : ~Covers(CaseTable[j], c)
        d == FoldingEntry(c, CaseTable[idx], is_unicode)
    IN  IF s.now # NoInterval /\ s.now[2] = d
        THEN [s EXCEPT !.idx = idx, !.now[2] = d + 1]
        ELSE [s EXCEPT !.idx = idx, !.now = << d, d + 1 >>, !.done = @ \o s.now]

CodePoints(points) ==
    FlattenSeq([i \in DOMAIN Intervals(points) |->
        LET v == Intervals(points)[i] IN [k \in 1 .. v[2] - v[1] |-> v[1] + k - 1]])

RegexpCanonicalize(points, is_unicode) ==
    LET mask == CaseRange({ IF is_unicode THEN Fold ELSE Upper })
        inter == Combine(mask, points, "inter")
        sub == Combine(Invert(mask), points, "inter")
        s == FoldLeft(LAMBDA t, c : FoldOne(t, c, is_unicode),
                      [idx |-> 1, now |-> NoInterval, done |-> << >>],
                      CodePoints(inter))
    IN  Combine(SortAndRemoveOverlap(s.done \o s.now), sub, "union")
=============================================================================
