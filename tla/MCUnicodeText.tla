--------------------------- MODULE MCUnicodeText ---------------------------
(***************************************************************************)
(* Bounded instance of UnicodeText: one entry or more of each type of the  *)
(* decomposition table, an index of three blocks of combining classes, and *)
(* what the characters are made of, said directly.                         *)
(***************************************************************************)
EXTENDS UnicodeText, FiniteSets

CONSTANT MaxText

Entry(code, len, compat, type, l, p, data) ==
    [code |-> code, len |-> len, compat |-> compat, type |-> type, l |-> l, p |-> p,
     data |-> data]

MCDecompTable ==
    << Entry(\hb2, 1, TRUE, "C1", 1, 0, << 50 >>),
       Entry(\hc0, 2, FALSE, "S", 2, 0, << 65, 128, 0, 0 >>),
       Entry(\hc2, 1, FALSE, "L", 2, 0, << 65, \h302 >>),
       Entry(\h132, 1, TRUE, "S", 2, 0, << 73, 74 >>),
       Entry(\h3d3, 1, FALSE, "LS2", 2, 0, << \h3d2, 129 >>),
       Entry(\h1ea0, 2, FALSE, "S2_UL", 2, 0, << 65, 128 + 35 >>),
       Entry(\h1eac, 2, FALSE, "LS2_UL", 2, 0, << \h1ea0, 128 + 2 >>),
       Entry(\h1fee, 1, FALSE, "B", 2, 0, << \h300, 255, 0 >>),
       Entry(\h212a, 2, FALSE, "I", 1, 0, << 75 >>),
       Entry(\h3220, 2, TRUE, "PAT3", 3, 0, << 40, 41, 97, 98 >>) >>

(* The pairs that compose, in order: A with the grave, the circumflex and  *)
(* the dot below, a with the dot below, the letter of 1EAC and of 1EAD,    *)
(* and upsilon with the acute.                                             *)
Pair(entry, offset) == [entry |-> entry, offset |-> offset]
MCCompTable ==
    << Pair(2, 0), Pair(3, 0), Pair(6, 0), Pair(6, 1), Pair(5, 0), Pair(7, 0), Pair(7, 1) >>

(* Blocks of eight bytes: nothing below 300, the marks above and below     *)
(* from 300 on, two classes in progression from 324 on.                    *)
MCCcTable ==
    << 128 + 50, 207, 0, 0, 0, 0, 0, 0,
       192 + 2, 128 + 31, 0, 220, 0, 0, 0, 0,
       64 + 1, 10, 128 + 56, 0, 10, 128 + 63, 255, 0 >>
MCCcIndex ==
    << [code |-> \h300, offset |-> 0], [code |-> \h324, offset |-> 0],
       [code |-> \h4000, offset |-> 0] >>

-----------------------------------------------------------------------------
(* What the table says, read as the standard writes it.                    *)
Canonical ==
    [c \in { \hc0 } |-> << 65, \h300 >>] @@ [c \in { \hc2 } |-> << 65, \h302 >>]
    @@ [c \in { \h3d3 } |-> << \h3d2, \h301 >>]
    @@ [c \in { \h1ea0 } |-> << 65, \h323 >>] @@ [c \in { \h1ea1 } |-> << 97, \h323 >>]
    @@ [c \in { \h1eac } |-> << \h1ea0, \h302 >>] @@ [c \in { \h1ead } |-> << \h1ea1, \h302 >>]
    @@ [c \in { \h1fee } |-> << 32, \h300 >>]
    @@ [c \in { \h212a } |-> << 75 >>] @@ [c \in { \h212b } |-> << 76 >>]
    @@ [c \in { \hac00 } |-> << \h1100, \h1161 >>]
    @@ [c \in { \hac01 } |-> << \hac00, \h11a8 >>]

Compatible ==
    [c \in { \hb2 } |-> << 50 >>] @@ [c \in { \h132 } |-> << 73, 74 >>]
    @@ [c \in { \h3220 } |-> << 40, 97, 41 >>] @@ [c \in { \h3221 } |-> << 40, 98, 41 >>]

Decomposes == IF is_compat THEN Canonical @@ Compatible ELSE Canonical

Composites == DOMAIN Canonical \ { \h1fee, \h212a, \h212b }

Class(c) ==
    IF c \in \h300 .. \h302 THEN 230
    ELSE IF c = \h323 THEN 220
    ELSE IF c \in \h324 .. \h325 THEN 10 + c - \h324
    ELSE 0

(* All that a text is made of, and its canonical order: neighbours that    *)
(* stand the wrong way round are exchanged until there are none.           *)
RECURSIVE Expand(_)
Expand(text) ==
    IF text = << >> THEN << >>
    ELSE IF Head(text) \in DOMAIN Decomposes
    THEN Expand(Decomposes[Head(text)] \o Tail(text))
    ELSE << Head(text) >> \o Expand(Tail(text))

WrongWay(text) ==
    { i \in 1 .. Len(text) - 1 :
        Class(text[i + 1]) # 0 /\ Class(text[i]) > Class(text[i + 1]) }

RECURSIVE Reorder(_)
Reorder(text) ==
    IF WrongWay(text) = {} THEN text
    ELSE LET i == CHOOSE i \in WrongWay(text) : TRUE
         IN  Reorder([text EXCEPT ![i] = text[i + 1], ![i + 1] = text[i]])

Full(text) == Reorder(Expand(text))

(* dbuf_claim fails without an error when growing by half would overflow   *)
(* SIZE_MAX, and what does not fit is dropped.                             *)
Truncated ==
    /\ Dbuf!AtLimit(buffer)
    /\ ItemSize * Len(Full(source)) > buffer.allocated

(* A text that ends in a result is decomposed to the same characters in    *)
(* the same order as the text it was made from: nothing is lost when the   *)
(* buffer could not grow, nothing is composed over a mark that stands in   *)
(* between.  Excepted are a text that is truncated at the limit of         *)
(* SIZE_MAX, and the one pair that loses a character: a syllable and       *)
(* U+11A7, which stands before the first trailing consonant and is taken   *)
(* for none.                                                               *)
MeansTheSame ==
    phase = "done" /\ \h11a7 \notin ToSet(source) /\ ~Truncated =>
        Full(result) = Full(source)

(* Blocked by a starter, or by a mark of the same or a higher class.       *)
Unblocked(text, i, j) ==
    /\ Class(text[i]) = 0
    /\ \A k \in i + 1 .. j - 1 : Class(text[k]) # 0 /\ Class(text[k]) < Class(text[j])

(* A result is in its normal form: in order, with nothing left that        *)
(* decomposes (NFD, NFKD) or that could be composed with the starter       *)
(* before it (NFC, NFKC).                                                  *)
IsNormal ==
    phase = "done" =>
        /\ WrongWay(result) = {}
        /\ form % 2 = 1 => ToSet(result) \intersect DOMAIN Decomposes = {}
        /\ form % 2 = 0 =>
              \A j \in 2 .. Len(result) : \A i \in 1 .. j - 1 :
                  Unblocked(result, i, j) =>
                      \A c \in Composites : Canonical[c] # << result[i], result[j] >>

MCTexts ==
    LET characters == { 65, 97, \hb2, \hc0, \h132, \h300, \h302, \h323, \h325, \h3d2, \h1eac,
                        \h3220, \h1100, \h1161, \h11a7, \h11a8, \hac00, \hac01 }
        marks == { 65, \hc0, \h300, \h302, \h323, \h324 }
    IN  UNION { [1 .. n -> characters] : n \in 0 .. MaxText }
        \union [1 .. MaxText + 2 -> marks]
        \union { << \hc0, \h323, \hc0, \h302, \hc0 >> }
        \union { << c >> : c \in { \hc1, \h301, \h3d3, \h1ea1, \h1ead, \h1fee, \h212b, \h3221 } }
=============================================================================
