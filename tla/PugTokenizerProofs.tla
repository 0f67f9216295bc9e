------------------------ MODULE PugTokenizerProofs ------------------------
(***************************************************************************)
(* Theorems about PugTokenizer, for all documents, whatever characters     *)
(* they are made of, and whatever allocations fail unless a theorem says   *)
(* otherwise.                                                              *)
(***************************************************************************)
EXTENDS PugTokenizer, Integers, FiniteSetTheorems, SequenceTheorems, TLAPS

(* The loops over characters stop at the first position that meets a       *)
(* condition: there is a first one.  If there were none, moving down by    *)
(* one would map the interval above the set into itself without reaching   *)
(* its upper end.                                                          *)
LEMMA Least ==
    ASSUME NEW a \in Int, NEW b \in Int, NEW T \in SUBSET (a .. b), T # {}
    PROVE  \E i \in T : \A j \in T : i <= j
<1> SUFFICES ASSUME \A i \in T : \E j \in T : j < i
             PROVE  FALSE
    OBVIOUS
<1> DEFINE U == { i \in a .. b : \E j \in T : j <= i }
           down == [ i \in U |-> i - 1 ]
<1>1. IsFiniteSet(U)
    <2>1. U \in SUBSET (a .. b) /\ IsFiniteSet(a .. b)
        BY FS_Interval
    <2> QED
        BY <2>1, FS_Subset
<1>2. \A i \in U : i - 1 \in U
    <2> TAKE i \in U
    <2>1. PICK j \in T : j <= i
        OBVIOUS
    <2>2. PICK k \in T : k < j
        OBVIOUS
    <2>3. j \in a .. b /\ k \in a .. b /\ i \in a .. b
        OBVIOUS
    <2> QED
        BY <2>1, <2>2, <2>3
<1>3. down \in Injection(U, U)
    <2>1. down \in [U -> U]
        BY <1>2
    <2>2. \A i, j \in U : down[i] = down[j] => i = j
        OBVIOUS
    <2> QED
        BY <2>1, <2>2 DEF Injection, IsInjective
<1>4. down \in Surjection(U, U)
    BY <1>1, <1>3, FS_Injection
<1>5. b \in U
    <2>1. PICK j \in T : TRUE
        OBVIOUS
    <2>2. j \in a .. b
        OBVIOUS
    <2> QED
        BY <2>1, <2>2
<1>6. \E i \in U : down[i] = b
    BY <1>4, <1>5 DEF Surjection
<1> QED
    BY <1>6

-----------------------------------------------------------------------------
(* Reading a line.                                                         *)

LEMMA LineFacts ==
    ASSUME TypeOK, InLine
    PROVE  /\ Line \in Seq(Char) /\ Len(Line) \in Nat
           /\ DOMAIN Line = 1 .. Len(Line)
           /\ current_line \in 1 .. Len(lines) /\ Len(lines) \in Nat
<1>1. lines \in Seq(Seq(Char)) /\ current_line \in 1 .. Len(lines) + 1
    BY DEF TypeOK
<1>2. Len(lines) \in Nat
    BY <1>1, LenProperties
<1>3. current_line \in 1 .. Len(lines)
    BY <1>1, <1>2 DEF InLine
<1>4. Line \in Seq(Char)
    BY <1>1, <1>3, ElementOfSeq DEF Line
<1> QED
    BY <1>2, <1>3, <1>4, LenProperties

LEMMA CharRead ==
    ASSUME NEW s \in Seq(Char), NEW p \in Nat \ {0}
    PROVE  /\ p <= Len(s) => CharAt(s, p) = s[p] /\ CharAt(s, p) \in Char
           /\ CharAt(s, p) # NUL => p <= Len(s)
           /\ CharAt(s, p) = NUL => p > Len(s)
<1>1. Len(s) \in Nat
    BY LenProperties
<1>2. p <= Len(s) => s[p] \in Char
    BY <1>1, ElementOfSeq
<1>3. NUL \notin Char
    BY TokenizerAssumption DEF TokenizerAssumption
<1> QED
    BY <1>1, <1>2, <1>3 DEF CharAt

LEMMA SpanEndIs ==
    ASSUME NEW s \in Seq(Char), NEW p \in 1 .. Len(s) + 1, NEW S, NUL \notin S
    PROVE  /\ SpanEnd(s, p, S) \in p .. Len(s) + 1
           /\ CharAt(s, SpanEnd(s, p, S)) \notin S
           /\ \A j \in p .. SpanEnd(s, p, S) - 1 : s[j] \in S
<1> DEFINE Stops == { i \in p .. Len(s) + 1 : CharAt(s, i) \notin S }
<1>1. Len(s) \in Nat
    BY LenProperties
<1>2. Len(s) + 1 \in Stops
    <2>1. CharAt(s, Len(s) + 1) = NUL
        BY <1>1 DEF CharAt
    <2>2. Len(s) + 1 \in p .. Len(s) + 1
        BY <1>1
    <2> QED
        BY <2>1, <2>2
<1>3. PICK i \in Stops : \A j \in Stops : i <= j
    <2>1. p \in Int /\ Len(s) + 1 \in Int /\ Stops \in SUBSET (p .. Len(s) + 1)
        BY <1>1
    <2> HIDE DEF Stops
    <2> QED
        BY <1>2, <2>1, Least
<1>4. \A j \in p .. i - 1 : s[j] \in S
    <2> TAKE j \in p .. i - 1
    <2>1. j \in p .. Len(s) + 1 /\ j <= Len(s)
        BY <1>1
    <2>2. CharAt(s, j) \in S
        BY <1>3, <2>1
    <2> QED
        BY <2>1, <2>2 DEF CharAt
<1>5. \E k \in p .. Len(s) + 1 : /\ CharAt(s, k) \notin S
                                 /\ \A j \in p .. k - 1 : s[j] \in S
    BY <1>4
<1> QED
    BY <1>5 DEF SpanEnd

LEMMA CharSets ==
    /\ NUL \notin Blank /\ NUL \notin IdChar /\ NUL \notin TagChar
    /\ \A S : NUL \notin Char \ S
BY TokenizerAssumption DEF TokenizerAssumption, Blank, IdChar, TagChar, NUL

LEMMA Interval ==
    ASSUME NEW n \in Nat
    PROVE  IsFiniteSet(1 .. n) /\ Cardinality(1 .. n) = n
<1>1. /\ IsFiniteSet(1 .. n)
      /\ Cardinality(1 .. n) = IF 1 > n THEN 0 ELSE n - 1 + 1
    BY FS_Interval
<1> QED
    BY <1>1

LEMMA IndentLevelType ==
    ASSUME NEW s \in Seq(Char)
    PROVE  IndentLevel(s) \in 0 .. Len(s)
<1> DEFINE L == { i \in 1 .. Margin(s) - 1 :
                     s[i] = " " => (i - RunStart(s, i)) % 2 = 1 }
<1>1. Len(s) \in Nat
    BY LenProperties
<1>2. Margin(s) \in 1 .. Len(s) + 1
    <2>1. 1 \in 1 .. Len(s) + 1 /\ NUL \notin Blank
        BY <1>1, CharSets
    <2>2. SpanEnd(s, 1, Blank) \in 1 .. Len(s) + 1
        BY <2>1, SpanEndIs
    <2> QED
        BY <2>2 DEF Margin
<1>3. /\ IsFiniteSet(1 .. Margin(s) - 1)
      /\ Cardinality(1 .. Margin(s) - 1) = Margin(s) - 1
    <2>1. Margin(s) - 1 \in Nat
        BY <1>1, <1>2
    <2> QED
        BY <2>1, Interval
<1>4. L \in SUBSET (1 .. Margin(s) - 1)
    BY Zenon
<1>5. IsFiniteSet(L) /\ Cardinality(L) <= Cardinality(1 .. Margin(s) - 1)
    BY <1>3, <1>4, FS_Subset
<1>6. Cardinality(L) \in Nat
    BY <1>5, FS_CardinalityType
<1> HIDE DEF L
<1>7. Cardinality(L) \in 0 .. Len(s)
    BY <1>1, <1>2, <1>3, <1>5, <1>6
<1> QED
    BY <1>7 DEF IndentLevel, L

LEMMA CutValue ==
    ASSUME NEW s \in Seq(Char), NEW first \in 1 .. Len(s) + 1,
           NEW past \in first .. Len(s) + 1
    PROVE  /\ SubSeq(s, first, past - 1) \in Seq(Char)
           /\ Len(SubSeq(s, first, past - 1)) = past - first
           /\ \A i \in 1 .. past - first :
                 SubSeq(s, first, past - 1)[i] = s[first + i - 1]
<1>1. Len(s) \in Nat
    BY LenProperties
<1>2. first \in 1 .. Len(s) + 1 /\ past - 1 \in first - 1 .. Len(s)
    BY <1>1
<1> QED
    BY <1>1, <1>2, SubSeqProperties

-----------------------------------------------------------------------------
(* Attribute lists.                                                        *)

(* The closing parenthesis is behind what it closes.                       *)
LEMMA ClosingIs ==
    ASSUME NEW s \in Seq(Char), NEW p \in 1 .. Len(s) + 1
    PROVE  /\ Closing(s, p) \in p .. Len(s) + 1
           /\ Closing(s, p) <= Len(s) => Opened(s, p, Closing(s, p)) = 0
           /\ \A j \in p .. Closing(s, p) - 1 : Opened(s, p, j) # 0
<1> DEFINE Stops == { i \in p .. Len(s) + 1 : i <= Len(s) => Opened(s, p, i) = 0 }
<1>1. Len(s) \in Nat
    BY LenProperties
<1>2. Len(s) + 1 \in Stops
    BY <1>1
<1>3. PICK i \in Stops : \A j \in Stops : i <= j
    <2>1. p \in Int /\ Len(s) + 1 \in Int /\ Stops \in SUBSET (p .. Len(s) + 1)
        BY <1>1
    <2> HIDE DEF Stops
    <2> QED
        BY <1>2, <2>1, Least
<1>4. \A j \in p .. i - 1 : Opened(s, p, j) # 0
    <2> TAKE j \in p .. i - 1
    <2>1. j \in p .. Len(s) + 1 /\ j < i
        BY <1>1
    <2> QED
        BY <1>3, <2>1
<1>5. \E k \in p .. Len(s) + 1 :
            /\ k <= Len(s) => Opened(s, p, k) = 0
            /\ \A j \in p .. k - 1 : Opened(s, p, j) # 0
    BY <1>4
<1> QED
    BY <1>5 DEF Closing

(* Parentheses are counted one character after the other.                  *)
Counted(s, p, i, c) == { j \in p .. i : s[j] = c }

LEMMA CountStep ==
    ASSUME NEW s, NEW c, NEW p \in Nat \ {0}, NEW i \in Nat, p - 1 <= i
    PROVE  /\ IsFiniteSet(Counted(s, p, i, c))
           /\ Cardinality(Counted(s, p, i, c)) \in Nat
           /\ i = p - 1 => Cardinality(Counted(s, p, i, c)) = 0
           /\ Cardinality(Counted(s, p, i + 1, c)) =
                 Cardinality(Counted(s, p, i, c)) + (IF s[i + 1] = c THEN 1 ELSE 0)
<1>1. IsFiniteSet(p .. i) /\ Counted(s, p, i, c) \in SUBSET (p .. i)
    BY FS_Interval DEF Counted
<1>2. IsFiniteSet(Counted(s, p, i, c)) /\ Cardinality(Counted(s, p, i, c)) \in Nat
    BY <1>1, FS_Subset, FS_CardinalityType
<1>3. i = p - 1 => Counted(s, p, i, c) = {}
    BY DEF Counted
<1>4. i + 1 \notin Counted(s, p, i, c)
    BY DEF Counted
<1>5. CASE s[i + 1] = c
    <2>1. Counted(s, p, i + 1, c) = Counted(s, p, i, c) \cup { i + 1 }
        BY <1>5 DEF Counted
    <2> QED
        BY <1>2, <1>3, <1>4, <1>5, <2>1, FS_AddElement, FS_EmptySet
<1>6. CASE s[i + 1] # c
    <2>1. Counted(s, p, i + 1, c) = Counted(s, p, i, c)
        BY <1>6 DEF Counted
    <2> QED
        BY <1>2, <1>3, <1>6, <2>1, FS_EmptySet
<1> QED
    BY <1>5, <1>6

LEMMA OpenedStep ==
    ASSUME NEW s, NEW p \in Nat \ {0}, NEW i \in Nat, p - 1 <= i
    PROVE  /\ Opened(s, p, i) \in Int
           /\ i = p - 1 => Opened(s, p, i) = 1
           /\ Opened(s, p, i + 1) = Opened(s, p, i)
                 + (IF s[i + 1] = "(" THEN 1 ELSE 0) - (IF s[i + 1] = ")" THEN 1 ELSE 0)
           /\ Opened(s, p, i) = 1 + Cardinality(Counted(s, p, i, "("))
                                  - Cardinality(Counted(s, p, i, ")"))
<1>1. \A k : Opened(s, p, k) = 1 + Cardinality(Counted(s, p, k, "("))
                                 - Cardinality(Counted(s, p, k, ")"))
    BY DEF Opened, Counted
<1> QED
    BY <1>1, CountStep

(* Up to what closes it, an attribute list has not closed more than it      *)
(* opened, and it ends with the parenthesis that closes it.                *)
LEMMA ClosingPairs ==
    ASSUME NEW s \in Seq(Char), NEW p \in 1 .. Len(s) + 1
    PROVE  /\ \A j \in p - 1 .. Closing(s, p) - 1 : Opened(s, p, j) >= 1
           /\ Closing(s, p) <= Len(s) => /\ s[Closing(s, p)] = ")"
                                         /\ Opened(s, p, Closing(s, p) - 1) = 1
<1> DEFINE past == Closing(s, p)
           Bad == { j \in p - 1 .. past - 1 : Opened(s, p, j) <= 0 }
<1>1. /\ Len(s) \in Nat /\ p \in Nat \ {0} /\ past \in p .. Len(s) + 1
      /\ past <= Len(s) => Opened(s, p, past) = 0
      /\ \A j \in p .. past - 1 : Opened(s, p, j) # 0
    BY ClosingIs, LenProperties
<1> HIDE DEF past
<1>2. \A j \in p - 1 .. Len(s) :
         /\ Opened(s, p, j) \in Int
         /\ j = p - 1 => Opened(s, p, j) = 1
         /\ Opened(s, p, j + 1) = Opened(s, p, j)
               + (IF s[j + 1] = "(" THEN 1 ELSE 0) - (IF s[j + 1] = ")" THEN 1 ELSE 0)
    <2> TAKE j \in p - 1 .. Len(s)
    <2>1. j \in Nat /\ p - 1 <= j
        BY <1>1
    <2> QED
        BY <1>1, <2>1, OpenedStep
<1>3. Bad = {}
    <2> SUFFICES ASSUME Bad # {} PROVE FALSE
        OBVIOUS
    <2>1. p - 1 \in Int /\ past - 1 \in Int /\ Bad \in SUBSET (p - 1 .. past - 1)
        BY <1>1
    <2>2. PICK j \in Bad : \A k \in Bad : j <= k
        <3> HIDE DEF Bad
        <3> QED
            BY <2>1, Least
    <2>3. j \in p .. past - 1 /\ j - 1 \in p - 1 .. past - 1 /\ j - 1 \in p - 1 .. Len(s)
        BY <1>1, <1>2
    <2>4. Opened(s, p, j - 1) \in Int /\ Opened(s, p, j - 1) >= 1
        BY <1>1, <1>2, <2>2, <2>3
    <2>5. j = (j - 1) + 1 /\ j \in p - 1 .. Len(s)
        BY <1>1, <2>3
    <2>6. Opened(s, p, j) \in Int /\ Opened(s, p, j) >= 0
        <3>1. Opened(s, p, (j - 1) + 1) >= Opened(s, p, j - 1) - 1
            <4>1. Opened(s, p, (j - 1) + 1) = Opened(s, p, j - 1)
                     + (IF s[(j - 1) + 1] = "(" THEN 1 ELSE 0)
                     - (IF s[(j - 1) + 1] = ")" THEN 1 ELSE 0)
                BY <1>2, <2>3
            <4> QED
                BY <2>4, <4>1
        <3>2. Opened(s, p, (j - 1) + 1) = Opened(s, p, j)
            BY <2>5
        <3> QED
            BY <1>2, <2>4, <2>5, <3>1, <3>2
    <2> QED
        BY <1>1, <2>2, <2>3, <2>6
<1>4. \A j \in p - 1 .. past - 1 : Opened(s, p, j) >= 1
    BY <1>1, <1>2, <1>3
<1>5. ASSUME past <= Len(s) PROVE s[past] = ")" /\ Opened(s, p, past - 1) = 1
    <2>1. past - 1 \in p - 1 .. past - 1 /\ past - 1 \in p - 1 .. Len(s) /\ past = (past - 1) + 1
        BY <1>1
    <2>2. /\ Opened(s, p, past - 1) \in Int /\ Opened(s, p, past - 1) >= 1
          /\ Opened(s, p, (past - 1) + 1) = Opened(s, p, past - 1)
               + (IF s[(past - 1) + 1] = "(" THEN 1 ELSE 0)
               - (IF s[(past - 1) + 1] = ")" THEN 1 ELSE 0)
        BY <1>2, <1>4, <2>1
    <2>3. Opened(s, p, (past - 1) + 1) = 0 /\ s[(past - 1) + 1] = s[past]
        BY <1>1, <1>5, <2>1
    <2> QED
        BY <2>2, <2>3
<1> QED
    BY <1>4, <1>5 DEF past

(* Counting in a value that was cut from a line is counting in the line.   *)
LEMMA CountCut ==
    ASSUME NEW s \in Seq(Char), NEW first \in 1 .. Len(s) + 1,
           NEW past \in first .. Len(s) + 1, NEW m \in 0 .. past - first, NEW c
    PROVE  Cardinality({ i \in 1 .. m : SubSeq(s, first, past - 1)[i] = c })
              = Cardinality(Counted(s, first, first + m - 1, c))
<1> DEFINE v == SubSeq(s, first, past - 1)
           V == { i \in 1 .. m : v[i] = c }
           S == Counted(s, first, first + m - 1, c)
           shift == [ i \in V |-> first + i - 1 ]
<1>1. Len(s) \in Nat
    BY LenProperties
<1>2. \A i \in 1 .. m : v[i] = s[first + i - 1]
    <2>1. \A i \in 1 .. past - first : v[i] = s[first + i - 1]
        BY CutValue
    <2> QED
        BY <1>1, <2>1
<1> HIDE DEF v
<1>3. IsFiniteSet(V)
    <2>1. IsFiniteSet(1 .. m)
        BY <1>1, FS_Interval
    <2>2. V \in SUBSET (1 .. m)
        BY Zenon
    <2> QED
        BY <2>1, <2>2, FS_Subset
<1>4. shift \in Bijection(V, S)
    <2>1. shift \in [V -> S]
        BY <1>1, <1>2 DEF Counted
    <2>2. \A i, j \in V : shift[i] = shift[j] => i = j
        BY <1>1
    <2>3. \A j \in S : \E i \in V : shift[i] = j
        <3> TAKE j \in S
        <3>1. j \in first .. first + m - 1 /\ s[j] = c
            BY DEF Counted
        <3>2. j - first + 1 \in 1 .. m /\ first + (j - first + 1) - 1 = j
            BY <1>1, <3>1
        <3>3. j - first + 1 \in V
            BY <1>2, <3>1, <3>2
        <3> QED
            BY <3>2, <3>3
    <2> QED
        BY <2>1, <2>2, <2>3 DEF Bijection, Injection, IsInjective, Surjection
<1>5. Cardinality(S) = Cardinality(V)
    <2>1. ExistsBijection(V, S)
        BY <1>4, Zenon DEF ExistsBijection
    <2> HIDE DEF V, S
    <2> QED
        BY <1>3, <2>1, FS_Bijection
<1> QED
    BY <1>5 DEF v

-----------------------------------------------------------------------------
(***************************************************************************)
(* The steps, by what they do to the list: a token is cut from the line    *)
(* and added or lost; characters are passed over; EOF is added.            *)
(***************************************************************************)

HoldsDirective(s) == CharAt(s, Margin(s)) \in Opener \/ IsComment(s, Margin(s))

Skips(a, b) == \A i \in Nat : a <= i /\ i < b => Line[i] \notin Alpha

(* The loops go on at p without adding a token whose value begins there.   *)
Settled(p) == p = Len(Line) + 1 \/ (mode = "main" /\ CharAt(Line, p) \notin Alpha)

Scanned(type, first, past, col) ==
    /\ InLine /\ UNCHANGED lines /\ col \in Nat
    /\ first \in 1 .. Len(Line) + 1 /\ past \in first .. Len(Line) + 1
    /\ \/ mode = "line" /\ type \in DirectiveType /\ NextLine
       \/ /\ \/ mode = "main" /\ type \in PieceType
             \/ mode = "text" /\ type \in RunType
          /\ UNCHANGED << mode, current_line >>
          /\ pos <= first /\ pos' \in past .. Len(Line) + 1 /\ column' \in Nat
    /\ type \in { "CLASS", "TAG", "TEXT" } => first < past
    /\ type = "DOT" => first = past
    /\ type = "INTERPOLATION" => Here = "#"
    /\ type = "ATTRIBUTE" => past = Closing(Line, first)
    /\ mode = "line" => HoldsDirective(Line)
    /\ mode # "line" => /\ Skips(pos, first) /\ Skips(past, pos')
                        /\ pos < first \/ ~ Settled(pos)
                        /\ first < pos' \/ Settled(pos')
    /\ Emit(type, first, past, col)

PassedOver ==
    /\ InLine /\ UNCHANGED << lines, list >>
    /\ \/ mode = "line" /\ Skips(1, Len(Line) + 1) /\ NextLine
       \/ mode \in { "main", "text" } /\ pos = Len(Line) + 1 /\ NextLine
       \/ /\ mode = "line" /\ mode' = "main" /\ UNCHANGED current_line
          /\ pos' \in 1 .. Len(Line) + 1 /\ column' \in Nat
          /\ Skips(1, pos')
       \/ /\ mode \in { "main", "text" } /\ UNCHANGED << mode, current_line, column >>
          /\ pos' \in pos + 1 .. Len(Line) + 1
          /\ Skips(pos, pos')
          /\ mode = "text" => Here = "#"
       \/ /\ mode = "main" /\ mode' = "text" /\ UNCHANGED current_line
          /\ pos' \in pos + 1 .. Len(Line) + 1 /\ column' \in Nat
          /\ CharAt(Line, pos') # "#"
          /\ Skips(pos, pos')

LEMMA NothingSkipped == \A a \in Nat : Skips(a, a)
BY DEF Skips

LEMMA NotLetters == \A c \in Blank \cup Mark : c \notin Alpha
BY TokenizerAssumption DEF TokenizerAssumption

LEMMA MarginFacts ==
    ASSUME TypeOK, InLine
    PROVE  /\ Margin(Line) \in 1 .. Len(Line) + 1
           /\ \A i \in 0 .. 2 : CharAt(Line, Margin(Line) + i) # NUL
                                   => Margin(Line) + i <= Len(Line)
<1>1. Line \in Seq(Char) /\ Len(Line) \in Nat
    BY LineFacts
<1>2. 1 \in 1 .. Len(Line) + 1 /\ NUL \notin Blank
    BY <1>1, CharSets
<1>3. Margin(Line) \in 1 .. Len(Line) + 1
    BY <1>1, <1>2, SpanEndIs DEF Margin
<1> QED
    BY <1>1, <1>3, CharRead

LEMMA ScanDirectiveShape ==
    ASSUME TypeOK, ScanDirective
    PROVE  \E type, first, past, col : Scanned(type, first, past, col)
<1> DEFINE start == Margin(Line)
           type == DirectiveOf[Line[start]]
           first == SpanEnd(Line, start + 1, Blank)
<1>1. mode = "line" /\ InLine /\ NextLine /\ CharAt(Line, start) \in Opener
      /\ Emit(type, first, Len(Line) + 1, start)
    BY DEF ScanDirective
<1>2. Line \in Seq(Char) /\ Len(Line) \in Nat
    BY <1>1, LineFacts
<1>3. start \in 1 .. Len(Line) + 1 /\ start <= Len(Line)
    <2>1. NUL \notin Opener
        BY DEF NUL, Opener, Word
    <2>2. start \in 1 .. Len(Line) + 1
          /\ (CharAt(Line, start + 0) # NUL => start + 0 <= Len(Line))
        BY <1>1, MarginFacts
    <2> QED
        BY <1>1, <1>2, <2>1, <2>2
<1>4. Line[start] \in Opener
    BY <1>1, <1>3 DEF CharAt
<1>5. type \in DirectiveType
    BY <1>4 DEF DirectiveOf, DirectiveType, Opener, Word
<1>6. first \in start + 1 .. Len(Line) + 1
    <2>1. start + 1 \in 1 .. Len(Line) + 1 /\ NUL \notin Blank
        BY <1>2, <1>3, CharSets
    <2> QED
        BY <1>2, <2>1, SpanEndIs
<1>7. type \notin { "CLASS", "TAG", "TEXT", "DOT", "INTERPOLATION", "ATTRIBUTE" }
      /\ HoldsDirective(Line)
    BY <1>1, <1>5 DEF DirectiveType, HoldsDirective
<1> HIDE DEF start, type, first
<1>8. first \in 1 .. Len(Line) + 1 /\ Len(Line) + 1 \in first .. Len(Line) + 1 /\ start \in Nat
    BY <1>2, <1>3, <1>6
<1>9. UNCHANGED lines
    BY <1>1 DEF NextLine
<1>10. Scanned(type, first, Len(Line) + 1, start)
    BY <1>1, <1>5, <1>7, <1>8, <1>9 DEF Scanned
<1> QED
    BY <1>10

LEMMA ScanCommentShape ==
    ASSUME TypeOK, ScanComment
    PROVE  \E type, first, past, col : Scanned(type, first, past, col)
<1> DEFINE start == Margin(Line)
           past == Len(Line) + 1
<1>1. mode = "line" /\ InLine /\ NextLine /\ IsComment(Line, start)
    BY DEF ScanComment
<1>2. Line \in Seq(Char) /\ Len(Line) \in Nat
    BY <1>1, LineFacts
<1>3. start \in 1 .. Len(Line) + 1
      /\ \A i \in 0 .. 2 : CharAt(Line, start + i) # NUL => start + i <= Len(Line)
    BY <1>1, MarginFacts
<1>4. start + 1 <= Len(Line)
    <2>1. CharAt(Line, start + 1) # NUL
        BY <1>1 DEF IsComment, NUL
    <2> QED
        BY <1>3, <2>1
<1>5. UNCHANGED lines /\ HoldsDirective(Line)
    BY <1>1 DEF NextLine, HoldsDirective
<1>6. "BLOCK_COMMENT" \in DirectiveType /\ "COMMENT" \in DirectiveType
    BY DEF DirectiveType
<1>7. CASE CharAt(Line, start + 2) = "-"
    <2>1. start + 2 <= Len(Line)
        BY <1>3, <1>7 DEF NUL
    <2>2. start + 3 \in 1 .. Len(Line) + 1 /\ past \in start + 3 .. Len(Line) + 1 /\ start \in Nat
        BY <1>2, <1>3, <2>1
    <2>3. Emit("BLOCK_COMMENT", start + 3, past, start)
        BY <1>7 DEF ScanComment
    <2> HIDE DEF start, past
    <2>4. Scanned("BLOCK_COMMENT", start + 3, past, start)
        BY <1>1, <1>5, <1>6, <2>2, <2>3 DEF Scanned
    <2> QED
        BY <2>4
<1>8. CASE CharAt(Line, start + 2) # "-"
    <2>1. start + 2 \in 1 .. Len(Line) + 1 /\ past \in start + 2 .. Len(Line) + 1 /\ start \in Nat
        BY <1>2, <1>3, <1>4
    <2>2. Emit("COMMENT", start + 2, past, start)
        BY <1>8 DEF ScanComment
    <2> HIDE DEF start, past
    <2>3. Scanned("COMMENT", start + 2, past, start)
        BY <1>1, <1>5, <1>6, <2>1, <2>2 DEF Scanned
    <2> QED
        BY <2>3
<1> QED
    BY <1>7, <1>8

(* Within a line that is not through.                                      *)
LEMMA HereFacts ==
    ASSUME TypeOK, mode \in { "main", "text" }
    PROVE  /\ InLine /\ Line \in Seq(Char) /\ Len(Line) \in Nat
           /\ pos \in 1 .. Len(Line) + 1 /\ column \in Nat
           /\ Here # NUL => /\ pos <= Len(Line) /\ Here = Line[pos]
                            /\ pos + 1 \in 1 .. Len(Line) + 1
           /\ Ahead # NUL => pos + 1 <= Len(Line)
           /\ Here = NUL => pos = Len(Line) + 1
<1>1. InLine /\ pos \in 1 .. Len(Line) + 1 /\ column \in Nat
    BY DEF TypeOK
<1>2. Line \in Seq(Char) /\ Len(Line) \in Nat
    BY <1>1, LineFacts
<1>3. pos \in Nat \ {0} /\ pos + 1 \in Nat \ {0}
    BY <1>1, <1>2
<1>4. /\ Here # NUL => pos <= Len(Line)
      /\ Here = NUL => pos > Len(Line)
      /\ Ahead # NUL => pos + 1 <= Len(Line)
    BY <1>2, <1>3, CharRead DEF Here, Ahead
<1> QED
    BY <1>1, <1>2, <1>4 DEF Here, CharAt

LEMMA ScanNameShape ==
    ASSUME TypeOK, ScanId \/ ScanClass
    PROVE  \E type, first, past, col : Scanned(type, first, past, col)
<1> DEFINE past == SpanEnd(Line, pos + 1, IdChar)
<1>1. mode = "main" /\ Here # NUL /\ UNCHANGED << lines, current_line, mode >>
      /\ pos' = past /\ column' = pos + 1
    BY DEF ScanId, ScanClass, ScanIn, NUL
<1>2. InLine /\ Line \in Seq(Char) /\ Len(Line) \in Nat
      /\ pos \in 1 .. Len(Line) + 1 /\ pos + 1 \in 1 .. Len(Line) + 1
    BY <1>1, HereFacts
<1>3. past \in pos + 1 .. Len(Line) + 1
    BY <1>2, CharSets, SpanEndIs
<1>4. /\ pos + 1 \in Nat /\ pos <= pos + 1 /\ past \in past .. Len(Line) + 1
      /\ Skips(pos, pos + 1) /\ Skips(past, past)
    <2>1. Line[pos] \notin Alpha
        BY <1>1, HereFacts, NotLetters DEF ScanId, ScanClass, Mark
    <2> QED
        BY <1>2, <1>3, <2>1 DEF Skips
<1>a. pos < pos + 1 /\ (pos + 1 < past \/ Settled(past))
    <2>1. CharAt(Line, past) \notin Alpha
        BY <1>2, CharSets, SpanEndIs DEF IdChar
    <2> QED
        BY <1>1, <1>2, <1>3, <2>1 DEF Settled
<1>5. CASE ScanId
    <2>1. Emit("ID", pos + 1, past, pos + 1)
        BY <1>5 DEF ScanId
    <2> HIDE DEF past
    <2>2. Scanned("ID", pos + 1, past, pos + 1)
        BY <1>1, <1>2, <1>3, <1>4, <1>a, <2>1 DEF Scanned, PieceType
    <2> QED
        BY <2>2
<1>6. CASE ScanClass
    <2> DEFINE type == ClassOrDot(pos + 1, past)
    <2>1. Emit(type, pos + 1, past, pos + 1)
        BY <1>6 DEF ScanClass
    <2>2. /\ type \in { "CLASS", "DOT" }
          /\ type = "CLASS" => pos + 1 < past
          /\ type = "DOT" => pos + 1 = past
        BY <1>2, <1>3 DEF ClassOrDot
    <2> HIDE DEF past, type
    <2>3. Scanned(type, pos + 1, past, pos + 1)
        BY <1>1, <1>2, <1>3, <1>4, <1>a, <2>1, <2>2 DEF Scanned, PieceType
    <2> QED
        BY <2>3
<1> QED
    BY <1>5, <1>6

LEMMA ScanAttributeShape ==
    ASSUME TypeOK, ScanAttribute
    PROVE  \E type, first, past, col : Scanned(type, first, past, col)
<1> DEFINE past == Closing(Line, pos + 1)
<1>1. /\ mode = "main" /\ Here # NUL
      /\ UNCHANGED << lines, current_line, mode, column >>
      /\ pos' = IF past <= Len(Line) THEN past + 1 ELSE past
      /\ Emit("ATTRIBUTE", pos + 1, past, column)
    BY DEF ScanAttribute, ScanIn, NUL
<1>2. InLine /\ Line \in Seq(Char) /\ Len(Line) \in Nat /\ column \in Nat
      /\ pos \in 1 .. Len(Line) + 1 /\ pos + 1 \in 1 .. Len(Line) + 1
    BY <1>1, HereFacts
<1>3. past \in pos + 1 .. Len(Line) + 1 /\ past = Closing(Line, pos + 1)
    BY <1>2, ClosingIs
<1>4. /\ pos <= pos + 1 /\ pos' \in past .. Len(Line) + 1
      /\ Skips(pos, pos + 1) /\ Skips(past, pos')
    <2>1. Line[pos] \notin Alpha
        BY <1>1, HereFacts, NotLetters DEF ScanAttribute, Mark
    <2>2. past <= Len(Line) => Line[past] \notin Alpha
        BY <1>2, ClosingPairs, NotLetters DEF Mark
    <2> QED
        BY <1>1, <1>2, <1>3, <2>1, <2>2 DEF Skips
<1> HIDE DEF past
<1>a. pos < pos + 1 /\ (pos + 1 < pos' \/ Settled(pos'))
    BY <1>1, <1>2, <1>3 DEF Settled
<1>5. Scanned("ATTRIBUTE", pos + 1, past, column)
    BY <1>1, <1>2, <1>3, <1>4, <1>a DEF Scanned, PieceType
<1> QED
    BY <1>5

LEMMA ScanTagShape ==
    ASSUME TypeOK, ScanTag
    PROVE  \E type, first, past, col : Scanned(type, first, past, col)
<1> DEFINE past == SpanEnd(Line, pos, TagChar)
<1>1. mode = "main" /\ Here \in Alpha /\ UNCHANGED << lines, current_line, mode >>
      /\ pos' = past /\ column' = pos /\ Emit("TAG", pos, past, pos)
    BY DEF ScanTag, ScanIn, TagPast
<1>2. NUL \notin Alpha
    BY TokenizerAssumption DEF TokenizerAssumption
<1>3. InLine /\ Line \in Seq(Char) /\ Len(Line) \in Nat
      /\ pos \in 1 .. Len(Line) + 1 /\ Here = Line[pos]
    BY <1>1, <1>2, HereFacts
<1>4. /\ past \in pos .. Len(Line) + 1
      /\ CharAt(Line, past) \notin TagChar
    BY <1>3, CharSets, SpanEndIs
<1>5. pos < past
    <2>1. CharAt(Line, pos) \in TagChar
        BY <1>1 DEF TagChar, Here
    <2>2. pos # past
        BY <1>4, <2>1
    <2> QED
        BY <1>3, <1>4, <2>2
<1>6. /\ pos \in Nat /\ pos <= pos /\ past \in past .. Len(Line) + 1
      /\ Skips(pos, pos) /\ Skips(past, past)
    BY <1>3, <1>4 DEF Skips
<1> HIDE DEF past
<1>a. ~ Settled(pos)
    <2>1. pos \in Nat /\ CharAt(Line, pos) \in Alpha
        BY <1>1, <1>3 DEF Here
    <2>2. pos # Len(Line) + 1
        BY <1>2, <1>3, <2>1 DEF CharAt
    <2> QED
        BY <2>1, <2>2 DEF Settled
<1>7. Scanned("TAG", pos, past, pos)
    BY <1>1, <1>3, <1>4, <1>5, <1>6, <1>a DEF Scanned, PieceType
<1> QED
    BY <1>7

LEMMA ScanTextShape ==
    ASSUME TypeOK, ScanText
    PROVE  \E type, first, past, col : Scanned(type, first, past, col)
<1> DEFINE past == SpanEnd(Line, pos, Char \ { "#" })
<1>1. mode = "text" /\ Here \notin { "#", NUL }
      /\ UNCHANGED << lines, current_line, mode, column >>
      /\ pos' = past /\ Emit("TEXT", pos, past, column)
    BY DEF ScanText, ScanIn
<1>2. InLine /\ Line \in Seq(Char) /\ Len(Line) \in Nat /\ column \in Nat
      /\ pos \in 1 .. Len(Line) + 1 /\ pos <= Len(Line) /\ Here = Line[pos]
    BY <1>1, HereFacts
<1>3. /\ past \in pos .. Len(Line) + 1
      /\ CharAt(Line, past) \notin Char \ { "#" }
    BY <1>2, CharSets, SpanEndIs
<1>4. pos < past
    <2>1. CharAt(Line, pos) \in Char \ { "#" }
        BY <1>1, <1>2, CharRead DEF Here
    <2>2. pos # past
        BY <1>3, <2>1
    <2> QED
        BY <1>2, <1>3, <2>2
<1>5. /\ pos <= pos /\ past \in past .. Len(Line) + 1
      /\ Skips(pos, pos) /\ Skips(past, past)
    <2>1. pos \in Nat /\ past \in Nat
        BY <1>2, <1>3
    <2> QED
        BY <1>2, <1>3, <2>1, NothingSkipped
<1> HIDE DEF past
<1>a. ~ Settled(pos)
    BY <1>1, <1>2 DEF Settled
<1>6. Scanned("TEXT", pos, past, column)
    BY <1>1, <1>2, <1>3, <1>4, <1>5, <1>a DEF Scanned, RunType
<1> QED
    BY <1>6

LEMMA ScanInterpolationShape ==
    ASSUME TypeOK, ScanInterpolation
    PROVE  \E type, first, past, col : Scanned(type, first, past, col)
<1> DEFINE past == SpanEnd(Line, pos + 2, Char \ { "}" })
<1>1. /\ mode = "text" /\ Here = "#" /\ Here # NUL /\ Ahead # NUL
      /\ UNCHANGED << lines, current_line, mode >>
      /\ pos' = IF past <= Len(Line) THEN past + 1 ELSE past
      /\ column' = pos + 2 /\ Emit("INTERPOLATION", pos + 2, past, pos + 2)
    BY DEF ScanInterpolation, ScanIn, NUL
<1>2. InLine /\ Line \in Seq(Char) /\ Len(Line) \in Nat
      /\ pos \in 1 .. Len(Line) + 1 /\ pos + 1 <= Len(Line)
    BY <1>1, HereFacts
<1>3. pos + 2 \in 1 .. Len(Line) + 1 /\ pos + 2 \in Nat /\ pos <= pos + 2
    BY <1>2
<1>4. past \in pos + 2 .. Len(Line) + 1 /\ CharAt(Line, past) \notin Char \ { "}" }
    <2>1. NUL \notin Char \ { "}" }
        BY CharSets
    <2> QED
        BY <1>2, <1>3, <2>1, SpanEndIs
<1> HIDE DEF past
<1>5. /\ pos' \in past .. Len(Line) + 1
      /\ Skips(pos, pos + 2) /\ Skips(past, pos')
    <2>0. /\ Len(Line) \in Nat /\ pos \in Nat \ {0}
          /\ past \in Nat \ {0} /\ past <= Len(Line) + 1
        <3>1. Len(Line) \in Nat /\ pos \in 1 .. Len(Line) + 1
            BY <1>2
        <3>2. past \in pos + 2 .. Len(Line) + 1
            BY <1>4
        <3> QED
            BY <3>1, <3>2
    <2>1. /\ Line[pos] \notin Alpha /\ Line[pos + 1] \notin Alpha
          /\ past <= Len(Line) => Line[past] \notin Alpha
        <3>1. Line[pos] = "#" /\ Line[pos + 1] = "{"
            <4>1. Here = "#" /\ Ahead = "{"
                BY DEF ScanInterpolation
            <4> QED
                BY <1>1, <1>2, <4>1, HereFacts DEF Ahead, CharAt
        <3>2. past <= Len(Line) => Line[past] = "}"
            BY <1>2, <1>4, <2>0, CharRead
        <3> QED
            BY <3>1, <3>2, NotLetters DEF Mark
    <2>2. pos' \in past .. Len(Line) + 1
        BY <1>1, <2>0
    <2>3. Skips(pos, pos + 2)
        BY <2>0, <2>1 DEF Skips
    <2>4. Skips(past, pos')
        BY <1>1, <2>0, <2>1 DEF Skips
    <2> QED
        BY <2>2, <2>3, <2>4
<1>a. pos < pos + 2 /\ (pos + 2 < pos' \/ Settled(pos'))
    <2>1. pos \in 1 .. Len(Line) + 1 /\ past \in pos + 2 .. Len(Line) + 1 /\ Len(Line) \in Nat
        BY <1>2, <1>4, Zenon
    <2> QED
        BY <1>1, <2>1 DEF Settled
<1>6. Scanned("INTERPOLATION", pos + 2, past, pos + 2)
    BY <1>1, <1>2, <1>3, <1>4, <1>5, <1>a DEF Scanned, RunType
<1> QED
    BY <1>6

LEMMA PassedOverShape ==
    ASSUME TypeOK,
           SkipBlankLine \/ OpenLine \/ SkipBlanks \/ OpenText \/ SkipOther
               \/ SkipHash \/ EndLine
    PROVE  PassedOver
<1>0. ASSUME InLine
      PROVE  /\ Margin(Line) \in 1 .. Len(Line) + 1 /\ Len(Line) \in Nat
             /\ Skips(1, Margin(Line))
             /\ CharAt(Line, Margin(Line)) = NUL => Skips(1, Len(Line) + 1)
    <2>1. Line \in Seq(Char) /\ Len(Line) \in Nat
        BY <1>0, LineFacts
    <2>2. 1 \in 1 .. Len(Line) + 1 /\ NUL \notin Blank
        BY <2>1, CharSets
    <2>3. /\ Margin(Line) \in 1 .. Len(Line) + 1
          /\ \A j \in 1 .. Margin(Line) - 1 : Line[j] \in Blank
        BY <2>1, <2>2, SpanEndIs DEF Margin
    <2>4. CharAt(Line, Margin(Line)) = NUL => Margin(Line) = Len(Line) + 1
        BY <2>1, <2>3, CharRead
    <2> QED
        BY <2>1, <2>3, <2>4, NotLetters DEF Skips
<1>1. CASE SkipBlankLine
    BY <1>0, <1>1 DEF SkipBlankLine, NextLine, PassedOver
<1>2. CASE OpenLine
    <2>1. InLine
        BY <1>2 DEF OpenLine
    <2>2. Margin(Line) \in 1 .. Len(Line) + 1 /\ Len(Line) \in Nat /\ Skips(1, Margin(Line))
        BY <1>0, <2>1
    <2> QED
        BY <1>2, <2>1, <2>2 DEF OpenLine, PassedOver
<1>3. CASE SkipBlanks \/ OpenText
    <2> DEFINE next == SpanEnd(Line, pos, Blank)
    <2>1. mode = "main" /\ Here # NUL /\ Here \in Blank
        BY <1>3 DEF SkipBlanks, OpenText, ScanIn, NUL, Blank
    <2>2. InLine /\ Line \in Seq(Char) /\ Len(Line) \in Nat /\ pos \in 1 .. Len(Line) + 1
        BY <2>1, HereFacts
    <2>3. next \in pos + 1 .. Len(Line) + 1 /\ Skips(pos, next)
        <3>1. /\ next \in pos .. Len(Line) + 1 /\ CharAt(Line, next) \notin Blank
              /\ \A j \in pos .. next - 1 : Line[j] \in Blank
            BY <2>2, CharSets, SpanEndIs
        <3>2. next # pos
            BY <2>1, <3>1 DEF Here
        <3>3. next \in pos + 1 .. Len(Line) + 1
            BY <2>2, <3>1, <3>2
        <3> QED
            BY <3>1, <3>3, NotLetters DEF Skips
    <2>4. CASE SkipBlanks
        <3>1. UNCHANGED << lines, list, mode, current_line, column >> /\ pos' = next
            BY <2>4 DEF SkipBlanks, ScanIn
        <3> QED
            BY <2>1, <2>2, <2>3, <3>1 DEF PassedOver
    <2>5. CASE OpenText
        <3>1. /\ UNCHANGED << lines, list, current_line >> /\ mode' = "text"
              /\ pos' = next /\ column' = next
            BY <2>5 DEF OpenText, ScanIn
        <3>2. CharAt(Line, next) # "#"
            BY <2>5 DEF OpenText, StartsText
        <3>3. column' \in Nat
            BY <2>2, <2>3, <3>1
        <3> QED
            BY <2>1, <2>2, <2>3, <3>1, <3>2, <3>3 DEF PassedOver
    <2> QED
        BY <1>3, <2>4, <2>5
<1>4. CASE SkipOther \/ SkipHash
    <2>1. /\ mode \in { "main", "text" } /\ Here # NUL
          /\ mode = "text" => Here = "#"
          /\ UNCHANGED << lines, list, mode, current_line, column >> /\ pos' = pos + 1
        BY <1>4 DEF SkipOther, SkipHash, ScanIn, NUL
    <2>2. InLine /\ Len(Line) \in Nat /\ pos \in 1 .. Len(Line) + 1 /\ pos <= Len(Line)
        BY <2>1, HereFacts
    <2>3. pos' \in pos + 1 .. Len(Line) + 1 /\ Skips(pos, pos')
        <3>1. Line[pos] \notin Alpha
            BY <1>4, <2>1, HereFacts, NotLetters DEF SkipOther, SkipHash, Mark
        <3> QED
            BY <2>1, <2>2, <3>1 DEF Skips
    <2> QED
        BY <2>1, <2>2, <2>3 DEF PassedOver
<1>5. CASE EndLine
    BY <1>5, HereFacts DEF EndLine, NextLine, PassedOver
<1> QED
    BY <1>1, <1>2, <1>3, <1>4, <1>5

LEMMA Steps ==
    ASSUME TypeOK, [Next]_vars
    PROVE  \/ \E type, first, past, col : Scanned(type, first, past, col)
           \/ PassedOver
           \/ AddEof
           \/ UNCHANGED vars
BY ScanDirectiveShape, ScanCommentShape, ScanNameShape, ScanAttributeShape,
   ScanTagShape, ScanTextShape, ScanInterpolationShape, PassedOverShape
DEF Next, Stopped

-----------------------------------------------------------------------------
(* TypeOK.                                                                 *)

LEMMA StoreFacts ==
    ASSUME TypeOK, capacity # 0,
           NEW token \in Token, NEW first \in Nat, NEW past \in Nat,
           Store(token, first, past)
    PROVE  LET k == Len(token_list)
           IN  /\ k \in Nat
               /\ token_list' \in Seq(Token) /\ Len(token_list') = k + 1
               /\ DOMAIN token_list = 1 .. k /\ DOMAIN token_list' = 1 .. k + 1
               /\ \A i \in 1 .. k : token_list'[i] = token_list[i]
               /\ token_list'[k + 1] = token
               /\ spans' \in Seq(Nat \X Nat) /\ Len(spans') = k + 1
               /\ DOMAIN spans = 1 .. k /\ DOMAIN spans' = 1 .. k + 1
               /\ \A i \in 1 .. k : spans'[i] = spans[i]
               /\ spans'[k + 1] = << first, past >>
               /\ capacity' \in Nat /\ Len(token_list') <= capacity'
               /\ capacity' # 0
               /\ faults' = faults
<1>1. /\ token_list \in Seq(Token) /\ spans \in Seq(Nat \X Nat)
      /\ Len(spans) = Len(token_list) /\ capacity \in Nat
      /\ Len(token_list) <= capacity
    BY DEF TypeOK
<1>2. /\ token_list' = Append(token_list, token)
      /\ spans' = Append(spans, << first, past >>)
      /\ capacity' = IF ListFull THEN 2 * capacity ELSE capacity
      /\ faults' = faults
    BY DEF Store
<1>3. Len(token_list) \in Nat /\ << first, past >> \in Nat \X Nat
    BY <1>1, LenProperties
<1>4. /\ token_list' \in Seq(Token) /\ Len(token_list') = Len(token_list) + 1
      /\ \A i \in 1 .. Len(token_list) : token_list'[i] = token_list[i]
      /\ token_list'[Len(token_list) + 1] = token
    BY <1>1, <1>2, AppendProperties
<1>5. /\ spans' \in Seq(Nat \X Nat) /\ Len(spans') = Len(spans) + 1
      /\ \A i \in 1 .. Len(spans) : spans'[i] = spans[i]
      /\ spans'[Len(spans) + 1] = << first, past >>
    BY <1>1, <1>2, <1>3, AppendProperties
<1>6. capacity' \in Nat /\ capacity' # 0 /\ Len(token_list) + 1 <= capacity'
    <2>1. CASE ListFull
        BY <1>1, <1>2, <1>3, <2>1 DEF ListFull
    <2>2. CASE ~ ListFull
        BY <1>1, <1>2, <1>3, <2>2 DEF ListFull
    <2> QED
        BY <2>1, <2>2
<1> QED
    BY <1>1, <1>2, <1>3, <1>4, <1>5, <1>6, LenProperties

LEMMA TokenCut ==
    ASSUME TypeOK, NEW type, NEW first, NEW past, NEW col,
           Scanned(type, first, past, col)
    PROVE  LET token == NewToken(type, first, past, col)
           IN  /\ token \in Token /\ first \in Nat /\ past \in Nat
               /\ token.type = type /\ token.line = current_line
               /\ token.depth = IndentLevel(Line)
               /\ token.value = SubSeq(Line, first, past - 1)
               /\ type \in DirectiveType \cup PieceType \cup RunType
               /\ Store(token, first, past) \/ Lose
<1>1. Line \in Seq(Char) /\ Len(Line) \in Nat /\ current_line \in Nat
    BY LineFacts DEF Scanned
<1>2. /\ first \in 1 .. Len(Line) + 1 /\ past \in first .. Len(Line) + 1
      /\ col \in Nat /\ type \in DirectiveType \cup PieceType \cup RunType
      /\ Emit(type, first, past, col)
    BY DEF Scanned
<1>3. SubSeq(Line, first, past - 1) \in Seq(Char)
    BY <1>1, <1>2, CutValue
<1>4. IndentLevel(Line) \in Nat
    BY <1>1, IndentLevelType
<1>5. type \in TokenType
    BY <1>2 DEF TokenType
<1>6. first \in Nat /\ past \in Nat
    BY <1>1, <1>2
<1>7. NewToken(type, first, past, col) \in Token
    BY <1>1, <1>2, <1>3, <1>4, <1>5 DEF NewToken, Token
<1> QED
    BY <1>2, <1>6, <1>7 DEF NewToken, Emit, Add

(* The list itself, whether a token is stored or lost.                     *)
ListTypeOK ==
    /\ token_list \in Seq(Token)
    /\ spans \in Seq(Nat \X Nat) /\ Len(spans) = Len(token_list)
    /\ capacity \in Nat \ {0} /\ Len(token_list) <= capacity
    /\ faults \in 0 .. MaxFaults

LEMMA ListTypeStep ==
    ASSUME TypeOK, capacity # 0,
           NEW token \in Token, NEW first \in Nat, NEW past \in Nat,
           Store(token, first, past) \/ Lose
    PROVE  ListTypeOK'
<1>1. CASE Store(token, first, past)
    BY <1>1, StoreFacts DEF ListTypeOK, TypeOK
<1>2. CASE Lose
    <2>1. MaxFaults \in Nat
        BY TokenizerAssumption DEF TokenizerAssumption
    <2>2. UNCHANGED << token_list, capacity, spans >> /\ faults' = faults + 1 /\ faults < MaxFaults
        BY <1>2 DEF Lose
    <2>3. faults' \in 0 .. MaxFaults
        BY <2>1, <2>2 DEF TypeOK
    <2> QED
        BY <2>2, <2>3 DEF ListTypeOK, TypeOK
<1> QED
    BY <1>1, <1>2

LEMMA EofType ==
    ASSUME TypeOK
    PROVE  /\ Eof \in Token /\ Eof.type = "EOF" /\ Eof.depth = 0
           /\ Eof.line = Len(lines) + 1 /\ Eof.value = << >>
<1>1. Len(lines) \in Nat
    BY LenProperties DEF TypeOK
<1> QED
    BY <1>1 DEF Eof, Token, TokenType

LEMMA TypeOKStep ==
    TypeOK /\ capacity # 0 /\ [Next]_vars => (TypeOK /\ capacity # 0)'
<1> SUFFICES ASSUME TypeOK, capacity # 0, [Next]_vars
             PROVE  (TypeOK /\ capacity # 0)'
    OBVIOUS
<1>0. Len(lines) \in Nat /\ lines \in Seq(Seq(Char)) /\ current_line \in 1 .. Len(lines) + 1
    BY LenProperties DEF TypeOK
<1>1. ASSUME NEW type, NEW first, NEW past, NEW col, Scanned(type, first, past, col)
      PROVE  (TypeOK /\ capacity # 0)'
    <2>1. ListTypeOK'
        BY <1>1, TokenCut, ListTypeStep
    <2>2. InLine /\ UNCHANGED lines /\ Line \in Seq(Char) /\ Len(Line) \in Nat
          /\ current_line \in 1 .. Len(lines)
        BY <1>1, LineFacts DEF Scanned
    <2>3. CASE NextLine
        <3>1. current_line' \in 1 .. Len(lines) + 1 /\ mode' = "line" /\ column' = column
            BY <1>0, <2>2, <2>3 DEF NextLine
        <3> QED
            BY <1>0, <2>1, <2>2, <3>1 DEF TypeOK, ListTypeOK
    <2>4. CASE /\ mode \in { "main", "text" } /\ UNCHANGED << mode, current_line >>
               /\ pos' \in past .. Len(Line) + 1 /\ column' \in Nat
        <3>1. pos' \in 1 .. Len(Line) + 1
            BY <1>1, <2>2, <2>4 DEF Scanned
        <3>2. InLine' /\ Line' = Line
            BY <2>2, <2>4 DEF InLine, Line
        <3> QED
            BY <1>0, <2>1, <2>2, <2>4, <3>1, <3>2 DEF TypeOK, ListTypeOK
    <2> QED
        BY <1>1, <2>3, <2>4 DEF Scanned
<1>2. CASE PassedOver
    <2>1. /\ InLine /\ UNCHANGED << lines, token_list, capacity, spans, faults >>
          /\ Line \in Seq(Char) /\ Len(Line) \in Nat
          /\ current_line \in 1 .. Len(lines)
        BY <1>2, LineFacts DEF PassedOver, list
    <2>2. CASE NextLine
        <3>1. current_line' \in 1 .. Len(lines) + 1 /\ mode' = "line" /\ column' = column
            BY <1>0, <2>1, <2>2 DEF NextLine
        <3> QED
            BY <1>0, <2>1, <3>1 DEF TypeOK
    <2>3. CASE ~ NextLine
        <3>1. /\ mode' \in { "main", "text" } /\ UNCHANGED current_line
              /\ pos' \in 1 .. Len(Line) + 1 /\ column' \in Nat
            <4>1. mode \in { "main", "text" } => pos \in 1 .. Len(Line) + 1 /\ column \in Nat
                BY DEF TypeOK
            <4> QED
                BY <1>2, <2>1, <2>3, <4>1 DEF PassedOver
        <3>2. InLine' /\ Line' = Line
            BY <2>1, <3>1 DEF InLine, Line
        <3> QED
            BY <1>0, <2>1, <3>1, <3>2 DEF TypeOK
    <2> QED
        BY <2>2, <2>3
<1>3. CASE AddEof
    <2>1. ListTypeOK'
        BY <1>3, EofType, ListTypeStep DEF AddEof, Add
    <2> QED
        BY <1>0, <1>3, <2>1 DEF AddEof, TypeOK, ListTypeOK
<1>4. CASE UNCHANGED vars
    BY <1>4 DEF vars, list, TypeOK, InLine, Line
<1> QED
    BY <1>1, <1>2, <1>3, <1>4, Steps

(* What tokenize_file begins with, whatever has failed before.              *)
Begin ==
    /\ lines \in Documents /\ faults \in 0 .. MaxFaults
    /\ current_line = 1 /\ mode = "line" /\ pos = 1 /\ column = 1
    /\ token_list = << >> /\ capacity = ListCapacity /\ spans = << >>

LEMMA InitBegins == Init => Begin
BY TokenizerAssumption DEF Init, Begin, TokenizerAssumption

LEMMA TypeOKBegin == Begin => TypeOK /\ capacity # 0
<1> SUFFICES ASSUME Begin PROVE TypeOK /\ capacity # 0
    OBVIOUS
<1>1. lines \in Seq(Seq(Char))
    BY TokenizerAssumption DEF Begin, TokenizerAssumption
<1>2. Len(lines) \in Nat
    BY <1>1, LenProperties
<1>3. << >> \in Seq(Token) /\ << >> \in Seq(Nat \X Nat) /\ Len(<< >>) = 0
    OBVIOUS
<1> QED
    BY <1>1, <1>2, <1>3, TokenizerAssumption DEF Begin, TypeOK, TokenizerAssumption

(* For all documents the state is well typed: the position never passes the *)
(* end of the line, and the list holds no more tokens than it has room for. *)
THEOREM TypeCorrect == Spec => []TypeOK
<1>1. Spec => [](TypeOK /\ capacity # 0)
    BY InitBegins, TypeOKBegin, TypeOKStep, PTL DEF Spec
<1> QED
    BY <1>1, PTL

-----------------------------------------------------------------------------
(***************************************************************************)
(* CutInOrder.  When a line is begun no token of it is in the list, and    *)
(* while it is read all of its tokens lie before the position.             *)
(***************************************************************************)

(* What mode, position and line say about the tokens in the list.          *)
PastTokens ==
    \A j \in DOMAIN token_list :
        LET t == token_list[j]
        IN  /\ t.line <= current_line
            /\ mode = "line" => t.line < current_line
            /\ mode # "done" => t.type # "EOF"
            /\ t.type # "EOF" => t.line <= Len(lines) /\ t.depth = IndentLevel(lines[t.line])
            /\ t.type \in DirectiveType => t.line < current_line
            /\ mode = "main" /\ t.line = current_line => t.type \notin RunType

CutInv == TypeOK /\ capacity # 0 /\ PastTokens /\ CutInOrder

LEMMA ListFacts ==
    ASSUME TypeOK
    PROVE  LET k == Len(token_list)
           IN  /\ k \in Nat /\ DOMAIN token_list = 1 .. k /\ DOMAIN spans = 1 .. k
               /\ \A j \in 1 .. k : /\ token_list[j] \in Token
                                    /\ token_list[j].line \in Nat
                                    /\ spans[j][1] \in Nat /\ spans[j][2] \in Nat
               /\ Len(lines) \in Nat /\ current_line \in Nat
<1>1. /\ token_list \in Seq(Token) /\ spans \in Seq(Nat \X Nat)
      /\ Len(spans) = Len(token_list)
    BY DEF TypeOK
<1>2. /\ Len(token_list) \in Nat /\ DOMAIN token_list = 1 .. Len(token_list)
      /\ DOMAIN spans = 1 .. Len(token_list)
    BY <1>1, LenProperties
<1>3. \A j \in 1 .. Len(token_list) : token_list[j] \in Token /\ spans[j] \in Nat \X Nat
    BY <1>1, ElementOfSeq
<1>4. Len(lines) \in Nat /\ current_line \in Nat
    BY LenProperties DEF TypeOK
<1>5. \A j \in 1 .. Len(token_list) : spans[j][1] \in Nat /\ spans[j][2] \in Nat
    BY <1>3
<1> QED
    BY <1>2, <1>3, <1>4, <1>5 DEF Token

(* Nothing is stored, and the tokens of the line stay behind the position. *)
LEMMA CutInvKept ==
    ASSUME CutInv, UNCHANGED << lines, token_list, spans >>, mode' # "done",
           mode # "done", current_line' \in Nat,
           \/ current_line' = current_line + 1
           \/ /\ current_line' = current_line /\ mode' # "line"
              /\ mode = "line" \/ (pos \in Nat /\ pos' \in Nat /\ pos <= pos')
              /\ mode' = "main" => mode \in { "line", "main" }
    PROVE  PastTokens' /\ CutInOrder'
<1>1. LET k == Len(token_list)
      IN  /\ k \in Nat /\ DOMAIN token_list = 1 .. k /\ DOMAIN spans = 1 .. k
          /\ \A j \in 1 .. k : token_list[j].line \in Nat /\ spans[j][2] \in Nat
          /\ current_line \in Nat
    BY ListFacts DEF CutInv
<1>2. PastTokens'
    BY <1>1 DEF CutInv, PastTokens
<1>3. CutInOrder'
    <2> SUFFICES ASSUME NEW j \in DOMAIN spans
                 PROVE  /\ spans[j][1] <= spans[j][2]
                        /\ \A i \in 1 .. j - 1 :
                              SameLine(token_list, i, j) => spans[i][2] <= spans[j][1]
                        /\ token_list[j].line = current_line' => spans[j][2] <= pos'
        BY DEF CutInOrder
    <2>1. /\ spans[j][1] <= spans[j][2]
          /\ \A i \in 1 .. j - 1 : SameLine(token_list, i, j) => spans[i][2] <= spans[j][1]
          /\ token_list[j].line = current_line => spans[j][2] <= pos
        BY DEF CutInv, CutInOrder
    <2>2. token_list[j].line <= current_line
          /\ (mode = "line" => token_list[j].line < current_line)
        BY <1>1 DEF CutInv, PastTokens
    <2>3. token_list[j].line = current_line' => spans[j][2] <= pos'
        BY <1>1, <2>1, <2>2
    <2> QED
        BY <2>1, <2>3
<1> QED
    BY <1>2, <1>3

LEMMA CutInvStored ==
    ASSUME CutInv, NEW type, NEW first, NEW past, NEW col,
           Scanned(type, first, past, col),
           Store(NewToken(type, first, past, col), first, past)
    PROVE  PastTokens' /\ CutInOrder'
<1> DEFINE k == Len(token_list)
           t == NewToken(type, first, past, col)
<1>1. /\ k \in Nat /\ DOMAIN token_list = 1 .. k /\ DOMAIN spans = 1 .. k
      /\ \A j \in 1 .. k : /\ token_list[j].line \in Nat
                           /\ spans[j][1] \in Nat /\ spans[j][2] \in Nat
      /\ Len(lines) \in Nat /\ current_line \in Nat
    BY ListFacts DEF CutInv
<1>2. /\ t \in Token /\ first \in Nat /\ past \in Nat /\ t.type = type
      /\ t.line = current_line /\ t.depth = IndentLevel(Line)
      /\ type \in DirectiveType \cup PieceType \cup RunType
    BY TokenCut DEF CutInv
<1>3. /\ DOMAIN token_list' = 1 .. k + 1 /\ DOMAIN spans' = 1 .. k + 1
      /\ \A i \in 1 .. k : token_list'[i] = token_list[i] /\ spans'[i] = spans[i]
      /\ token_list'[k + 1] = t /\ spans'[k + 1] = << first, past >>
    BY <1>2, StoreFacts DEF CutInv
<1> HIDE DEF k, t
<1>4. /\ InLine /\ UNCHANGED lines /\ first <= past
      /\ mode \in { "line", "main", "text" }
      /\ \/ /\ mode = "line" /\ type \in DirectiveType
            /\ current_line' = current_line + 1 /\ mode' = "line"
         \/ /\ \/ mode = "main" /\ type \in PieceType
               \/ mode = "text" /\ type \in RunType
            /\ mode' = mode /\ current_line' = current_line
            /\ pos \in Nat /\ pos' \in Nat /\ pos <= first /\ past <= pos'
    <2>1. Len(Line) \in Nat
        BY LineFacts DEF CutInv, Scanned
    <2>2. mode \in { "main", "text" } => pos \in Nat
        BY <2>1 DEF CutInv, TypeOK
    <2>3. /\ InLine /\ UNCHANGED lines
          /\ first \in 1 .. Len(Line) + 1 /\ past \in first .. Len(Line) + 1
          /\ \/ mode = "line" /\ type \in DirectiveType /\ NextLine
             \/ /\ \/ mode = "main" /\ type \in PieceType
                   \/ mode = "text" /\ type \in RunType
                /\ UNCHANGED << mode, current_line >>
                /\ pos <= first /\ pos' \in past .. Len(Line) + 1
        BY DEF Scanned
    <2>4. CASE mode = "line" /\ type \in DirectiveType /\ NextLine
        BY <2>1, <2>3, <2>4 DEF NextLine
    <2>5. CASE /\ \/ mode = "main" /\ type \in PieceType
                  \/ mode = "text" /\ type \in RunType
               /\ UNCHANGED << mode, current_line >>
               /\ pos <= first /\ pos' \in past .. Len(Line) + 1
        BY <2>1, <2>2, <2>3, <2>5
    <2> QED
        BY <2>3, <2>4, <2>5
<1>5. \A i \in 1 .. k : /\ token_list[i].line <= current_line
                        /\ mode = "line" => token_list[i].line < current_line
    BY <1>1 DEF CutInv, PastTokens
<1>6. /\ PieceType \cap RunType = {} /\ PieceType \cap DirectiveType = {}
      /\ RunType \cap DirectiveType = {}
      /\ "EOF" \notin DirectiveType \cup PieceType \cup RunType
    BY DEF PieceType, RunType, DirectiveType
<1>7. PastTokens'
    <2> SUFFICES ASSUME NEW j \in 1 .. k + 1
                 PROVE  LET u == token_list'[j]
                        IN  /\ u.line <= current_line'
                            /\ mode' = "line" => u.line < current_line'
                            /\ mode' # "done" => u.type # "EOF"
                            /\ u.type # "EOF" => u.line <= Len(lines) /\ u.depth = IndentLevel(lines[u.line])
                            /\ u.type \in DirectiveType => u.line < current_line'
                            /\ mode' = "main" /\ u.line = current_line' => u.type \notin RunType
        BY <1>3, <1>4 DEF PastTokens
    <2>1. CASE j \in 1 .. k
        <3>1. LET u == token_list[j]
              IN  /\ u.line \in Nat /\ u.line <= current_line
                  /\ mode = "line" => u.line < current_line
                  /\ u.type # "EOF"
                  /\ u.line <= Len(lines) /\ u.depth = IndentLevel(lines[u.line])
                  /\ u.type \in DirectiveType => u.line < current_line
                  /\ mode = "main" /\ u.line = current_line => u.type \notin RunType
            BY <1>1, <1>4, <2>1 DEF CutInv, PastTokens
        <3> QED
            BY <1>1, <1>3, <1>4, <2>1, <3>1
    <2>2. CASE j = k + 1
        <3>1. current_line <= Len(lines) /\ Line = lines[current_line]
            BY <1>4 DEF InLine, Line
        <3> QED
            BY <1>1, <1>2, <1>3, <1>4, <1>6, <2>2, <3>1
    <2> QED
        BY <1>1, <2>1, <2>2
<1>8. CutInOrder'
    <2> SUFFICES ASSUME NEW j \in 1 .. k + 1
                 PROVE  /\ spans'[j][1] <= spans'[j][2]
                        /\ \A i \in 1 .. j - 1 :
                              token_list'[i].line = token_list'[j].line
                                  => spans'[i][2] <= spans'[j][1]
                        /\ token_list'[j].line = current_line' => spans'[j][2] <= pos'
        BY <1>3, <1>4 DEF CutInOrder, SameLine
    <2>1. \A i \in 1 .. k :
             /\ spans[i][1] <= spans[i][2]
             /\ \A h \in 1 .. i - 1 :
                   token_list[h].line = token_list[i].line => spans[h][2] <= spans[i][1]
             /\ token_list[i].line = current_line => spans[i][2] <= pos
        BY <1>1, <1>4 DEF CutInv, CutInOrder, SameLine
    <2>2. CASE j \in 1 .. k
        <3>1. \A i \in 1 .. j - 1 : i \in 1 .. k
            BY <1>1, <2>2
        <3>2. token_list[j].line = current_line' => spans[j][2] <= pos'
            BY <1>1, <1>2, <1>4, <1>5, <2>1, <2>2
        <3> QED
            BY <1>3, <2>1, <2>2, <3>1, <3>2
    <2>3. CASE j = k + 1
        <3>1. spans'[j][1] = first /\ spans'[j][2] = past /\ token_list'[j].line = current_line
            BY <1>2, <1>3, <2>3
        <3>2. ASSUME NEW i \in 1 .. k, token_list[i].line = current_line
              PROVE  spans[i][2] <= first
            <4>1. mode # "line"
                BY <1>1, <1>5, <3>2
            <4>2. spans[i][2] <= pos
                BY <2>1, <3>2
            <4> QED
                BY <1>1, <1>2, <1>4, <4>1, <4>2
        <3>3. current_line = current_line' => past <= pos'
            BY <1>1, <1>4
        <3>4. j - 1 = k
            BY <1>1, <2>3
        <3> QED
            BY <1>3, <1>4, <3>1, <3>2, <3>3, <3>4
    <2> QED
        BY <1>1, <2>2, <2>3
<1> QED
    BY <1>7, <1>8

LEMMA CutInvEof ==
    ASSUME CutInv, AddEof
    PROVE  PastTokens' /\ CutInOrder'
<1> DEFINE k == Len(token_list)
<1>1. /\ k \in Nat /\ DOMAIN token_list = 1 .. k /\ DOMAIN spans = 1 .. k
      /\ \A j \in 1 .. k : token_list[j].line \in Nat
      /\ Len(lines) \in Nat /\ current_line \in Nat
    BY ListFacts DEF CutInv
<1>2. /\ mode = "line" /\ mode' = "done" /\ UNCHANGED << lines, current_line >>
      /\ Store(Eof, 0, 0) \/ Lose
    BY DEF AddEof, Add
<1>3. current_line = Len(lines) + 1
    BY <1>1, <1>2 DEF CutInv, TypeOK, AddEof, InLine
<1>4. \A j \in 1 .. k :
         /\ token_list[j].line < current_line /\ token_list[j].type # "EOF"
         /\ token_list[j].line <= Len(lines)
         /\ token_list[j].depth = IndentLevel(lines[token_list[j].line])
    BY <1>1, <1>2 DEF CutInv, PastTokens
<1>5. \A j \in 1 .. k :
         /\ spans[j][1] <= spans[j][2]
         /\ \A i \in 1 .. j - 1 :
               token_list[i].line = token_list[j].line => spans[i][2] <= spans[j][1]
    BY <1>1 DEF CutInv, CutInOrder, SameLine
<1>6. CASE Store(Eof, 0, 0)
    <2>1. /\ DOMAIN token_list' = 1 .. k + 1 /\ DOMAIN spans' = 1 .. k + 1
          /\ \A i \in 1 .. k : token_list'[i] = token_list[i] /\ spans'[i] = spans[i]
          /\ token_list'[k + 1] = Eof /\ spans'[k + 1] = << 0, 0 >>
        BY <1>6, EofType, StoreFacts DEF CutInv
    <2>2. Eof.type = "EOF" /\ Eof.line = current_line
        BY <1>3, EofType DEF CutInv
    <2> HIDE DEF k
    <2>3. PastTokens'
        <3> SUFFICES ASSUME NEW j \in 1 .. k + 1
                     PROVE  LET u == token_list'[j]
                            IN  /\ u.line <= current_line
                                /\ u.type # "EOF" => /\ u.line <= Len(lines)
                                                     /\ u.depth = IndentLevel(lines[u.line])
                                /\ u.type \in DirectiveType => u.line < current_line
            BY <1>2, <2>1 DEF PastTokens
        <3>1. CASE j \in 1 .. k
            BY <1>1, <1>4, <2>1, <3>1
        <3>2. CASE j = k + 1
            BY <1>1, <2>1, <2>2, <3>2 DEF DirectiveType
        <3> QED
            BY <1>1, <3>1, <3>2
    <2>4. CutInOrder'
        <3> SUFFICES ASSUME NEW j \in 1 .. k + 1
                     PROVE  /\ spans'[j][1] <= spans'[j][2]
                            /\ \A i \in 1 .. j - 1 :
                                  token_list'[i].line = token_list'[j].line
                                      => spans'[i][2] <= spans'[j][1]
            BY <1>2, <2>1 DEF CutInOrder, SameLine
        <3>1. CASE j \in 1 .. k
            <4>1. \A i \in 1 .. j - 1 : i \in 1 .. k
                BY <1>1, <3>1
            <4> QED
                BY <1>5, <2>1, <3>1, <4>1
        <3>2. CASE j = k + 1
            <4>1. \A i \in 1 .. j - 1 : i \in 1 .. k
                BY <1>1, <3>2
            <4>2. \A i \in 1 .. j - 1 : token_list'[i].line # token_list'[j].line
                BY <1>1, <1>4, <2>1, <2>2, <3>2, <4>1
            <4> QED
                BY <2>1, <3>2, <4>2
        <3> QED
            BY <1>1, <3>1, <3>2
    <2> QED
        BY <2>3, <2>4
<1>7. CASE Lose
    <2>1. UNCHANGED << token_list, spans >>
        BY <1>7 DEF Lose
    <2>2. PastTokens'
        BY <1>1, <1>2, <1>4, <2>1 DEF PastTokens, CutInv
    <2> QED
        BY <1>1, <1>2, <1>5, <2>1, <2>2 DEF CutInOrder, SameLine
<1> QED
    BY <1>2, <1>6, <1>7

LEMMA CutInvStep == CutInv /\ [Next]_vars => CutInv'
<1> SUFFICES ASSUME CutInv, [Next]_vars PROVE PastTokens' /\ CutInOrder'
    BY TypeOKStep DEF CutInv
<1>1. ASSUME NEW type, NEW first, NEW past, NEW col, Scanned(type, first, past, col)
      PROVE  PastTokens' /\ CutInOrder'
    <2>1. CASE Store(NewToken(type, first, past, col), first, past)
        BY <1>1, <2>1, CutInvStored
    <2>2. CASE Lose
        <3>1. /\ UNCHANGED << token_list, spans, lines >> /\ current_line \in Nat
              /\ mode \in { "line", "main", "text" } /\ Len(Line) \in Nat
              /\ first \in 1 .. Len(Line) + 1 /\ past \in first .. Len(Line) + 1
            BY <1>1, <2>2, LineFacts DEF Lose, Scanned, CutInv
        <3>2. \/ current_line' = current_line + 1 /\ mode' = "line"
              \/ /\ mode \in { "main", "text" } /\ UNCHANGED << mode, current_line >>
                 /\ pos <= first /\ pos' \in past .. Len(Line) + 1
            BY <1>1 DEF Scanned, NextLine
        <3>3. mode \in { "main", "text" } => pos \in Nat
            BY <3>1 DEF CutInv, TypeOK
        <3> QED
            BY <3>1, <3>2, <3>3, CutInvKept
    <2> QED
        BY <1>1, <2>1, <2>2, TokenCut DEF CutInv
<1>2. CASE PassedOver
    <2>1. /\ UNCHANGED << token_list, spans, lines >> /\ current_line \in Nat
          /\ mode \in { "line", "main", "text" } /\ Len(Line) \in Nat
        BY <1>2, LineFacts DEF PassedOver, list, CutInv, NextLine
    <2>2. mode \in { "main", "text" } => pos \in Nat
        BY <2>1 DEF CutInv, TypeOK
    <2>3. \/ current_line' = current_line + 1 /\ mode' = "line"
          \/ mode = "line" /\ mode' = "main" /\ UNCHANGED current_line
          \/ /\ mode \in { "main", "text" } /\ UNCHANGED current_line
             /\ mode' = mode \/ mode' = "text"
             /\ pos' \in pos + 1 .. Len(Line) + 1
        BY <1>2 DEF PassedOver, NextLine
    <2> QED
        BY <2>1, <2>2, <2>3, CutInvKept
<1>3. CASE AddEof
    BY <1>3, CutInvEof
<1>4. CASE UNCHANGED vars
    BY <1>4 DEF vars, list, CutInv, PastTokens, CutInOrder, SameLine
<1> QED
    BY <1>1, <1>2, <1>3, <1>4, Steps DEF CutInv

LEMMA CutInvBegin == Begin => CutInv
<1> SUFFICES ASSUME Begin PROVE CutInv
    OBVIOUS
<1>1. DOMAIN token_list = {} /\ DOMAIN spans = {}
    BY DEF Begin
<1> QED
    BY <1>1, TypeOKBegin DEF CutInv, PastTokens, CutInOrder

LEMMA CutInvInit == Init => CutInv
BY InitBegins, CutInvBegin

(* For all documents, and whatever allocations fail: no character is in two *)
(* tokens, and the tokens of a line come in the order of their values.      *)
THEOREM CutsInOrder == Spec => []CutInOrder
<1>1. Spec => []CutInv
    BY CutInvInit, CutInvStep, PTL DEF Spec
<1>2. CutInv => CutInOrder
    BY DEF CutInv
<1> QED
    BY <1>1, <1>2, PTL

-----------------------------------------------------------------------------
(***************************************************************************)
(* The order of the source: tokens come line by line, the values of a line *)
(* begin further and further to the right, and nothing comes behind EOF.   *)
(* A value is empty only behind a mark, and then the position is settled:  *)
(* no value begins there any more.                                         *)
(***************************************************************************)
Rising ==
    \A j \in DOMAIN token_list : \A i \in 1 .. j - 1 :
        /\ token_list[i].type # "EOF"
        /\ token_list[i].line <= token_list[j].line
        /\ token_list[i].line = token_list[j].line => spans[i][1] < spans[j][1]

BegunBefore(p) ==
    \A j \in DOMAIN token_list :
        token_list[j].line = current_line =>
            spans[j][1] < p \/ (spans[j][1] = p /\ Settled(p))

(* Where a value begins: in its line, which the end of the line belongs to. *)
Fits(token, first) ==
    IF token.type = "EOF" THEN token.depth = 0
    ELSE /\ token.line \in DOMAIN lines
         /\ first \in 1 .. Len(lines[token.line]) + 1
Placed == \A j \in DOMAIN token_list : Fits(token_list[j], spans[j][1])

RisingInv ==
    /\ CutInv
    /\ Rising
    /\ mode \in { "main", "text" } => BegunBefore(pos)
    /\ Placed

LEMMA RisingStored ==
    ASSUME RisingInv, NEW token \in Token, NEW first \in Nat, NEW past \in Nat,
           Store(token, first, past),
           \A i \in DOMAIN token_list :
               /\ token_list[i].type # "EOF"
               /\ token_list[i].line <= token.line
               /\ token_list[i].line = token.line => spans[i][1] < first
    PROVE  LET k == Len(token_list)
           IN  /\ Rising'
               /\ k \in Nat /\ DOMAIN token_list = 1 .. k
               /\ DOMAIN token_list' = 1 .. k + 1
               /\ \A i \in 1 .. k : token_list'[i] = token_list[i] /\ spans'[i] = spans[i]
               /\ token_list'[k + 1] = token /\ spans'[k + 1] = << first, past >>
<1>1. PICK k : k = Len(token_list)
    OBVIOUS
<1>2. /\ k \in Nat /\ DOMAIN token_list = 1 .. k /\ DOMAIN token_list' = 1 .. k + 1
      /\ \A i \in 1 .. k : token_list'[i] = token_list[i] /\ spans'[i] = spans[i]
      /\ token_list'[k + 1] = token /\ spans'[k + 1] = << first, past >>
    BY <1>1, StoreFacts DEF RisingInv, CutInv
<1>3. Rising'
    <2> SUFFICES ASSUME NEW j \in 1 .. k + 1, NEW i \in 1 .. j - 1
                 PROVE  LET u == token_list'[i]
                            v == token_list'[j]
                        IN  /\ u.type # "EOF" /\ u.line <= v.line
                            /\ u.line = v.line => spans'[i][1] < spans'[j][1]
        BY <1>2 DEF Rising
    <2>1. i \in 1 .. k /\ token_list'[i] = token_list[i] /\ spans'[i] = spans[i]
        BY <1>2
    <2>2. CASE j \in 1 .. k
        <3>1. token_list'[j] = token_list[j] /\ spans'[j] = spans[j]
            BY <1>2, <2>2
        <3> QED
            BY <1>2, <2>1, <2>2, <3>1 DEF RisingInv, Rising
    <2>3. CASE j = k + 1
        <3>1. spans'[j][1] = first /\ token_list'[j] = token
            BY <1>2, <2>3
        <3> QED
            BY <1>2, <2>1, <3>1
    <2> QED
        BY <1>2, <2>2, <2>3
<1> QED
    BY <1>1, <1>2, <1>3

LEMMA RisingScanned ==
    ASSUME RisingInv, CutInv', NEW type, NEW first, NEW past, NEW col,
           Scanned(type, first, past, col)
    PROVE  RisingInv'
<1> DEFINE token == NewToken(type, first, past, col)
<1>1. /\ token \in Token /\ first \in Nat /\ past \in Nat /\ token.line = current_line
      /\ token.type # "EOF"
      /\ Store(token, first, past) \/ Lose
    <2>1. /\ token \in Token /\ first \in Nat /\ past \in Nat /\ token.line = current_line
          /\ token.type = type /\ type \in DirectiveType \cup PieceType \cup RunType
          /\ Store(token, first, past) \/ Lose
        BY TokenCut DEF RisingInv, CutInv
    <2> HIDE DEF token
    <2> QED
        BY <2>1 DEF DirectiveType, PieceType, RunType
<1> HIDE DEF token
<1>2. /\ Len(Line) \in Nat /\ current_line \in Nat
      /\ first \in 1 .. Len(Line) + 1 /\ past \in first .. Len(Line) + 1
      /\ \/ mode = "line" /\ current_line' = current_line + 1 /\ mode' = "line"
         \/ /\ mode \in { "main", "text" } /\ UNCHANGED << mode, current_line, lines >>
            /\ pos <= first /\ pos' \in past .. Len(Line) + 1
            /\ pos < first \/ ~ Settled(pos)
            /\ first < pos' \/ Settled(pos')
    BY LineFacts DEF Scanned, NextLine, RisingInv, CutInv
<1>9. /\ UNCHANGED lines /\ current_line \in DOMAIN lines
      /\ first \in 1 .. Len(lines[current_line]) + 1
    <2>1. UNCHANGED lines /\ current_line \in 1 .. Len(lines)
        BY LineFacts DEF Scanned, RisingInv, CutInv
    <2>2. lines \in Seq(Seq(Char))
        BY DEF RisingInv, CutInv, TypeOK
    <2> QED
        BY <1>2, <2>1, <2>2 DEF Line
<1>3. mode \in { "main", "text" } => pos \in Nat
    <2>1. Len(Line) \in Nat
        BY <1>2
    <2>2. mode \in { "main", "text" } => pos \in 1 .. Len(Line) + 1
        BY DEF RisingInv, CutInv, TypeOK
    <2> QED
        BY <2>1, <2>2
<1>4. \A j \in DOMAIN token_list :
         /\ token_list[j].line \in Nat /\ spans[j][1] \in Nat
         /\ token_list[j].type # "EOF" /\ token_list[j].line <= current_line
         /\ mode = "line" => token_list[j].line < current_line
    BY <1>2, ListFacts DEF RisingInv, CutInv, PastTokens
<1>5. \A i \in DOMAIN token_list :
         token_list[i].line = current_line => spans[i][1] < first
    <2> SUFFICES ASSUME NEW i \in DOMAIN token_list, token_list[i].line = current_line
                 PROVE  spans[i][1] < first
        OBVIOUS
    <2>1. mode \in { "main", "text" } /\ spans[i][1] \in Nat
        BY <1>2, <1>4
    <2>2. spans[i][1] < pos \/ (spans[i][1] = pos /\ Settled(pos))
        BY <2>1 DEF RisingInv, BegunBefore
    <2> QED
        BY <1>1, <1>2, <1>3, <2>1, <2>2
<1>6. mode' \in { "main", "text" } =>
         /\ current_line' = current_line
         /\ first < pos' \/ (first = pos' /\ Settled(pos)')
    <2> SUFFICES ASSUME mode' \in { "main", "text" }
                 PROVE  /\ current_line' = current_line
                        /\ first < pos' \/ (first = pos' /\ Settled(pos)')
        OBVIOUS
    <2>1. /\ UNCHANGED << mode, current_line, lines >> /\ pos' \in past .. Len(Line) + 1
          /\ first < pos' \/ Settled(pos')
        BY <1>2
    <2>2. first <= pos' /\ pos' \in Nat
        BY <1>1, <1>2, <2>1
    <2>3. Settled(pos') => Settled(pos)'
        BY <2>1 DEF Settled, Line
    <2> QED
        BY <1>1, <2>1, <2>2, <2>3
<1>7. CASE Store(token, first, past)
    <2>1. PICK k : k = Len(token_list)
        OBVIOUS
    <2>2. /\ Rising' /\ k \in Nat /\ DOMAIN token_list = 1 .. k
          /\ DOMAIN token_list' = 1 .. k + 1
          /\ \A i \in 1 .. k : token_list'[i] = token_list[i] /\ spans'[i] = spans[i]
          /\ token_list'[k + 1] = token /\ spans'[k + 1] = << first, past >>
        BY <1>1, <1>4, <1>5, <1>7, <2>1, RisingStored
    <2>3. mode' \in { "main", "text" } => BegunBefore(pos)'
        <3> SUFFICES ASSUME mode' \in { "main", "text" }, NEW j \in 1 .. k + 1,
                            token_list'[j].line = current_line'
                     PROVE  spans'[j][1] < pos' \/ (spans'[j][1] = pos' /\ Settled(pos)')
            BY <2>2 DEF BegunBefore
        <3>1. CASE j \in 1 .. k
            <4>1. spans'[j][1] < first /\ spans'[j][1] \in Nat
                BY <1>4, <1>5, <1>6, <2>2, <3>1
            <4>2. first <= pos' /\ pos' \in Nat
                BY <1>1, <1>2, <1>6
            <4> QED
                BY <1>1, <4>1, <4>2
        <3>2. CASE j = k + 1
            BY <1>6, <2>2, <3>2
        <3> QED
            BY <2>2, <3>1, <3>2
    <2>4. \A j \in 1 .. k + 1 : Fits(token_list'[j], spans'[j][1])
        <3> TAKE j \in 1 .. k + 1
        <3>1. CASE j \in 1 .. k
            BY <2>2, <3>1 DEF RisingInv, Placed
        <3>2. CASE j = k + 1
            <4>1. token_list'[j] = token /\ spans'[j][1] = first
                BY <2>2, <3>2
            <4> QED
                BY <1>1, <1>9, <4>1 DEF Fits
        <3> QED
            BY <2>2, <3>1, <3>2
    <2>5. Placed'
        BY <1>9, <2>2, <2>4 DEF Placed, Fits
    <2> QED
        BY <2>2, <2>3, <2>5 DEF RisingInv
<1>8. CASE Lose
    <2>1. UNCHANGED << token_list, spans >>
        BY <1>8 DEF Lose
    <2>2. Rising' /\ Placed'
        BY <1>9, <2>1 DEF RisingInv, Rising, Placed, Fits
    <2>3. mode' \in { "main", "text" } => BegunBefore(pos)'
        <3> SUFFICES ASSUME mode' \in { "main", "text" }, NEW j \in DOMAIN token_list,
                            token_list[j].line = current_line'
                     PROVE  spans[j][1] < pos'
            BY <2>1 DEF BegunBefore
        <3>1. spans[j][1] < first /\ spans[j][1] \in Nat
            BY <1>4, <1>5, <1>6
        <3>2. first <= pos' /\ pos' \in Nat
            BY <1>1, <1>2, <1>6
        <3> QED
            BY <1>1, <3>1, <3>2
    <2> QED
        BY <1>4, <2>1, <2>2, <2>3 DEF RisingInv
<1> QED
    BY <1>1, <1>7, <1>8

LEMMA RisingStep == RisingInv /\ [Next]_vars => RisingInv'
<1> SUFFICES ASSUME RisingInv, [Next]_vars PROVE RisingInv'
    OBVIOUS
<1>1. CutInv /\ CutInv' /\ TypeOK
    BY CutInvStep DEF RisingInv, CutInv
<1>2. ASSUME NEW type, NEW first, NEW past, NEW col, Scanned(type, first, past, col)
      PROVE  RisingInv'
    BY <1>1, <1>2, RisingScanned
<1>3. CASE PassedOver
    <2>1. UNCHANGED << lines, token_list, spans >>
        BY <1>3 DEF PassedOver, list
    <2>2. Rising' /\ Placed'
        BY <2>1 DEF RisingInv, Rising, Placed, Fits
    <2>3. /\ Len(Line) \in Nat
          /\ \/ mode' = "line"
             \/ mode = "line" /\ UNCHANGED current_line
             \/ /\ mode \in { "main", "text" } /\ UNCHANGED current_line
                /\ pos' \in pos + 1 .. Len(Line) + 1
        BY <1>1, <1>3, LineFacts DEF PassedOver, NextLine
    <2>4. /\ mode \in { "main", "text" } => pos \in Nat
          /\ \A j \in DOMAIN token_list : spans[j][1] \in Nat
        <3>1. Len(Line) \in Nat
            BY <2>3
        <3>2. mode \in { "main", "text" } => pos \in Nat
            BY <1>1, <3>1 DEF TypeOK
        <3> QED
            BY <1>1, <3>2, ListFacts
    <2>5. ASSUME mode' \in { "main", "text" }
          PROVE  BegunBefore(pos)'
        <3> SUFFICES ASSUME NEW j \in DOMAIN token_list, token_list[j].line = current_line'
                     PROVE  spans[j][1] < pos'
            BY <2>1 DEF BegunBefore
        <3>1. UNCHANGED current_line
            BY <2>3, <2>5
        <3>2. mode # "line"
            BY <1>1, <3>1, ListFacts DEF CutInv, PastTokens
        <3>3. pos' \in pos + 1 .. Len(Line) + 1 /\ mode \in { "main", "text" }
            BY <2>3, <2>5, <3>2
        <3>4. spans[j][1] <= pos
            BY <2>4, <3>1, <3>3 DEF RisingInv, BegunBefore
        <3> QED
            BY <2>3, <2>4, <3>3, <3>4
    <2> QED
        BY <1>1, <2>1, <2>2, <2>5 DEF RisingInv
<1>4. CASE AddEof
    <2>1. /\ mode = "line" /\ mode' = "done" /\ UNCHANGED current_line
          /\ Store(Eof, 0, 0) \/ Lose
        BY <1>4 DEF AddEof, Add
    <2>2. CASE Store(Eof, 0, 0)
        <3>1. /\ Eof \in Token /\ Eof.line = current_line /\ Eof.depth = 0
              /\ current_line \in Nat
            <4>1. current_line = Len(lines) + 1 /\ current_line \in Nat
                BY <1>1, <1>4, ListFacts DEF AddEof, InLine, TypeOK
            <4> QED
                BY <1>1, <4>1, EofType DEF Eof
        <3>2. \A j \in DOMAIN token_list :
                 /\ token_list[j].line \in Nat /\ token_list[j].line < current_line
                 /\ token_list[j].type # "EOF"
            BY <1>1, <2>1, ListFacts DEF CutInv, PastTokens
        <3>3. PICK k : k = Len(token_list)
            OBVIOUS
        <3>4. \A j \in DOMAIN token_list :
                 /\ token_list[j].type # "EOF" /\ token_list[j].line <= Eof.line
                 /\ token_list[j].line = Eof.line => spans[j][1] < 0
            BY <3>1, <3>2
        <3>5. /\ Rising' /\ k \in Nat /\ DOMAIN token_list = 1 .. k
              /\ DOMAIN token_list' = 1 .. k + 1
              /\ \A i \in 1 .. k : token_list'[i] = token_list[i]
              /\ token_list'[k + 1] = Eof
              /\ \A i \in 1 .. k : spans'[i] = spans[i]
            BY <2>2, <3>1, <3>3, <3>4, RisingStored
        <3>6. \A j \in 1 .. k + 1 : Fits(token_list'[j], spans'[j][1])
            <4> TAKE j \in 1 .. k + 1
            <4>1. CASE j \in 1 .. k
                BY <3>5, <4>1 DEF RisingInv, Placed
            <4>2. CASE j = k + 1
                <5>1. token_list'[j] = Eof /\ Eof.type = "EOF"
                    BY <3>5, <4>2 DEF Eof
                <5> QED
                    BY <3>1, <5>1 DEF Fits
            <4> QED
                BY <3>5, <4>1, <4>2
        <3>7. Placed'
            BY <1>4, <3>5, <3>6 DEF AddEof, Placed, Fits
        <3> QED
            BY <1>1, <2>1, <3>5, <3>7 DEF RisingInv
    <2>3. CASE Lose
        <3>1. UNCHANGED << lines, token_list, spans >>
            BY <1>4, <2>3 DEF AddEof, Lose
        <3>2. Placed'
            BY <3>1 DEF RisingInv, Placed, Fits
        <3> QED
            BY <1>1, <2>1, <3>1, <3>2 DEF RisingInv, Rising
    <2> QED
        BY <2>1, <2>2, <2>3
<1>5. CASE UNCHANGED vars
    BY <1>1, <1>5 DEF vars, list, RisingInv, Rising, BegunBefore, Settled, Line, Placed, Fits
<1> QED
    BY <1>1, <1>2, <1>3, <1>4, <1>5, Steps

(* Failures elsewhere do not matter.                                        *)
LEMMA RisingKept ==
    ASSUME RisingInv, faults' \in 0 .. MaxFaults,
           UNCHANGED << lines, current_line, mode, pos, column, token_list,
                        capacity, spans >>
    PROVE  RisingInv'
<1>1. TypeOK' /\ capacity' # 0
    BY DEF RisingInv, CutInv, TypeOK, InLine, Line
<1>2. PastTokens' /\ CutInOrder'
    BY DEF RisingInv, CutInv, PastTokens, CutInOrder
<1>3. Rising' /\ Placed' /\ (mode' \in { "main", "text" } => BegunBefore(pos)')
    BY DEF RisingInv, Rising, Placed, Fits, BegunBefore, Settled, Line
<1> QED
    BY <1>1, <1>2, <1>3 DEF RisingInv, CutInv

(* A list has at most one token for each character and each line end of its *)
(* document, and EOF; and a depth is at most the length of a line.          *)
Places(document) ==
    UNION { {l} \X (1 .. Len(document[l]) + 1) : l \in DOMAIN document }

LEMMA PlacesFinite ==
    ASSUME NEW d \in Seq(Seq(Char))
    PROVE  IsFiniteSet(Places(d)) /\ Cardinality(Places(d)) \in Nat
<1> DEFINE S == { {l} \X (1 .. Len(d[l]) + 1) : l \in DOMAIN d }
           f == [ l \in DOMAIN d |-> {l} \X (1 .. Len(d[l]) + 1) ]
<1>1. Len(d) \in Nat /\ DOMAIN d = 1 .. Len(d)
    BY LenProperties
<1>2. IsFiniteSet(DOMAIN d)
    BY <1>1, FS_Interval
<1>3. f \in Surjection(DOMAIN d, S)
    BY DEF Surjection
<1>4. IsFiniteSet(S)
    BY <1>2, <1>3, FS_Surjection
<1>5. ASSUME NEW l \in DOMAIN d
      PROVE  IsFiniteSet({l} \X (1 .. Len(d[l]) + 1))
    <2>1. Len(d[l]) \in Nat
        BY <1>1, <1>5, ElementOfSeq, LenProperties
    <2>2. IsFiniteSet({l}) /\ IsFiniteSet(1 .. Len(d[l]) + 1)
        <3>1. Len(d[l]) + 1 \in Nat
            BY <2>1
        <3> QED
            BY <3>1, FS_Singleton, Interval
    <2> QED
        BY <2>2, FS_Product
<1>6. \A s \in S : IsFiniteSet(s)
    BY <1>5
<1>7. IsFiniteSet(UNION S)
    BY <1>4, <1>6, FS_UNION
<1> QED
    BY <1>7, FS_CardinalityType DEF Places

LEMMA ListSize ==
    ASSUME RisingInv
    PROVE  /\ Cardinality(Places(lines)) \in Nat
           /\ Len(token_list) <= Cardinality(Places(lines)) + 1
           /\ \A i \in DOMAIN token_list :
                 token_list[i].depth <= Cardinality(Places(lines))
<1>1. PICK k : k = Len(token_list)
    OBVIOUS
<1>2. PICK c : c = Cardinality(Places(lines))
    OBVIOUS
<1>3. /\ k \in Nat /\ DOMAIN token_list = 1 .. k
      /\ \A j \in 1 .. k : /\ token_list[j] \in Token
                           /\ token_list[j].line \in Nat /\ spans[j][1] \in Nat
      /\ lines \in Seq(Seq(Char))
    BY <1>1, ListFacts DEF RisingInv, CutInv, TypeOK
<1>4. IsFiniteSet(Places(lines)) /\ c \in Nat
    BY <1>2, <1>3, PlacesFinite
<1>5. ASSUME NEW i \in 1 .. k - 1
      PROVE  i \in 1 .. k /\ token_list[i].type # "EOF"
    <2>1. k \in 1 .. k /\ i \in 1 .. k
        BY <1>3
    <2> QED
        BY <1>3, <2>1 DEF RisingInv, Rising
<1>6. Len(token_list) <= c + 1
    <2> DEFINE place == [ i \in 1 .. k - 1 |-> << token_list[i].line, spans[i][1] >> ]
    <2>1. ASSUME NEW i \in 1 .. k - 1
          PROVE  << token_list[i].line, spans[i][1] >> \in Places(lines)
        <3>1. /\ token_list[i].line \in DOMAIN lines
              /\ spans[i][1] \in 1 .. Len(lines[token_list[i].line]) + 1
            BY <1>3, <1>5 DEF RisingInv, Placed, Fits
        <3> QED
            BY <3>1 DEF Places
    <2>2. ASSUME NEW i \in 1 .. k - 1, NEW j \in 1 .. k - 1, i < j
          PROVE  << token_list[i].line, spans[i][1] >> # << token_list[j].line, spans[j][1] >>
        <3>1. token_list[i].line = token_list[j].line => spans[i][1] < spans[j][1]
            BY <1>3, <2>2 DEF RisingInv, Rising
        <3> QED
            BY <1>3, <3>1
    <2>3. place \in Injection(1 .. k - 1, Places(lines))
        <3>1. place \in [ 1 .. k - 1 -> Places(lines) ]
            BY <2>1
        <3>2. ASSUME NEW i \in 1 .. k - 1, NEW j \in 1 .. k - 1, place[i] = place[j]
              PROVE  i = j
            <4>1. << token_list[i].line, spans[i][1] >> = << token_list[j].line, spans[j][1] >>
                BY <3>2
            <4>2. ~ i < j /\ ~ j < i
                BY <2>2, <4>1
            <4> QED
                BY <1>3, <4>2
        <3> QED
            BY <3>1, <3>2 DEF Injection, IsInjective
    <2>4. Cardinality(1 .. k - 1) <= c
        BY <1>2, <1>4, <2>3, FS_Injection
    <2>5. k >= 1 => Cardinality(1 .. k - 1) = k - 1
        BY <1>3, FS_Interval
    <2> QED
        BY <1>1, <1>3, <1>4, <2>4, <2>5
<1>7. ASSUME NEW i \in 1 .. k, token_list[i].type # "EOF"
      PROVE  token_list[i].depth <= c
    <2> DEFINE l == token_list[i].line
    <2>1. l \in DOMAIN lines /\ token_list[i].depth = IndentLevel(lines[l])
        BY <1>3, <1>7 DEF RisingInv, CutInv, PastTokens, Placed, Fits
    <2>2. lines[l] \in Seq(Char) /\ Len(lines[l]) \in Nat
        BY <1>3, <2>1, ElementOfSeq, LenProperties
    <2>3. token_list[i].depth \in 0 .. Len(lines[l])
        BY <2>1, <2>2, IndentLevelType
    <2> DEFINE place == [ n \in 1 .. Len(lines[l]) |-> << l, n >> ]
    <2>4. place \in Injection(1 .. Len(lines[l]), Places(lines))
        <3>1. \A n \in 1 .. Len(lines[l]) : << l, n >> \in Places(lines)
            BY <2>1, <2>2 DEF Places
        <3>2. place \in [ 1 .. Len(lines[l]) -> Places(lines) ]
            BY <3>1
        <3> QED
            BY <3>2 DEF Injection, IsInjective
    <2>5. /\ Cardinality(1 .. Len(lines[l])) <= c
          /\ Cardinality(1 .. Len(lines[l])) = Len(lines[l])
        <3> HIDE DEF place
        <3>1. Cardinality(1 .. Len(lines[l])) = Len(lines[l])
            BY <2>2, Interval
        <3>2. Cardinality(1 .. Len(lines[l])) <= c
            BY <1>2, <1>4, <2>4, FS_Injection
        <3> QED
            BY <3>1, <3>2
    <2> QED
        BY <1>4, <2>2, <2>3, <2>5
<1>8. ASSUME NEW i \in 1 .. k, token_list[i].type = "EOF"
      PROVE  token_list[i].depth <= c
    BY <1>3, <1>4, <1>8 DEF RisingInv, Placed, Fits
<1> QED
    BY <1>2, <1>3, <1>4, <1>6, <1>7, <1>8

LEMMA RisingBegin == Begin => RisingInv
<1> SUFFICES ASSUME Begin PROVE RisingInv
    OBVIOUS
<1>1. DOMAIN token_list = {} /\ mode = "line"
    BY DEF Begin
<1> QED
    BY <1>1, CutInvBegin DEF RisingInv, Rising, Placed

-----------------------------------------------------------------------------
(***************************************************************************)
(* ProducesWellFormed.  The clauses of the contract hold of every list     *)
(* that is being made, but for the EOF at its end.                         *)
(***************************************************************************)

InForm(tokens) ==
    /\ InLineOrder(tokens)
    /\ DirectivesAlone(tokens)
    /\ TextEndsLine(tokens)
    /\ ValuesFit(tokens)

ValueFits(t) ==
    /\ t.type \in {"CLASS", "TAG", "TEXT"} => t.value # << >>
    /\ t.type \in {"DOT", "EOF"} => t.value = << >>

LEMMA AppendInForm ==
    ASSUME NEW tokens \in Seq(Token), NEW t \in Token, InForm(tokens), ValueFits(t),
           \A i \in DOMAIN tokens : tokens[i].line <= t.line,
           \A i \in DOMAIN tokens :
              tokens[i].line = t.line =>
                 /\ tokens[i].depth = t.depth
                 /\ tokens[i].type \notin DirectiveType /\ t.type \notin DirectiveType
                 /\ tokens[i].type \in RunType => t.type \in RunType,
           t.type = "INTERPOLATION" =>
              /\ tokens # << >>
              /\ tokens[Len(tokens)].type \in RunType /\ tokens[Len(tokens)].line = t.line
    PROVE  InForm(Append(tokens, t))
<1> DEFINE k == Len(tokens)
           new == Append(tokens, t)
<1>1. /\ k \in Nat /\ DOMAIN tokens = 1 .. k
      /\ DOMAIN new = 1 .. k + 1 /\ new[k + 1] = t
      /\ \A i \in 1 .. k : new[i] = tokens[i]
      /\ tokens # << >> => k # 0
    <2>1. /\ Len(new) = k + 1 /\ new \in Seq(Token) /\ new[k + 1] = t
          /\ \A i \in 1 .. k : new[i] = tokens[i]
        BY AppendProperties
    <2> QED
        BY <2>1, LenProperties, EmptySeq
<1> HIDE DEF k, new
<1>2. \A i \in 1 .. k + 1 : i \in 1 .. k \/ i = k + 1
    BY <1>1
<1>3. \A i, j \in 1 .. k + 1 : i < j => i \in 1 .. k
    BY <1>1
<1>4. InLineOrder(new)
    <2> SUFFICES ASSUME NEW i \in 1 .. k + 1, NEW j \in 1 .. k + 1, i < j
                 PROVE  /\ new[i].line <= new[j].line
                        /\ new[i].line = new[j].line => new[i].depth = new[j].depth
        BY <1>1 DEF InLineOrder, SameLine
    <2>1. CASE j = k + 1
        BY <1>1, <1>3, <2>1
    <2>2. CASE j \in 1 .. k
        BY <1>1, <1>3, <2>2 DEF InForm, InLineOrder, SameLine
    <2> QED
        BY <1>2, <2>1, <2>2
<1>5. DirectivesAlone(new)
    <2> SUFFICES ASSUME NEW i \in 1 .. k + 1, NEW j \in 1 .. k + 1,
                        new[i].type \in DirectiveType, new[i].line = new[j].line
                 PROVE  i = j
        BY <1>1 DEF DirectivesAlone, IsToken, SameLine
    <2>1. CASE i \in 1 .. k /\ j \in 1 .. k
        BY <1>1, <2>1 DEF InForm, DirectivesAlone, IsToken, SameLine
    <2>2. CASE i = k + 1 \/ j = k + 1
        BY <1>1, <1>2, <2>2
    <2> QED
        BY <1>2, <2>1, <2>2
<1>6. TextEndsLine(new)
    <2> SUFFICES ASSUME NEW i \in 1 .. k + 1
                 PROVE  /\ \A j \in 1 .. k + 1 :
                              /\ i < j /\ new[i].line = new[j].line
                              /\ new[i].type \in RunType
                              => new[j].type \in RunType
                        /\ new[i].type = "INTERPOLATION" =>
                              /\ i - 1 \in 1 .. k + 1 /\ new[i - 1].type \in RunType
                              /\ new[i - 1].line = new[i].line
        BY <1>1 DEF TextEndsLine, IsToken, SameLine
    <2>1. ASSUME NEW j \in 1 .. k + 1, i < j, new[i].line = new[j].line,
                 new[i].type \in RunType
          PROVE  new[j].type \in RunType
        <3>1. i \in 1 .. k
            BY <1>3, <2>1
        <3>2. CASE j \in 1 .. k
            BY <1>1, <2>1, <3>1, <3>2 DEF InForm, TextEndsLine, IsToken, SameLine
        <3>3. CASE j = k + 1
            BY <1>1, <2>1, <3>1, <3>3
        <3> QED
            BY <1>2, <3>2, <3>3
    <2>2. ASSUME new[i].type = "INTERPOLATION"
          PROVE  /\ i - 1 \in 1 .. k + 1 /\ new[i - 1].type \in RunType
                 /\ new[i - 1].line = new[i].line
        <3>1. CASE i \in 1 .. k
            <4>1. /\ i - 1 \in 1 .. k /\ tokens[i - 1].type \in RunType
                  /\ tokens[i - 1].line = tokens[i].line
                BY <1>1, <2>2, <3>1 DEF InForm, TextEndsLine, IsToken, SameLine
            <4>2. i - 1 \in 1 .. k + 1
                BY <1>1, <4>1
            <4> QED
                BY <1>1, <3>1, <4>1, <4>2
        <3>2. CASE i = k + 1
            <4>1. k # 0 /\ tokens[k].type \in RunType /\ tokens[k].line = t.line
                BY <1>1, <2>2, <3>2 DEF k
            <4>2. i - 1 = k /\ k \in 1 .. k /\ k \in 1 .. k + 1
                BY <1>1, <3>2, <4>1
            <4> QED
                BY <1>1, <3>2, <4>1, <4>2
        <3> QED
            BY <1>2, <3>1, <3>2
    <2> QED
        BY <2>1, <2>2
<1>7. ValuesFit(new)
    <2> SUFFICES ASSUME NEW i \in 1 .. k + 1 PROVE ValueFits(new[i])
        BY <1>1 DEF ValuesFit, ValueFits, IsToken
    <2>1. CASE i \in 1 .. k
        BY <1>1, <2>1 DEF InForm, ValuesFit, ValueFits, IsToken
    <2> QED
        BY <1>1, <1>2, <2>1
<1> QED
    BY <1>4, <1>5, <1>6, <1>7 DEF InForm, new

(* A # is read as part of a text only behind a part of the same text: the  *)
(* text was opened by another character.                                   *)
TextFollows ==
    mode = "text" /\ Here = "#" =>
        /\ token_list # << >>
        /\ token_list[Len(token_list)].type \in RunType
        /\ token_list[Len(token_list)].line = current_line

FormInv ==
    /\ CutInv
    /\ faults = 0 => /\ InForm(token_list)
                     /\ TextFollows
                     /\ mode = "done" => EndsWithEof(token_list)

LEMMA FormStored ==
    ASSUME FormInv, faults = 0, NEW type, NEW first, NEW past, NEW col,
           Scanned(type, first, past, col),
           Store(NewToken(type, first, past, col), first, past)
    PROVE  InForm(token_list') /\ TextFollows' /\ mode' # "done"
<1> DEFINE t == NewToken(type, first, past, col)
           k == Len(token_list)
<1>1. /\ k \in Nat /\ DOMAIN token_list = 1 .. k
      /\ \A j \in 1 .. k : token_list[j].line \in Nat
      /\ Len(lines) \in Nat /\ current_line \in Nat
      /\ token_list \in Seq(Token)
    BY ListFacts DEF FormInv, CutInv, TypeOK
<1>2. /\ t \in Token /\ t.type = type /\ t.line = current_line
      /\ t.depth = IndentLevel(Line) /\ t.value = SubSeq(Line, first, past - 1)
    BY TokenCut DEF FormInv, CutInv
<1>3. token_list' = Append(token_list, t)
    BY DEF Store
<1>4. /\ InLine /\ Line = lines[current_line] /\ current_line <= Len(lines)
      /\ Line \in Seq(Char) /\ Len(Line) \in Nat
    BY LineFacts DEF Scanned, FormInv, CutInv, Line, InLine
<1>5. /\ PieceType \cap RunType = {} /\ PieceType \cap DirectiveType = {}
      /\ RunType \cap DirectiveType = {} /\ "INTERPOLATION" \in RunType
      /\ "EOF" \notin DirectiveType \cup PieceType \cup RunType
    BY DEF PieceType, RunType, DirectiveType
<1>6. /\ \/ mode = "line" /\ type \in DirectiveType
         \/ mode = "main" /\ type \in PieceType
         \/ mode = "text" /\ type \in RunType
      /\ type = "INTERPOLATION" => Here = "#"
      /\ first \in 1 .. Len(Line) + 1 /\ past \in first .. Len(Line) + 1
      /\ type \in { "CLASS", "TAG", "TEXT" } => first < past
      /\ type = "DOT" => first = past
      /\ mode' = "line" \/ (mode' = mode /\ current_line' = current_line)
    BY DEF Scanned, NextLine
<1>7. ValueFits(t)
    <2>1. /\ t.value \in Seq(Char) /\ Len(t.value) = past - first
        BY <1>2, <1>4, <1>6, CutValue
    <2>2. first < past => t.value # << >>
        BY <1>4, <1>6, <2>1
    <2>3. first = past => t.value = << >>
        BY <1>4, <1>6, <2>1, EmptySeq
    <2> QED
        BY <1>2, <1>5, <1>6, <2>2, <2>3 DEF ValueFits
<1>8. InForm(token_list')
    <2>1. \A j \in 1 .. k :
             /\ token_list[j].line <= current_line
             /\ mode = "line" => token_list[j].line < current_line
             /\ token_list[j].type # "EOF"
             /\ token_list[j].depth = IndentLevel(lines[token_list[j].line])
             /\ token_list[j].type \in DirectiveType => token_list[j].line < current_line
             /\ mode = "main" /\ token_list[j].line = current_line
                   => token_list[j].type \notin RunType
        BY <1>1, <1>6 DEF FormInv, CutInv, PastTokens
    <2>2. \A j \in 1 .. k :
             token_list[j].line = t.line =>
                /\ token_list[j].depth = t.depth
                /\ token_list[j].type \notin DirectiveType /\ t.type \notin DirectiveType
                /\ token_list[j].type \in RunType => t.type \in RunType
        <3> SUFFICES ASSUME NEW j \in 1 .. k, token_list[j].line = t.line
                     PROVE  /\ token_list[j].depth = t.depth
                            /\ token_list[j].type \notin DirectiveType
                            /\ t.type \notin DirectiveType
                            /\ token_list[j].type \in RunType => t.type \in RunType
            OBVIOUS
        <3>1. mode # "line" /\ token_list[j].type \notin DirectiveType
            BY <1>1, <1>2, <2>1
        <3> QED
            BY <1>2, <1>4, <1>5, <1>6, <2>1, <3>1
    <2>3. t.type = "INTERPOLATION" =>
             /\ token_list # << >>
             /\ token_list[k].type \in RunType /\ token_list[k].line = t.line
        <3>1. t.type = "INTERPOLATION" => mode = "text" /\ Here = "#"
            BY <1>2, <1>5, <1>6
        <3> QED
            BY <1>2, <3>1 DEF FormInv, TextFollows
    <2>4. InForm(token_list)
        BY DEF FormInv
    <2>5. \A j \in DOMAIN token_list : token_list[j].line <= t.line
        BY <1>1, <1>2, <2>1
    <2> HIDE DEF t, k
    <2> QED
        BY <1>1, <1>2, <1>3, <1>7, <2>2, <2>3, <2>4, <2>5, AppendInForm DEF k
<1>9. TextFollows'
    <2>1. /\ token_list' # << >> /\ token_list'[Len(token_list')] = t
        BY <1>1, <1>2, <1>3, AppendProperties
    <2> QED
        BY <1>2, <1>6, <2>1 DEF TextFollows
<1> QED
    BY <1>6, <1>8, <1>9

LEMMA FormEof ==
    ASSUME FormInv, faults = 0, AddEof, Store(Eof, 0, 0)
    PROVE  InForm(token_list') /\ TextFollows' /\ EndsWithEof(token_list')
<1> DEFINE k == Len(token_list)
<1>1. /\ k \in Nat /\ DOMAIN token_list = 1 .. k /\ token_list \in Seq(Token)
      /\ \A j \in 1 .. k : token_list[j].line \in Nat
      /\ Len(lines) \in Nat /\ current_line \in Nat
    BY ListFacts DEF FormInv, CutInv, TypeOK
<1>2. mode = "line" /\ mode' = "done" /\ current_line = Len(lines) + 1
    BY <1>1 DEF AddEof, InLine, FormInv, CutInv, TypeOK
<1>3. /\ Eof \in Token /\ Eof.type = "EOF" /\ Eof.depth = 0
      /\ Eof.line = current_line /\ Eof.value = << >>
    BY <1>2, EofType DEF FormInv, CutInv
<1>4. token_list' = Append(token_list, Eof)
    BY DEF Store
<1>5. \A j \in 1 .. k : token_list[j].line < current_line /\ token_list[j].type # "EOF"
    BY <1>1, <1>2 DEF FormInv, CutInv, PastTokens
<1>6. InForm(token_list')
    <2>1. ValueFits(Eof)
        BY <1>3 DEF ValueFits
    <2>2. \A j \in DOMAIN token_list :
             token_list[j].line <= Eof.line /\ token_list[j].line # Eof.line
        BY <1>1, <1>3, <1>5
    <2>3. InForm(token_list)
        BY DEF FormInv
    <2> QED
        BY <1>1, <1>3, <1>4, <2>1, <2>2, <2>3, AppendInForm
<1>7. EndsWithEof(token_list')
    <2>1. /\ Len(token_list') = k + 1 /\ DOMAIN token_list' = 1 .. k + 1
          /\ token_list'[k + 1] = Eof /\ token_list' # << >>
          /\ \A i \in 1 .. k : token_list'[i] = token_list[i]
        <3>1. /\ token_list' \in Seq(Token) /\ Len(token_list') = k + 1
              /\ token_list'[k + 1] = Eof
              /\ \A i \in 1 .. k : token_list'[i] = token_list[i]
            BY <1>1, <1>3, <1>4, AppendProperties
        <3> QED
            BY <1>1, <3>1, LenProperties
    <2> HIDE DEF k
    <2>2. \A i \in 1 .. k + 1 : token_list'[i].type = "EOF" <=> i = k + 1
        <3> TAKE i \in 1 .. k + 1
        <3>1. CASE i = k + 1
            BY <1>3, <2>1, <3>1
        <3>2. CASE i \in 1 .. k
            BY <1>1, <1>5, <2>1, <3>2
        <3> QED
            BY <1>1, <3>1, <3>2
    <2> QED
        BY <1>3, <2>1, <2>2 DEF EndsWithEof
<1> QED
    BY <1>2, <1>6, <1>7 DEF TextFollows

LEMMA FormInvStep == FormInv /\ [Next]_vars => FormInv'
<1> SUFFICES ASSUME FormInv, [Next]_vars, faults' = 0
             PROVE  /\ InForm(token_list') /\ TextFollows'
                    /\ mode' = "done" => EndsWithEof(token_list')
    BY CutInvStep DEF FormInv
<1>0. TypeOK /\ faults \in Nat
    <2>1. MaxFaults \in Nat
        BY TokenizerAssumption DEF TokenizerAssumption
    <2> QED
        BY <2>1 DEF FormInv, CutInv, TypeOK
<1>1. ~ Lose
    BY <1>0 DEF Lose
<1>2. ASSUME NEW type, NEW first, NEW past, NEW col, Scanned(type, first, past, col)
      PROVE  InForm(token_list') /\ TextFollows' /\ mode' # "done"
    <2>1. Store(NewToken(type, first, past, col), first, past)
        BY <1>0, <1>1, <1>2, TokenCut
    <2>2. faults = 0
        BY <2>1 DEF Store
    <2> QED
        BY <1>2, <2>1, <2>2, FormStored
<1>3. CASE PassedOver
    <2>1. /\ UNCHANGED << lines, token_list, faults >> /\ mode' # "done"
          /\ \/ mode' = "line"
             \/ mode' = "main"
             \/ mode = "text" /\ mode' = "text" /\ UNCHANGED current_line /\ Here = "#"
             \/ mode' = "text" /\ UNCHANGED current_line /\ CharAt(Line, pos') # "#"
        BY <1>3 DEF PassedOver, list, NextLine
    <2>2. UNCHANGED current_line => Line' = Line
        BY <2>1 DEF Line
    <2>3. TextFollows'
        BY <2>1, <2>2 DEF TextFollows, Here, FormInv
    <2> QED
        BY <2>1, <2>3 DEF FormInv
<1>4. CASE AddEof
    <2>1. Store(Eof, 0, 0)
        BY <1>1, <1>4 DEF AddEof, Add
    <2>2. faults = 0
        BY <2>1 DEF Store
    <2> QED
        BY <1>4, <2>1, <2>2, FormEof
<1>5. CASE UNCHANGED vars
    BY <1>5 DEF vars, list, FormInv, TextFollows, Here, Line
<1> QED
    BY <1>0, <1>2, <1>3, <1>4, <1>5, Steps

LEMMA FormInvInit == Init => FormInv
<1> SUFFICES ASSUME Init PROVE FormInv
    OBVIOUS
<1>1. token_list = << >> /\ DOMAIN token_list = {} /\ mode = "line"
    BY DEF Init
<1>2. InForm(token_list)
    BY <1>1 DEF InForm, InLineOrder, DirectivesAlone, TextEndsLine, ValuesFit, IsToken
<1> QED
    BY <1>1, <1>2, CutInvInit DEF FormInv, TextFollows

(* For all documents: if no allocation fails, the finished list keeps every *)
(* clause of the contract the parser and the renderer rely on.              *)
THEOREM KeepsContract == Spec => []ProducesWellFormed
<1>1. Spec => []FormInv
    BY FormInvInit, FormInvStep, PTL DEF Spec
<1>2. FormInv => ProducesWellFormed
    BY DEF FormInv, ProducesWellFormed, WellFormedTokens, InForm
<1> QED
    BY <1>1, <1>2, PTL

-----------------------------------------------------------------------------
(***************************************************************************)
(* LettersKept.  What is read of a line is covered as far as it was read.  *)
(***************************************************************************)

LettersInv ==
    /\ \A l \in PieceLines : \A i \in DOMAIN lines[l] :
          lines[l][i] \in Alpha => Covered(l, i)
    /\ mode \in { "main", "text" } =>
          \A i \in Nat \ {0} : i < pos /\ Line[i] \in Alpha => Covered(current_line, i)

(* Covered in the next state, for a line and a place of this one.          *)
CoveredNext(l, i) ==
    \E k \in DOMAIN spans' : /\ token_list'[k].line = l
                             /\ spans'[k][1] <= i /\ i < spans'[k][2]

KeptInv == CutInv /\ (faults = 0 => LettersInv)

LEMMA LettersNext ==
    ASSUME UNCHANGED lines,
           \A l \in PieceLines' : \A i \in DOMAIN lines[l] :
              lines[l][i] \in Alpha => CoveredNext(l, i),
           mode' \in { "main", "text" } =>
              /\ current_line' = current_line
              /\ \A i \in Nat \ {0} : i < pos' /\ Line[i] \in Alpha
                                        => CoveredNext(current_line, i)
    PROVE  LettersInv'
BY DEF LettersInv, Covered, CoveredNext, Line

LEMMA CoveredStays ==
    ASSUME TypeOK, capacity # 0, NEW token \in Token, NEW first \in Nat, NEW past \in Nat,
           Store(token, first, past)
    PROVE  /\ \A l, i : Covered(l, i) => CoveredNext(l, i)
           /\ \A i : first <= i /\ i < past => CoveredNext(token.line, i)
<1> DEFINE k == Len(token_list)
<1>1. /\ k \in Nat /\ DOMAIN spans = 1 .. k /\ DOMAIN spans' = 1 .. k + 1
      /\ \A i \in 1 .. k : token_list'[i] = token_list[i] /\ spans'[i] = spans[i]
      /\ token_list'[k + 1] = token /\ spans'[k + 1] = << first, past >>
    BY StoreFacts
<1> HIDE DEF k
<1>2. k + 1 \in 1 .. k + 1 /\ \A i \in 1 .. k : i \in 1 .. k + 1
    BY <1>1
<1>3. \A l, i : Covered(l, i) => CoveredNext(l, i)
    BY <1>1, <1>2 DEF Covered, CoveredNext
<1>4. \A i : first <= i /\ i < past => CoveredNext(token.line, i)
    BY <1>1, <1>2 DEF Covered, CoveredNext
<1> QED
    BY <1>3, <1>4

LEMMA PieceLinesStep ==
    ASSUME TypeOK, UNCHANGED lines
    PROVE  /\ current_line' = current_line => PieceLines' = PieceLines
           /\ current_line' = current_line + 1 /\ InLine =>
                 \A l \in PieceLines' :
                    l \in PieceLines \/ (l = current_line /\ ~ HoldsDirective(Line))
<1>1. current_line \in Nat /\ Len(lines) \in Nat
    BY LenProperties DEF TypeOK
<1>2. current_line' = current_line => PieceLines' = PieceLines
    BY DEF PieceLines
<1>3. ASSUME current_line' = current_line + 1, NEW l \in PieceLines'
      PROVE  l \in PieceLines \/ (l = current_line /\ ~ HoldsDirective(Line))
    <2>1. /\ l \in 1 .. Len(lines) /\ l < current_line + 1
          /\ CharAt(lines[l], Margin(lines[l])) \notin Opener
          /\ ~ IsComment(lines[l], Margin(lines[l]))
        BY <1>3 DEF PieceLines
    <2>2. CASE l = current_line
        BY <2>1, <2>2 DEF HoldsDirective, Line
    <2>3. CASE l < current_line
        BY <2>1, <2>3 DEF PieceLines
    <2> QED
        BY <1>1, <2>1, <2>2, <2>3
<1> QED
    BY <1>2, <1>3

LEMMA KeptStored ==
    ASSUME CutInv, LettersInv, NEW type, NEW first, NEW past, NEW col,
           Scanned(type, first, past, col),
           Store(NewToken(type, first, past, col), first, past)
    PROVE  LettersInv'
<1> DEFINE t == NewToken(type, first, past, col)
<1>1. t \in Token /\ first \in Nat /\ past \in Nat /\ t.line = current_line
    BY TokenCut DEF CutInv
<1>2. /\ \A l, i : Covered(l, i) => CoveredNext(l, i)
      /\ \A i : first <= i /\ i < past => CoveredNext(current_line, i)
    <2> HIDE DEF t
    <2>1. Store(t, first, past)
        BY DEF t
    <2> QED
        BY <1>1, <2>1, CoveredStays DEF CutInv
<1>3. /\ InLine /\ UNCHANGED lines /\ Line \in Seq(Char) /\ Len(Line) \in Nat
    BY LineFacts DEF Scanned, CutInv
<1>4. \A l \in PieceLines : \A i \in DOMAIN lines[l] :
          lines[l][i] \in Alpha => CoveredNext(l, i)
    BY <1>2 DEF LettersInv
<1>5. CASE mode = "line"
    <2>1. HoldsDirective(Line) /\ current_line' = current_line + 1 /\ mode' = "line"
        BY <1>5 DEF Scanned, NextLine
    <2>2. \A l \in PieceLines' : l \in PieceLines
        BY <1>3, <2>1, PieceLinesStep DEF CutInv
    <2> QED
        BY <1>3, <1>4, <2>1, <2>2, LettersNext
<1>6. CASE mode # "line"
    <2>1. /\ UNCHANGED << mode, current_line >> /\ mode \in { "main", "text" }
          /\ Skips(pos, first) /\ Skips(past, pos')
          /\ past <= Len(Line) + 1 /\ pos' \in past .. Len(Line) + 1
        BY <1>3, <1>6 DEF Scanned
    <2>2. PieceLines' = PieceLines /\ Line' = Line
        BY <1>3, <2>1, PieceLinesStep DEF CutInv, Line
    <2>3. pos \in Nat /\ pos' \in Nat
        BY <1>1, <1>3, <2>1 DEF CutInv, TypeOK
    <2>4. ASSUME NEW i \in Nat \ {0}, i < pos', Line[i] \in Alpha
          PROVE  CoveredNext(current_line, i)
        <3>1. CASE i < pos
            <4>1. Covered(current_line, i)
                BY <2>1, <2>4, <3>1 DEF LettersInv
            <4> QED
                BY <1>2, <4>1
        <3>2. CASE pos <= i /\ i < first
            BY <2>1, <2>4, <3>2 DEF Skips
        <3>3. CASE first <= i /\ i < past
            BY <1>2, <3>3
        <3>4. CASE past <= i
            BY <2>1, <2>4, <3>4 DEF Skips
        <3> QED
            BY <1>1, <2>3, <3>1, <3>2, <3>3, <3>4
    <2> QED
        BY <1>3, <1>4, <2>1, <2>2, <2>4, LettersNext
<1> QED
    BY <1>5, <1>6

LEMMA KeptPassing ==
    ASSUME CutInv, LettersInv, PassedOver
    PROVE  LettersInv'
<1>1. /\ InLine /\ UNCHANGED << lines, token_list, spans >>
      /\ Line \in Seq(Char) /\ Len(Line) \in Nat /\ DOMAIN Line = 1 .. Len(Line)
    BY LineFacts DEF PassedOver, list, CutInv
<1>2. \A l, i : CoveredNext(l, i) <=> Covered(l, i)
    BY <1>1 DEF Covered, CoveredNext
<1>3. \A l \in PieceLines : \A i \in DOMAIN lines[l] :
          lines[l][i] \in Alpha => CoveredNext(l, i)
    BY <1>2 DEF LettersInv
<1>4. CASE NextLine
    <2>1. \A i \in 1 .. Len(Line) : Line[i] \in Alpha => CoveredNext(current_line, i)
        <3>1. \/ Skips(1, Len(Line) + 1)
              \/ mode \in { "main", "text" } /\ pos = Len(Line) + 1
            BY <1>1, <1>4 DEF PassedOver, NextLine, CutInv, TypeOK
        <3>2. CASE Skips(1, Len(Line) + 1)
            BY <1>1, <3>2 DEF Skips
        <3>3. CASE mode \in { "main", "text" } /\ pos = Len(Line) + 1
            BY <1>1, <1>2, <3>3 DEF LettersInv
        <3> QED
            BY <3>1, <3>2, <3>3
    <2>2. current_line' = current_line + 1 /\ mode' = "line"
        BY <1>4 DEF NextLine
    <2>3. \A l \in PieceLines' : l \in PieceLines \/ l = current_line
        BY <1>1, <2>2, PieceLinesStep DEF CutInv
    <2>4. \A l \in PieceLines' : \A i \in DOMAIN lines[l] :
             lines[l][i] \in Alpha => CoveredNext(l, i)
        BY <1>1, <1>3, <2>1, <2>3 DEF Line
    <2> QED
        BY <1>1, <2>2, <2>4, LettersNext
<1>5. CASE ~ NextLine
    <2>1. /\ UNCHANGED current_line /\ pos' \in 1 .. Len(Line) + 1
          /\ \/ mode = "line" /\ Skips(1, pos')
             \/ mode \in { "main", "text" } /\ pos \in Nat /\ Skips(pos, pos')
        <3>1. mode \in { "main", "text" } => pos \in 1 .. Len(Line) + 1
            BY DEF CutInv, TypeOK
        <3> QED
            BY <1>1, <1>5, <3>1 DEF PassedOver
    <2>2. PieceLines' = PieceLines /\ Line' = Line
        BY <1>1, <2>1, PieceLinesStep DEF CutInv, Line
    <2>3. ASSUME NEW i \in Nat \ {0}, i < pos', Line[i] \in Alpha
          PROVE  CoveredNext(current_line, i)
        <3>1. CASE mode = "line" /\ Skips(1, pos')
            BY <2>3, <3>1 DEF Skips
        <3>2. CASE mode \in { "main", "text" } /\ pos \in Nat /\ Skips(pos, pos')
            <4>1. i < pos \/ pos <= i
                BY <3>2
            <4> QED
                BY <1>2, <2>3, <3>2, <4>1 DEF LettersInv, Skips
        <3> QED
            BY <2>1, <3>1, <3>2
    <2> QED
        BY <1>1, <1>3, <2>1, <2>2, <2>3, LettersNext
<1> QED
    BY <1>4, <1>5

LEMMA KeptInvStep == KeptInv /\ [Next]_vars => KeptInv'
<1> SUFFICES ASSUME KeptInv, [Next]_vars, faults' = 0 PROVE LettersInv'
    BY CutInvStep DEF KeptInv
<1>0. TypeOK /\ CutInv /\ faults \in Nat
    <2>1. MaxFaults \in Nat
        BY TokenizerAssumption DEF TokenizerAssumption
    <2> QED
        BY <2>1 DEF KeptInv, CutInv, TypeOK
<1>1. ~ Lose
    BY <1>0 DEF Lose
<1>2. ASSUME NEW type, NEW first, NEW past, NEW col, Scanned(type, first, past, col)
      PROVE  LettersInv'
    <2>1. Store(NewToken(type, first, past, col), first, past)
        BY <1>0, <1>1, <1>2, TokenCut
    <2>2. faults = 0
        BY <2>1 DEF Store
    <2> QED
        BY <1>0, <1>2, <2>1, <2>2, KeptStored DEF KeptInv
<1>3. CASE PassedOver
    <2>1. faults = 0
        BY <1>3 DEF PassedOver, list
    <2> QED
        BY <1>0, <1>3, <2>1, KeptPassing DEF KeptInv
<1>4. CASE AddEof
    <2>1. /\ Store(Eof, 0, 0) /\ UNCHANGED << lines, current_line >> /\ mode' = "done"
        BY <1>1, <1>4 DEF AddEof, Add
    <2>2. LettersInv
        BY <2>1 DEF Store, KeptInv
    <2>3. \A l, i : Covered(l, i) => CoveredNext(l, i)
        BY <1>0, <2>1, EofType, CoveredStays DEF CutInv
    <2>4. PieceLines' = PieceLines
        BY <1>0, <2>1, PieceLinesStep
    <2> QED
        BY <2>1, <2>2, <2>3, <2>4, LettersNext DEF LettersInv
<1>5. CASE UNCHANGED vars
    BY <1>5 DEF vars, list, KeptInv, LettersInv, PieceLines, Covered, Line
<1> QED
    BY <1>0, <1>2, <1>3, <1>4, <1>5, Steps

LEMMA KeptInvInit == Init => KeptInv
<1> SUFFICES ASSUME Init PROVE LettersInv
    BY CutInvInit DEF KeptInv
<1>1. current_line = 1 /\ mode = "line"
    BY DEF Init
<1>2. PieceLines = {}
    <2>1. Len(lines) \in Nat
        BY InitBegins, TypeOKBegin, LenProperties DEF TypeOK
    <2> QED
        BY <1>1, <2>1 DEF PieceLines
<1> QED
    BY <1>1, <1>2 DEF LettersInv

(* For all documents: if no allocation fails, no letter outside a directive *)
(* is lost between the tokens.                                              *)
THEOREM NoLetterLost == Spec => []LettersKept
<1>1. Spec => []KeptInv
    BY KeptInvInit, KeptInvStep, PTL DEF Spec
<1>2. KeptInv => LettersKept
    BY DEF KeptInv, LettersInv, LettersKept
<1> QED
    BY <1>1, <1>2, PTL

-----------------------------------------------------------------------------
(* ParensBalanced, which only the step that cuts an attribute list touches. *)

CountIn(v, c, m) == Cardinality({ i \in 1 .. m : v[i] = c })

Balanced(v) ==
    \A m \in 0 .. Len(v) : CountIn(v, ")", m) <= CountIn(v, "(", m)

Even(v) == CountIn(v, ")", Len(v)) = CountIn(v, "(", Len(v))

LEMMA CutBalanced ==
    ASSUME NEW s \in Seq(Char), NEW p \in 1 .. Len(s) + 1
    PROVE  LET v == SubSeq(s, p, Closing(s, p) - 1)
           IN  Balanced(v) /\ (Even(v) \/ Closing(s, p) = Len(s) + 1)
<1> DEFINE past == Closing(s, p)
           v == SubSeq(s, p, past - 1)
<1>1. /\ Len(s) \in Nat /\ p \in Nat \ {0} /\ past \in p .. Len(s) + 1
      /\ \A j \in p - 1 .. past - 1 : Opened(s, p, j) >= 1
      /\ past <= Len(s) => Opened(s, p, past - 1) = 1
    BY ClosingIs, ClosingPairs, LenProperties
<1> HIDE DEF past
<1>2. /\ Len(v) = past - p
      /\ \A m \in 0 .. past - p : \A c :
            CountIn(v, c, m) = Cardinality(Counted(s, p, p + m - 1, c))
    <2>1. Len(v) = past - p
        BY <1>1, CutValue
    <2>2. \A m \in 0 .. past - p : \A c :
            CountIn(v, c, m) = Cardinality(Counted(s, p, p + m - 1, c))
        BY <1>1, CountCut DEF CountIn
    <2> QED
        BY <2>1, <2>2
<1> HIDE DEF v
<1>3. ASSUME NEW m \in 0 .. past - p
      PROVE  /\ CountIn(v, ")", m) \in Nat /\ CountIn(v, "(", m) \in Nat
             /\ Opened(s, p, p + m - 1) = 1 + CountIn(v, "(", m) - CountIn(v, ")", m)
             /\ Opened(s, p, p + m - 1) >= 1
    <2>1. p + m - 1 \in Nat /\ p - 1 <= p + m - 1 /\ p + m - 1 \in p - 1 .. past - 1
        BY <1>1
    <2>2. /\ Cardinality(Counted(s, p, p + m - 1, "(")) \in Nat
          /\ Cardinality(Counted(s, p, p + m - 1, ")")) \in Nat
        BY <1>1, <2>1, CountStep
    <2>3. Opened(s, p, p + m - 1) = 1 + Cardinality(Counted(s, p, p + m - 1, "("))
                                      - Cardinality(Counted(s, p, p + m - 1, ")"))
        BY <1>1, <2>1, OpenedStep
    <2> QED
        BY <1>1, <1>2, <2>1, <2>2, <2>3
<1>4. Balanced(v)
    BY <1>2, <1>3 DEF Balanced
<1>5. Even(v) \/ past = Len(s) + 1
    <2> SUFFICES ASSUME past # Len(s) + 1 PROVE Even(v)
        OBVIOUS
    <2>1. past - p \in 0 .. past - p /\ p + (past - p) - 1 = past - 1 /\ past <= Len(s)
        BY <1>1
    <2>2. Opened(s, p, p + (past - p) - 1) = 1
        BY <1>1, <2>1
    <2> QED
        BY <1>2, <1>3, <2>1, <2>2 DEF Even
<1> QED
    BY <1>4, <1>5 DEF past, v

ParensInv == CutInv /\ ParensBalanced

LEMMA ParensAre ==
    ParensBalanced <=>
        \A k \in DOMAIN token_list :
            token_list[k].type = "ATTRIBUTE" =>
                /\ Balanced(token_list[k].value)
                /\ \/ Even(token_list[k].value)
                   \/ spans[k][2] = Len(lines[token_list[k].line]) + 1
BY DEF ParensBalanced, Balanced, Even, CountIn

LEMMA ParensKept ==
    ASSUME ParensInv, UNCHANGED lines, NEW t \in Token, NEW first \in Nat, NEW past \in Nat,
           Store(t, first, past) \/ UNCHANGED << token_list, spans >>,
           t.type = "ATTRIBUTE" =>
              /\ Balanced(t.value)
              /\ Even(t.value) \/ past = Len(lines[t.line]) + 1
    PROVE  ParensBalanced'
<1>1. \A k \in DOMAIN token_list :
            token_list[k].type = "ATTRIBUTE" =>
                /\ Balanced(token_list[k].value)
                /\ \/ Even(token_list[k].value)
                   \/ spans[k][2] = Len(lines[token_list[k].line]) + 1
    BY ParensAre DEF ParensInv
<1>2. ASSUME \A k \in DOMAIN token_list' :
                token_list'[k].type = "ATTRIBUTE" =>
                    /\ Balanced(token_list'[k].value)
                    /\ \/ Even(token_list'[k].value)
                       \/ spans'[k][2] = Len(lines'[token_list'[k].line]) + 1
      PROVE  ParensBalanced'
    BY <1>2 DEF ParensBalanced, Balanced, Even, CountIn
<1>3. CASE Store(t, first, past)
    <2> DEFINE n == Len(token_list)
    <2>1. /\ n \in Nat /\ DOMAIN token_list = 1 .. n /\ DOMAIN token_list' = 1 .. n + 1
          /\ \A i \in 1 .. n : token_list'[i] = token_list[i] /\ spans'[i] = spans[i]
          /\ token_list'[n + 1] = t /\ spans'[n + 1] = << first, past >>
        BY <1>3, StoreFacts DEF ParensInv, CutInv
    <2> HIDE DEF n
    <2> SUFFICES ASSUME NEW k \in 1 .. n + 1, token_list'[k].type = "ATTRIBUTE"
                 PROVE  /\ Balanced(token_list'[k].value)
                        /\ \/ Even(token_list'[k].value)
                           \/ spans'[k][2] = Len(lines[token_list'[k].line]) + 1
        BY <1>2, <2>1
    <2>2. CASE k \in 1 .. n
        BY <1>1, <2>1, <2>2
    <2>3. CASE k = n + 1
        BY <2>1, <2>3
    <2> QED
        BY <2>1, <2>2, <2>3
<1>4. CASE UNCHANGED << token_list, spans >>
    BY <1>1, <1>2, <1>4
<1> QED
    BY <1>3, <1>4

LEMMA ParensStep == ParensInv /\ [Next]_vars => ParensInv'
<1> SUFFICES ASSUME ParensInv, [Next]_vars PROVE ParensBalanced'
    BY CutInvStep DEF ParensInv
<1>0. CutInv /\ TypeOK
    BY DEF ParensInv, CutInv
<1>1. ASSUME NEW type, NEW first, NEW past, NEW col, Scanned(type, first, past, col)
      PROVE  ParensBalanced'
    <2> DEFINE t == NewToken(type, first, past, col)
    <2>1. /\ t \in Token /\ first \in Nat /\ past \in Nat /\ t.type = type
          /\ t.line = current_line /\ t.value = SubSeq(Line, first, past - 1)
          /\ Store(t, first, past) \/ Lose
        BY <1>0, <1>1, TokenCut
    <2>2. /\ Line \in Seq(Char) /\ first \in 1 .. Len(Line) + 1 /\ UNCHANGED lines
          /\ type = "ATTRIBUTE" => past = Closing(Line, first)
        BY <1>0, <1>1, LineFacts DEF Scanned
    <2> HIDE DEF t
    <2>3. t.type = "ATTRIBUTE" =>
              /\ Balanced(t.value)
              /\ Even(t.value) \/ past = Len(lines[t.line]) + 1
        BY <2>1, <2>2, CutBalanced DEF Line
    <2>4. Lose => UNCHANGED << token_list, spans >>
        BY DEF Lose
    <2> QED
        BY <2>1, <2>2, <2>3, <2>4, ParensKept
<1>2. CASE PassedOver \/ UNCHANGED vars
    <2>1. UNCHANGED << lines, token_list, spans >>
        BY <1>2 DEF PassedOver, vars, list
    <2> QED
        BY <2>1 DEF ParensInv, ParensBalanced
<1>3. CASE AddEof
    <2>1. UNCHANGED lines /\ (Store(Eof, 0, 0) \/ UNCHANGED << token_list, spans >>)
        BY <1>3 DEF AddEof, Add, Lose
    <2>2. Eof \in Token /\ Eof.type # "ATTRIBUTE"
        BY <1>0, EofType
    <2> QED
        BY <2>1, <2>2, ParensKept
<1> QED
    BY <1>0, <1>1, <1>2, <1>3, Steps

LEMMA ParensInit == Init => ParensInv
BY CutInvInit DEF Init, ParensInv, ParensBalanced

(* For all documents, whatever allocations fail: the parentheses inside an *)
(* attribute list pair up, unless its line ended first.                    *)
THEOREM ParensPairUp == Spec => []ParensBalanced
<1>1. Spec => []ParensInv
    BY ParensInit, ParensStep, PTL DEF Spec
<1>2. ParensInv => ParensBalanced
    BY DEF ParensInv
<1> QED
    BY <1>1, <1>2, PTL
=============================================================================
