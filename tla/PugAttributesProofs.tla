------------------------ MODULE PugAttributesProofs ------------------------
(***************************************************************************)
(* Theorems about PugAttributes, for all values and whatever allocations   *)
(* fail: each pair with a name becomes one attribute or one failure.  The  *)
(* loop reads the value piece by piece; in front of the piece it comes to, *)
(* there are as many pairs with a name as attributes and failures so far.  *)
(***************************************************************************)
EXTENDS PugAttributes, Integers, SequenceTheorems, FiniteSetTheorems,
        WellFoundedInduction, TLAPS

-----------------------------------------------------------------------------
(***************************************************************************)
(* The elements of a finite set of numbers in their order                  *)
(***************************************************************************)

LEMMA LeastOne ==
    ASSUME NEW S, S \subseteq Nat, S # {}
    PROVE  \E x \in S : \A y \in S : x <= y
<1>1. IsWellFoundedOn(OpToRel(<, Nat), Nat)
    BY NatLessThanWellFounded
<1>2. PICK x \in S : \A y \in S : ~(<< y, x >> \in OpToRel(<, Nat))
    BY <1>1, WFMin
<1>3. \A y \in S : ~(y < x)
    BY <1>2 DEF OpToRel
<1> QED
    BY <1>3

LEMMA MinIs ==
    ASSUME NEW S, S \subseteq Nat, S # {}
    PROVE  Min(S) \in S /\ \A y \in S : Min(S) <= y
BY LeastOne DEF Min

LEMMA MaxIs ==
    ASSUME NEW n \in Nat, NEW S, S \subseteq 0 .. n, S # {}
    PROVE  Max(S) \in S /\ \A y \in S : y <= Max(S)
<1> DEFINE R == { n - x : x \in S }
<1>1. R \subseteq Nat /\ R # {}
    <2>1. \A x \in S : x \in 0 .. n /\ n - x \in Nat
        OBVIOUS
    <2> QED
        BY <2>1
<1>2. PICK r \in R : \A y \in R : r <= y
    <2> HIDE DEF R
    <2> QED
        BY <1>1, LeastOne
<1>3. PICK x \in S : r = n - x
    OBVIOUS
<1>4. \A y \in S : n - y \in R
    OBVIOUS
<1>5. \A y \in S : y <= x
    <2>1. SUFFICES ASSUME NEW y \in S PROVE y <= x
        OBVIOUS
    <2>2. x \in 0 .. n /\ y \in 0 .. n /\ n - x <= n - y
        BY <1>2, <1>3, <1>4
    <2> QED
        BY <2>2
<1> QED
    BY <1>5 DEF Max

(* The elements below e: their number is the rank of e.                    *)
Below(T, e) == { p \in T : p < e }

LEMMA BelowFinite ==
    ASSUME NEW T, IsFiniteSet(T), NEW e
    PROVE  IsFiniteSet(Below(T, e)) /\ Cardinality(Below(T, e)) \in Nat
<1>1. Below(T, e) \in SUBSET T
    BY DEF Below
<1> QED
    BY <1>1, FS_Subset, FS_CardinalityType

LEMMA MoreBelow ==
    ASSUME NEW T, IsFiniteSet(T), T \subseteq Nat, NEW e \in T, NEW f \in T, e < f
    PROVE  Cardinality(Below(T, e)) < Cardinality(Below(T, f))
<1>1. IsFiniteSet(Below(T, e)) /\ Cardinality(Below(T, e)) \in Nat
    BY BelowFinite
<1>2. IsFiniteSet(Below(T, f)) /\ Cardinality(Below(T, f)) \in Nat
    BY BelowFinite
<1>3. e \notin Below(T, e)
    BY DEF Below
<1>4. Cardinality(Below(T, e) \cup {e}) = Cardinality(Below(T, e)) + 1
    BY <1>1, <1>3, FS_AddElement
<1>5. Below(T, e) \cup {e} \in SUBSET Below(T, f)
    <2>1. \A p \in T : p < e => p < f
        OBVIOUS
    <2> QED
        BY <2>1 DEF Below
<1>6. Cardinality(Below(T, e) \cup {e}) <= Cardinality(Below(T, f))
    BY <1>2, <1>5, FS_Subset
<1> QED
    BY <1>1, <1>2, <1>4, <1>6

LEMMA OneOfARank ==
    ASSUME NEW T, IsFiniteSet(T), T \subseteq Nat, NEW e \in T, NEW f \in T,
           Cardinality(Below(T, e)) = Cardinality(Below(T, f))
    PROVE  e = f
<1>1. e \in Nat /\ f \in Nat /\ Cardinality(Below(T, e)) \in Nat
    BY BelowFinite
<1>2. ~ (e < f)
    <2>1. e < f => Cardinality(Below(T, e)) < Cardinality(Below(T, f))
        BY MoreBelow
    <2> QED
        BY <1>1, <2>1
<1>3. ~ (f < e)
    <2>1. f < e => Cardinality(Below(T, f)) < Cardinality(Below(T, e))
        BY MoreBelow
    <2> QED
        BY <1>1, <2>1
<1> QED
    BY <1>1, <1>2, <1>3

(* The element behind e has the next rank.                                 *)
LEMMA NextRank ==
    ASSUME NEW T, IsFiniteSet(T), T \subseteq Nat, NEW e \in T, NEW f \in T, e < f,
           \A p \in T : ~ (e < p /\ p < f)
    PROVE  Cardinality(Below(T, f)) = Cardinality(Below(T, e)) + 1
<1>1. IsFiniteSet(Below(T, e))
    BY BelowFinite
<1>2. e \notin Below(T, e)
    BY DEF Below
<1>3. Below(T, e) \cup {e} = Below(T, f)
    <2>1. \A p \in T : p < f <=> p < e \/ p = e
        OBVIOUS
    <2> QED
        BY <2>1 DEF Below
<1> QED
    BY <1>1, <1>2, <1>3, FS_AddElement

(* There is an element of every rank.                                      *)
LEMMA EveryRank ==
    ASSUME NEW T, IsFiniteSet(T), T \subseteq Nat, NEW k \in 1 .. Cardinality(T)
    PROVE  \E e \in T : Cardinality(Below(T, e)) = k - 1
<1> DEFINE Missing == { i \in Nat : /\ i < Cardinality(T)
                                    /\ \A e \in T : Cardinality(Below(T, e)) # i }
<1>1. Cardinality(T) \in Nat
    BY FS_CardinalityType
<1>2. SUFFICES Missing = {}
    <2>1. k - 1 \in Nat /\ k - 1 < Cardinality(T)
        BY <1>1
    <2> QED
        BY <1>2, <2>1
<1>3. SUFFICES ASSUME Missing # {} PROVE FALSE
    OBVIOUS
<1>4. PICK i \in Missing : \A j \in Missing : i <= j
    <2>1. Missing \subseteq Nat
        OBVIOUS
    <2> HIDE DEF Missing
    <2> QED
        BY <1>3, <2>1, LeastOne
<1>5. CASE i = 0
    <2>1. T # {}
        BY <1>1, <1>5, FS_EmptySet
    <2>2. PICK e \in T : \A y \in T : e <= y
        BY <2>1, LeastOne
    <2>3. Below(T, e) = {}
        <3>1. \A y \in T : ~ (y < e)
            BY <2>2
        <3> QED
            BY <3>1 DEF Below
    <2> QED
        BY <1>5, <2>3, FS_EmptySet
<1>6. CASE i # 0
    <2>1. i - 1 \in Nat /\ i - 1 < Cardinality(T) /\ ~ (i <= i - 1)
        BY <1>1, <1>6
    <2>2. i - 1 \notin Missing
        BY <1>4, <2>1
    <2>3. PICK e \in T : Cardinality(Below(T, e)) = i - 1
        BY <2>1, <2>2
    <2> DEFINE Above == { p \in T : e < p }
    <2>4. Above # {}
        <3>1. SUFFICES ASSUME Above = {} PROVE FALSE
            OBVIOUS
        <3>2. T = Below(T, e) \cup {e}
            <4>1. \A p \in T : p < e \/ p = e
                BY <3>1
            <4> QED
                BY <4>1 DEF Below
        <3>3. e \notin Below(T, e) /\ IsFiniteSet(Below(T, e))
            BY BelowFinite DEF Below
        <3>4. Cardinality(Below(T, e) \cup {e}) = i
            <4>1. Cardinality(Below(T, e) \cup {e}) = Cardinality(Below(T, e)) + 1
                BY <3>3, FS_AddElement
            <4>2. i \in Nat
                BY <1>4
            <4> QED
                BY <2>3, <4>1, <4>2
        <3> QED
            BY <1>4, <3>2, <3>4
    <2>5. PICK f \in Above : \A y \in Above : f <= y
        <3>1. Above \subseteq Nat
            OBVIOUS
        <3> HIDE DEF Above
        <3> QED
            BY <2>4, <3>1, LeastOne
    <2>6. Cardinality(Below(T, f)) = (i - 1) + 1
        <3>1. f \in T /\ e < f /\ \A p \in T : ~ (e < p /\ p < f)
            BY <2>5
        <3> QED
            BY <2>3, <3>1, NextRank
    <2> QED
        BY <2>1, <2>5, <2>6
<1> QED
    BY <1>5, <1>6

-----------------------------------------------------------------------------
(***************************************************************************)
(* The pieces of a value                                                   *)
(***************************************************************************)

LEMMA StopsFinite ==
    ASSUME NEW s \in Seq(Char), NEW c
    PROVE  /\ IsFiniteSet(Stops(s, c)) /\ Cardinality(Stops(s, c)) \in Nat \ {0}
           /\ Stops(s, c) \subseteq 1 .. Len(s) + 1 /\ Stops(s, c) \subseteq Nat
           /\ Len(s) + 1 \in Stops(s, c)
<1>1. /\ Stops(s, c) \in SUBSET (1 .. Len(s) + 1) /\ Len(s) + 1 \in Stops(s, c)
      /\ 1 .. Len(s) + 1 \subseteq Nat
    BY DEF Stops, Places
<1>2. IsFiniteSet(1 .. Len(s) + 1)
    BY FS_Interval
<1>3. IsFiniteSet(Stops(s, c))
    BY <1>1, <1>2, FS_Subset
<1>4. Cardinality(Stops(s, c)) \in Nat /\ Cardinality(Stops(s, c)) # 0
    BY <1>1, <1>3, FS_CardinalityType, FS_EmptySet
<1> QED
    BY <1>1, <1>3, <1>4

LEMMA StopIs ==
    ASSUME NEW s \in Seq(Char), NEW c, NEW k \in 1 .. Cardinality(Stops(s, c))
    PROVE  /\ Stop(s, c, k) \in Stops(s, c)
           /\ Cardinality(Below(Stops(s, c), Stop(s, c, k))) = k - 1
<1>1. \E e \in Stops(s, c) : Cardinality(Below(Stops(s, c), e)) = k - 1
    BY StopsFinite, EveryRank
<1> QED
    BY <1>1 DEF Stop, Below

(* Piece k lies between two cs, or an end of the string, and has none.     *)
LEMMA PieceIs ==
    ASSUME NEW s \in Seq(Char), NEW c, NEW k \in 1 .. Cardinality(Stops(s, c))
    PROVE  /\ Start(s, c, k) \in 1 .. Len(s) + 1
           /\ Stop(s, c, k) \in Start(s, c, k) .. Len(s) + 1
           /\ Start(s, c, k) - 1 \in Places(s, c) \cup {0}
           /\ \A i \in Start(s, c, k) .. Stop(s, c, k) - 1 : i \notin Places(s, c)
           /\ Start(s, c, k + 1) = Stop(s, c, k) + 1
<1> DEFINE T == Stops(s, c)
           f == Stop(s, c, k)
<1>1. /\ IsFiniteSet(T) /\ Cardinality(T) \in Nat /\ T \subseteq Nat
      /\ T \subseteq 1 .. Len(s) + 1
    BY StopsFinite
<1>2. f \in T /\ Cardinality(Below(T, f)) = k - 1 /\ f \in 1 .. Len(s) + 1
    BY <1>1, StopIs
<1>3. \A i : i \in Places(s, c) => i \in T
    BY DEF Stops
<1>4. Start(s, c, k + 1) = f + 1
    <2>1. k + 1 # 1 /\ (k + 1) - 1 = k
        BY <1>1
    <2> QED
        BY <2>1 DEF Start
<1>5. CASE k = 1
    <2>1. Start(s, c, k) = 1
        BY <1>5 DEF Start
    <2>2. Below(T, f) = {}
        <3>1. IsFiniteSet(Below(T, f)) /\ Cardinality(Below(T, f)) = 0
            BY <1>1, <1>2, <1>5, BelowFinite
        <3> QED
            BY <3>1, FS_EmptySet
    <2>3. \A i \in 1 .. f - 1 : i \notin T
        <3>1. \A i \in 1 .. f - 1 : i < f
            BY <1>1, <1>2
        <3> QED
            BY <2>2, <3>1 DEF Below
    <2> HIDE DEF T, f
    <2> QED
        BY <1>2, <1>3, <1>4, <2>1, <2>3 DEF f
<1>6. CASE k # 1
    <2> DEFINE e == Stop(s, c, k - 1)
    <2>1. k - 1 \in 1 .. Cardinality(T) /\ k \in Nat
        BY <1>1, <1>6
    <2>2. e \in T /\ Cardinality(Below(T, e)) = (k - 1) - 1
        BY <2>1, StopIs
    <2>3. e \in Nat /\ f \in Nat
        BY <1>1, <1>2, <2>2
    <2>4. e < f
        <3>1. CASE e = f
            BY <1>2, <2>1, <2>2, <3>1
        <3>2. CASE f < e
            <4>1. Cardinality(Below(T, f)) < Cardinality(Below(T, e))
                BY <1>1, <1>2, <2>2, <3>2, MoreBelow
            <4> QED
                BY <1>2, <2>1, <2>2, <4>1
        <3> QED
            BY <2>3, <3>1, <3>2
    <2>5. \A p \in T : ~ (e < p /\ p < f)
        <3>1. SUFFICES ASSUME NEW p \in T, e < p, p < f PROVE FALSE
            OBVIOUS
        <3>2. Cardinality(Below(T, e)) < Cardinality(Below(T, p))
            BY <1>1, <2>2, <3>1, MoreBelow
        <3>3. Cardinality(Below(T, p)) < Cardinality(Below(T, f))
            BY <1>1, <1>2, <3>1, MoreBelow
        <3>4. Cardinality(Below(T, p)) \in Nat
            BY <1>1, BelowFinite
        <3> HIDE DEF T, e, f
        <3> QED
            BY <1>2, <2>1, <2>2, <3>2, <3>3, <3>4
    <2>6. Start(s, c, k) = e + 1
        BY <1>6 DEF Start
    <2>7. e \in Places(s, c) /\ e \in 1 .. Len(s)
        <3>1. e # Len(s) + 1
            BY <1>1, <1>2, <2>3, <2>4
        <3> QED
            BY <1>1, <2>2, <3>1 DEF Stops, Places
    <2>8. \A i \in e + 1 .. f - 1 : i \notin T
        BY <2>3, <2>5
    <2> HIDE DEF T, e
    <2> QED
        BY <1>2, <1>3, <1>4, <2>3, <2>4, <2>6, <2>7, <2>8
<1> QED
    BY <1>5, <1>6

(* The last piece ends with the string.                                    *)
LEMMA LastStop ==
    ASSUME NEW s \in Seq(Char), NEW c
    PROVE  Stop(s, c, Cardinality(Stops(s, c))) = Len(s) + 1
<1> DEFINE T == Stops(s, c)
           n == Cardinality(T)
           e == Stop(s, c, n)
           z == Len(s) + 1
<1>1. /\ IsFiniteSet(T) /\ n \in Nat \ {0} /\ T \subseteq Nat
      /\ T \subseteq 1 .. z /\ z \in T
    BY StopsFinite
<1>2. e \in T /\ Cardinality(Below(T, e)) = n - 1
    BY <1>1, StopIs
<1>3. Below(T, z) = T \ {z}
    BY <1>1 DEF Below
<1>4. Cardinality(Below(T, z)) = n - 1
    BY <1>1, <1>3, FS_RemoveElement
<1> HIDE DEF T, n, e, z
<1>5. e = z
    BY <1>1, <1>2, <1>4, OneOfARank
<1> QED
    BY <1>5 DEF e, z, n, T

(* What g_strstrip leaves: from the first character that is no blank to    *)
(* the last.                                                               *)
LEMMA StripIs ==
    ASSUME NEW s \in Seq(Char), \E i \in DOMAIN s : s[i] \notin Blank
    PROVE  \E i \in 1 .. Len(s) : \E j \in i .. Len(s) :
              /\ Strip(s) = SubSeq(s, i, j)
              /\ s[i] \notin Blank /\ s[j] \notin Blank
              /\ \A h \in 1 .. Len(s) : h < i \/ j < h => s[h] \in Blank
<1> DEFINE kept == { i \in DOMAIN s : s[i] \notin Blank }
<1>1. kept # {} /\ kept \subseteq 1 .. Len(s) /\ kept \subseteq Nat /\ kept \subseteq 0 .. Len(s)
    OBVIOUS
<1>2. Min(kept) \in kept /\ \A y \in kept : Min(kept) <= y
    <2> HIDE DEF kept
    <2> QED
        BY <1>1, MinIs
<1>3. Max(kept) \in kept /\ \A y \in kept : y <= Max(kept)
    <2>1. Len(s) \in Nat
        OBVIOUS
    <2> HIDE DEF kept
    <2> QED
        BY <1>1, <2>1, MaxIs
<1>4. Strip(s) = SubSeq(s, Min(kept), Max(kept))
    BY <1>1 DEF Strip
<1>5. /\ \A h \in 1 .. Len(s) : h < Min(kept) \/ Max(kept) < h => h \notin kept
      /\ Min(kept) \in 1 .. Len(s) /\ Max(kept) \in Min(kept) .. Len(s)
    <2> DEFINE i == Min(kept)
               j == Max(kept)
    <2>1. i \in kept /\ j \in kept /\ \A y \in kept : i <= y /\ y <= j
        BY <1>2, <1>3
    <2>2. Len(s) \in Nat
        OBVIOUS
    <2>3. kept \subseteq 1 .. Len(s)
        BY <1>1
    <2> HIDE DEF kept, i, j
    <2>4. i \in 1 .. Len(s) /\ j \in i .. Len(s)
        BY <2>1, <2>2, <2>3
    <2>5. \A h \in 1 .. Len(s) : h < i \/ j < h => h \notin kept
        BY <2>1, <2>2, <2>3, <2>4
    <2> QED
        BY <2>4, <2>5 DEF i, j
<1>7. \A h \in 1 .. Len(s) : h \notin kept => s[h] \in Blank
    OBVIOUS
<1> QED
    BY <1>2, <1>3, <1>4, <1>5, <1>7

LEMMA StripTyped ==
    ASSUME NEW s \in Seq(Char)
    PROVE  Strip(s) \in Seq(Char)
<1>1. CASE \E i \in DOMAIN s : s[i] \notin Blank
    <2>1. PICK i \in 1 .. Len(s), j \in 1 .. Len(s) : Strip(s) = SubSeq(s, i, j)
        BY <1>1, StripIs
    <2> QED
        BY <2>1, SubSeqProperties
<1>2. CASE \A i \in DOMAIN s : s[i] \in Blank
    BY <1>2, EmptySeq DEF Strip
<1> QED
    BY <1>1, <1>2

-----------------------------------------------------------------------------
(***************************************************************************)
(* A piece has one named pair or none                                      *)
(***************************************************************************)

(* The equals signs of named pairs, from place a on and before place b.    *)
NamedIn(a, b) == { e \in NamedPairs : a <= e /\ e < b }

LEMMA Readable ==
    ASSUME NEW v \in Seq(Char)
    PROVE  Len(v) \in Nat /\ DOMAIN v = 1 .. Len(v) /\ \A i \in 1 .. Len(v) : v[i] \in Char
OBVIOUS

LEMMA NamedFinite ==
    ASSUME value \in Seq(Char), NEW a, NEW b
    PROVE  /\ NamedPairs \subseteq 1 .. Len(value)
           /\ IsFiniteSet(NamedIn(a, b)) /\ Cardinality(NamedIn(a, b)) \in Nat
<1>1. NamedPairs \subseteq 1 .. Len(value)
    BY Readable DEF NamedPairs, Places
<1>2. NamedIn(a, b) \in SUBSET (1 .. Len(value))
    BY <1>1 DEF NamedIn
<1>3. IsFiniteSet(1 .. Len(value))
    BY FS_Interval
<1> QED
    BY <1>1, <1>2, <1>3, FS_Subset, FS_CardinalityType

(* A piece without the commas around it.                                   *)
IsPiece(a, b) ==
    /\ a \in 1 .. Len(value) + 1 /\ b \in a .. Len(value) + 1
    /\ a - 1 \in Places(value, Comma) \cup {0}
    /\ \A i \in a .. b - 1 : i \notin Places(value, Comma)

LEMMA PieceOf ==
    ASSUME value \in Seq(Char), NEW a, NEW b, IsPiece(a, b)
    PROVE  /\ a \in 1 .. Len(value) + 1 /\ b \in a .. Len(value) + 1 /\ Len(value) \in Nat
           /\ a \in Nat /\ b \in Nat /\ a <= b
           /\ \A e \in a .. b - 1 : e \in 1 .. Len(value)
<1>1. a \in 1 .. Len(value) + 1 /\ b \in a .. Len(value) + 1
    BY DEF IsPiece
<1>2. Len(value) \in Nat
    BY Readable
<1> QED
    BY <1>1, <1>2

(* A comma, or the beginning, is in front of a piece; there is none in it. *)
LEMMA CommasAround ==
    ASSUME value \in Seq(Char), NEW a, NEW b, IsPiece(a, b)
    PROVE  /\ a - 1 \in Places(value, Comma) \cup {0}
           /\ a - 1 # 0 => value[a - 1] = Comma
           /\ \A i \in a .. b - 1 : value[i] # Comma
<1>1. \A i \in a .. b - 1 : i \in DOMAIN value
    BY PieceOf, Readable
<1>2. a - 1 \in Places(value, Comma) \cup {0} /\ \A i \in a .. b - 1 : i \notin Places(value, Comma)
    BY DEF IsPiece
<1>3. \A i : i \in Places(value, Comma) <=> i \in DOMAIN value /\ value[i] = Comma
    BY DEF Places
<1> QED
    BY <1>1, <1>2, <1>3

(* A named pair of a piece begins where the piece does.                    *)
LEMMA NamedInPiece ==
    ASSUME value \in Seq(Char), NEW a, NEW b, IsPiece(a, b), NEW e \in a .. b - 1
    PROVE  e \in NamedPairs <=>
              /\ value[e] = "="
              /\ \A i \in a .. e - 1 : value[i] # "="
              /\ \E i \in a .. e - 1 : value[i] \notin Blank
<1>1. /\ a \in 1 .. Len(value) + 1 /\ b \in a .. Len(value) + 1 /\ Len(value) \in Nat
      /\ e \in 1 .. Len(value) /\ e \in a .. b - 1
      /\ a \in Nat /\ e \in Nat /\ 1 <= a /\ a <= e
    BY PieceOf
<1>2. \A i \in a .. e - 1 : i \in 1 .. Len(value) /\ value[i] # Comma
    <2>1. \A i \in a .. e - 1 : i \in 1 .. Len(value) /\ i \in a .. b - 1
        BY <1>1
    <2> QED
        BY <2>1, CommasAround
<1>3. ASSUME value[e] = "=",
             \A i \in a .. e - 1 : value[i] # "=",
             \E i \in a .. e - 1 : value[i] \notin Blank
      PROVE  e \in NamedPairs
    <2>1. a - 1 \in Places(value, Comma) \cup {0} /\ a - 1 < e /\ (a - 1) + 1 = a
        BY <1>1, CommasAround
    <2>2. \A i \in (a - 1) + 1 .. e - 1 : value[i] \notin { Comma, "=" }
        BY <1>2, <1>3, <2>1
    <2>3. \E i \in (a - 1) + 1 .. e - 1 : value[i] \notin Blank
        BY <1>3, <2>1
    <2>4. e \in Places(value, "=")
        BY <1>1, <1>3 DEF Places
    <2> QED
        BY <2>1, <2>2, <2>3, <2>4 DEF NamedPairs
<1>4. ASSUME e \in NamedPairs
      PROVE  /\ value[e] = "="
             /\ \A i \in a .. e - 1 : value[i] # "="
             /\ \E i \in a .. e - 1 : value[i] \notin Blank
    <2>1. PICK c \in Places(value, Comma) \cup {0} :
            /\ c < e
            /\ \A i \in c + 1 .. e - 1 : value[i] \notin { Comma, "=" }
            /\ \E i \in c + 1 .. e - 1 : value[i] \notin Blank
        BY <1>4 DEF NamedPairs
    <2>2. c \in 0 .. Len(value) /\ c \in Nat /\ (c # 0 => value[c] = Comma)
        <3>1. \A i \in Places(value, Comma) : i \in 1 .. Len(value) /\ value[i] = Comma
            BY Readable DEF Places
        <3> QED
            BY <1>1, <2>1, <3>1
    <2>3. ~ (c < a - 1)
        <3>1. SUFFICES ASSUME c < a - 1 PROVE FALSE
            OBVIOUS
        <3>2. a - 1 \in c + 1 .. e - 1 /\ a - 1 # 0
            BY <1>1, <2>2, <3>1
        <3>3. value[a - 1] = Comma
            BY <3>2, CommasAround
        <3> QED
            BY <2>1, <3>2, <3>3
    <2>4. ~ (a - 1 < c)
        <3>1. SUFFICES ASSUME a - 1 < c PROVE FALSE
            OBVIOUS
        <3>2. c \in a .. e - 1 /\ c # 0
            BY <1>1, <2>1, <2>2, <3>1
        <3> QED
            BY <1>2, <2>2, <3>2
    <2>5. c = a - 1 /\ c + 1 = a
        BY <1>1, <2>2, <2>3, <2>4
    <2>6. value[e] = "="
        BY <1>4 DEF NamedPairs, Places
    <2> QED
        BY <2>1, <2>5, <2>6
<1> QED
    BY <1>3, <1>4

(* The pair of a piece is named if the piece has a named pair's equals     *)
(* sign, and then it is the only one.                                      *)
LEMMA PieceCounted ==
    ASSUME value \in Seq(Char), NEW a, NEW b, IsPiece(a, b)
    PROVE  Cardinality(NamedIn(a, b))
              = IF IsNamed(Strip(SubSeq(value, a, b - 1))) THEN 1 ELSE 0
<1> DEFINE s == SubSeq(value, a, b - 1)
           t == Strip(s)
<1>1. a \in 1 .. Len(value) + 1 /\ b \in a .. Len(value) + 1 /\ Len(value) \in Nat
      /\ a \in Nat /\ b \in Nat /\ 1 <= a /\ a <= b
    BY PieceOf
<1>0. \A e \in NamedIn(a, b) : e \in a .. b - 1 /\ e \in NamedPairs
    <2>1. NamedPairs \subseteq 1 .. Len(value)
        BY NamedFinite
    <2>2. \A e \in NamedPairs : e \in Nat
        BY <1>1, <2>1
    <2> QED
        BY <1>1, <2>2 DEF NamedIn
<1>2. /\ s \in Seq(Char) /\ Len(s) = b - a
      /\ \A h \in 1 .. b - a : s[h] = value[h + a - 1]
    <2>1. \A h \in a .. b - 1 : value[h] \in Char
        BY <1>1
    <2>2. a \in Nat /\ b - 1 \in Nat /\ (a <= b - 1 \/ a = b)
        BY <1>1
    <2>3. \A h : h \in a .. b - 1 => h \in 1 .. Len(value)
        BY <1>1
    <2>4. \A h \in 1 .. b - a : s[h] = value[h + a - 1]
        BY <1>1, <2>2, <2>3, SubSeqProperties
    <2> QED
        BY <1>1, <2>2, <2>3, <2>4, SubSeqProperties
<1>3. CASE \A h \in DOMAIN s : s[h] \in Blank
    <2>1. t = << >> /\ ~ IsNamed(t)
        <3>1. { i \in DOMAIN s : s[i] \notin Blank } = {}
            BY <1>3
        <3>2. t = << >>
            BY <3>1 DEF Strip
        <3>3. Places(<< >>, "=") = {}
            BY DEF Places
        <3> QED
            BY <3>2, <3>3 DEF IsNamed
    <2>2. NamedIn(a, b) = {}
        <3>1. SUFFICES ASSUME NEW e \in NamedIn(a, b) PROVE FALSE
            OBVIOUS
        <3>2. e \in a .. b - 1 /\ e \in NamedPairs
            BY <1>0
        <3>3. value[e] = "="
            BY <3>2, NamedInPiece
        <3>4. e - a + 1 \in DOMAIN s /\ s[e - a + 1] = value[e]
            BY <1>1, <1>2, <3>2
        <3> QED
            BY <1>3, <3>3, <3>4 DEF Blank
    <2> QED
        BY <2>1, <2>2, FS_EmptySet
<1>4. CASE \E h \in DOMAIN s : s[h] \notin Blank
    <2>1. PICK i \in 1 .. Len(s), j \in 1 .. Len(s) :
              /\ i <= j /\ t = SubSeq(s, i, j)
              /\ s[i] \notin Blank /\ s[j] \notin Blank
              /\ \A h \in 1 .. Len(s) : h < i \/ j < h => s[h] \in Blank
        <3>1. PICK i \in 1 .. Len(s) : \E j \in i .. Len(s) :
                  /\ t = SubSeq(s, i, j)
                  /\ s[i] \notin Blank /\ s[j] \notin Blank
                  /\ \A h \in 1 .. Len(s) : h < i \/ j < h => s[h] \in Blank
            <4> HIDE DEF s
            <4> QED
                BY <1>2, <1>4, StripIs
        <3>2. Len(s) \in Nat
            BY <1>1, <1>2
        <3> HIDE DEF s, t
        <3>3. PICK j \in i .. Len(s) :
                  /\ t = SubSeq(s, i, j)
                  /\ s[i] \notin Blank /\ s[j] \notin Blank
                  /\ \A h \in 1 .. Len(s) : h < i \/ j < h => s[h] \in Blank
            BY <3>1
        <3>4. j \in 1 .. Len(s) /\ i <= j
            BY <3>2
        <3> QED
            BY <3>3, <3>4
    <2>2. /\ Len(t) = j - i + 1 /\ Len(t) \in Nat \ {0} /\ t \in Seq(Char)
          /\ \A h \in 1 .. Len(t) : t[h] = s[h + i - 1]
        <3>1. i \in 1 .. Len(s) /\ j \in 1 .. Len(s) /\ i <= j /\ s \in Seq(Char) /\ t = SubSeq(s, i, j)
            BY <1>2, <2>1
        <3>2. Len(s) \in Nat
            BY <1>1, <1>2
        <3> HIDE DEF s, t
        <3>3. /\ i \in 1 .. Len(s) + 1 /\ j \in i - 1 .. Len(s) /\ j - i + 1 \in Nat \ {0}
              /\ i \in Nat /\ j \in Nat
            BY <3>1, <3>2
        <3>4. SubSeq(s, i, j) \in Seq(Char) /\ Len(SubSeq(s, i, j)) = j - i + 1
            BY <3>1, <3>2, <3>3, SubSeqProperties
        <3>5. \A h \in 1 .. j - i + 1 : SubSeq(s, i, j)[h] = s[i + h - 1]
            BY <3>1, <3>2, <3>3, SubSeqProperties
        <3>6. \A h \in 1 .. j - i + 1 : i + h - 1 = h + i - 1
            BY <3>3
        <3> QED
            BY <3>1, <3>3, <3>4, <3>5, <3>6
    <2>3. /\ i \in Nat /\ j \in Nat /\ Len(s) \in Nat /\ 1 <= i /\ j <= b - a
          /\ a \in Nat /\ b \in Nat
        BY <1>1, <1>2, <2>1
    <2>4. \A h \in 1 .. b - a : s[h] = "=" => h \in i .. j
        <3>1. SUFFICES ASSUME NEW h \in 1 .. b - a, s[h] = "=" PROVE h \in i .. j
            OBVIOUS
        <3>2. s[h] \notin Blank /\ h \in 1 .. Len(s)
            BY <1>2, <3>1 DEF Blank
        <3>3. ~ (h < i) /\ ~ (j < h)
            BY <2>1, <3>2
        <3> QED
            BY <2>3, <3>3
    <2>5. Head(t) = s[i]
        BY <2>2, <2>3
    <2> DEFINE Equal == { h \in i .. j : s[h] = "=" }
    <2>6. Places(t, "=") # {} <=> Equal # {}
        <3>1. \A h \in 1 .. Len(t) : h + i - 1 \in i .. j
            BY <2>2, <2>3
        <3>2. \A h \in i .. j : h - i + 1 \in 1 .. Len(t) /\ (h - i + 1) + i - 1 = h
            BY <2>2, <2>3
        <3>3. DOMAIN t = 1 .. Len(t)
            BY <2>2
        <3>4. Places(t, "=") = { h \in 1 .. Len(t) : t[h] = "=" }
            BY <3>3 DEF Places
        <3>5. ASSUME NEW h \in 1 .. Len(t), t[h] = "=" PROVE Equal # {}
            BY <2>2, <3>1, <3>5
        <3>6. ASSUME NEW h \in Equal PROVE Places(t, "=") # {}
            <4>1. t[h - i + 1] = s[h] /\ h - i + 1 \in 1 .. Len(t)
                BY <2>2, <3>2
            <4> QED
                BY <3>4, <4>1
        <3> QED
            BY <3>4, <3>5, <3>6
    <2>7. \A e \in a .. b - 1 : e - a + 1 \in 1 .. b - a /\ s[e - a + 1] = value[e]
        BY <1>2, <2>3
    <2>8. CASE Equal = {}
        <3>1. NamedIn(a, b) = {}
            <4>1. SUFFICES ASSUME NEW e \in NamedIn(a, b) PROVE FALSE
                OBVIOUS
            <4>2. e \in a .. b - 1 /\ e \in NamedPairs
                BY <1>0
            <4>3. value[e] = "="
                BY <4>2, NamedInPiece
            <4> QED
                BY <2>4, <2>7, <2>8, <4>2, <4>3
        <3> QED
            BY <2>6, <2>8, <3>1, FS_EmptySet DEF IsNamed
    <2>9. CASE Equal # {}
        <3>1. PICK m \in Equal : \A h \in Equal : m <= h
            <4>1. Equal \subseteq Nat
                BY <2>3
            <4> HIDE DEF Equal
            <4> QED
                BY <2>9, <4>1, LeastOne
        <3>2. m \in i .. j /\ s[m] = "=" /\ \A h \in i .. m - 1 : s[h] # "="
            <4>1. m \in i .. j /\ s[m] = "="
                OBVIOUS
            <4>2. ASSUME NEW h \in i .. m - 1, s[h] = "=" PROVE FALSE
                <5>1. h \in i .. j /\ ~ (m <= h)
                    BY <2>3, <4>1
                <5>2. h \in Equal
                    BY <4>2, <5>1
                <5> QED
                    BY <3>1, <5>1, <5>2
            <4> QED
                BY <4>1, <4>2
        <3> DEFINE p == m + a - 1
        <3>3. /\ p \in a .. b - 1 /\ value[p] = "="
              /\ \A h \in a .. p - 1 : value[h] # "="
            <4>1. p \in a .. b - 1 /\ p - a + 1 = m
                BY <2>3, <3>2
            <4>2. value[p] = "="
                BY <2>7, <3>2, <4>1
            <4>3. ASSUME NEW h \in a .. p - 1, value[h] = "=" PROVE FALSE
                <5>1. h \in a .. b - 1 /\ h - a + 1 \in 1 .. b - a /\ h - a + 1 < m
                    BY <2>3, <4>1, <4>3
                <5>2. s[h - a + 1] = "=" /\ h - a + 1 \in i .. j
                    BY <2>4, <2>7, <4>3, <5>1
                <5>3. h - a + 1 \in Equal
                    BY <5>2
                <5>4. m <= h - a + 1 /\ h \in Nat /\ m \in Nat
                    <6>1. m <= h - a + 1
                        BY <3>1, <5>3
                    <6>2. h \in Nat
                        BY <2>3, <5>1
                    <6>3. m \in Nat
                        BY <2>3, <3>2
                    <6> QED
                        BY <6>1, <6>2, <6>3
                <5> QED
                    BY <2>3, <5>1, <5>4
            <4> QED
                BY <4>1, <4>2, <4>3
        <3>4. \A e \in a .. b - 1 : e \in NamedPairs => e = p
            <4>1. SUFFICES ASSUME NEW e \in a .. b - 1, e \in NamedPairs, e # p PROVE FALSE
                OBVIOUS
            <4>2. value[e] = "=" /\ \A h \in a .. e - 1 : value[h] # "="
                BY <4>1, NamedInPiece
            <4>3. ~ (e < p)
                BY <2>3, <3>3, <4>2
            <4>4. ~ (p < e)
                BY <2>3, <3>3, <4>2
            <4> QED
                BY <2>3, <3>3, <4>1, <4>3, <4>4
        <3>5. p \in NamedPairs <=> \E h \in a .. p - 1 : value[h] \notin Blank
            BY <3>3, NamedInPiece
        <3>6. (\E h \in a .. p - 1 : value[h] \notin Blank) <=> s[i] # "="
            <4>1. ASSUME s[i] # "="
                  PROVE  \E h \in a .. p - 1 : value[h] \notin Blank
                <5>1. i < m
                    BY <2>3, <3>2, <4>1
                <5>2. i + a - 1 \in a .. p - 1 /\ value[i + a - 1] = s[i]
                    BY <1>2, <2>1, <2>3, <3>2, <5>1
                <5> QED
                    BY <2>1, <5>2
            <4>2. ASSUME NEW h \in a .. p - 1, value[h] \notin Blank, s[i] = "="
                  PROVE  FALSE
                <5>1. i \in Equal
                    BY <2>1, <2>3, <4>2
                <5>2. m = i
                    BY <2>3, <3>1, <3>2, <5>1
                <5>3. h \in a .. b - 1 /\ h - a + 1 \in 1 .. Len(s) /\ h - a + 1 < i
                    BY <1>2, <2>3, <3>3, <5>2
                <5> QED
                    BY <2>1, <2>7, <4>2, <5>3
            <4> QED
                BY <4>1, <4>2
        <3>7. IsNamed(t) <=> p \in NamedPairs
            BY <2>5, <2>6, <2>9, <3>5, <3>6 DEF IsNamed
        <3>8. \A e \in NamedIn(a, b) : e \in a .. b - 1
            BY <1>0
        <3>9. CASE p \in NamedPairs
            <4>1. NamedIn(a, b) = {p}
                BY <2>3, <3>3, <3>4, <3>8, <3>9 DEF NamedIn
            <4> QED
                BY <3>7, <3>9, <4>1, FS_Singleton
        <3>10. CASE p \notin NamedPairs
            <4>1. NamedIn(a, b) = {}
                BY <3>4, <3>8, <3>10 DEF NamedIn
            <4> QED
                BY <3>7, <3>10, <4>1, FS_EmptySet
        <3> QED
            BY <3>9, <3>10
    <2> QED
        BY <2>8, <2>9
<1> QED
    BY <1>3, <1>4

-----------------------------------------------------------------------------
(***************************************************************************)
(* The loop                                                                *)
(***************************************************************************)

Attribute == [ name : Seq(Char), value : Seq(Char) ]

(* The first place that is still to be read, when k pieces were.           *)
Reached(k) == Start(value, Comma, k + 1)

(* k pieces were read, and in front of the next are as many named pairs as *)
(* there are attributes and failures.                                      *)
CountedInv ==
    /\ value \in Seq(Char)
    /\ pc \in { "loop", "done" }
    /\ attributes \in Seq(Attribute)
    /\ capacity \in Nat \ {0}
    /\ faults \in Nat
    /\ Len(attributes) <= capacity
    /\ \E k \in 0 .. Len(Split(value, Comma)) :
          /\ pairs = SubSeq(Split(value, Comma), k + 1, Len(Split(value, Comma)))
          /\ Len(attributes) + faults = Cardinality(NamedIn(1, Reached(k)))
    /\ pc = "done" => pairs = << >>

LEMMA SplitIs ==
    ASSUME value \in Seq(Char)
    PROVE  LET all == Split(value, Comma)
           IN  /\ all \in Seq(Seq(Char))
               /\ value = << >> => all = << >>
               /\ value # << >> => Len(all) = Cardinality(Stops(value, Comma))
               /\ \A k \in 1 .. Len(all) :
                     /\ IsPiece(Reached(k - 1), Stop(value, Comma, k))
                     /\ all[k] = SubSeq(value, Reached(k - 1), Stop(value, Comma, k) - 1)
                     /\ Reached(k) = Stop(value, Comma, k) + 1
<1> DEFINE n == Cardinality(Stops(value, Comma))
           piece(k) == SubSeq(value, Start(value, Comma, k), Stop(value, Comma, k) - 1)
<1>1. n \in Nat \ {0}
    BY StopsFinite
<1>2. CASE value = << >>
    BY <1>2 DEF Split
<1>3. CASE value # << >>
    <2>1. Split(value, Comma) = [ k \in 1 .. n |-> piece(k) ]
        BY <1>3 DEF Split
    <2>2. \A k \in 1 .. n : piece(k) \in Seq(Char)
        <3>1. SUFFICES ASSUME NEW k \in 1 .. n PROVE piece(k) \in Seq(Char)
            OBVIOUS
        <3>2. /\ Start(value, Comma, k) \in 1 .. Len(value) + 1
              /\ Stop(value, Comma, k) \in Start(value, Comma, k) .. Len(value) + 1
            BY PieceIs
        <3>3. Len(value) \in Nat
            BY Readable
        <3>4. \A i \in Start(value, Comma, k) .. Stop(value, Comma, k) - 1 : value[i] \in Char
            <4>1. \A i \in Start(value, Comma, k) .. Stop(value, Comma, k) - 1 : i \in 1 .. Len(value)
                BY <3>2, <3>3
            <4> QED
                BY <4>1, Readable
        <3>5. Start(value, Comma, k) \in Int /\ Stop(value, Comma, k) - 1 \in Int
            BY <3>2, <3>3
        <3> QED
            BY <3>2, <3>3, <3>4, <3>5, SubSeqProperties
    <2>3. Split(value, Comma) \in Seq(Seq(Char)) /\ Len(Split(value, Comma)) = n
        <3> HIDE DEF n, piece
        <3> QED
            BY <1>1, <2>1, <2>2
    <2>4. ASSUME NEW k \in 1 .. n
          PROVE  /\ IsPiece(Reached(k - 1), Stop(value, Comma, k))
                 /\ Split(value, Comma)[k]
                       = SubSeq(value, Reached(k - 1), Stop(value, Comma, k) - 1)
                 /\ Reached(k) = Stop(value, Comma, k) + 1
        <3>1. (k - 1) + 1 = k
            BY <1>1
        <3>2. Reached(k - 1) = Start(value, Comma, k)
            BY <3>1 DEF Reached
        <3>3. IsPiece(Start(value, Comma, k), Stop(value, Comma, k))
            BY PieceIs DEF IsPiece
        <3>4. Reached(k) = Stop(value, Comma, k) + 1
            BY PieceIs DEF Reached
        <3>5. Split(value, Comma)[k] = piece(k)
            BY <2>1
        <3> QED
            BY <3>2, <3>3, <3>4, <3>5
    <2> QED
        BY <1>3, <2>3, <2>4
<1> QED
    BY <1>2, <1>3

LEMMA CountedBegins == Init => CountedInv
<1> SUFFICES ASSUME Init PROVE CountedInv
    OBVIOUS
<1> DEFINE all == Split(value, Comma)
<1>1. /\ value \in Seq(Char) /\ pairs = all /\ pc = "loop" /\ attributes = << >>
      /\ capacity \in Nat \ {0} /\ faults = 0
    BY AttributesAssumption DEF Init
<1>2. all \in Seq(Seq(Char))
    BY <1>1, SplitIs
<1>3. attributes \in Seq(Attribute) /\ Len(attributes) = 0
    BY <1>1
<1>4. 0 \in 0 .. Len(all) /\ SubSeq(all, 0 + 1, Len(all)) = all
    <2>1. \A s \in Seq(Seq(Char)) : 0 \in 0 .. Len(s) /\ SubSeq(s, 1, Len(s)) = s
        OBVIOUS
    <2> HIDE DEF all
    <2> QED
        BY <1>2, <2>1
<1>5. Cardinality(NamedIn(1, Reached(0))) = 0
    <2>1. Reached(0) = 1
        BY DEF Reached, Start
    <2>2. NamedIn(1, 1) = {}
        <3>1. \A e \in NamedPairs : e \in 1 .. Len(value)
            BY <1>1, NamedFinite
        <3>2. \A e \in NamedPairs : ~ (1 <= e /\ e < 1)
            BY <1>1, <3>1, Readable
        <3> QED
            BY <3>2 DEF NamedIn
    <2> QED
        BY <2>1, <2>2, FS_EmptySet
<1> HIDE DEF all
<1>6. \E k \in 0 .. Len(all) :
          /\ pairs = SubSeq(all, k + 1, Len(all))
          /\ Len(attributes) + faults = Cardinality(NamedIn(1, Reached(k)))
    BY <1>1, <1>3, <1>4, <1>5
<1> QED
    BY <1>1, <1>3, <1>6 DEF CountedInv, all

(* The turn takes the piece behind those that were read, and in front of   *)
(* the next one there is one more named pair if this one is named.         *)
LEMMA Turn ==
    ASSUME CountedInv, NextPair, UNCHANGED value
    PROVE  LET all == Split(value, Comma)
               one == IF IsNamed(Pair) THEN 1 ELSE 0
           IN  \E k \in 0 .. Len(all) :
                  /\ pairs' = SubSeq(all, k + 1, Len(all))
                  /\ Len(attributes) + faults + one = Cardinality(NamedIn(1, Reached(k)))
<1> DEFINE all == Split(value, Comma)
           n == Len(all)
<1>1. /\ value \in Seq(Char) /\ pairs # << >> /\ pc = "loop" /\ pairs' = Tail(pairs)
    BY DEF CountedInv, NextPair
<1>2. PICK k \in 0 .. n :
          /\ pairs = SubSeq(all, k + 1, n)
          /\ Len(attributes) + faults = Cardinality(NamedIn(1, Reached(k)))
    BY <1>1 DEF CountedInv
<1>3. all \in Seq(Seq(Char)) /\ n \in Nat
    BY <1>1, SplitIs
<1>4. k < n /\ Head(pairs) = all[k + 1] /\ pairs' = SubSeq(all, (k + 1) + 1, n)
    <2>1. \A s \in Seq(Seq(Char)) : \A i \in 0 .. Len(s) :
              SubSeq(s, i + 1, Len(s)) # << >> =>
                 /\ i < Len(s)
                 /\ Head(SubSeq(s, i + 1, Len(s))) = s[i + 1]
                 /\ Tail(SubSeq(s, i + 1, Len(s))) = SubSeq(s, (i + 1) + 1, Len(s))
        OBVIOUS
    <2> HIDE DEF all
    <2> QED
        BY <1>1, <1>2, <1>3, <2>1
<1> DEFINE a == Reached(k)
           b == Stop(value, Comma, k + 1)
<1>5. /\ IsPiece(a, b) /\ Pair = Strip(SubSeq(value, a, b - 1)) /\ Reached(k + 1) = b + 1
      /\ k + 1 \in 0 .. n
    <2>1. k + 1 \in 1 .. n /\ (k + 1) - 1 = k
        BY <1>2, <1>3, <1>4
    <2>2. IsPiece(a, b) /\ all[k + 1] = SubSeq(value, a, b - 1) /\ Reached(k + 1) = b + 1
        BY <1>1, <2>1, SplitIs
    <2>3. Pair = Strip(all[k + 1])
        BY <1>4 DEF Pair
    <2>4. k + 1 \in 0 .. n
        BY <1>3, <2>1
    <2> HIDE DEF all, n, a, b
    <2> QED
        BY <2>2, <2>3, <2>4
<1>6. Cardinality(NamedIn(a, b)) = IF IsNamed(Pair) THEN 1 ELSE 0
    BY <1>1, <1>5, PieceCounted
<1> HIDE DEF all, n, a, b
<1>7. /\ NamedIn(1, b + 1) = NamedIn(1, a) \cup NamedIn(a, b)
      /\ NamedIn(1, a) \cap NamedIn(a, b) = {}
    <2>1. /\ a \in Nat /\ b \in Nat /\ 1 <= a /\ a <= b /\ Len(value) \in Nat
          /\ b \in 1 .. Len(value) + 1
        BY <1>1, <1>5, PieceOf
    <2>2. \A e \in NamedPairs : e \in Nat /\ 1 <= e /\ value[e] = "=" /\ e \in 1 .. Len(value)
        <3>1. \A e \in NamedPairs : e \in 1 .. Len(value)
            BY <1>1, NamedFinite
        <3>2. \A e \in NamedPairs : value[e] = "="
            BY DEF NamedPairs, Places
        <3> QED
            BY <2>1, <3>1, <3>2
    <2>3. b \notin NamedPairs
        <3>1. b = Len(value) + 1 \/ value[b] = Comma
            <4>1. k + 1 \in 1 .. Cardinality(Stops(value, Comma))
                BY <1>1, <1>2, <1>3, <1>4, <1>5, SplitIs, EmptySeq DEF all, n
            <4>2. b \in Stops(value, Comma)
                BY <1>1, <4>1, StopIs DEF b
            <4> QED
                BY <4>2 DEF Stops, Places
        <3>2. Comma # "="
            BY DEF Comma
        <3> QED
            BY <2>1, <2>2, <3>1, <3>2
    <2>4. \A e \in NamedPairs : e < b + 1 <=> e < b
        BY <2>1, <2>2, <2>3
    <2>5. \A e \in NamedPairs : 1 <= e /\ (e < b <=> e < a \/ (a <= e /\ e < b))
        BY <2>1, <2>2
    <2>6. \A e \in NamedPairs : ~ (e < a /\ a <= e)
        BY <2>1, <2>2
    <2> QED
        BY <2>4, <2>5, <2>6 DEF NamedIn
<1>8. Cardinality(NamedIn(1, b + 1)) = Cardinality(NamedIn(1, a)) + Cardinality(NamedIn(a, b))
    <2>1. /\ IsFiniteSet(NamedIn(1, a)) /\ IsFiniteSet(NamedIn(a, b))
          /\ Cardinality(NamedIn(1, a)) \in Nat /\ Cardinality(NamedIn(a, b)) \in Nat
        BY <1>1, NamedFinite
    <2>2. Cardinality(NamedIn(1, a) \cup NamedIn(a, b))
            = Cardinality(NamedIn(1, a)) + Cardinality(NamedIn(a, b))
                - Cardinality(NamedIn(1, a) \cap NamedIn(a, b))
        BY <2>1, FS_Union
    <2>3. Cardinality(NamedIn(1, a) \cap NamedIn(a, b)) = 0
        BY <1>7, FS_EmptySet
    <2> QED
        BY <1>7, <2>1, <2>2, <2>3
<1>9. Len(attributes) + faults + (IF IsNamed(Pair) THEN 1 ELSE 0)
          = Cardinality(NamedIn(1, Reached(k + 1)))
    BY <1>2, <1>5, <1>6, <1>8 DEF a
<1> QED
    BY <1>4, <1>5, <1>9 DEF all, n

LEMMA PairTyped ==
    ASSUME CountedInv, NextPair
    PROVE  Pair \in Seq(Char)
<1> DEFINE all == Split(value, Comma)
<1>1. all \in Seq(Seq(Char)) /\ pairs # << >>
    BY SplitIs DEF CountedInv, NextPair
<1>2. PICK k \in 0 .. Len(all) : pairs = SubSeq(all, k + 1, Len(all))
    BY DEF CountedInv
<1>3. Head(pairs) \in Seq(Char)
    <2>1. \A s \in Seq(Seq(Char)) : \A i \in 0 .. Len(s) :
              SubSeq(s, i + 1, Len(s)) # << >> => Head(SubSeq(s, i + 1, Len(s))) \in Seq(Char)
        OBVIOUS
    <2> HIDE DEF all
    <2> QED
        BY <1>1, <1>2, <2>1
<1> QED
    BY <1>3, StripTyped DEF Pair

(* Name and value of a named pair, without the quote marks.                *)
LEMMA AttributeTyped ==
    ASSUME CountedInv, NextPair, IsNamed(Pair)
    PROVE  [ name |-> Name, value |-> Unquote(Written) ] \in Attribute
<1> DEFINE places == Places(Pair, "=")
           m == Min(places)
           w == Written
<1>1. Pair \in Seq(Char)
    BY PairTyped
<1>2. m \in 1 .. Len(Pair)
    <2>1. places # {} /\ places \subseteq Nat /\ places \subseteq 1 .. Len(Pair)
        BY <1>1 DEF IsNamed, Places
    <2> HIDE DEF places
    <2> QED
        BY <2>1, MinIs
<1> HIDE DEF places
<1>3. \A s \in Seq(Char) : \A i \in 1 .. Len(s) :
          SubSeq(s, 1, i - 1) \in Seq(Char) /\ SubSeq(s, i + 1, Len(s)) \in Seq(Char)
    OBVIOUS
<1>4. Name \in Seq(Char)
    BY <1>1, <1>2, <1>3, StripTyped DEF Name, Before, places
<1>5. w \in Seq(Char)
    BY <1>1, <1>2, <1>3, StripTyped DEF Written, Behind, places
<1>6. Unquote(w) \in Seq(Char)
    <2>1. CASE ~ IsQuoted(w)
        BY <1>5, <2>1 DEF Unquote
    <2>2. CASE IsQuoted(w)
        <3>1. SubSeq(w, 2, Len(w) - 1) \in Seq(Char)
            <4>1. \A s \in Seq(Char) : SubSeq(s, 2, Len(s) - 1) \in Seq(Char)
                OBVIOUS
            <4> HIDE DEF w
            <4> QED
                BY <1>5, <4>1
        <3> QED
            BY <2>2, <3>1 DEF Unquote
    <2> QED
        BY <2>1, <2>2
<1> QED
    BY <1>4, <1>6 DEF Attribute

LEMMA CountedKept == CountedInv /\ [Next]_vars => CountedInv'
<1> SUFFICES ASSUME CountedInv, [Next]_vars PROVE CountedInv'
    OBVIOUS
<1> DEFINE all == Split(value, Comma)
<1>1. /\ value \in Seq(Char) /\ attributes \in Seq(Attribute) /\ capacity \in Nat \ {0}
      /\ faults \in Nat /\ Len(attributes) <= capacity /\ Len(attributes) \in Nat
    BY DEF CountedInv
<1>2. ASSUME NextPair, UNCHANGED value, pc' = "loop",
             attributes' \in Seq(Attribute), capacity' \in Nat \ {0}, faults' \in Nat,
             Len(attributes') <= capacity',
             Len(attributes') + faults'
                = Len(attributes) + faults + (IF IsNamed(Pair) THEN 1 ELSE 0)
      PROVE  CountedInv'
    <2>1. PICK k \in 0 .. Len(all) :
              /\ pairs' = SubSeq(all, k + 1, Len(all))
              /\ Len(attributes') + faults' = Cardinality(NamedIn(1, Reached(k)))
        BY <1>2, Turn
    <2>2. all' = all /\ \A j : NamedIn(1, Reached(j))' = NamedIn(1, Reached(j))
        BY <1>2 DEF Split, NamedIn, NamedPairs, Reached
    <2> HIDE DEF all
    <2> QED
        BY <1>1, <1>2, <2>1, <2>2 DEF CountedInv, all
<1>3. CASE SkipPair
    <2>1. NextPair /\ ~ IsNamed(Pair) /\ pc' = "loop"
        BY <1>3 DEF SkipPair, NextPair
    <2> QED
        BY <1>1, <1>2, <1>3, <2>1 DEF SkipPair, list
<1>4. CASE AddAttribute
    <2>1. /\ NextPair /\ IsNamed(Pair) /\ pc' = "loop" /\ UNCHANGED << value, faults >>
          /\ attributes' = Append(attributes, [ name |-> Name, value |-> Unquote(Written) ])
          /\ capacity' = IF Full THEN 2 * capacity ELSE capacity
        BY <1>4 DEF AddAttribute, NextPair
    <2>2. [ name |-> Name, value |-> Unquote(Written) ] \in Attribute
        BY <2>1, AttributeTyped
    <2>3. attributes' \in Seq(Attribute) /\ Len(attributes') = Len(attributes) + 1
        BY <1>1, <2>1, <2>2
    <2>4. capacity' \in Nat \ {0} /\ Len(attributes') <= capacity'
        BY <1>1, <2>1, <2>3 DEF Full
    <2>5. Len(attributes') + faults'
              = Len(attributes) + faults + (IF IsNamed(Pair) THEN 1 ELSE 0)
        BY <1>1, <2>1, <2>3
    <2>6. faults' \in Nat
        BY <1>1, <2>1
    <2> QED
        BY <1>2, <2>1, <2>3, <2>4, <2>5, <2>6
<1>5. CASE AddFails
    <2>1. /\ NextPair /\ IsNamed(Pair) /\ faults' = faults + 1 /\ pc' = "loop"
          /\ UNCHANGED << value, attributes, capacity >>
        BY <1>5 DEF AddFails, list, NextPair
    <2>2. /\ Len(attributes') + faults'
                = Len(attributes) + faults + (IF IsNamed(Pair) THEN 1 ELSE 0)
          /\ faults' \in Nat
        BY <1>1, <2>1
    <2> QED
        BY <1>1, <1>2, <2>1, <2>2
<1>6. CASE Finish
    <2>1. /\ pairs = << >> /\ pc = "loop" /\ pc' = "done"
          /\ UNCHANGED << value, pairs, attributes, capacity, faults >>
        BY <1>6 DEF Finish, list
    <2>2. all' = all /\ \A j : NamedIn(1, Reached(j))' = NamedIn(1, Reached(j))
        BY <2>1 DEF Split, NamedIn, NamedPairs, Reached
    <2> QED
        BY <2>1, <2>2 DEF CountedInv
<1>7. CASE UNCHANGED vars
    <2>1. UNCHANGED << value, pairs, pc, attributes, capacity, faults >>
        BY <1>7 DEF vars, list
    <2>2. all' = all /\ \A j : NamedIn(1, Reached(j))' = NamedIn(1, Reached(j))
        BY <2>1 DEF Split, NamedIn, NamedPairs, Reached
    <2> QED
        BY <2>1, <2>2 DEF CountedInv
<1> QED
    BY <1>3, <1>4, <1>5, <1>6, <1>7 DEF Next, Stopped

LEMMA CountedImplies == CountedInv => EveryPairCounted
<1> SUFFICES ASSUME CountedInv PROVE EveryPairCounted
    OBVIOUS
<1> DEFINE all == Split(value, Comma)
           n == Len(all)
<1>1. value \in Seq(Char) /\ Len(attributes) <= capacity
    BY DEF CountedInv
<1>2. ASSUME pc = "done" PROVE Len(attributes) + faults = Cardinality(NamedPairs)
    <2>1. PICK k \in 0 .. n :
              /\ pairs = SubSeq(all, k + 1, n)
              /\ Len(attributes) + faults = Cardinality(NamedIn(1, Reached(k)))
        BY <1>2 DEF CountedInv
    <2>2. pairs = << >>
        BY <1>2 DEF CountedInv
    <2>3. all \in Seq(Seq(Char))
        BY <1>1, SplitIs
    <2>4. k = n
        <3>1. \A s \in Seq(Seq(Char)) : \A i \in 0 .. Len(s) :
                  SubSeq(s, i + 1, Len(s)) = << >> => i = Len(s)
            <4>1. SUFFICES ASSUME NEW s \in Seq(Seq(Char)), NEW i \in 0 .. Len(s), i # Len(s)
                           PROVE  SubSeq(s, i + 1, Len(s)) # << >>
                OBVIOUS
            <4>2. Len(SubSeq(s, i + 1, Len(s))) = Len(s) - i /\ Len(s) - i # 0
                BY <4>1
            <4>3. Len(<< >>) = 0
                OBVIOUS
            <4> QED
                BY <4>2, <4>3
        <3> HIDE DEF all
        <3> QED
            BY <2>1, <2>2, <2>3, <3>1
    <2>5. NamedPairs \subseteq 1 .. Len(value) /\ Len(value) \in Nat
        BY <1>1, NamedFinite, Readable
    <2>6. NamedIn(1, Reached(n)) = NamedPairs
        <3>1. CASE value = << >>
            <4>1. NamedPairs = {}
                BY <2>5, <3>1
            <4> QED
                BY <4>1 DEF NamedIn
        <3>2. CASE value # << >>
            <4>1. n = Cardinality(Stops(value, Comma))
                BY <1>1, <3>2, SplitIs
            <4>2. n \in Nat \ {0} /\ Stop(value, Comma, n) = Len(value) + 1
                BY <1>1, <4>1, StopsFinite, LastStop
            <4>3. Reached(n) = Len(value) + 2
                <5>1. Reached(n) = Stop(value, Comma, n) + 1
                    <6>1. n \in 1 .. Len(all)
                        BY <4>2
                    <6> QED
                        BY <1>1, <6>1, SplitIs
                <5> QED
                    BY <2>5, <4>2, <5>1
            <4>4. \A e \in NamedPairs : 1 <= e /\ e < Len(value) + 2
                BY <2>5
            <4> QED
                BY <4>3, <4>4 DEF NamedIn
        <3> QED
            BY <3>1, <3>2
    <2> QED
        BY <2>1, <2>4, <2>6
<1> QED
    BY <1>1, <1>2 DEF EveryPairCounted

(* Every pair with a name makes one attribute or is one that failed, and   *)
(* there is always room for the attributes: parse_attributes, for every    *)
(* value and whatever fails.                                               *)
THEOREM PairsAreCounted == Spec => []EveryPairCounted
<1>1. Init => CountedInv
    BY CountedBegins
<1>2. CountedInv /\ [Next]_vars => CountedInv'
    BY CountedKept
<1>3. CountedInv => EveryPairCounted
    BY CountedImplies
<1> QED
    BY <1>1, <1>2, <1>3, PTL DEF Spec
=============================================================================
