---------------------------- MODULE UnicodeText ----------------------------
(***************************************************************************)
(* Normalization of a text (unicode_normalize of libunicode.c): it is      *)
(* decomposed into a dynamic buffer, whose growth may fail, the marks      *)
(* behind a starter are sorted by their combining class, and for NFC and   *)
(* NFKC the buffer is composed in place.                                   *)
(***************************************************************************)
EXTENDS Integers, SequencesExt, Bitwise

CONSTANTS DecompTable,    \* unicode_decomp_table1, 2 and unicode_decomp_data
          CompTable,      \* unicode_comp_table: entry and offset, by pair
          CcTable,        \* unicode_cc_table, bytes
          CcIndex,        \* unicode_cc_index: code and offset in the block
          IndexBlock,     \* UNICODE_INDEX_BLOCK_LEN: 32
          ItemSize, SizeMax,
          Texts,          \* what is normalized
          MaxFaults       \* bound on the allocations that fail

(* sizeof(int) * src_len does not overflow.                                *)
ASSUME TextsAssumption ==
    /\ ItemSize \in Nat \ {0} /\ SizeMax \in Nat
    /\ \A text \in Texts : ItemSize * Len(text) <= SizeMax

(* An entry of DecompTable: code, len, compat, type, l (length of the      *)
(* decomposition), p (place of the counted character) and data, numbers.   *)
DECOMP_TYPES == { "C1", "L", "S", "I", "B", "LS2", "PAT3", "S2_UL", "LS2_UL" }

ASSUME DecompTableAssumption ==
    /\ \A i \in DOMAIN DecompTable :
          /\ DecompTable[i].type \in DECOMP_TYPES
          /\ DecompTable[i].len \in Nat \ {0}
    /\ \A i \in 1 .. Len(DecompTable) - 1 :
          DecompTable[i].code + DecompTable[i].len <= DecompTable[i + 1].code

VARIABLES source,      \* src
          form,        \* n_type: 0 NFC, 1 NFD, 2 NFKC, 3 NFKD
          buffer,      \* dbuf, and later buf
          pending,     \* what to_nfd_rec still goes through
          phase,
          reading, out_len,
          faults

vars == << source, form, buffer, pending, phase, reading, out_len, faults >>

Dbuf == INSTANCE DynBuf

buf == buffer.data
is_compat == form >= 2

-----------------------------------------------------------------------------
(* Tables.                                                                 *)
unicode_get_short_code(c) ==
    IF c < 128 THEN c
    ELSE IF c < 128 + 80 THEN c - 128 + \h300
    ELSE << \h2044, \h2215 >>[c - 128 - 80 + 1]

unicode_get_lower_simple(c) ==
    IF c < \h100 \/ c \in \h410 .. \h42f THEN c + 32 ELSE c + 1

(* unicode_decomp_entry.  Row is the part of data that belongs to c.       *)
Row(e, c, l) == SubSeq(e.data, (c - e.code) * l + 1, (c - e.code + 1) * l)
NoneIfZero(row) == IF 0 \in ToSet(row) THEN << >> ELSE row

PairUL(e, c) ==
    LET row == SubSeq(e.data, ((c - e.code) \div 2) * 2 + 1, ((c - e.code) \div 2) * 2 + 2)
        upper == IF e.type = "S2_UL" THEN unicode_get_short_code(row[1]) ELSE row[1]
    IN  << IF (c - e.code) % 2 = 1 THEN unicode_get_lower_simple(upper) ELSE upper,
           unicode_get_short_code(row[2]) >>

unicode_decomp_entry(e, c) ==
    CASE e.type = "C1" -> << e.data[1] >>
      [] e.type = "L" -> NoneIfZero(Row(e, c, e.l))
      [] e.type = "S" -> NoneIfZero([i \in 1 .. e.l |->
                                        unicode_get_short_code(Row(e, c, e.l)[i])])
      [] e.type = "I" -> [e.data EXCEPT ![e.p + 1] = @ + c - e.code]
      [] e.type = "B" -> LET row == SubSeq(e.data, (c - e.code) * e.l + 2,
                                           (c - e.code + 1) * e.l + 1)
                         IN  [i \in 1 .. e.l |->
                                 IF row[i] = 255 THEN 32 ELSE row[i] + e.data[1]]
      [] e.type = "LS2" -> IF Row(e, c, 2)[1] = 0 THEN << >>
                           ELSE << Row(e, c, 2)[1], unicode_get_short_code(Row(e, c, 2)[2]) >>
      [] e.type = "PAT3" -> << e.data[1], e.data[3 + c - e.code], e.data[2] >>
      [] e.type \in { "S2_UL", "LS2_UL" } -> PairUL(e, c)

(* The binary search of unicode_decomp_char; 0 if c has no entry.          *)
FindDecomp(c) ==
    LET n == Len(DecompTable)
        find[lo \in 1 .. n + 1, hi \in 0 .. n] ==
            IF lo > hi THEN 0
            ELSE LET idx == (lo + hi) \div 2
                     e == DecompTable[idx]
                 IN  IF c < e.code THEN find[lo, idx - 1]
                     ELSE IF c >= e.code + e.len THEN find[idx + 1, hi]
                     ELSE idx
    IN  find[1, n]

unicode_decomp_char(c) ==
    LET idx == FindDecomp(c)
    IN  IF idx = 0 \/ (DecompTable[idx].compat /\ ~is_compat) THEN << >>
        ELSE unicode_decomp_entry(DecompTable[idx], c)

(* unicode_compose_pair: the table of pairs refers to the decompositions,  *)
(* in their order.                                                         *)
unicode_compose_pair(c0, c1) ==
    LET n == Len(CompTable)
        char(idx) == DecompTable[CompTable[idx].entry].code + CompTable[idx].offset
        pair(idx) == unicode_decomp_entry(DecompTable[CompTable[idx].entry], char(idx))
        d(idx) == IF c0 # pair(idx)[1] THEN c0 - pair(idx)[1] ELSE c1 - pair(idx)[2]
        find[lo \in 1 .. n + 1, hi \in 0 .. n] ==
            IF lo > hi THEN 0
            ELSE LET idx == (lo + hi) \div 2
                 IN  IF d(idx) < 0 THEN find[lo, idx - 1]
                     ELSE IF d(idx) > 0 THEN find[idx + 1, hi]
                     ELSE char(idx)
    IN  find[1, n]

compose_pair(c0, c1) ==
    IF c0 \in \h1100 .. \h1100 + 18 /\ c1 \in \h1161 .. \h1161 + 20
    THEN \hac00 + (c0 - \h1100) * 588 + (c1 - \h1161) * 28
    ELSE IF /\ c0 \in \hac00 .. \hac00 + 11171
            /\ (c0 - \hac00) % 28 = 0
            /\ c1 \in \h11a7 .. \h11a7 + 27
    THEN c0 + c1 - \h11a7
    ELSE unicode_compose_pair(c0, c1)

(* get_index_pos: the block of the table that c is in, as the code point   *)
(* and the place it begins with; no block behind the last one.             *)
NoBlock == << >>
get_index_pos(c, index) ==
    LET n == Len(index)
        find[lo \in 1 .. n, hi \in 1 .. n] ==
            IF hi - lo <= 1 THEN lo
            ELSE LET idx == (lo + hi) \div 2
                 IN  IF c < index[idx].code THEN find[lo, idx] ELSE find[idx, hi]
    IN  IF c < index[1].code THEN << 0, 0 >>
        ELSE IF c >= index[n].code THEN NoBlock
        ELSE LET idx == find[1, n]
             IN  << index[idx].code, idx * IndexBlock + index[idx].offset >>

(* unicode_get_cc: runs of code points of one combining class.  A run is   *)
(* its type, its length and its bytes.                                     *)
CcByte(p) == CcTable[p + 1]

RunAt(p) ==
    LET n == CcByte(p) % 64
        short == n < 48
        middle == n \in 48 .. 55
        count == IF short THEN n
                 ELSE IF middle THEN 48 + (n - 48) * 256 + CcByte(p + 1)
                 ELSE 48 + 2048 + ((n - 56) | CcByte(p + 1)) * 256 + CcByte(p + 2)
        type == CcByte(p) \div 64
    IN  [type |-> type, count |-> count + 1,
         size |-> (IF short THEN 1 ELSE IF middle THEN 2 ELSE 3) + (IF type <= 1 THEN 1 ELSE 0)]

unicode_get_cc(c) ==
    LET at[k \in 0 .. Len(CcTable)] ==
            IF k = 0 THEN get_index_pos(c, CcIndex)
            ELSE LET block == at[k - 1]
                     run == RunAt(block[2])
                 IN  IF c < block[1] + run.count THEN block
                     ELSE << block[1] + run.count, block[2] + run.size >>
        block == at[Len(CcTable)]
        run == RunAt(block[2])
        extra == CcByte(block[2] + run.size - 1)
    IN  IF get_index_pos(c, CcIndex) = NoBlock THEN 0
        ELSE CASE run.type = 0 -> extra
               [] run.type = 1 -> extra + c - block[1]
               [] run.type = 2 -> 0
               [] run.type = 3 -> 230

(* Mutant: a mark changes places with its neighbour only.                  *)
SettleOnce(sorted, c) ==
    LET n == Len(sorted)
        before == n > 0 /\ unicode_get_cc(c) # 0
                        /\ unicode_get_cc(sorted[n]) > unicode_get_cc(c)
    IN  IF before THEN InsertAt(sorted, n, c) ELSE Append(sorted, c)

(* sort_cc: a mark moves before the marks of a higher class, and never     *)
(* over a starter.                                                         *)
Settle(sorted, c) ==
    LET cc == unicode_get_cc(c)
        n == Len(sorted)
        k == CHOOSE k \in 0 .. n :
                /\ k = 0 \/ unicode_get_cc(sorted[k]) <= cc
                /\ \A m \in k + 1 .. n : unicode_get_cc(sorted[m]) > cc
    IN  IF cc = 0 THEN Append(sorted, c) ELSE InsertAt(sorted, k + 1, c)

sort_cc(text) == FoldLeft(Settle, << >>, text)

-----------------------------------------------------------------------------
Init ==
    /\ source \in Texts
    /\ form \in 0 .. 3
    /\ buffer = Dbuf!EmptyBuffer
    /\ pending = << >>
    /\ phase = "claim"
    /\ reading = 0
    /\ out_len = 0
    /\ faults = 0

(* The room for src_len characters.                                        *)
ClaimFails ==
    /\ phase = "claim"
    /\ Dbuf!Allocates(buffer, ItemSize * Len(source))
    /\ faults < MaxFaults
    /\ faults' = faults + 1
    /\ buffer' = Dbuf!Refusal(buffer)
    /\ phase' = "failed"
    /\ UNCHANGED << source, form, pending, reading, out_len >>

Claim ==
    /\ phase = "claim"
    /\ LET room == IF Dbuf!Allocates(buffer, ItemSize * Len(source))
                   THEN Dbuf!Claimed(buffer, ItemSize * Len(source)) ELSE buffer
           latin1 == form = 0 /\ \A i \in DOMAIN source : source[i] < 256
       IN  IF latin1
           THEN /\ buffer' = [room EXCEPT !.data = source]
                /\ out_len' = Len(source)
                /\ phase' = "done"
                /\ UNCHANGED pending
           ELSE /\ buffer' = room
                /\ pending' = source
                /\ phase' = "decompose"
                /\ UNCHANGED out_len
    /\ UNCHANGED << source, form, reading, faults >>

(* to_nfd_rec: what a character decomposes to is gone through before what  *)
(* stands behind it.                                                       *)
Hangul(c) ==
    LET s == c - \hac00
        v == s % 28
    IN  << \h1100 + s \div 588, \h1161 + (s % 588) \div 28 >>
        \o (IF v # 0 THEN << \h11a7 + v >> ELSE << >>)

Decomposition(c) == IF c \in \hac00 .. \hd7a3 THEN Hangul(c) ELSE unicode_decomp_char(c)

Decompose ==
    /\ phase = "decompose"
    /\ pending # << >>
    /\ Decomposition(Head(pending)) # << >>
    /\ pending' = Decomposition(Head(pending)) \o Tail(pending)
    /\ UNCHANGED << source, form, buffer, phase, reading, out_len, faults >>

Keep ==
    /\ phase = "decompose"
    /\ pending # << >>
    /\ Decomposition(Head(pending)) = << >>
    /\ pending' = Tail(pending)
    /\ \/ /\ buffer' = Dbuf!Put(buffer, Head(pending))
          /\ UNCHANGED faults
       \/ /\ Dbuf!Grows(buffer)
          /\ faults < MaxFaults
          /\ faults' = faults + 1
          /\ buffer' = Dbuf!Refusal(buffer)
    /\ UNCHANGED << source, form, phase, reading, out_len >>

(* The error of the buffer is asked for once, at the end.                  *)
Decomposed ==
    /\ phase = "decompose"
    /\ pending = << >>
    /\ IF buffer.error
       THEN phase' = "failed" /\ UNCHANGED << buffer, reading, out_len >>
       ELSE /\ buffer' = [buffer EXCEPT !.data = sort_cc(@)]
            /\ IF Len(buf) <= 1 \/ form % 2 = 1
               THEN phase' = "done" /\ out_len' = Len(buf) /\ UNCHANGED reading
               ELSE phase' = "compose" /\ reading' = 1 /\ out_len' = 1
    /\ UNCHANGED << source, form, pending, faults >>

(* Mutant: a mark of the same class does not block.                        *)
BlockedByHigher(c) == unicode_get_cc(buf[out_len]) > unicode_get_cc(c)

(* The last starter of what is written, if the next character may compose  *)
(* with it: nothing, or a mark of a lower class, stands between.           *)
Blocked(c) == unicode_get_cc(buf[out_len]) >= unicode_get_cc(c)

Starter(c) ==
    IF unicode_get_cc(buf[out_len]) # 0 /\ Blocked(c) THEN 0
    ELSE LET starters == { p \in 1 .. out_len : unicode_get_cc(buf[p]) = 0 }
         IN  CHOOSE p \in starters \union {0} : \A q \in starters : q <= p

Compose ==
    /\ phase = "compose"
    /\ reading < Len(buf)
    /\ LET c == buf[reading + 1]
           p == Starter(c)
           composed == IF p = 0 THEN 0 ELSE compose_pair(buf[p], c)
       IN  IF composed # 0
           THEN buffer' = [buffer EXCEPT !.data[p] = composed] /\ UNCHANGED out_len
           ELSE /\ buffer' = [buffer EXCEPT !.data[out_len + 1] = c]
                /\ out_len' = out_len + 1
    /\ reading' = reading + 1
    /\ UNCHANGED << source, form, pending, phase, faults >>

Composed ==
    /\ phase = "compose"
    /\ reading = Len(buf)
    /\ phase' = "done"
    /\ UNCHANGED << source, form, buffer, pending, reading, out_len, faults >>

Next == ClaimFails \/ Claim \/ Decompose \/ Keep \/ Decomposed \/ Compose \/ Composed

Spec == Init /\ [][Next]_vars

-----------------------------------------------------------------------------
(* What was written: the first out_len characters of the buffer.           *)
result == SubSeq(buf, 1, out_len)

(* The buffer is never filled beyond what is allocated for it, though an   *)
(* item is written without a look once the claim succeeded; composing in   *)
(* place never writes what is still to be read; and a text for which an    *)
(* allocation was refused, however many items were kept before and dropped *)
(* after, never gets a result.                                             *)
InPlace ==
    /\ Dbuf!Bytes(buffer) <= buffer.allocated
    /\ phase = "compose" => out_len <= reading /\ reading <= Len(buf)
    /\ phase = "done" => out_len <= Len(buf)
    /\ phase \in { "compose", "done" } => faults = 0
=============================================================================
