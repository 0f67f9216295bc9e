--------------------------- MODULE MCUnicodeSets ---------------------------
(***************************************************************************)
(* Bounded instance of UnicodeSets: a table of case conversions in which   *)
(* neighbours fold to places out of order, twice to the same place, and to *)
(* each other.                                                             *)
(***************************************************************************)
EXTENDS UnicodeSets

Entry(first, len, type, data) ==
    [code |-> first, len |-> len, type |-> type, data |-> data]

MCCaseTable ==
    << Entry(65, 26, "LF", << 97 >>), Entry(97, 26, "U", << 65 >>),
       Entry(128, 1, "UF", << 140 >>), Entry(129, 1, "UF", << 138 >>),
       Entry(130, 1, "UF", << 141 >>), Entry(131, 1, "LF", << 136 >>),
       Entry(132, 2, "UL", << >>), Entry(134, 1, "UF", << 140 >>) >>

MCUniverse == 127 .. 142

MCOperands == { << 128, 135 >>, << 130, 132 >>, << 127, 129, 133, 137 >>, << 137, 140 >> }

(* All arrays of six with three keys, and some long enough for the stack   *)
(* to fill and for the heap to take over.                                 *)
MCSortedElsewhere ==
    { [i \in DOMAIN keys |-> << keys[i], i >>] :
        keys \in [1 .. 6 -> 1 .. 3] \union
                { [i \in 1 .. 16 |-> (i * step) % 17] : step \in 5 .. 15 } }
=============================================================================
