--------------------------- MODULE PugAttributes ---------------------------
(***************************************************************************)
(* parse_attributes of include/pug/pug_parser.h, with the growable list of *)
(* include/pug/pug_attribute_list.h: the value of an ATTRIBUTE token is    *)
(* split at commas, each pair at its first equals sign, and the pairs      *)
(* become attributes of the node in hand.  An action is one turn of the    *)
(* loop.  PugParser takes all this as one step.                            *)
(*                                                                         *)
(* malloc and realloc may fail, at most MaxFaults times; the GLib          *)
(* allocators abort instead and are not modelled.                          *)
(***************************************************************************)
EXTENDS Naturals, SequencesExt

CONSTANTS
    Char,           (* the characters of token values                       *)
    Values,         (* the token values parse_attributes may be given       *)
    ListCapacity,   (* initial capacity of an attribute list, 5 in the code *)
    MaxFaults       (* bound on the allocation failures of a behaviour      *)

Comma == ","
Blank == { " ", "tab" }
QuoteMark == { "'", "dq" }          (* dq is the double quote               *)

ASSUME AttributesAssumption ==
    /\ Values \subseteq Seq(Char)
    /\ ListCapacity \in Nat \ {0}
    /\ MaxFaults \in Nat

VARIABLES
    value,          (* token->value                                         *)
    pairs,          (* the pairs that are still to be read                  *)
    pc,             (* "loop" or "done"                                     *)
    attributes,     (* node->attributes: names and values                   *)
    capacity,       (* node->attributes->capacity                           *)
    faults          (* allocation failures so far                           *)

list == << attributes, capacity >>
vars == << value, pairs, pc, list, faults >>

-----------------------------------------------------------------------------
(* The functions of GLib. *)

Places(s, c) == { i \in DOMAIN s : s[i] = c }

(* Where the pieces between the cs of s end, and which of them is the k-th.  *)
Stops(s, c) == Places(s, c) \cup {Len(s) + 1}
Stop(s, c, k) ==
    CHOOSE e \in Stops(s, c) : Cardinality({ p \in Stops(s, c) : p < e }) = k - 1
Start(s, c, k) == IF k = 1 THEN 1 ELSE Stop(s, c, k - 1) + 1

(* g_strsplit(s, c, -1): no piece at all for the empty string. *)
Split(s, c) ==
    IF s = << >> THEN << >>
    ELSE [ k \in 1 .. Cardinality(Stops(s, c)) |->
             SubSeq(s, Start(s, c, k), Stop(s, c, k) - 1) ]

(* g_strsplit(s, c, 2), for an s in which there is a c. *)
Before(s, c) == SubSeq(s, 1, Min(Places(s, c)) - 1)
Behind(s, c) == SubSeq(s, Min(Places(s, c)) + 1, Len(s))

(* g_strstrip. *)
Strip(s) ==
    LET kept == { i \in DOMAIN s : s[i] \notin Blank }
    IN  IF kept = {} THEN << >> ELSE SubSeq(s, Min(kept), Max(kept))

-----------------------------------------------------------------------------
Init ==
    /\ value \in Values
    /\ pairs = Split(value, Comma)
    /\ pc = "loop"
    /\ attributes = << >>
    /\ capacity = ListCapacity
    /\ faults = 0

Pair == Strip(Head(pairs))

(* Mutant: an empty name is accepted. *)
IsNamedLoosely(pair) == Places(pair, "=") # {}
(* The pair has an equals sign, and something before it. *)
IsNamed(pair) == Places(pair, "=") # {} /\ Head(pair) # "="

Name == Strip(Before(Pair, "="))
Written == Strip(Behind(Pair, "="))

(* The same quote mark is found at both ends: of one character, too, which   *)
(* is then cut off once, and the empty string behind it is copied.           *)
IsQuoted(s) == s # << >> /\ Head(s) \in QuoteMark /\ Last(s) = Head(s)
(* Mutant: the quote marks are kept. *)
UnquoteNot(s) == s
Unquote(s) == IF IsQuoted(s) THEN SubSeq(s, 2, Len(s) - 1) ELSE s

NextPair == pairs # << >> /\ pc = "loop" /\ pairs' = Tail(pairs)

SkipPair ==
    /\ NextPair
    /\ ~ IsNamed(Pair)
    /\ UNCHANGED << value, pc, list, faults >>

Full == Len(attributes) >= capacity

AddAttribute ==
    /\ NextPair
    /\ IsNamed(Pair)
    /\ attributes' = Append(attributes, [ name |-> Name, value |-> Unquote(Written) ])
    /\ capacity' = IF Full THEN 2 * capacity ELSE capacity
    /\ UNCHANGED << value, pc, faults >>

(* malloc fails, or realloc does when the list is full. *)
AddFails ==
    /\ NextPair
    /\ IsNamed(Pair)
    /\ faults < MaxFaults
    /\ faults' = faults + 1
    /\ UNCHANGED << value, pc, list >>

(* parser_advance_token. *)
Finish ==
    /\ pc = "loop" /\ pairs = << >>
    /\ pc' = "done"
    /\ UNCHANGED << value, pairs, list, faults >>

Stopped == pc = "done" /\ UNCHANGED vars

Next == SkipPair \/ AddAttribute \/ AddFails \/ Finish \/ Stopped

(* The loop takes a pair from the list at each turn, so that it ends needs no *)
(* further argument, and nothing here is claimed under fairness.              *)
Spec == Init /\ [][Next]_vars
-----------------------------------------------------------------------------
(***************************************************************************)
(* Properties                                                              *)
(***************************************************************************)

(* The places of the value where a pair with a name has its equals sign: the *)
(* first one after the comma before, with more than blanks in between.       *)
NamedPairs ==
    { e \in Places(value, "=") :
        \E c \in Places(value, Comma) \cup {0} :
            /\ c < e
            /\ \A i \in c + 1 .. e - 1 : value[i] \notin { Comma, "=" }
            /\ \E i \in c + 1 .. e - 1 : value[i] \notin Blank }

(* Every pair with a name makes exactly one attribute, unless the allocation *)
(* for it failed, and so does a pair whose value is empty (see               *)
(* EmptyValuesIgnored); pairs without a name make none. There is room for    *)
(* each.                                                                     *)
EveryPairCounted ==
    /\ pc = "done" => Len(attributes) + faults = Cardinality(NamedPairs)
    /\ Len(attributes) <= capacity

(* Claimed by "Ignora atributos con nombre o valor vacíos, o malformados"    *)
(* (pug_parser.h, before parse_attributes): no attribute has an empty value. *)
EmptyValuesIgnored == \A i \in DOMAIN attributes : attributes[i].value # << >>
=============================================================================
