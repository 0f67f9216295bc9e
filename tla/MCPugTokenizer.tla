--------------------------- MODULE MCPugTokenizer ---------------------------
(***************************************************************************)
(* Bounded documents for PugTokenizer: all lines of PieceLength            *)
(* characters, all texts of TextLength characters behind a tag and a       *)
(* blank, and all documents of two lines of LineLength characters, or      *)
(* less, each over a set of characters of its own.                         *)
(***************************************************************************)
EXTENDS PugTokenizer

CONSTANTS PieceChar, PieceLength, TextChar, TextLength, LineChar, LineLength

Strings(S, n) == UNION { [1 .. k -> S] : k \in 0 .. n }

MCDocuments ==
    { << s >> : s \in Strings(PieceChar, PieceLength) }
        \cup { << << "a", " " >> \o s >> : s \in Strings(TextChar, TextLength) }
        \cup Strings(Strings(LineChar, LineLength), 2)

MCChar == PieceChar \cup TextChar \cup LineChar \cup { "a", " " }
Letters == MCChar \cap ({ "a", "b" } \cup Word)
Digits == MCChar \cap { "1" }
=============================================================================
