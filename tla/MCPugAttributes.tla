-------------------------- MODULE MCPugAttributes --------------------------
(***************************************************************************)
(* Bounded inputs for PugAttributes: all values of at most MaxLength       *)
(* characters, and all ways to write the lists of at most two attributes   *)
(* with names of Words and values of Contents, or with one value that has  *)
(* a comma in it, or that is a quote mark and nothing else.                *)
(***************************************************************************)
EXTENDS PugAttributes

CONSTANTS ShortChar, MaxLength, Words, Contents

Strings == UNION { [1 .. n -> ShortChar] : n \in 0 .. MaxLength }

Spaces == { << >>, << " " >> }

(* The ways to write one attribute, with what it is read as.  A value may    *)
(* stand without quote marks if it neither begins nor ends with a blank.     *)
Attr(w, v) == [ name |-> w, value |-> v ]
Spelled(w, s1, written, s2) == s1 \o w \o s2 \o << "=" >> \o s1 \o written \o s2

Quotes(v) ==
    { << q >> : q \in { m \in QuoteMark : ~ Contains(v, m) } }
        \cup IF Strip(v) = v THEN { << >> } ELSE {}

Spelling ==
    UNION { { [ text |-> Spelled(w, s1, q \o v \o q, s2), means |-> << Attr(w, v) >> ] :
                s1 \in Spaces, s2 \in Spaces, q \in Quotes(v) }
            : w \in Words, v \in Contents }

(* A comma ends the value, in quote marks or not: the half before it keeps   *)
(* the quote mark that opens the value, unless there is nothing else in it,  *)
(* and the half behind it is a pair of its own, whose value keeps the one    *)
(* that closes it, or is dropped.                                            *)
Halves == { << >>, << "b" >>, << "a", "=", "b" >> }

CutAtComma ==
    UNION { { [ text |-> Spelled(w, s1, q \o v1 \o << "," >> \o v2 \o q, s2),
                means |-> << Attr(w, IF v1 = << >> THEN << >> ELSE q \o v1) >>
                            \o IF Contains(v2, "=")
                               THEN << Attr(<< "a" >>, << "b" >> \o q) >> ELSE << >> ] :
                s1 \in Spaces, s2 \in Spaces, v1 \in Halves, v2 \in Halves }
            : w \in Words, q \in { << >> } \cup { << m >> : m \in QuoteMark } }
LoneQuote ==
    { [ text |-> Spelled(w, s1, << m >>, s2), means |-> << Attr(w, << >>) >> ] :
      w \in Words, s1 \in Spaces, s2 \in Spaces, m \in QuoteMark }

Lists ==
    { [ text |-> << >>, means |-> << >> ] }
        \cup Spelling \cup CutAtComma \cup LoneQuote
        \cup { [ text |-> a.text \o << "," >> \o b.text, means |-> a.means \o b.means ] :
               a \in Spelling, b \in Spelling }

Texts == { l.text : l \in Lists }

MCValues == Strings \cup Texts

(* Whatever blanks and quote marks it is written with, a list of attributes  *)
(* is read back as it was meant: a value may contain equals signs, the other *)
(* quote mark, or blanks at its ends.  The value is split at every comma     *)
(* ("Divide el valor del token por comas", pug_parser.h), so one inside      *)
(* quote marks cuts the value in two and leaves each half its quote mark;    *)
(* and a value that is one quote mark opens and closes nothing.              *)
ReadsBack ==
    pc = "done" /\ faults = 0 /\ value \in Texts =>
        [ text |-> value, means |-> attributes ] \in Lists

MCChar == ShortChar \cup { "a", "b", "=", ",", " " } \cup QuoteMark
NoWords == {}
MCWords == { << "a" >>, << "a", "b" >> }
MCContents == { << "b" >>, << "a", "=", "b" >>, << " ", "b" >>, << "a", "'", "a" >> }
=============================================================================
