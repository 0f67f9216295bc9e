---------------------------- MODULE PugTokenizer ----------------------------
(***************************************************************************)
(* The tokenizer of c-pug (include/pug/pug_tokenizer.h), storing its       *)
(* tokens in the list of include/pug/pug_token_list.h.  tokenize_file goes *)
(* through the lines of a document; tokenize_line recognises a directive   *)
(* by the start of a line and cuts any other line into pieces, each        *)
(* iteration of its loops being one action here.                           *)
(*                                                                         *)
(* A line is a sequence of characters; the end of a line reads as NUL.     *)
(* The four words that open a directive count as one character each.       *)
(* Positions and columns are counted from 1.  realloc may fail, at most    *)
(* MaxFaults times; the GLib allocators abort and are not modelled.        *)
(***************************************************************************)
EXTENDS PugTokens, FiniteSets

CONSTANTS
    Documents,      (* the documents, each a sequence of lines              *)
    Alpha,          (* the characters isalpha accepts                       *)
    Digit,          (* the digits, which isalnum accepts as well            *)
    ListCapacity,   (* initial capacity of a token list, 10 in the code     *)
    MaxFaults       (* bound on the allocation failures of a behaviour      *)

NUL == "NUL"
Blank == { " ", "tab" }
Mark == { "#", ".", "(", ")", "{", "}", "+", "|", "-", "/", "_" }

ASSUME TokenizerAssumption ==
    /\ Documents \subseteq Seq(Seq(Char))
    /\ Alpha \subseteq Char /\ Digit \subseteq Char
    /\ Alpha \cap Digit = {}
    /\ (Alpha \cup Digit) \cap (Blank \cup Mark) = {}
    /\ NUL \notin Char
    /\ ListCapacity \in Nat \ {0}
    /\ MaxFaults \in Nat

VARIABLES
    lines,          (* the document, split at line ends                     *)
    current_line,   (* the line tokenize_file is at, from 1                 *)
    mode,           (* where tokenize_line is                               *)
    pos,            (* the position it reads next                           *)
    column,         (* the column it gives to the next token                *)
    token_list,     (* token_list->tokens[0 .. count - 1]                   *)
    capacity,       (* token_list->capacity                                 *)
    spans,          (* where the value of each token was cut: first, past   *)
    faults          (* allocation failures so far                           *)

list == << token_list, capacity, spans, faults >>
vars == << lines, current_line, mode, pos, column, list >>

-----------------------------------------------------------------------------
(* Reading a line. *)

CharAt(s, i) == IF i <= Len(s) THEN s[i] ELSE NUL

(* The first position from p on whose character is not in S. *)
SpanEnd(s, p, S) ==
    CHOOSE i \in p .. Len(s) + 1 :
        /\ CharAt(s, i) \notin S
        /\ \A j \in p .. i - 1 : s[j] \in S

IdChar == Alpha \cup Digit \cup { "-", "_" }
TagChar == Alpha \cup Digit \cup { "-" }

(* The position of the parenthesis that closes the one before p, or past the *)
(* end of the line.                                                          *)
Opened(s, p, i) ==
    1 + Cardinality({ j \in p .. i : s[j] = "(" })
      - Cardinality({ j \in p .. i : s[j] = ")" })
(* Mutant: the parentheses are not counted. *)
FirstClosing(s, p) == SpanEnd(s, p, Char \ { ")" })
Closing(s, p) ==
    CHOOSE i \in p .. Len(s) + 1 :
        /\ i <= Len(s) => Opened(s, p, i) = 0
        /\ \A j \in p .. i - 1 : Opened(s, p, j) # 0

(* count_indent_level: a level for each tab and each second space of a run. *)
Margin(s) == SpanEnd(s, 1, Blank)
RunStart(s, i) ==
    CHOOSE j \in 1 .. i : /\ \A k \in j .. i : s[k] = " "
                          /\ j > 1 => s[j - 1] # " "
IndentLevel(s) ==
    Cardinality({ i \in 1 .. Margin(s) - 1 :
                     s[i] = " " => (i - RunStart(s, i)) % 2 = 1 })

Line == lines[current_line]
InLine == current_line <= Len(lines)
Here == CharAt(Line, pos)
Ahead == CharAt(Line, pos + 1)

-----------------------------------------------------------------------------
(***************************************************************************)
(* token_list_add of a new token whose value is cut from [first, past).    *)
(* realloc may fail when the list is full: the token is lost.              *)
(***************************************************************************)

ListFull == Len(token_list) >= capacity

NewToken(type, first, past, col) ==
    [ type |-> type, depth |-> IndentLevel(Line), line |-> current_line,
      column |-> col, value |-> SubSeq(Line, first, past - 1) ]

Eof == [ type |-> "EOF", depth |-> 0, line |-> Len(lines) + 1, column |-> 0,
         value |-> << >> ]

Store(token, first, past) ==
    /\ token_list' = Append(token_list, token)
    /\ spans' = Append(spans, << first, past >>)
    /\ capacity' = IF ListFull THEN 2 * capacity ELSE capacity
    /\ UNCHANGED faults

Lose ==
    /\ ListFull
    /\ faults < MaxFaults
    /\ faults' = faults + 1
    /\ UNCHANGED << token_list, capacity, spans >>

Add(token, first, past) == Store(token, first, past) \/ Lose

Emit(type, first, past, col) == Add(NewToken(type, first, past, col), first, past)

Init ==
    /\ lines \in Documents
    /\ current_line = 1
    /\ mode = "line"
    /\ pos = 1
    /\ column = 1
    /\ token_list = << >>
    /\ capacity = ListCapacity
    /\ spans = << >>
    /\ faults = 0

NextLine ==
    /\ current_line' = current_line + 1
    /\ mode' = "line"
    /\ UNCHANGED << lines, pos, column >>

-----------------------------------------------------------------------------
(***************************************************************************)
(* The start of a line: nothing, a directive, or pieces.                   *)
(***************************************************************************)

Word == { "doctype", "include", "extends", "mixin" }
Opener == Word \cup { "+", "|", "-" }

DirectiveOf ==
    [ w \in Opener |->
        CASE w = "doctype" -> "DOCTYPE" [] w = "include" -> "INCLUDE"
          [] w = "extends" -> "EXTENDS" [] w = "mixin"   -> "MIXIN"
          [] w = "+"       -> "CALL"    [] w = "|"       -> "PIPE"
          [] w = "-"       -> "CODE" ]

IsComment(s, p) == CharAt(s, p) = "/" /\ CharAt(s, p + 1) = "/"

SkipBlankLine ==
    /\ mode = "line" /\ InLine
    /\ CharAt(Line, Margin(Line)) = NUL
    /\ NextLine
    /\ UNCHANGED list

ScanDirective ==
    /\ mode = "line" /\ InLine
    /\ LET start == Margin(Line)
       IN  /\ CharAt(Line, start) \in Opener
           /\ Emit(DirectiveOf[Line[start]],
                   SpanEnd(Line, start + 1, Blank), Len(Line) + 1, start)
    /\ NextLine

ScanComment ==
    /\ mode = "line" /\ InLine
    /\ LET start == Margin(Line)
       IN  /\ IsComment(Line, start)
           /\ IF CharAt(Line, start + 2) = "-"
              THEN Emit("BLOCK_COMMENT", start + 3, Len(Line) + 1, start)
              ELSE Emit("COMMENT", start + 2, Len(Line) + 1, start)
    /\ NextLine

(* Mutant: the first character is skipped. *)
OpenLineLate ==
    /\ mode = "line" /\ InLine
    /\ LET start == Margin(Line)
       IN  /\ CharAt(Line, start) \notin Opener \cup {NUL}
           /\ ~ IsComment(Line, start)
           /\ pos' = start + 1
           /\ column' = start
    /\ mode' = "main"
    /\ UNCHANGED << lines, current_line, list >>

OpenLine ==
    /\ mode = "line" /\ InLine
    /\ LET start == Margin(Line)
       IN  /\ CharAt(Line, start) \notin Opener \cup {NUL}
           /\ ~ IsComment(Line, start)
           /\ pos' = start
           /\ column' = start
    /\ mode' = "main"
    /\ UNCHANGED << lines, current_line, list >>

-----------------------------------------------------------------------------
(***************************************************************************)
(* The main loop of tokenize_line.                                         *)
(***************************************************************************)

ScanIn(m) == mode = m /\ UNCHANGED << lines, current_line >>

(* Any run of name characters after #, even an empty one, is an id. *)
ScanId ==
    /\ ScanIn("main") /\ UNCHANGED mode
    /\ Here = "#"
    /\ LET past == SpanEnd(Line, pos + 1, IdChar)
       IN  /\ Emit("ID", pos + 1, past, pos + 1)
           /\ pos' = past
    /\ column' = pos + 1

(* Mutant: a dot is always a class. *)
ClassOrClass(first, past) == "CLASS"
ClassOrDot(first, past) == IF first < past THEN "CLASS" ELSE "DOT"

ScanClass ==
    /\ ScanIn("main") /\ UNCHANGED mode
    /\ Here = "."
    /\ LET past == SpanEnd(Line, pos + 1, IdChar)
       IN  /\ Emit(ClassOrDot(pos + 1, past), pos + 1, past, pos + 1)
           /\ pos' = past
    /\ column' = pos + 1

(* Mutant: the position moves past the end of an unclosed list. *)
ScanAttributePastNul ==
    /\ ScanIn("main") /\ UNCHANGED mode
    /\ Here = "("
    /\ LET past == Closing(Line, pos + 1)
       IN  /\ Emit("ATTRIBUTE", pos + 1, past, column)
           /\ pos' = past + 1
    /\ UNCHANGED column

(* The column of the token before is reused. *)
ScanAttribute ==
    /\ ScanIn("main") /\ UNCHANGED mode
    /\ Here = "("
    /\ LET past == Closing(Line, pos + 1)
       IN  /\ Emit("ATTRIBUTE", pos + 1, past, column)
           /\ pos' = IF past <= Len(Line) THEN past + 1 ELSE past
    /\ UNCHANGED column

(* Mutant: the loop over the characters of a tag reads one. *)
TagPastOne(p) == p + 1
TagPast(p) == SpanEnd(Line, p, TagChar)

ScanTag ==
    /\ ScanIn("main") /\ UNCHANGED mode
    /\ Here \in Alpha
    /\ Emit("TAG", pos, SpanEnd(Line, pos, TagChar), pos)
    /\ pos' = TagPast(pos)
    /\ column' = pos

StartsText(c) == c \notin { NUL, "#", "." }

(* Mutant: the position is not moved. *)
SkipBlanksStays ==
    /\ ScanIn("main")
    /\ Here = " "
    /\ ~ StartsText(CharAt(Line, SpanEnd(Line, pos, Blank)))
    /\ UNCHANGED << mode, pos, column, list >>

(* Blanks before the end of the line or before an id or a class. *)
SkipBlanks ==
    /\ ScanIn("main") /\ UNCHANGED mode
    /\ Here = " "
    /\ LET next == SpanEnd(Line, pos, Blank)
       IN  /\ ~ StartsText(CharAt(Line, next))
           /\ pos' = next
    /\ UNCHANGED << column, list >>

OpenText ==
    /\ ScanIn("main")
    /\ Here = " "
    /\ LET next == SpanEnd(Line, pos, Blank)
       IN  /\ StartsText(CharAt(Line, next))
           /\ pos' = next
           /\ column' = next
    /\ mode' = "text"
    /\ UNCHANGED list

SkipOther ==
    /\ ScanIn("main") /\ UNCHANGED mode
    /\ Here \notin Alpha \cup { "#", ".", "(", " ", NUL }
    /\ pos' = pos + 1
    /\ UNCHANGED << column, list >>

-----------------------------------------------------------------------------
(***************************************************************************)
(* The loop that cuts the rest of a line into text and interpolations.     *)
(***************************************************************************)

(* The column of the token before is reused after an interpolation. *)
ScanText ==
    /\ ScanIn("text") /\ UNCHANGED mode
    /\ Here \notin { "#", NUL }
    /\ LET past == SpanEnd(Line, pos, Char \ { "#" })
       IN  /\ Emit("TEXT", pos, past, column)
           /\ pos' = past
    /\ UNCHANGED column

(* An interpolation that is not closed takes the rest of the line. *)
ScanInterpolation ==
    /\ ScanIn("text") /\ UNCHANGED mode
    /\ Here = "#" /\ Ahead = "{"
    /\ LET past == SpanEnd(Line, pos + 2, Char \ { "}" })
       IN  /\ Emit("INTERPOLATION", pos + 2, past, pos + 2)
           /\ pos' = IF past <= Len(Line) THEN past + 1 ELSE past
    /\ column' = pos + 2

(* The # is appended to the buffer, which is emptied before it is used. *)
SkipHash ==
    /\ ScanIn("text") /\ UNCHANGED mode
    /\ Here = "#" /\ Ahead # "{"
    /\ pos' = pos + 1
    /\ UNCHANGED << column, list >>

EndLine ==
    /\ mode \in { "main", "text" }
    /\ Here = NUL
    /\ NextLine
    /\ UNCHANGED list

-----------------------------------------------------------------------------
AddEof ==
    /\ mode = "line" /\ ~ InLine
    /\ Add(Eof, 0, 0)
    /\ mode' = "done"
    /\ UNCHANGED << lines, current_line, pos, column >>

Stopped == mode = "done" /\ UNCHANGED vars

Next ==
    \/ SkipBlankLine \/ ScanDirective \/ ScanComment \/ OpenLine
    \/ ScanId \/ ScanClass \/ ScanAttribute \/ ScanTag
    \/ SkipBlanks \/ OpenText \/ SkipOther
    \/ ScanText \/ ScanInterpolation \/ SkipHash \/ EndLine
    \/ AddEof \/ Stopped

(* tokenize_file runs on one thread and never blocks. *)
Spec == Init /\ [][Next]_vars /\ WF_vars(Next)

-----------------------------------------------------------------------------
(***************************************************************************)
(* Properties                                                              *)
(***************************************************************************)

(* Every variable has its type, reading never goes beyond the NUL that ends  *)
(* a line, and the list never holds more tokens than there is room for.      *)
TypeOK ==
    /\ lines \in Seq(Seq(Char))
    /\ current_line \in 1 .. Len(lines) + 1
    /\ mode \in { "line", "main", "text", "done" }
    /\ mode \in { "main", "text" } => InLine /\ pos \in 1 .. Len(Line) + 1
    /\ column \in Nat
    /\ token_list \in Seq(Token)
    /\ spans \in Seq(Nat \X Nat) /\ Len(spans) = Len(token_list)
    /\ capacity \in Nat /\ Len(token_list) <= capacity
    /\ faults \in 0 .. MaxFaults

(* As long as no allocation fails, the finished list keeps the contract on   *)
(* which the parser relies: it ends with its only EOF, tokens come in line   *)
(* order and share the depth of their line, directives are alone, and text   *)
(* runs to the end of its line and never starts with an interpolation.       *)
ProducesWellFormed == mode = "done" /\ faults = 0 => WellFormedTokens(token_list)

(* The values of a line's tokens are cut from disjoint pieces of the line,   *)
(* in order and behind the position that is read next: no character is in    *)
(* two tokens, even if tokens between them were lost.                        *)
CutInOrder ==
    \A j \in DOMAIN spans :
        /\ spans[j][1] <= spans[j][2]
        /\ \A i \in 1 .. j - 1 :
              SameLine(token_list, i, j) => spans[i][2] <= spans[j][1]
        /\ token_list[j].line = current_line /\ mode # "done"
              => spans[j][2] <= pos

Covered(l, i) ==
    \E k \in DOMAIN spans : /\ token_list[k].line = l
                            /\ spans[k][1] <= i /\ i < spans[k][2]

(* The lines that were cut into pieces, without those that hold a directive. *)
PieceLines ==
    { l \in 1 .. Len(lines) :
         /\ l < current_line
         /\ CharAt(lines[l], Margin(lines[l])) \notin Opener
         /\ ~ IsComment(lines[l], Margin(lines[l])) }

(* Punctuation may be skipped, but no letter of the document is: outside the *)
(* directives each one is part of a token.                                   *)
LettersKept ==
    faults = 0 => \A l \in PieceLines : \A i \in DOMAIN lines[l] :
                     lines[l][i] \in Alpha => Covered(l, i)

(* The parentheses inside an attribute token pair up, unless the line ended  *)
(* before the token was closed.                                              *)
ParensBalanced ==
    \A k \in DOMAIN token_list :
        token_list[k].type = "ATTRIBUTE" =>
            LET s == token_list[k].value
                Count(c, m) == Cardinality({ i \in 1 .. m : s[i] = c })
            IN  /\ \A m \in 0 .. Len(s) : Count(")", m) <= Count("(", m)
                /\ \/ Count(")", Len(s)) = Count("(", Len(s))
                   \/ spans[k][2] = Len(lines[token_list[k].line]) + 1

(* Tokenizing comes to an end. *)
Terminates == <>(mode = "done")

(* Claimed by "Detectar TEXTO (despues de espacio), con manejo de             *)
(* interpolaciones #{}": an interpolation behind a blank is recognised.       *)
InterpolationsSeen ==
    \A l \in PieceLines : \A i \in 2 .. Len(lines[l]) :
        /\ lines[l][i - 1] \in Blank
        /\ lines[l][i] = "#" /\ CharAt(lines[l], i + 1) = "{"
        /\ ~ Covered(l, i)
        => \E k \in DOMAIN spans : /\ token_list[k].type = "INTERPOLATION"
                                   /\ token_list[k].line = l
                                   /\ spans[k][1] = i + 2
=============================================================================
