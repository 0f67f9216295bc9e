----------------------------- MODULE PugTokens -----------------------------
(***************************************************************************)
(* The token vocabulary shared by the tokenizer, the parser and the        *)
(* renderer (include/pug/pug_tokens.h), and the contract between the       *)
(* tokenizer, which produces token lists, and the parser, which reads      *)
(* them.  A token value is a sequence of characters; Char is whatever set  *)
(* of characters or character classes an instance distinguishes.           *)
(***************************************************************************)
EXTENDS Naturals, Sequences

CONSTANT Char

(* Tokens that take a whole source line for themselves. *)
DirectiveType == { "DOCTYPE", "INCLUDE", "EXTENDS", "MIXIN", "CALL",
                   "BLOCK_COMMENT", "COMMENT", "PIPE", "CODE" }

(* Tokens that the main loop of tokenize_line cuts out of a line. *)
PieceType == { "TAG", "ID", "CLASS", "DOT", "ATTRIBUTE" }

(* Tokens of the text that ends a line. *)
RunType == { "TEXT", "INTERPOLATION" }

TokenType == DirectiveType \cup PieceType \cup RunType \cup { "EOF" }

Token == [type : TokenType, depth : Nat, line : Nat, column : Nat,
          value : Seq(Char)]

IsToken(tokens, i, types) == i \in DOMAIN tokens /\ tokens[i].type \in types

SameLine(tokens, i, j) == tokens[i].line = tokens[j].line

-----------------------------------------------------------------------------
(***************************************************************************)
(* What tokenize_file promises about the list it returns, clause by        *)
(* clause.  The parser is checked for every list that satisfies it.        *)
(***************************************************************************)

(* The list ends with the only EOF token, which has depth 0. *)
EndsWithEof(tokens) ==
    /\ tokens # << >>
    /\ tokens[Len(tokens)].depth = 0
    /\ \A i \in DOMAIN tokens : tokens[i].type = "EOF" <=> i = Len(tokens)

(* Tokens come in line order, and the tokens of a line share its depth. *)
InLineOrder(tokens) ==
    \A i, j \in DOMAIN tokens :
        i < j => /\ tokens[i].line <= tokens[j].line
                 /\ SameLine(tokens, i, j) => tokens[i].depth = tokens[j].depth

(* A directive is alone on its line. *)
DirectivesAlone(tokens) ==
    \A i, j \in DOMAIN tokens :
        IsToken(tokens, i, DirectiveType) /\ SameLine(tokens, i, j) => i = j

(* Text runs to the end of its line and starts with plain text. *)
TextEndsLine(tokens) ==
    \A i \in DOMAIN tokens :
        /\ \A j \in DOMAIN tokens :
              i < j /\ SameLine(tokens, i, j) /\ IsToken(tokens, i, RunType)
                  => IsToken(tokens, j, RunType)
        /\ IsToken(tokens, i, {"INTERPOLATION"})
              => IsToken(tokens, i - 1, RunType) /\ SameLine(tokens, i - 1, i)

(* Which values may be empty: a class, a tag and a text never, a dot always. *)
ValuesFit(tokens) ==
    \A i \in DOMAIN tokens :
        /\ IsToken(tokens, i, {"CLASS", "TAG", "TEXT"}) => tokens[i].value # << >>
        /\ IsToken(tokens, i, {"DOT", "EOF"}) => tokens[i].value = << >>

WellFormedTokens(tokens) ==
    /\ EndsWithEof(tokens)
    /\ InLineOrder(tokens)
    /\ DirectivesAlone(tokens)
    /\ TextEndsLine(tokens)
    /\ ValuesFit(tokens)
=============================================================================
