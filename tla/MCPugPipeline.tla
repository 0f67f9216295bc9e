--------------------------- MODULE MCPugPipeline ---------------------------
(***************************************************************************)
(* Bounded documents for PugPipeline: up to MaxLines lines, each one of a  *)
(* few that the stages treat differently.                                  *)
(***************************************************************************)
EXTENDS PugPipeline

CONSTANT MaxLines

(* Tags at three depths, a void one, one named like the artificial root,   *)
(* two ids, a class that opens its line, a line of code.                   *)
MCLines ==
    { << "a" >>, << " ", " ", "a" >>, << " ", " ", " ", " ", "a", ".", "a" >>,
      << " ", " ", "b" >>, << "r" >>, << "a", "#", "a", "#", "a" >>,
      << ".", "a", " ", "a" >>, << " ", " ", "-", "a" >> }

MCDocuments == UNION { [ 1 .. n -> MCLines ] : n \in 1 .. MaxLines }

MCVoidTags == { << "b" >> }
MCRootTags == { << "r" >> }

(* Without EOF the tokens are read over and over: once is enough.          *)
OneRound == ~ (EofLost /\ current_token = UIntMax)
=============================================================================
