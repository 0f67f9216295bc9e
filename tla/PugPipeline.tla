---------------------------- MODULE PugPipeline ----------------------------
(***************************************************************************)
(* The program as a whole: main (src/main.c) reads a file, tokenizes it    *)
(* once for its statistics, and calls process_pug_file (include/c-pug.h),  *)
(* which tokenizes it again, parses, renders and frees.  The tokenizer,    *)
(* the parser and the renderer are the modules of their own, each taking   *)
(* its steps while it is called.                                           *)
(*                                                                         *)
(* What this module adds is the memory: live are the blocks that were      *)
(* allocated and not freed.  A block stands for a structure with the       *)
(* strings and buffers that belong to it.  Copied values that the parser   *)
(* forgets are in its variable leaked.  Once a block is freed twice,       *)
(* nothing more can be said of the program (stage "undefined").            *)
(***************************************************************************)
EXTENDS PugTokens, SequencesExt

CONSTANTS
    Documents, Alpha, Digit, ListCapacity,                \* see PugTokenizer
    ChildCapacity, ClassChunk, AttributeRoom, UIntMax,    \* see PugParser
    VoidTags,       (* the tag names in void_tags                           *)
    RootTags,       (* the tag names that read "root"                       *)
    MaxFaults       (* bound on the allocation failures of a behaviour      *)

VARIABLES
    stage,          (* what main or process_pug_file is doing               *)
    live,           (* the blocks that are allocated                        *)
    lost,           (* tokens that no list took                             *)
    freeing,        (* the calls of ast_node_free that are not through      *)
    faults,         (* allocation failures so far                           *)
    lines, current_line, mode, pos, column, token_list, list_capacity, spans,
    current_token, current_parent, pc, node, depth, parent, children,
    capacity, slots, dropped, leaked,
    stack, calling, output

tokenizer == << lines, current_line, mode, pos, column, token_list,
                list_capacity, spans >>
parser == << current_token, current_parent, pc, node, depth, parent, children,
             capacity, slots, dropped, leaked >>
renderer == << stack, calling, output >>
vars == << stage, live, lost, freeing, faults, tokenizer, parser, renderer >>

Tokenizer == INSTANCE PugTokenizer WITH capacity <- list_capacity
Parser == INSTANCE PugParser WITH tokens <- token_list, TokenLists <- {}

(* The characters of a document and its line ends.  The counters of tokens *)
(* and levels are unsigned ints: a document has fewer characters than that. *)
Places(document) ==
    UNION { {l} \X (1 .. Len(document[l]) + 1) : l \in DOMAIN document }

ASSUME PipelineAssumption ==
    /\ Documents \subseteq Seq(Seq(Char))
    /\ \A d \in Documents : Cardinality(Places(d)) + 1 < UIntMax
    /\ Alpha \subseteq Char /\ Digit \subseteq Char
    /\ Alpha \cap Digit = {}
    /\ (Alpha \cup Digit) \cap (Tokenizer!Blank \cup Tokenizer!Mark) = {}
    /\ Tokenizer!NUL \notin Char
    /\ ListCapacity \in Nat \ {0}
    /\ ChildCapacity \in Nat \ {0}
    /\ ClassChunk \in Nat \ {0}
    /\ AttributeRoom \in Nat \ {0}
    /\ UIntMax \in Nat \ {0}
    /\ MaxFaults \in Nat
    /\ VoidTags \cap RootTags = {}

(* The tree as the renderer sees it.                                       *)
Name(n) == IF n = 1 THEN << >> ELSE token_list[node[n].tok].value
Rendered(n) ==
    [ type |-> node[n].type,
      tag |-> IF node[n].type # "TAG" THEN "plain"
              ELSE IF n = 1 \/ Name(n) \in RootTags THEN "root"
              ELSE IF Name(n) \in VoidTags THEN "void" ELSE "plain",
      has_text |-> node[n].text # << >> ]
Tree == [ node |-> [ n \in DOMAIN node |-> Rendered(n) ], depth |-> depth,
          children |-> children ]

Renderer == INSTANCE PugRenderer WITH tree <- Tree, Trees <- {}

-----------------------------------------------------------------------------
(* Blocks.                                                                 *)
Content == << "content" >>
List == << "list" >>
TokenBlock(i) == << "token", i >>
Context == << "context" >>
NodeBlock(n) == << "node", n >>
Html == << "html" >>

Fault == faults < MaxFaults /\ faults' = faults + 1
NoFault == UNCHANGED faults

Goto(next) == stage' = next

(* free.                                                                   *)
Free(blocks, next) ==
    IF blocks \subseteq live
    THEN live' = live \ blocks /\ Goto(next)
    ELSE Goto("undefined") /\ UNCHANGED live

Init ==
    /\ stage = "read"
    /\ live = {}
    /\ lost = 0
    /\ freeing = << >>
    /\ faults = 0
    /\ Tokenizer!Init
    /\ current_token = 0 /\ current_parent = Parser!NULL /\ pc = "parse"
    /\ node = << >> /\ depth = << >> /\ parent = << >> /\ children = << >>
    /\ capacity = << >> /\ slots = << >> /\ dropped = {} /\ leaked = {}
    /\ stack = << >> /\ calling = Parser!NULL
    /\ output = [ minify \in BOOLEAN |-> << >> ]

(* g_file_get_contents.                                                    *)
Read ==
    /\ stage = "read"
    /\ \/ live' = live \cup { Content, List } /\ Goto("show")
       \/ UNCHANGED live /\ Goto("exit")
    /\ UNCHANGED << lost, freeing, faults, tokenizer, parser, renderer >>

(* tokenize_file, called by main and by process_pug_file.                  *)
Tokenize ==
    /\ stage \in { "show", "tokenize" } /\ mode # "done"
    /\ Tokenizer!Next
    /\ live' = live \cup { TokenBlock(i) : i \in DOMAIN token_list' \ DOMAIN token_list }
    /\ lost' = lost + faults' - faults
    /\ UNCHANGED << stage, freeing, parser, renderer >>

(* main is through with its statistics: token_list_free, and the list of   *)
(* process_pug_file is begun.                                              *)
TokensOf(list) == { List } \cup { TokenBlock(i) : i \in DOMAIN list }

StartAgain ==
    /\ current_line' = 1 /\ mode' = "line" /\ pos' = 1 /\ column' = 1
    /\ token_list' = << >> /\ list_capacity' = ListCapacity /\ spans' = << >>
    /\ UNCHANGED lines

EndStatistics ==
    /\ stage = "show" /\ mode = "done"
    /\ live' = (live \ TokensOf(token_list)) \cup { List }
    /\ Goto("tokenize")
    /\ StartAgain
    /\ UNCHANGED << lost, freeing, faults, parser, renderer >>

(* parser_context_create.                                                  *)
CreateContext ==
    /\ stage = "tokenize" /\ mode = "done"
    /\ NoFault
    /\ live' = live \cup { Context }
    /\ Goto("root")
    /\ UNCHANGED << lost, freeing, tokenizer, parser, renderer >>

CreateContextFails ==
    /\ stage = "tokenize" /\ mode = "done"
    /\ Fault
    /\ Free(TokensOf(token_list), "report")
    /\ UNCHANGED << lost, freeing, tokenizer, parser, renderer >>

(* The start of parse_pug: the artificial root.                            *)
CreateRoot ==
    /\ stage = "root"
    /\ NoFault
    /\ live' = live \cup { NodeBlock(1) }
    /\ node' = << Parser!RootNode >> /\ depth' = << UIntMax >>
    /\ parent' = << Parser!NULL >> /\ children' = << << >> >>
    /\ capacity' = << ChildCapacity >> /\ slots' = << ChildCapacity >>
    /\ current_parent' = Parser!Root
    /\ Goto("parse")
    /\ UNCHANGED << lost, freeing, tokenizer, renderer, current_token, pc,
                    dropped, leaked >>

(* Mutant: process_pug_file frees the tokens, which are in the context.    *)
CreateRootFailsFreeing ==
    /\ stage = "root"
    /\ Fault
    /\ live' = live \ TokensOf(token_list)
    /\ Goto("free")
    /\ UNCHANGED << lost, freeing, tokenizer, parser, renderer >>

CreateRootFails ==
    /\ stage = "root"
    /\ Fault
    /\ Goto("free")
    /\ UNCHANGED << live, lost, freeing, tokenizer, parser, renderer >>

(* A node that parse_node rejects is freed at once.                        *)
Parse ==
    /\ stage = "parse" /\ pc \notin { "done", "undefined" }
    /\ Parser!Next
    /\ live' = live \cup { NodeBlock(n) : n \in DOMAIN node' \ DOMAIN node }
    /\ UNCHANGED << stage, lost, freeing, renderer, tokenizer >>

(* render_ast is called, and returns.                                      *)
StartRender ==
    /\ stage = "parse" /\ pc = "done"
    /\ Goto("render")
    /\ calling' = Parser!Root
    /\ live' = live \cup { Html }
    /\ UNCHANGED << lost, freeing, faults, tokenizer, parser, stack, output >>

Render ==
    /\ stage = "render" /\ ~ Renderer!Finished
    /\ UNCHANGED << stage, live, lost, freeing, faults, tokenizer, parser >>
    /\ Renderer!Next

(* Mutant: the context is not freed.                                       *)
EndRenderKeeping ==
    /\ stage = "render" /\ Renderer!Finished
    /\ Goto("report")
    /\ UNCHANGED << live, lost, freeing, faults, tokenizer, parser, renderer >>

EndRender ==
    /\ stage = "render" /\ Renderer!Finished
    /\ Goto("free")
    /\ UNCHANGED << live, lost, freeing, faults, tokenizer, parser, renderer >>

-----------------------------------------------------------------------------
(***************************************************************************)
(* parser_context_free: the tokens, the tree, the context.  ast_node_free  *)
(* is recursive, and frees a node when its children are freed.             *)
(***************************************************************************)
Call(n) == [ node |-> n, next |-> 1 ]

FreeTokens ==
    /\ stage = "free"
    /\ Free(TokensOf(token_list), IF node = << >> THEN "context" ELSE "tree")
    /\ freeing' = IF node = << >> THEN << >> ELSE << Call(Parser!Root) >>
    /\ UNCHANGED << lost, faults, tokenizer, parser, renderer >>

Freed == Last(freeing).node
Unvisited == Last(freeing).next <= Len(children[Freed])

(* Mutant: the counter of the loop is not incremented.                     *)
FreeChildAgain ==
    /\ stage = "tree" /\ freeing # << >> /\ Unvisited
    /\ UNCHANGED vars

FreeChild ==
    /\ stage = "tree" /\ freeing # << >> /\ Unvisited
    /\ LET i == Last(freeing).next
       IN  freeing' = Append([ freeing EXCEPT ![Len(freeing)].next = i + 1 ],
                             Call(children[Freed][i]))
    /\ UNCHANGED << stage, live, lost, faults, tokenizer, parser, renderer >>

FreeNode ==
    /\ stage = "tree" /\ freeing # << >> /\ ~ Unvisited
    /\ Free({ NodeBlock(Freed) }, IF Len(freeing) = 1 THEN "context" ELSE "tree")
    /\ freeing' = Front(freeing)
    /\ UNCHANGED << lost, faults, tokenizer, parser, renderer >>

FreeContext ==
    /\ stage = "context"
    /\ Free({ Context }, "report")
    /\ UNCHANGED << lost, freeing, faults, tokenizer, parser, renderer >>

(* main prints and frees what it got, frees the content, and goes on to    *)
(* the examples of regular expressions.                                    *)
Report ==
    /\ stage = "report"
    /\ Free({ Content } \cup (live \cap { Html }), "exit")
    /\ UNCHANGED << lost, freeing, faults, tokenizer, parser, renderer >>

Stopped ==
    /\ stage \in { "exit", "undefined" } \/ pc = "undefined"
    /\ UNCHANGED vars

Next ==
    \/ Read \/ Tokenize \/ EndStatistics
    \/ CreateContext \/ CreateContextFails \/ CreateRoot \/ CreateRootFails
    \/ Parse \/ StartRender \/ Render \/ EndRender
    \/ FreeTokens \/ FreeChild \/ FreeNode \/ FreeContext \/ Report
    \/ Stopped

(* The program runs on one thread and never blocks.                        *)
Spec == Init /\ [][Next]_vars /\ WF_vars(Next)

-----------------------------------------------------------------------------
(***************************************************************************)
(* Properties                                                              *)
(***************************************************************************)

(* No block is freed twice, whatever failed before: the tree of the parser *)
(* has no node twice, and of the tokens, the context and the tree each is  *)
(* freed by one function only (process_pug_file, parser_context_free).     *)
FreedOnce == stage # "undefined"

(* The nodes that hang in the tree.                                        *)
InTree == Renderer!Subtree(Parser!Root)

(* When the program ends, what it has not freed, besides the tokens that   *)
(* no list took, are the nodes that do not hang in the tree, and what       *)
(* parse_node has leaked.  There are such nodes only if an allocation       *)
(* failed; without a failure only ids are leaked, each one replaced by a    *)
(* later id of the same node (parser_context_free: "Libera un contexto de   *)
(* parsing y sus recursos").                                                *)
Replaced(i) ==
    /\ token_list[i].type = "ID"
    /\ \E n \in DOMAIN node : node[n].tok < i /\ i < node[n].id

LeftBehind ==
    stage = "exit" =>
        /\ live = { NodeBlock(n) : n \in DOMAIN node \ (IF node = << >> THEN {} ELSE InTree) }
        /\ faults = 0 => live = {} /\ \A i \in leaked : Replaced(i)

(* From source text to HTML: what is written starts in the order of the    *)
(* lines, and within a line from left to right, so that no stage turns the *)
(* document around.                                                        *)
Source(n) ==
    << token_list[node[n].tok].line, spans[node[n].tok][1] >>
Earlier(p, q) == p[1] < q[1] \/ (p[1] = q[1] /\ p[2] < q[2])

SourceOrder ==
    LET written == output[FALSE]
    IN  \A i, j \in Renderer!Starts(written) :
            i < j => Earlier(Source(written[i].of), Source(written[j].of))

(* What the indentation of a document says is what is seen: without        *)
(* failures, and if no token was dropped, a tag is written if and only if  *)
(* all it is indented below are tags that can have content.  j encloses k  *)
(* if it is shallower than all that is opened behind it up to k.           *)
Opening == { node[n].tok : n \in DOMAIN node \ { 1 } }
Encloses(j, k) ==
    \A i \in Opening : j < i /\ i <= k => token_list[j].depth < token_list[i].depth

HasContent(j) == token_list[j].type = "TAG" /\ token_list[j].value \notin VoidTags

IndentationToHtml ==
    stage = "report" /\ faults = 0 /\ dropped = {} =>
        LET starts == { output[FALSE][i].of : i \in Renderer!Starts(output[FALSE]) }
            written == { node[n].tok : n \in starts }
        IN  \A k \in Opening :
                token_list[k].type = "TAG" =>
                    (k \in written <=>
                        /\ token_list[k].value \notin RootTags
                        /\ \A j \in Opening : j < k /\ Encloses(j, k) => HasContent(j))

(* The program ends, unless the token that no list took was the EOF.       *)
EofLost == stage = "parse" /\ ~ EndsWithEof(token_list)
Terminates == <>(stage \in { "exit", "undefined" } \/ pc = "undefined" \/ EofLost)
=============================================================================
