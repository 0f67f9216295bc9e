# A verification project for c-pug

c-pug reads a Pug template and writes HTML. It is a small C program on GLib
(`include/pug/*.h`, `include/c-pug.h`, `src/main.c`), and it carries a copy of
the regular expression and Unicode libraries of QuickJS (`include/bellard/`),
which a set of examples uses. This directory holds TLA+ models of both, the TLC
runs that check them on small inputs, and proofs, checked by TLAPS, for inputs
of any size. All paths below are relative to `src/` of the repository.

## 1. Inventory

One thread runs the stages one after the other; `process_pug_file` and `main`
are the only callers. Each stage hands a data structure to the next one.

    content -> tokenize_file -> TokenList -> parse_pug -> ASTNode tree -> render_ast -> HTML

The examples of the regular expression library form a second, separate program:

    pattern -> lre_compile -> byte code -> lre_exec -> captures
                   |  sets of code points (CharRange), rqsort

| Component | Source | State it keeps | Operations | What makes it correct |
|---|---|---|---|---|
| Tokenizer | `pug_tokenizer.h` | line, position and column, one `GString` buffer | `tokenize_file`, `tokenize_line`, `count_indent_level`, `create_token` | the list keeps the contract the parser relies on; nothing is cut twice; no letter is lost |
| Token list | `pug_token_list.h` | growing buffer | create, add, free | never more tokens than room; a lost token is the only effect of a failure |
| Parser | `pug_parser.h` | token counter, current parent, node in hand | `parse_pug`, `parse_node`, `parse_classes`, `parse_attributes` | the tree has the shape the indentation says; each token is used once; parsing ends |
| AST | `pug_ast.h` | tree of nodes with growing child buffers | create, add child, free; `NodeList` (no caller) | child lists and parent links agree; nothing is stored outside a buffer |
| Attributes | `pug_parser.h` 50-108, `pug_attribute_list.h` | pairs still to be read, growing list | split, strip, unquote, add | a list is read back as it was meant |
| Renderer | `pug_renderer.h` | C stack, output buffer | `render_ast`, `render_node` and helpers | every node that is shown is written once, in order, nested as the tree; minifying keeps the content |
| Pipeline | `c-pug.h`, `main.c` 254-332 | who owns tokens, tree, output | `process_pug_file`, `render_free`, `main` | each is freed once, whatever fails; the HTML says what the source said |
| Debug printing | `pug_bug.h` | none | prints tokens and trees | - |
| HTML tag tables | `c-pug-base.h` | constant tables | lookups | no file includes it |
| Regular expressions | `bellard/libregexp*`, `bellard/main.c`, `main.c` 14-246 | parser state and code; matcher position, captures, two stacks | `lre_compile`, `lre_exec` | the match that the expression prefers is found; both stacks and the captures stay within their buffers; every call returns |
| Unicode and C utilities | `bellard/libunicode*`, `bellard/cutils*` | sets of code points, growing buffers, the stack of a sort | `cr_*`, case folding, normalization, `rqsort`, `dbuf_*` | a set holds what its calls say; a text keeps its meaning; every buffer is large enough |

What is hard here is not concurrency, as there is none, but *protocols within
one thread*: two functions that advance the same counter, a current parent that
is moved by every node and trusted by the next, one buffer that serves all
tokens of a line, buffers whose growth may fail while the caller goes on as if
it had not, a merge that needs both its inputs in order, a stack whose size one
function computes and another relies on, a buffer that is read and written in
one pass. `PROJECT.json` lists each such place under `hazards`, with the
properties that would catch it going wrong.

## 2. Modules

| Module | Models |
|---|---|
| `PugTokens` | `pug_tokens.h`: token types, tokens, and `WellFormedTokens`, the contract between tokenizer and parser, clause by clause |
| `PugTokenizer` | the tokenizer and the token list |
| `PugParser` | the parser and the AST |
| `PugOutline` | the abstract specification of the parser: an outline that grows by one node at a time |
| `PugAttributes` | `parse_attributes` and the attribute list, which `PugParser` takes as one step |
| `PugRenderer` | the renderer |
| `PugPipeline` | `main` and `process_pug_file`, composed of the tokenizer, the parser and the renderer |
| `RegexpProgram` | the byte code of `libregexp-opcode.h`: sizes, targets, what is well formed, and the height of the stack |
| `RegexpClasses`, `RegexpCompiler` | `lre_compile`: escapes and character classes; terms, quantifiers, groups, alternatives |
| `RegexpMatcher` | `lre_exec` and `lre_exec_backtrack` |
| `CharRange` | the operations on sets of code points: `cr_op`, `cr_invert`, compression |
| `UnicodeCase` | `lre_case_conv` and `lre_canonicalize` on a table, and the loop of `cr_regexp_canonicalize` |
| `Rqsort` | `rqsort` with its own stack, heap sort and insertion sort |
| `UnicodeSets` | a client that builds a set call by call, with its memory; composes `CharRange`, `UnicodeCase` and `Rqsort` |
| `CodePointSets` | the abstract specification of `UnicodeSets`: a mathematical set |
| `DynBuf`, `UnicodeText` | the growing buffer of `cutils.c`, and `unicode_normalize` on it |
| `PugTokenizerProofs`, `PugParserProofs`, `PugAttributesProofs`, `PugRendererProofs`, `PugPipelineProofs`, `RegexpMatcherProofs`, `RqsortProofs`, `UnicodeSetsProofs` | the theorems |
| `MC...` | bounded inputs for TLC |

### Tokenizer

`lines`, `current_line`, `pos` and `column` are the variables of the code (from
1, the end of a line reads as `NUL`). `mode` says which loop of the code is at
work: `tokenize_file` (`"line"`), the main loop of `tokenize_line` (`"main"`),
the loop behind a blank (`"text"`). Each turn of a loop is one action, with the
inner scanning loops in closed form (`SpanEnd`, `Closing`, `IndentLevel`).
Where the code copies characters to the `GString`, `spans` keeps from where to
where the value was cut, which is what `CutInOrder` and `LettersKept` speak
about. The four directive words are one character each, since the code only
tests whether a line starts with them; a word that merely starts like one is
the same line with more characters. Characters are a few representatives of
each class the code tells apart; a letter outside ASCII is, for `isalpha`, one
of the characters that are skipped.

`ListFull`/`Store`/`Lose` are `token_list_add`: at a full list the token may be
lost, at most `MaxFaults` times. The GLib allocators (`g_new`, `g_strdup`,
`GString`) abort the process when they fail and are not modelled anywhere.

### Parser

`pc` is the place in `parse_pug`/`parse_node`: `"parse"` (the switch),
`"merge"` (the loop that merges tokens into a tag), `"climb"` (the walk up,
`ast_node_add_child` and the walk down). Nodes are numbered in order of
creation; a field of a node holds the *positions* of the tokens whose values
were copied into it, so that the model can tell who holds what. `dropped` and
`leaked` are history: tokens that were passed without a trace, and copies that
nothing points to. `capacity` is the recorded `children_capacity`, `slots` the
size of the buffer behind the pointer: the code doubles the former before it
knows whether `realloc` gives it the latter, and once a child is stored outside
the buffer nothing more can be said (`pc = "undefined"`). The token counter is
an unsigned int that wraps at `UIntMax`, and the depth of the root, `-1` in the
code, is `UIntMax`.

### Attributes

One turn of the loop over the pairs per action. `Split`, `Before`, `Behind` and
`Strip` stand for `g_strsplit` and `g_strstrip` and are external. `dq` is the
double quote, `tab` the tab. A value that is one quote mark is found at both of
its ends; it is cut off once, and the empty string behind it is the value.

### Renderer

`render_node` is recursive; `stack` is the C stack with the loop counter of
each waiting call, `calling` the argument of a call that was just made. What is
written is a sequence of items (a start tag, a text, an end tag, an
indentation, a line end), each with its node or depth. Since `minify` only
decides what is written and never where the walk goes, one behaviour carries
both outputs, and `MinifyKeepsContent` can compare them. The wording of a start
tag (id, classes, attributes) and `escape_html` are left out. The branches for
a tag with text that is not inline, or with `is_void` or `is_block` set, are
left out because no tree of the parser reaches them: `parse_node` sets
`is_inline` with every text it gives a tag, and neither of the other two.

### Pipeline

`PugPipeline` instantiates the three machines on shared variables: the token
list that the tokenizer writes is the one the parser reads, and the tree that
the renderer walks is computed from the parser's variables (`Tree`). `stage` is
the place in `main` or `process_pug_file`. `main` tokenizes the file twice, once
for its statistics. What the module adds is memory: `live` is the set of blocks
that were allocated and not freed - a token, the list, the context, a node, the
HTML, each with the strings and buffers that belong to it - `lost` counts tokens
that no list took, and `freeing` is the C stack of `ast_node_free`. Freeing what
is not live is `stage = "undefined"`. A file that cannot be read, a token list
that cannot grow and every failing allocation of the parser are choices; one
`faults` counts them all.

### Regular expressions

The compiler is a set of recursive operators on one record, `REParseState`: each
returns the record with the position moved on and code written, or with an
error. As in the source, code that is already written is shifted to put a loop
around it, so jumps are relative and counted in bytes. It is recursive and
therefore used by TLC only.

The matcher is a machine with one action for each instruction, or for each turn
of a loop inside one. `states` is the stack of `REExecState`, `room` its
allocated size, `stack` the stack of loop counters and places, `quant` the
quantifier whose atom is being counted, `ref` what is left of a back reference.
`mode` tells running, counting the atom of a simple quantifier, comparing,
unwinding. `ticks` is the interrupt counter; when it reaches its end,
`lre_check_timeout` may say that time is up. The caller is modelled as the
examples of `main.c` call the matcher: once, or again behind each match.

`MCRegexp` states what an expression means without the code: expressions are
trees, printed as patterns for the compiler; the matches of a tree are listed
in the order in which a backtracking matcher must prefer them, and the first of
the list is what must be found.

### Sets of code points, sorting, text

A set is the sorted sequence of the ends of its intervals, as in the code.
`CharRange` gives a turn of the loop of `cr_op` as an operator, so that
`UnicodeSets` can step through it and `UnicodeSetsProofs` reason about it.
`UnicodeSets` follows a client that adds intervals, merges, complements and
folds case; `at` is the place in the call, `sets` are the client's set and the
temporary ones with their buffer sizes and whether they are still allocated.
Every growth may fail. Where folding comes to a code point that no later entry
of the table covers, the code ends the program with an `assert`
(`libunicode.c:702`), and the model stops (`HasEntry`). `cr_regexp_canonicalize`
sorts with `Rqsort`, which is
extended and stepped along; some behaviours are calls of `rqsort` for arrays of
strings, its other use. `Promise` maps this to
`CodePointSets`, where a call is one step on a set, fails visibly, or - where
the code drops an interval when it is out of memory and does not say so -
becomes `lossy`. `asked` is history: which call is in work, and with which
argument, so that `CodePointSets` can hold each call to its own name. Of the
operands `SetsAssumption` says that they are sets in
order, as `cr_op` expects; of the case table `CaseTableAssumption` and
`FoldingAssumption` say what the generator of the table sees to: entries in
order that do not overlap, of even length where upper and lower case alternate,
and folded to a code point; `AsciiAssumption` and `UniverseAssumption` are
explained with the proofs (section 4).

`DynBuf` keeps apart what the code does: `dbuf_put` looks for room, claims it if
there is none, and once `dbuf_claim` has succeeded writes without a second look.
The claim computes two sizes, each of which may wrap around at `SizeMax`
(`NewSize`, `Half`); then it fails and leaves no error.

`UnicodeText` decomposes character by character into a `DynBuf`, whose growth
may fail, sorts the marks and composes in place; `reading` and `out_len` are the
two positions in the same buffer. The tables of an instance are small ones in
the form of the generated ones, one entry of each kind.

## 3. Runs

| Run | Shows | Bounds |
|---|---|---|
| `parser_trees` | types, the meaning of indentation, room in buffers, and the refinement of `PugOutline`, without failures | all lists of 3 tokens of 8 types at depths 0-2, and of 5 tags at depths 0-3, plus EOF |
| `parser_faults` | order, agreement of child lists and parents, what follows a node that could not be attached, token accounting, termination, all with failures | 4 tokens of 3 types, 5 tags at depths 0-2, 2 failures anywhere; lists of 2 tokens that lost their EOF, read twice (`NodeBound`) with a counter that wraps at 7 |
| `tokenizer_documents` | the contract with the parser, that nothing is cut twice or lost, that parentheses pair up, termination | lines of 5 characters of 8 kinds, texts of 4, two lines of 2, 2 failures |
| `attributes_values` | lists are read back as meant; each named pair is counted | values of 6 characters, two attributes in all spellings, one with a comma in its value or with one quote mark for a value, 2 failures |
| `renderer_trees` | order, nesting, what shares a line, minifying | trees of 3 nodes of 7 kinds, of 4 nodes of 3 kinds, depths 0-2 |
| `pipeline_documents` | memory, order and indentation from source to HTML, termination of the whole | 3 lines of 8 kinds, 1 failure anywhere, counter wraps at 31 |
| `regexp_matches` | the preferred match, the bounds of all buffers, groups with two ends or none, termination | about 250 expressions on texts of up to 3, 1 failure, a poll every 7 steps that may time out |
| `unicode_sets` | the merge and the sort on the way, which sets are left, the refinement of `CodePointSets` | 3 calls, 4 operands, 1 failure; all arrays of 6 elements of 3 keys and 11 arrays of 16 |
| `unicode_text` | the buffer, the meaning and the normal form of a text | texts of 2 of 18 characters, of 4 marks and one of 5, 4 forms, 1 failure, buffers of at most 27 bytes |

All buffers start with room for one element instead of 5 or 10 (the state stack
with 2 instead of 8, the fragments of `rqsort` below the insertion sort with 2
instead of 6, its depth limit and stack with 2 instead of 50), so that growth,
fallback and overflow happen at once and several times. Three tokens are enough
to have a tag, what is merged into it and what follows; five tags at four depths
go down, come back over several depths, and go down again. Five characters hold
an attribute list with a nested pair of parentheses and something behind it. The
bounds on failures (`MaxFaults`) allow a second failure to meet what the first
one left where the state space allows it. Three lines are a parent, a child, and
a line that closes or continues both. Three calls are a set, a second one merged
with it and an operation on the result. With a `SIZE_MAX` of 27 bytes and items of
4, the size by half wraps around when the text of five decomposes, and the size
asked for when a text of four does.

`unicode_sets` and `unicode_text` do not check for deadlock: the client may stop
after any call, and a call that has returned has no next step. In all other runs
a finished machine stutters, and TLC would report one that is stuck before.

Fairness: `WF_vars(Next)`, or `WF_vars(Step)` without the final stuttering,
once for each machine with a liveness property. Each is a loop on one thread
that never waits for anything; it takes its next step as long as it has one.
`Terminates` then says that the loops make progress. Nothing is claimed under
fairness about attributes, sets and texts, whose specifications state none.

Each property of a passing run has a mutant in `PROJECT.json`: a plausible bug
in one definition (they stand in the modules in front of what they change) with
which TLC finds the property violated.

### Where the code does not do what is said of it

Three runs end in a violation; the `findings` in `PROJECT.json` quote the line.

| Run | What happens |
|---|---|
| `attributes_empty` | an attribute with an empty value is added, which the comment at `pug_parser.h:54` excludes |
| `tokenizer_interpolation` | `p #{x}` is read as a tag, an empty id and a tag `x` |
| `regexp_named_group` | the scan that looks ahead for a named group skips the character behind a name, so that a group right behind a named one is not counted and a reference compares with the wrong group |

Seen while modelling, and without a run of their own. In the template engine:

- when the token list cannot grow, the lost token may be the EOF, and
  `parse_pug` then reads the list over and over (`parser_faults` includes such
  lists, and `Terminates` of `PugPipeline` names the case);
- a lone `#` in a text is appended to a buffer that is emptied before it is used
  (`pug_tokenizer.h:316`);
- an id, class or attribute list that no tag precedes is dropped; `parse_node`
  and `parse_pug` both advance for it (`pug_parser.h:192`, `:242`), so the token
  behind it is dropped as well, unless it is the last EOF (`dropped` in
  `TokensAccounted`);
- attributes are split at every comma, also inside quote marks: each half of the
  value keeps its quote mark, and the second half is an attribute of its own if it
  has an equals sign (`ReadsBack` says this exactly);
- the indentation of a block comment is written although the comment is not, so
  that the next line is indented twice (`pug_renderer.h:105`);
- a second id of a tag leaks the first (`pug_parser.h:201`, in the model
  `leaked`; `LeftBehind` says that without a failure nothing else stays behind); the
  name of an attribute that is passed over leaks too;
- attributes without `=` are skipped, so that `ATTR_BOOLEAN` (`pug_tokens.h:38`)
  never occurs;
- a letter behind a skipped character starts a tag within a word
  (`pug_tokenizer.h:259`); a tag named `root` is taken for the artificial root
  (`pug_renderer.h:96`);
- nodes below a void tag, or below a node that is not a tag, are not written
  (`IndentationToHtml` says this exactly); ids, classes, attributes and text at
  the start of a line are merged into the tag of the line before, if it has the
  same depth.

In the bellard files:

- `unicode_script` reaches `goto fail` under the label `fail`
  (`libunicode.c:1393`) when memory runs out, a loop without an end;
- where a size would wrap around, `dbuf_claim` fails without setting the error
  that `unicode_normalize` asks for (`cutils.c:108`, `:115`), so that a text is
  truncated and returned (`Truncated`, an exception of `MeansTheSame`); on 64 bits
  no text is that long;
- `unicode_normalize` leaks its buffer when it fails; composing takes U+11A7 for
  a trailing consonant and loses it (`libunicode.c:1164`, the other exception of
  `MeansTheSame`); the comment on the encoding of combining classes (1044)
  counts differently from the code below it;
- `cr_regexp_canonicalize` ignores whether `cr_add_interval` succeeded
  (`libunicode.c:713`, in the model `IntervalDropped`);
- `re_parse_captures` ends a nested class of the `v` mode at the first `]`;
  strings of such a class are tried forwards even where the expression looks
  behind; the captures of a group are not reset in each turn of a loop around
  it; the callbacks that collect sequences ignore failing allocations.

## 4. Proofs

Eight modules hold theorems; each is for every value of the constants that the
`ASSUME` of its module admits.

| Module | Theorem | Says | Further assumption |
|---|---|---|---|
| `PugTokenizerProofs` | `TypeCorrect` | `TypeOK`: positions stay in the line, tokens in the buffer | |
| | `CutsInOrder` | no character is in two tokens, tokens come in the order of their values | |
| | `KeepsContract` | a finished list is well formed and ends with EOF, if nothing failed | |
| | `NoLetterLost` | every letter outside a directive is in a token, if nothing failed | |
| | `ParensPairUp` | parentheses of an attribute list pair up unless the line ended | |
| `PugParserProofs` | `TypeCorrect` | `TypeOK`: the walk up never meets a null parent | |
| | `DocumentOrderHolds` | creation order is a preorder of the tree | |
| | `ChildrenMatch` | child lists and parent links agree | |
| | `NeverOverflows` | without failures nothing is stored outside a buffer | |
| | `ShallowParents` | without failures every finished node hangs below a shallower one | |
| | `IndentationDecides` | with nothing dropped, below the *nearest* shallower one | lists end with EOF |
| | `ImplementsOutline` | the parser implements `PugOutline` | lists end with EOF, `MaxFaults = 0` |
| | `LooseTreesTakeTheRest` | `LooseTakesTheRest`: once a node that could not be attached has a child, all that follows hangs below it | |
| | `EveryTokenAccounted` | the tokens read are those held, dropped or leaked, each once | lists end with EOF |
| | `OwnTokensOnly` | a node holds tokens of its own depth, before the next node's | lists end with EOF |
| `PugAttributesProofs` | `PairsAreCounted` | `EveryPairCounted`: every pair with a name is one attribute or one failure, also with an empty value, and the list has room | |
| `PugRendererProofs` | `LinesAreOwn` | `OwnLines`: only what is below an element with text shares a line with it, and no line is blank | |
| | `NodesInOrder` | each node that is shown is begun once, in order, and at the end none is missing | |
| | `TagsNestAsTheTree` | elements close once, behind all below them and before all behind them | |
| | `MinifiedOutput` | without its layout, comments and placeholders the output is the minified one | |
| `PugPipelineProofs` | `SourceInOrder` | `SourceOrder`: the HTML starts its pieces in the order of the source | |
| | `IndentationIsMeant` | `IndentationToHtml`: a tag is written exactly if all it is indented below can have content | |
| | `NothingFreedTwice` | `FreedOnce`, wherever an allocation fails | |
| | `LeaksOnlyLooseNodes` | `LeftBehind`: only nodes outside the tree and leaked tokens stay allocated, without a failure only ids that were replaced | |
| `RegexpMatcherProofs` | `MatcherInBounds` | `InBounds`: text, captures, stack and code are never left | programs are `WellFormed` |
| `UnicodeSetsProofs` | `MergeStarts`, `MergeGoesOn`, `MergeIsRight` | `cr_op` makes an ordered set with exactly the points the operation asks for, in at most as many turns as there are points | both sets ordered |
| | `MergeStaysRight` | `MergedSoFar`: in every call of `UnicodeSets`, after every turn, what is written is what `CodePointSets` promises, below the points to come | |
| | `OneSetIsLeft` | `OneSetLeft`: after a call, failed or not, only the client's set is allocated; no set outgrows its buffer | |
| | `ArraysGetSorted` | `SortsArray` in every call of `UnicodeSets` | |
| | `StackNeverOverflows` | `rqsort` never holds more fragments than its depth limit | |
| | `CompressSays`, `InvertSays`, `AbsorbAllSays` | `cr_compress` keeps the set, `cr_invert` is the complement, the loop of `cr_sort_and_remove_overlap` leaves the union | points in order and in pairs; intervals sorted |
| | `FindCaseIs` | the binary search of the case table finds the entry, if there is one | |
| | `CanonicalOutside` | what the mask of `unicode_case1` leaves out is compared as itself | |
| | `SetsKeepPromise` | `KeepsPromise`: `UnicodeSets` implements `CodePointSets`, in which each call makes what its own name says of its own argument | |
| `RqsortProofs` | `RqsortSorts` | `SortsArray`: `rqsort` leaves its array in order and loses no element | keys are numbers |

**Tokenizer.** `TypeOK` needs that the capacity is never 0, as a list of
capacity 0 would not grow by doubling. All steps are summarised as one of three
(`Scanned`: a token whose value lies between `pos` and the new `pos`, or makes
up a whole directive line; `PassedOver`: no token; `AddEof`), and each invariant
is proved from these summaries. `CutInv` adds that no token of the
line that is begun is in the list, and that those of a line that is being read
end before `pos` (`PastTokens`). `FormInv` is the contract clause by clause, and
that an interpolation begins only where a text or an interpolation of the same
line has just ended (`TextFollows`).
`KeepsContract` is the assumption under which the theorems of the parser speak
of lists that end with EOF. `KeptInv` says that the letters before `pos` are in
tokens; `ParensInv` follows the counter of the loop in `Closing`. That a
scanning loop stops at a *first* position needs a least element of a set of
numbers; `Least` derives it from the finiteness of intervals.

**Parser.** *Document order* is not inductive: attaching a node to
`current_parent` keeps it only if nothing to the right of `current_parent`
still hangs to its left. `TreeInv` adds that (`RightIsClosed`), that parents are
older than their children (`ParentsEarlier`), and that `current_parent` is older
than the node in hand (`OlderThanFresh`). Climbing keeps `RightIsClosed` because
of document order itself; descending makes the node in hand the last one.
`TypeOK` is part of `TreeInv`, for only `ParentsEarlier` tells that the walk up
ends at the root and not at a null parent.
*Agreement* needs that child lists name nodes that exist (`ChildrenExist`) and
that the node in hand hangs nowhere yet (`FreshIsLoose`). *No overflow* needs
that the recorded capacity is the size of the buffer (`Roomy`), which is just
what a failed `realloc` breaks. *Indentation* needs that everything to the right
of `current_parent` is at least as deep as the node that may be hung there; the
proof also shows that the counter stays within a list that ends with EOF
(`InList`). *Loose trees* need to know of a node without a parent before it
has a child: `LooseInv` says of one that is `current_parent`, or has children,
that `current_parent` is not older, and that no node that came later has a parent
older than it. *Refinement* maps the tree, without the node in hand, to the
outline: hanging the node in is `AddNode`, the first dropped token is `Skip`,
all else stutters; the invariants above are what `AddNode` asks for.
*Accounting* and *ownership* are proved together (`TokenInv`): that the token
about to be merged is in no node yet needs that all held tokens stand before the
counter, and that a node's tokens stand before the next node's needs that the
node in hand is the last.

**Attributes.** `EveryPairCounted` counts the named pairs of the whole value
(`NamedPairs`, by the places of equals signs), while the code looks at one piece
between commas at a time, stripped. The proof numbers the commas: the `k`-th stop
is the one with `k - 1` stops before it, and each rank is taken by one stop
(`EveryRank`). A piece has a name exactly if one named equals sign lies in it
(`PieceCounted`), and `CountedInv` says that as many of them lie before the piece
at hand as there are attributes and failures.

**Renderer.** The trees are those a parser can build (`IsTree`): children are
numbered after their parent and before whatever is not below it, which is
`DocumentOrder` and `ChildrenMatchParents` of the parser; nothing else is
assumed of them. `WalkInv` says
where a recursive walk stands: the calls on the stack are the ancestors of the
node in hand, and what is pending in an inner call precedes what is pending in
an outer one. `Record` relates that to what is written: the nodes that are shown
are either begun in it or still to do, those begun and not closed are on the
stack, and the pieces written so far are ordered and nested. `MinifyInv`
compares the two outputs piece by piece (`Minified`), as the same call writes to
both. `LineInv` says what stands on the last line: nothing, or pieces of nodes
on the C stack that have text, of which each is below the one before; with it
goes what `Record` knows of the walk.

**Pipeline.** `StageInv` says, for each stage of `main` and
`process_pug_file`, which machine's invariant holds: that of the tokenizer for
the list (`RisingInv`: tokens are in the order of their places in the source),
that of the parser for the tree under construction (`ParserInv`), and that of
the renderer once `render_ast` was called, for which the tree of the parser is
shown to be an `IsTree`. The steps of the three machines are those of the
modules proved before, so their lemmas are used through `INSTANCE`. *Order*:
the renderer begins nodes in order, the parser numbers them in the order of
their tokens, the tokenizer cuts tokens in the order of the text. *Indentation*:
without failures and dropped tokens each node hangs below the nearest shallower
one; hence a node is below another exactly if the other's token encloses its
own, and the renderer begins exactly the tags that no void tag and no other node
without content is above. `PipelineAssumption` asks that a document has fewer
characters than an `unsigned int` can count, since both the token counter and
the depths are such numbers, and that no tag is void and `root` at once.
*Memory*: `MemoryInv` gives the blocks that must be live in each stage (`Kept`)
and lets nothing else be but nodes; `FreeingInv` follows `ast_node_free`: the
nodes on its path and the nodes that are gone are disjoint parts of the tree,
all below a node that is gone are gone, and nothing outside the two has lost a
child. What `parse_node` leaks is followed by `IdInv` in the proofs of the
parser: without a failure it is only an id in front of the one its node holds.

**Matcher.** `InBounds` depends on the program, which the matcher never checks:
`WellFormed` collects what it takes for granted of one (jumps lead to
instructions, the stack is as high at both ends of a jump, bodies of assertions
and of quantifiers are entered from the front, the final `match` comes right
behind the end of group 0). It is an assumption on `Jobs`, and TLC evaluates it
for each of the programs that the compiler makes in `regexp_matches`. `MatchInv`
says of every state on the pile what `InBounds` says of the one in hand; that
the states pushed by assertions are exactly those in whose bodies the matcher
is (so that a `match` inside a body never ends the program); that a match has
set the start of group 0, from where the caller goes on; and of a quantifier
that `count` characters times the size of its atom lie before the place
(`GreedyFits`), which is what `GiveBack` needs to step back without looking.
A place is never inside a pair of surrogates, and the number of characters
before it is what `GET_CHAR` and `PREV_CHAR` change by one. `Back` is a
recursive function; that it is defined and where it ends is shown by looking at
the least number of steps for which it is not (`LeastOne`, from the
well-foundedness of `<`).

**Sets and sorting.** The invariant `Merging` of `cr_op`: the points written
are in order and all below what is still to be read, the number of those read
so far tells by its parity whether one is inside either set, and what is written
is right for all points before the next one. The stack of `rqsort` is
bounded because the depth of a fragment that waits is at least the number of
those below it (`StackedByDepth`), and the fragment in work is at least as deep
as the stack is high, and deeper while it is split (`DeeperThanStack`), whatever
is compared and however long the array.

That `rqsort` sorts rests on `SortInv`: the array is the given one under a
permutation of its places (`Arranged`), so that no element is lost whatever is
swapped, and two elements are in order unless one fragment that still waits
holds both (`OrderedBut`). A fragment in work adds what the three-way partition
knows: the ones equal to the pivot at both ends, the smaller behind the left
ones, the larger in front of the right ones, the unread between, and after
`Gather` the equal ones in the middle, in no fragment any more. Heap sort and
insertion sort are recursive functions and each has an invariant over its
rounds: every place but the one that sinks is not below its children, what has
been taken out stands in order behind the heap; and an inserted element passes
only larger ones.

For the calls of `UnicodeSets` the merge alone is not inductive: a call hands
the result of one loop to the next, and each needs its sets in order, in pairs
and not above `Infinity` (`IsCodeSet`). `SetsInv` says of each phase what holds
of each set: while the mask is made, the points of the table still to be added
lie behind those that are there; while folding, the result is made of intervals
in any order (`InPairs`), as the table need not fold in order; while the array
is sorted, its elements are those intervals and not more than the set had, so
that after `AbsorbAll` the sorted ones fit where they came from. Every set has
at most as many points as its buffer holds, also where `cr_compress` and the
absorbing of overlaps write to the buffer they read from. From it follow
`MergedSoFar`, `OneSetLeft` and `SortsArray` for every table, every operand and
every refused allocation.

That a call makes the set its name says (`SetsKeepPromise`) needs what the
points mean, and not only their form. First each operator on points is proved to
hold what it should: `CompressSays`, `InvertSays`, `AbsorbAllSays`, and that the
loops over a set take exactly its code points (`CodePointsSay`, `IntervalsSay`).
Then the table: the binary search finds the only entry that covers a code point
(`FindCaseIs`, `CoversOnce`), and a code point that the mask leaves out is
compared as itself (`CanonicalOutside`), type of run by type of run, since
`cr_regexp_canonicalize` folds nothing else. `MeaningInv` then follows a call of
`cr_regexp_canonicalize`: the mask so far and the rest of the table are the whole
mask; `inter` and `sub` are the parts of the set inside and outside of it; what
is in the result, in the interval at hand, or still to come are the images of
`inter`, or less once an interval was dropped (`Agreed`); after the sort the same
is said of the array. When the last merge ends, the images of `inter` and the
unchanged `sub` are the image of the set (`ImageSplits`). That it is the call
with this name that ends here is `AskedSays`: the operation and the operands in
work are those that were asked for, and only `cr_regexp_canonicalize` folds,
sorts, or works on sets of its own. A call is a `Begin` and a `Return` of
`CodePointSets`, a refused allocation is `Fail` or, where its result is not looked
at, `Lose`; all else stutters. Two assumptions on the table go into this, and hold for that of the
code: it says the same of ASCII letters as the tests that come before it
(`AsciiAssumption`), and nothing folds from outside `Universe` into it or out of
it (`UniverseAssumption`), where `Universe` are the code points one looks at; for
all code points up to 0x10FFFF it says that code points fold to code points.

Only model-checked, for these reasons:

- all liveness: fairness is out of the prover's reach;
- `ReadsBack` of the attributes, which reads each text back with a second
  reader in the MC module, itself an operator over the whole text;
- `FindsTheFirstMatch`, which quantifies over a compiler made of RECURSIVE
  operators, and `GroupsPaired`, which needs to know in which direction each part
  of a program reads;
- `UnicodeText`, whose decoding needs bitwise operators.

## 5. Not modelled

`pug_bug.h`, which only prints; `c-pug-base.h`, which nothing includes;
`NodeList` (`pug_ast.h` 96-136), which nothing calls. The depth of the C stack
in `render_node` and `ast_node_free` has no bound in the models. Columns are
kept but only debug output reads them. Which entry of its table the C library
reads for a negative `char`, and what a mixture of blanks and tabs should mean,
are not decided by anything in the repository.

Of the bellard files: the generated tables (`libunicode-table.h`, more than a
third of all lines); the lookups by script, category and property, which decode
them; UTF-8 conversion, the string and bit helpers of `cutils`, and the list
macros; in the compiler its own failing allocations, the wording of its errors
and its limit on nesting; and `lre_get_groupnames` and the byte order of a
program.

## 6. What could follow

1. `count_indent_level` as a loop against `IndentLevel`.
2. That the compiler makes only `WellFormed` programs is checked on the
   expressions of `MCRegexp`, and could be stated for its pieces of code one by
   one.
3. The lookups that decode the Unicode tables, against sets, on small tables.
4. `GroupsPaired` as a theorem, from the direction in which each part of a
   program reads.
