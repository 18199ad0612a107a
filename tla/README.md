# A TLA+ model of MiniNez

MiniNez is a bytecode interpreter for parsing expression grammars (PEG). A
compiler outside this repository turns a grammar (`sample/grammar/*.nez`) into
bytecode (`sample/bytecode/*.bin`); `main.c` loads an input and a bytecode
file, runs the interpreter (`nezvm.c` over the parser context of
`cnez-runtime.h`), prints the syntax tree and a verdict, and releases
everything. The program is sequential. What makes it hard is not concurrency
but long chains of manual state: one stack shared by calls, saved positions,
saved trees and backtracking frames; a log that backtracking rolls back; a memo
table that evicts by hash; reference counts that some handlers skip.

This directory holds the model, the TLC runs, the proofs and
`PROJECT.json`, which ties every definition to the lines it models.

## Inventory

| Component | State | Operations | Hard behaviour | What makes it correct |
|---|---|---|---|---|
| Parsing machine (`nezvm.c:161-533`) | pc, position, the context | one handler per opcode | failure at any instruction, from any depth of calls, predicates and open nodes | verdict and tree are the grammar's; every step is defined C; it ends |
| Stack (`cnez-runtime.h:97-143`, `nezvm.h:55-63`, `nezvm.c:92-146`) | slots (value, num, tree), top, innermost frame | `push`, `pushW`, `pushWNum`, `popW`, `PUSH_FAIL`, `POP_FAIL`, `STEP_FAIL`, `POP_SUCC`, `POP_SUCC_POS`, growth | popped slots keep their tree; frames are linked through a field all slots share; growth at the limit | frames are whole, nested and below the top; a parse pops what it pushes |
| Tree log (`cnez-runtime.h:529-663`) | array of new, link, tag, replace entries | append, save point, roll back, `endTree` | abandoned alternatives leave entries; `endTree` reads the log backwards | a node gets its own tag, text and children |
| Trees (`cnez-runtime.h:162-268`) | nodes, counts | `NEW`, `LINK`, `GC` with +1 and -1 | cascading frees; assignments that are not counted | nothing reachable is freed, nothing is freed twice |
| Memo table (`cnez-runtime.h:853-938`) | entries by hash of (position, memo point) | look up, store success or failure | eviction without a look at the key; trees kept alive by the table | an entry is what the grammar says of its rule at its position |
| Life cycle (`nezvm.c:15-39`, `cnez-runtime.h:342-369, 1001-1026`, `main.c`) | the runtime | create, load, init, parse, dispose; `init_runtime` for a second parse | disposal releases stale slots | disposal touches nothing freed |
| Loader (`loader.c`, `nezvm.c:41-90`) | code, constant pools | header, one reader per opcode, release of the pools | widths and conversions; nothing is checked: pool and code sizes come from the header, set lengths from the body | the interpreter reads back the file's instructions; a file that declares itself rightly is loaded within bounds |
| Symbol table (`cnez-runtime.h:682-825`) | entries, state value | add, mask, save, roll back, queries | leftovers above the size are compared and reused | a roll back brings back symbols and state value |
| Scanning helpers, counter (`cnez-runtime.h:371-527, 827-851`) | position, count | read, move, match, search; scan, decrement | unchecked lengths, blocks of 16, unsigned wrap | they agree with the text |
| Tree functions (`cnez-runtime.h:296-338, 665-680`) | function pointers, saved slots | `initTreeFunc`, `saveTree`, `backTree` | index of the slot | what is saved is what comes back |
| Strings, byte sets (`pstring.h`, `bitset.h`) | none | prefix test, membership | reads past the end | the plain definitions |

Components call each other directly and share the context: the machine pushes
and pops slots and log entries, `endTree` consumes log entries and makes nodes,
the memo table and the slots hold references to nodes, the failure of any
handler goes through `POP_FAIL`, which resets stack, log, position and tree at
once. `PROJECT.json` lists the hazards with their lines and the properties that
cover them.

## Modules

| Module | Models |
|---|---|
| `TreeHeap` | nodes, counts and the two directions of `GC` as operators on a heap value |
| `Bytecode` | the file's instructions, their operand sizes, the loader's offsets and tag ids |
| `NezVM` | the machine: `mininez_init_vm`, every handler of `mininez_parse`, memo, log, stack, the return to `main` and `ParserContext_free` |
| `NezVMProps` | what makes the machine correct for any program |
| `Backtracker` | abstract: a backtracking machine whose choices hold whole snapshots of position, tree, log and words; no slots, links, memo or counts |
| `NezVMBacktracks` | the refinement mapping from `NezVM`'s slots to `Backtracker` |
| `PegSemantics` | the meaning of a grammar: the reference, with no stack, log, memo or counts |
| `NezVMGrammar` | the machine compared with that meaning |
| `MathGrammar`, `JsonGrammar` | the two shipped programs, instruction by instruction, and their grammars |
| `OpsGrammar` | a synthetic program and grammar for the opcodes the shipped programs do not combine |
| `NezVMShape` | what a compiler owes the machine: pushes and pops pair up (`WellShaped`), the Nul after the text is not taken (`TextSafe`), no slot keeps a tree (`SavesNoTree`) |
| `ProgramShapes` | the shape of a program, computed, and where it may hold a tree; TLC evaluates that they are what `NezVMShape` asks |
| `MCMath`, `MCJson`, `MCOps`, `MCJsonEscape` | the instances TLC checks, one cfg per run |
| `TreeHeapProofs` | proofs: what counting and releasing do to the references of any heap |
| `NezVMProofs` | proofs: types, the memo's keys, the stack discipline |
| `NezVMSafetyProofs` | proofs: no step is undefined while the stack has room; the life of trees |
| `NezVMBacktrackProofs` | proofs: the machine implements `Backtracker` |
| `Loader`, `MCLoader` | `mininez_load_code` from header to last instruction, the pools, the release of the constants, and the interpreter's reads of the bytes |
| `LoaderProofs` | proofs: what is loaded reads back, a file that declares itself rightly is loaded and released within bounds |
| `ScopedSymbols` | abstract: a list of symbols of which every alternative keeps a copy |
| `SymbolTable`, `MCSymbols` | the array of entries, its reuse and growth, and the queries; the refinement of `ScopedSymbols` |
| `SymbolTableProofs` | proofs: types, the queries, the refinement |
| `SymbolState`, `MCSymbolState` | the table with one entry of the commented-out memo that is versioned by the state value |
| `ContextText` | the functions with which generated parsers scan the text |
| `ContextCalls`, `MCCalls` | beside those, the counter, `saveTree` and `backTree` over `TreeHeap` |
| `ContextProofs` | proofs: matches and searches agree with the text, counts are exact, the counter counts |
| `NatSets` | least elements and induction for sets of natural numbers, which the proofs use |

How they fit together: `NezVM` takes its `Code` and `Tags` from `CodeOf` and
`TagsOf` of `Bytecode`; `Loader` shows that these are what the loader's bytes
and pools mean to the interpreter. The save points that `NezVM`'s frames hold
for the symbol table are always 0 there, because no implemented opcode adds a
symbol; `SymbolTable` has a parser that does add, with the same four frame
operations. `TreeHeap` serves both the interpreter and `ContextCalls`, and so do
the lemmas of `TreeHeapProofs`. The scanning functions have a module to
themselves; `ContextCalls` takes `Move`, their step of the position, as one of
its actions.

### State and code

The variables of `NezVM` carry the names of the context's fields (`pos`,
`left`, `stacks`, `unused_stack`, `fail_stack`); `log` is the used part of
`logs`, `memo` is `memoArray`, `heap` and `newcount` the nodes that `NEW` has
made. `input` is the text (without the Nul that `load_file` appends), addresses
are integers from `InputBase`, NULL is 0. `status` says whether the loop runs,
has returned (`exit`), the context is released (`disposed`), a handler has
called `exit(EXIT_FAILURE)` (`aborted`), or a step was one that C leaves
undefined (`undefined`). The last one ends a behaviour: nothing is claimed
after it, and `ParseDefined` says where it must not happen.

A step is a handler from its dispatch to the next, with every call it makes:
`Alt` pushes a whole frame, `TEnd` reads the log backwards, makes the node,
counts the children and rolls the log back. Handlers that differ only in the
test they make are one action (`Consume` is Byte, Set and Str). Slots keep
their fields after a pop, as in C; `PushSlot` keeps `num`, because `push` does.
`stacks` starts as `mininez_init_vm` leaves it, one slot higher than its bottom
frame is read (see the findings).

Left out of the data: byte values (one letter per class the grammar tells
apart), the wording of messages, `printf` layout, the capacity of the log's
array, `stateValue`, and the numbers of `malloc`: freed nodes are not recycled,
so a use after free shows as one and never as a use of another node. The
`_free` of an array the program no longer names has no counterpart.

`Nop` deserves a word. Its handler does not skip the two bytes of its
production id (`nezvm.c:192-197`, `MININEZ_DEBUG` is 0), which then run as
opcodes. The id 0 is two more Nops; any other id is undefined in `NezVM`. The
shipped programs execute only their first Nop, since calls go to the
instruction behind it, so `ParseDefined` covers it.

A file of `Loader` is its header fields and its instructions, each of the width
the loader reads (`FileOK`): a distance is a sign byte and an unsigned 16-bit
number, a set may list positions past its 256 (`past`), a 64-bit field is two
halves. `Distance` is the loader's conversion to int16_t and its negation, so
32768 comes out as -32768 whatever the sign byte says. `Read64` is the set of
values that `read64` may return: its shift of a 32-bit value by 32 is undefined,
and leaves the low half alone or with the bits of the high one or-ed in. As in the
code no action looks ahead: it writes, and a write outside the block, a
pool or a set takes the run to `undefined`, as do a read past the file and the
release of a pool slot nobody filled. Memory is bytes, an opcode name, a
number below 256 or the byte of a Byte instruction in each. `Layout` gives every
instruction its offset and ids by halving the program, so that TLC can evaluate
it and the proofs can compare it with the load, one instruction after the
other. `Reads` is the interpreter's side: what its widths and pools make of the
bytes.

In `ContextText`, `findcharSSE` searches with what one register takes of the
range (`Loaded`): the comparison cuts the range to 16 bytes, and pairs behind
the eighth are not looked at. `findchar` honours every pair.

Seeded faults (`PushFailAtTop`, `StepAlways`, ...) stand beside the definitions
they corrupt. No action uses them: each is put in the place of its original to
see that the property fails.

## Runs

| Run | Question | Bounds |
|---|---|---|
| `math` | stack discipline, life of trees, memo and result on the calculator | texts of up to 3 of 7 bytes, 4 longer ones, parentheses nested 5, 6 and 16 deep |
| `json` | definedness, counts, disposal and result on JSON | texts of up to 4 of 6 bytes, 11 longer ones that reach every rule |
| `ops` | the remaining opcodes | all texts of up to 4 of 4 bytes and of up to 5 of 3 |
| `ops_terminates` | every parse ends | texts of up to 3 of 3 bytes, up to 2 of 4 |
| `symbols` | the symbol table against the list of scopes | two bytes of text, two tables, growth by 2, three state values, two open alternatives |
| `loader` | the loader against the instructions of the file | `math.bin`, `json.bin` with their real headers, the synthetic program with each header field right, one less and one more, with bits in the high halves, a memo size at the limits of int, 256 tags, distances on both sides of 32768 with either sign, a set past its 256 positions |
| `calls` | the functions for generated parsers | the text `2 -5b`, registers of 4 bytes, ranges of up to 6, a counter modulo 8, three nodes, two open choices |
| `symbols_state` | the fifth disagreement | as `symbols` |
| `math_disposal`, `math_nesting`, `math_failure`, `json_escape` | the four disagreements below | one text each |

Why the bounds are enough. The machine is deterministic once the text is
chosen, so the state space is the set of texts. Three or four bytes reach each
alternative of each rule, both outcomes of each test, and failures from inside
an open node; the longer texts add several siblings, nesting and left
recursion by folding. `StackSize` is the real 64. `MemoWindow` is 1, where the
bytecode files have 64, so that the table has five slots (three in `ops`) and
entries of other rules and positions are evicted within such short texts. The
properties that quantify over nodes, slots or entries do so over all there are.

The other three components are driven by a free caller. For the symbol table,
an array that grows by 2 and three fresh entries give a growth in the middle of
open alternatives, leftovers above and below it, and reuse of both; the
alternatives nest twice. The loader is deterministic for a file: the shipped
programs are loaded whole; a header field of 64 bits branches over what `read64`
may return. In `calls` the search crosses blocks of 4 in a text of 5 as it would
cross 16, one of the ranges is longer than a block, and the counter, wrapping at 8, takes numbers with
and without blanks and a sign, and too large ones.

What the properties say:

* `FailChain`: at every step the frames linked from `fail_stack` are whole, do
  not overlap, lie below the top, and outer ones have saved no later position
  and no longer log than inner ones.
* `BalancedExit`: an accepting parse has popped all it pushed, and left no log.
* `ParseDefined`, `UndefinedOnlyWhenFull`: no undefined step; in the
  calculator, whose nested inputs overrun the stack, only when the stack is
  full.
* `ReachableAlive`: what `left`, the log, the memo and the live slots reach has
  not been freed, in spite of the uncounted assignments.
* `CountsCover`, `CleanDisposal`: the counts cover every release that is still
  to come, stale slots included, and disposal touches nothing freed. They hold
  for JSON; for the calculator, whose loops fold, `CleanDisposal` fails.
* `MemoFaithful`: at every step, every entry agrees with the grammar on
  outcome, length and tree.
* `ResultMatchesGrammar`: verdict and printed tree are the grammar's.
* `Backtracks`: every behaviour of the machine is one of `Backtracker`. Linked
  frames over shared slots, save points into a log that is cut and regrown, and
  stale fields amount to choices that hold what was there when they were made
  or renewed. Checked in `math`, `json` and `ops`. `GiveUp`, the failure with
  no choice left, promises no position (the third finding) and of the log only
  that nothing is added: it is cut to as many entries as slot 2 says, which
  holds no log size but the address of the text.
* `Implements` (`symbols`): the array with its leftovers behaves like a list of
  which each alternative keeps a copy, state value included. `QueriesAgree`:
  `exists`, `existsSymbol`, `contains` and `equals` answer from the symbols
  in scope. `TypeOK` there also says that save points nest, that every entry
  ever written is a mask or a stretch of the text, that no two of them share a
  state value and that the table's is its last entry's.
* `ReadsBack` (`loader`): after each instruction, as long as the load has stayed
  in bounds, all those loaded so far sit where `Layout` says and read back,
  through ids and pools, as the file means them; a distance does if an int16_t
  can hold it. `SafeWhenDeclared`: for a file whose header counts what its body
  holds, with high halves of 0, a memo that an int can size, and whose sets stay
  within 256 positions, nothing is written outside block, pools and sets, and
  load and release are defined. The run has files that break each of these
  premises, and some of them go undefined.
* `CountsExact` (`calls`): with `saveTree` and `backTree`, the count of a node
  is the number of its holders, stale slots included, and it is freed when the
  last lets go: what the interpreter's uncounted assignments give up.
  `MatchesAgree`: the two forms of match agree with each other and with the
  text. `SearchesAgree`: so do the two forms of search, for ranges that fit a
  register; with a longer one the search by blocks may miss a byte in range and
  stop later, but only at one or at the end. `CountsDown`: `decCount` says yes
  as often as the number scanned, up to its first no.
* `Terminates`: under weak fairness of the next step. The interpreter is one
  thread in a loop without waiting; that it takes a step whenever it can is all
  the fairness used. `STEP_FAIL` is what the property is about.

## Findings

Each is a run that TLC ends with a counterexample.

1. `math_disposal`: on the README's own example the parse is right, and then
   `ParserContext_free` goes through a freed node, because `POP_FAIL`,
   `STEP_FAIL`, `TPop` and `TLink` do not count what they assign.
2. `math_nesting`: four nested parentheses write slot 64 of 64. The growth test
   runs before the increment.
3. `math_failure`: a syntax error ends at position NULL with the stack top at
   -1: the bottom frame is one slot above where `fail_stack = 0` reads it.
4. `json_escape`: in `"\n"` the jump table's -8 is stored as 65528, the tables
   being `uint16_t`, and jumps forward.
5. `symbols_state`: the state value is to tell tables apart (the commented-out
   `lookupStateTreeMemo` compares nothing else of the table), but the first
   symbol gets the value 0 of the empty table. Behind that lies another case: an
   entry left behind keeps its value whatever now lies below it.

## Proofs

Every theorem is about `Spec` of its module and holds for all values of the
constants that satisfy the named assumptions.

| Module | Theorem | States |
|---|---|---|
| `NezVMProofs` | `TypeCorrect` | `TypeOK` |
| | `KeysDistinct` | a memo key belongs to one memo point and one position |
| | `StackDiscipline` | each slot is what the handler that will pop it expects |
| | `FramesWhole` | `FailChain` |
| | `AcceptsBalanced` | `BalancedExit` |
| `NezVMSafetyProofs` | `DefinedUntilFull` | a step is undefined only at a stack without room for a frame, or after a node was freed too early |
| | `OnlyFullUndefined` | `UndefinedOnlyWhenFull`, if the program saves no tree |
| | `TreesStayAlive` | `ReachableAlive`, likewise |
| | `CountsSuffice` | `CountsCover`, likewise |
| | `DisposesClean` | `CleanDisposal`, likewise |
| `NezVMBacktrackProofs` | `BacktracksWhole` | `Backtracks`: `Spec` implements `Backtracker` |
| `SymbolTableProofs` | `TypeCorrect` | `TypeOK` |
| | `QueriesAnswer` | `QueriesAgree` |
| | `Refines` | `Implements`: `Spec` implements `ScopedSymbols` |
| `LoaderProofs` | `TypeCorrect` | `TypeOK` |
| | `LoadsFaithfully` | `ReadsBack`, while the load stays in bounds |
| | `DefinedWhenDeclared` | `SafeWhenDeclared` |
| `ContextProofs` | `MatchesTheText` | `MatchesAgree` |
| | `SearchesTheText` | `SearchesAgree` |
| | `CountedExactly` | `CountsExact` |
| | `CountedDown` | `CountsDown` |

### The machine

**Types.** `TypeOK` is inductive as it stands. It is more than types: every
tree pointer, in a live or a stale slot, in the log or in the memo, is NULL or
a node that was made; children are older than parents, so trees have no cycles
and a cascade of frees ends; the stack top never leaves the array; a hash is a
slot of the table. The argument goes handler by handler. `DecOK` and `IncOK`
say that counting keeps a heap well formed, `PopFailOK` covers every failure,
`EndOK` the node that `TEnd` makes: its children come from links of the log, so
they are older than it.

**The stack.** `FailChain` and `BalancedExit` do not hold of arbitrary
bytecode: a program that pops what it did not push breaks both. The machine
checks nothing, so what the proofs assume of the program is stated instead, in
`NezVMShape`: there is a *shape* S, a map from offsets to what the procedure
running there has open, and every instruction leads from the shape at its
offset to the shape at each of its successors (`WellShaped(S)`).
`ProgramShapes` computes a shape by following the program, and TLC evaluates,
in the runs `math`, `json`, `ops` and the others on these programs, that it is
well-shaped and that `TextSafe` holds of it. So the hypothesis has instances:
the calculator, and JSON on the bytes those runs use. `json.bin` has no shape
once a backslash is among the bytes, because its jump tables then lead out of
the code: that is the fourth finding, and its run has a module of its own.

Neither invariant is inductive: a slot is a number, and whether it is a return
address, a position, a log size or part of a frame is nowhere written down. The
inductive invariant, `Disciplined(S)`, says that it could be. There is a list
of items, one for each call, saved position, saved tree, alternative and node
begun, such that each lies right above the one before (`Over`), what is open
in the current procedure is what S says of `pc`, return addresses and
alternatives lead to offsets with the shape of the item below, positions and
log sizes grow upwards (`Sorted`), every frame in force and every OpNew of the
log is an item's (`FramesHeld`, `LogHeld`) (`Stacked`, `Held`). A running
machine holds such a list or has just failed without an alternative
(`Failed`); no memo entry takes the position back. Each handler pushes an item,
pops one, or leaves the list alone; `POP_FAIL` cuts it to the frame's item.

**Definedness.** `DefinedUntilFull` adds to the list that the position saved in
each item is in the text, as are the positions memo entries lead to
(`TextHeld`). Its second hypothesis, `TextSafe`, is that no instruction takes
the Nul behind the text, except a `DDispatch` that fails at once, no loop
repeats the empty string, and no `Nop` has an operand that runs. What is left to
go wrong is named in the conclusion: a stack without room for a frame, and a
node freed too early. For programs that save no tree the second is proved away
as well (`OnlyFullUndefined`). This is less than `ParseDefined`, which also has
TLC's word that the stack does not fill up in `json` and `ops`.

**The life of trees.** `POP_FAIL`, `STEP_FAIL`, `TPop` and `TLink` set `left`
or a slot's tree without counting. For the calculator that ends in
the first finding, so no theorem can have all programs. What saves JSON is that
each of its slots keeps NULL: it pushes only where `left` holds nothing.
`SavesNoTree(S, H)` says this of a program, and of nothing but the program: H
is a set of offsets where `left` may hold a tree; a `TEnd`, a memo hit and the
return of a call lead into it, every instruction that keeps `left` stays in it,
and no `TPush`, `Alt` or `Step` is in it. `Holding` computes the least H, and
TLC evaluates `TreeAssumption` for the JSON program and the synthetic one in
their runs. The calculator does not satisfy it: a left-recursive loop takes a
frame while `left` holds the operand.

The inductive invariant is `TreesHeld(H)`: no slot holds a tree; a machine that
runs holds one in `left` only at an offset of H; and `Kept`, the count of a
node in use covers the references to it from `left`, the links of the log, the
memo's slots and the children of nodes in use, and no use after free has
happened. An uncounted assignment then writes NULL over a counted reference,
which leaves the count too high and never too low; that is why `Kept` says
"covers", where `CountsExact` is exact. It stands on `IncCovered`,
`DecCovered`, `SetCovered` and `MakeCovered` of `TreeHeapProofs`, which hold
for every heap: a release of one reference, with the whole cascade of frees
behind it, leaves the others covered. `KeptBack`, `KeptStore` and `KeptMade`
bring these to a log that a failure cuts, a memo slot that is evicted and a
node that `TEnd` makes of the log's links. `ReachableAlive` follows from the cover,
because a freed node has no reference to it; the proof unfolds the recursive
function of `Reachable` from the youngest node down. The disposal is one action
that releases the memo, the log and the slots in turn, so it needs the same
lemmas once more.

**The refinement.** `Backtracker`'s words and choices are read off the slots
along the links of the frames, by a recursive function over the slots. The
items say where the frames are and that each saved no more log than lies below
it, so that a step which writes or drops what is on top leaves what the frames
below hold (`WordsUnder`, `ChoicesUpTo`). Then each handler is one abstract
step: `Alt` is `Choose`, `Succ` `Commit`, `Step` `Renew` or `Fail`, every
failure `Fail` or `GiveUp`, `TEnd` `Build`. One fact is missing from
`Disciplined`: the bottom frame keeps no tree (`BottomKept`). The uncounted
assignments and the memo's evictions change neither words nor choices, which
is the point: backtracking is right whatever the counts are.

### The symbol table

`TypeOK` is inductive as it stands; it was strengthened for that by the nesting
of the save points and by what entries left behind look like, because a roll
back leaves them and an addition compares with them. The queries walk the
array downwards with recursive functions; `DownIs` and `HoldsIs` say what they
find. `Refines` maps the live entries to symbols, and each save point to the
prefix it cuts to, which a roll back brings back because nothing below a save
point is written while it is open.

### The loader

The inductive invariant `IInv` has seven parts. `Typed` has the header's
numbers, `Listed` says what block and pools hold, `Measured` that their fill is
what `Layout` says of the instructions loaded so far, whatever room there was
for it, `Tagged` that each tag is that of the instruction with its id, `Sound`
that, while the load has stayed in bounds, each instruction reads back
and lies within what is written, so that later writes cannot disturb it,
`Finished` that the load ends at the header's count, and `SafeWhenDeclared` is
there itself. No action tests a bound, so that writes stay in
bounds has to come from the premise `Declared` alone: what the instructions
loaded so far fill is no more than what the whole body fills, which is what the
header declares. The arithmetic is that of the widths: two bytes bring back any
number below 65536, with a sign any from -32768 to 32767, and the conversion and
negation of a distance any that fits; an id is below its pool's 16-bit size, as
long as the pool is in bounds. A fold keeps its label in one byte, so
`ReadsBack` stops at 256 tags. `FilesAssumption` is that the fields of a file
have the widths the loader reads, except that a half of a 64-bit one is below
2^31.

### The scanning functions

The position stays in the text (`Within`): a match without a test of its length
cannot leave it because the text's Nul is no byte of a word. A loop over bytes
finds the first index at which it must stop, and so does the search by blocks,
whatever their size, for the part of the range its register takes; what that
part holds is in the range, so it cannot stop earlier than the loop. The theorems are about `Spec` of `ContextCalls`, where the
position moves by `Move`, and by `backTree`, back to where it was: the
invariant says that what a choice saved is a position in the text and a slot of
the stack (`ChoicesOK`).

`CountsExact` is inductive together with the heap's form: every function counts
what it assigns, so the count of a node is the number of its references, and
releasing one leaves it so (`DecCounted`, `SetCounted`, `NewCounted`), stale
slots and cascades included. `CountsDown` needs what the counter holds between
two answers (`CounterOK`): after k answers to a due number n it is n - k, until
the answer is no. That the scan stores n at all is `strtol`'s doing:
white space, sign and digits are first indices again, and the value of the
digits is a recursive function on the prefix.

### How

Induction is on sets of numbers (`NatSets`): a set that has 0 and with n has
n + 1 has them all, from the library's theorem on finite sets. A recursive
function is a CHOOSE of a solution of its equation: the proof exhibits one, and
shows by such an induction what every solution returns.

Assumptions (named, in the module that declares the constants): for `NezVM`,
sizes are naturals, the stack has more than four slots, the inputs are
sequences of bytes, each instruction has the operands the loader writes
(`InstOK`), jump tables answer for every byte, memo points are below 4096; for
`SymbolTable`, `TableAssumption`; for `Loader`, `FilesAssumption`; for
`ContextText`, `TextAssumption`: text and words are bytes other than 0, words
are two to eight long, ranges are pairs of bytes, so is a block; for `ContextCalls`,
`CallsAssumption`: the stack has a slot and the counter an even number of
values. TLC evaluates them in each run, `ShapeAssumption` and the
`TextAssumption` of `ProgramShapes` in those of the programs, and
`TreeAssumption` in those of the two that save no tree.

### Only model-checked

* `ReachableAlive` and `UndefinedOnlyWhenFull` for the calculator, which saves
  trees in slots: after an uncounted assignment the counts are too low, and
  whether a node is still alive depends on which stale slots happen to keep it;
  no inductive account short of the whole history was found. `CleanDisposal` is
  false there.
* `ParseDefined` beyond `OnlyFullUndefined`: that a program fits its stack
  depends on the text, and deep enough JSON does not.
* `ResultMatchesGrammar`, `MemoFaithful`: the reference is a recursive operator
  over grammar and text. Without SMT, which recursive operators switch off, and
  without theorems that take an operator, induction over a grammar is out of
  the provers' reach.
* `Terminates`: liveness.

## Not modelled

* The growth of the stack: it is reached only through the write past the array
  that `math_nesting` shows, after which nothing is claimed.
* `mininez_init_runtime`, a second parse with the same runtime: nobody calls it.
* Other tree functions than `NEW`, `LINK` and `GC` (`initTreeFunc`,
  `initNoTreeFunc`): nobody installs any.
* The word layout of `bitset.h`, the AVX2 and SSE variants of `pstring.h` (not
  compiled with the flags of `CMakeLists.txt`), what SSE loads read past a text
  or a range.
* Halves of 64-bit header fields from 2^31 on, code above 64 KiB.
* Which tree `backTree` ought to restore: it reads the slot below the one
  `saveTree` wrote, and no text says what was meant. `ContextCalls` does as the
  code does.
* The XML sample (no further opcodes), debug output, build files, the bundled
  compiler.

## Plan

Done, in this order: `TreeHeap`, `Bytecode`, `NezVM` with `NezVMProps`;
`PegSemantics`, `NezVMGrammar` and the shipped programs; `OpsGrammar` and
termination; `NezVMProofs`; `Backtracker` and its refinement; `SymbolTable`,
`ScopedSymbols` and `SymbolState`; `Loader`; `ContextCalls`; shapes, and the
proofs of the stack discipline, of definedness and of the refinement;
`SymbolTableProofs`; `LoaderProofs`; `ContextText` and its proofs;
`TreeHeapProofs`, and on it the proofs of exact counts in `ContextCalls` and of
the life of trees in the machine.

To come:

1. The life of trees for programs that save trees, from an invariant that
   covers the uncounted assignments.
2. `LifeCycle`: create, load, parse, `init_runtime` and parse again, dispose.
