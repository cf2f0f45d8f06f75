# A verification project for the tama compiler

`tama` compiles source files (`.tmd`) to three-address code (quads), builds a
control-flow graph, optimizes, generates x86 assembly (`.asm`), assembles it to
ELF relocatable objects (`.obj`) and links them into `out.exe`. All of it runs
in one process and one thread, started by `main`, file after file. This
directory holds TLA+ specifications of its parts, TLC configurations that
check them, and TLAPS proofs about them. Source paths below are relative to
`src/src/`.

## The system

| Component | State | Operations | Talks to |
|---|---|---|---|
| Lexer (`lexer.*`) | position | `next_token` | makes the token vector |
| Parser (`Semant::TmdParser`, `semant.cpp`) | cursor in the tokens | `parse_*` | makes the tree; reads imported files for declarations |
| Translator (`Semant::generate_ir`, `emit_ir` in `tmdAst.hpp`) | `m_quads`, `m_tac_labels`, `m_compiling_fun`, global symbols, label counter | one `emit_ir` per node | drives the frames; reports to `ems` |
| Frames (`X86Frame`) | `m_scopes`, `m_symbols`, `s_temp_counter` | begin/end scope, add local/temp/parameter, lookups | read again by the generator |
| Control-flow graph (`ControlFlowGraph`) | `m_blocks`, `m_edges` | `create_basic_blocks`, `generate_graph` | reads quads and labels |
| Optimizer (`optimizer.*`) | marks, grey stack; quads in place | dead code, `collapse_cond_jumps`, fold, merge, simplify | rewrites what the generator reads |
| Generator (`x86_generator.*`) | current frame name and size | one case per quad | asks the frames for offsets |
| Assembler (`assembler.*`) | `m_buf`, `m_labels`, nodes | lexer, parser, `assemble` of every node, sections | makes an object file |
| Linker (`linker.*`) | object buffers, `m_code_offsets`, `m_buf` | append, patch the entry, relocate | writes `out.exe` |
| Driver (`main.cpp`) | lists of files; the files of the directory | one phase after the other, each over its list | stops when `ems` has errors |
| Errors (`error.*`) | `m_errors` | `add_error`, `has_errors` | everybody |

Nothing here is concurrent; there are no timeouts, retries or messages, and what
persists are the files a command leaves for the next one. What is hard is *long
sequences of legal calls over shared tables*: the translator interleaves pushing
quads, adding labels, and opening and closing scopes, in the order of a tree
walk; one pass relies on what another leaves behind; caller and callee share a
stack; unordered maps decide the order in which objects are placed and symbols
are found; an error does not stop a phase, and an old object may be linked with
a new one. What makes each part correct:

* lexer and parser: the tokens cover the text, an accepted file has the tree of
  its tokens, what can be written is read back as it was, and both end;
* frames: no two visible names share a slot, every slot is inside the
  reserved space, every name handed out keeps one slot as long as the code
  generator may ask for it, also after its scope is closed;
* translator: a label is on the quad it was made for and stays there, each
  call finds its own arguments, the stack is level at every jump and label,
  temporaries do not cross blocks and are not overwritten while they wait, every
  operand has a slot in the frame of its own function;
* graph and dead code: the blocks partition the quads, exactly what is
  reachable is kept, nothing that can run is dropped;
* optimizer: the program computes the same before and after every pass;
* generator and assembler: the bytes do what the quads say, at every quad and
  for every activation; a statement becomes its instruction or an error;
* labels and linker: every reference leads to the label it names, wherever
  objects are placed, or is reported;
* driver: a command that succeeds has linked the newest version of everything
  it names, and calls agree with the functions they are linked to.

`PROJECT.json` lists the hazards by line, with the properties that cover each.

## Modules

How the modules build on each other:

    Lexer <- Parser <- Grammar                       text -> tokens -> tree
    Frame <- TacGen <- Compile -> DeadCode           tree -> quads -> kept quads
    LocalOpt                                         quads -> quads
    Codegen <- Assembly <- Machine                   quads -> text -> bytes -> execution
    Linkage                                          references of several files
    Build                                            files over several commands

### Lexer, LexerProofs, Parser, Grammar

`Lexer.tla` is `Lexer::lex`, a token per step (`NextToken`), over texts of a few
characters. A space at the end of the text is skipped up to the terminating 0,
and what is read behind it is a nondeterministic word. `Parser.tla` is the
recursive descent as a machine: `goal` is the procedure called next, `stack` the
activations that wait for a result, `ret` the result; `parse_or` to
`parse_factor` are one kind of activation with a level. A behaviour lexes and
parses a text, or parses a sequence of tokens, or the tokens of a tree
(`wanted`), so that accepted files, rejected ones and the way back can be
compared. `Grammar.tla` says how a tree is written as tokens and compares; its
definitions are recursive, and apart so that theorems can be stated about
`Parser`. In the code `m_current` grows at the end of the file and the last
token is read again; here it stays.

### Frame, FrameProofs

`Frame.tla` is `X86Frame` as it is driven by `AstFunDef` (`BeginFun`,
`EndFun`), `AstBlock` (`BeginScope`, `EndScope`) and the expression nodes
(`AddLocal`, `AddTemp`, `AddThreeTemps`). `m_scopes` is the set `live` with the
level of each symbol; `m_symbols` is the set `frame` of entries while its
function `cur` is translated, and `tables[f]` when it is not. That a set of
entries is a map is a property (`OneEntryPerName`), not the type. A function
defined a second time goes on with the table of the first
(`m_frames->insert` keeps what is there), and `BeginFun` does the same. The
assertion of `add_local` is an action of its own (`AddLocalAborts`), after
which nothing happens.

### TacGen, TacGenProofs

The translator. `emit_ir` walks the tree in post-order; a behaviour of
`TacGen` is such a walk for *some* program, so TLC visits every program up to
the bounds. `vals` holds results that wait for their operator, `ctx` the
constructs that are open with the labels they have made. A node that does
something between its children is split where its children run (`If`,
`Else`, `IfEnd`; `While`, `WhileBody`, `WhileEnd`; `Call`, `CallArg`,
`CallEnd`); a node that acts only at its end is one action. `WithLabel` is
`add_tac_label` with its `resize`. Errors are one flag and do not stop the
walk, as in the code. The frame is driven through the actions of `Fr == INSTANCE
Frame`, so that every step of the walk is a step of `Frame` by construction and
what is proved of `Frame` for every identifier and nesting carries over. What the
walk itself can get wrong is the reservation: `FunBegin` is emitted before the
first local is known, and patched through a kept index from a counter kept since
then (`ReservationInCode`). A signature of an imported file is a constant; an
import may stand in a file or in a block, and what it reads may bring an error
(`extract_global_declarations`). Functions inside functions and statements outside
them are left out (both use a null `m_compiling_fun`). `SetSym` looks the symbol
up after its value, the code before (`tmdAst.hpp:365`); only an identifier spelled
like a temporary of the value would tell the two apart.

### DeadCode, DeadCodeProofs

`BuildGraph` (create_basic_blocks, generate_graph and the choice of the roots),
where `BlockEnds` is the loop of create_basic_blocks round by round: `begin_idx`,
the block that is pushed when the next label is met, and the last one after the
loop; that its blocks are a partition is `BlocksPartition`. Then marking (`MarkFromRoot`;
`Visit`, one popped block per step, in any order), `Sweep` and `Collapse`, over any
quads and labels. An edge leads from a block to the block with a label; a label
with no block is an imported function.

### Compile, CompileProofs

`TacGen` and `DeadCode` over the same quads and labels: `Optimize` begins when
the walk is finished without an error, as in `main`. It asks what neither
module can: whether the *shape* of translated code makes up for the graph's
missing fall-through edges (`ExecutedCodeKept`). `HiddenFuns` are the functions
whose names begin with an underscore, as the lexer allows (`lexer.cpp:215`): like the
labels the compiler makes they are no roots of a library (`optimizer.cpp:167`), and
`EntryPointsKept` speaks of the others. A jump whose label was dropped
(the finding `lost_label`) leads nowhere in it, so nothing is said of such a jump.

### LocalOpt, LocalOptProofs

`fold_constants`, `merge_adjacent_store_fetch` and
`simplify_algebraic_identities`, one round of a loop per step. What a quad
computes is taken from the instructions `x86_generator.cpp` writes for it, for
integers of `Width` bits; `Meaning` is what goes out (pushed arguments, the
returned value, a trap) for each value of the variables. Jumps go ahead and back;
an execution goes back at most `Rounds` times, and a jump back is where the next
round begins. The properties name their limits, which are the places where the
code departs from the machine:

* `BooleanLogic`: an and or an or of integers folds to a truth value;
* `CopyIsLastRead`: merging needs a store (a jump that tests a name is taken for
  one), a name that is not read again, and a copy that is no jump's target;
* `SelfInverse`: x - x stays x; x / x is 1 even for 0.

`ResultKept` says that no pass leads the next one out of these limits. It has a
fourth, `TestsVariables`, that only the passes together need: `x: int = 0 + 1` at
the beginning of an `if true` is folded to a copy of the literal 1, which then
follows a jump that tests the literal 1, and merging makes one quad of the two.
Calls are left out.

### Codegen, Assembly, Machine

`Codegen.tla` is `X86Generator::generate_asm`, a quad per step; the text is the
sequence of its tokens, which is all the assembler sees of it. `Assembly.tla` is
`Assembler::parse` and `append_program`: a statement per step becomes a node, and
a node its bytes; errors, assertions and null pointers of `NodeOp::assemble` are
outcomes of their own. `Machine.tla` executes the bytes: `Decode` and the
`Execute` actions follow the Intel manual for what the generator writes and are
external. Beside the processor runs a machine of the quads, which knows neither
stack nor registers nor addresses; when the processor comes to the code of
another quad the quad it left is executed there, in the same step. `LockStep` is
thus a simulation of the source machine by the processor: every variable of
every activation is in its slot, return addresses lead behind their calls, and
the stack holds the frames and the pending arguments and no more. A behaviour can
also begin with one statement of assembly (a form), which is assembled and
decoded back (`RejectedOrDecodes`). `Limit` names the forms that the assembler
accepts and gets wrong: a displacement of more than a byte (reported on the
terminal only), esp as a base, je to an operand that is no label, pop to no
register, an interrupt number of more than a byte, and expressions whose value is
computed without signs or not at all (5 / 0, -eax, a register as a displacement).
Operands that are none (a missing one, a reserved word, a number as a base, an open
bracket) are not among them and must be reported. The generator writes only the first of them, in a
function of more than 32 slots or 30 parameters.

### Linkage, LinkageProofs

For each `.asm` file in turn, code, references and label definitions in any
order (`Code`, `LabelRef`, `LabelDef`), then `patch_rel_jumps`, the symbol table
and the relocations (`EndObject`); then the linker over the objects in any order, which stands for
the unordered map. Instructions are numbers of bytes. `order` is chosen once,
because the code iterates over the same map each time.

### Build, BuildProofs

The driver, over a directory of `.tmd`, `.asm` and `.obj` files. A behaviour is
a sequence of commands (`Invoke`; `Classify`, one argument; `CompileFile`,
`AssembleFile`, one file; `Link`), with edits (`Edit`) between two commands and
the death of the process (`Die`: an assertion, a trap while folding) between two
files. A content is what the phases see of a file: whether it parses, types and
assembles, its imports, and for each function its number of parameters and its
calls. A file that cannot be read is an empty one, as in the code, and an object
that is missing makes the linker abort. `CallsMatch` and `FunctionsFound` speak of
commands on sources together with their imports (`FromSources`); their limit
`LostToOthers` names the functions that dead-code elimination takes although
other files call them.

### MC modules

`MC<module>.tla` extends a module with model values and small sets; each
`.cfg` is one run.

`Mutant_*` operators stand beside the definition they are a faulty variant
of. No specification uses them; `PROJECT.json` says which property each one
breaks, which is evidence that the property looks at that definition.

## Runs

| Run | Question | Bounds |
|---|---|---|
| `parse` | tokens cover the text; trees match their tokens; programs are read back; the parser ends | all texts of 4 of 10 characters; all sequences of 4 of 7 and of 3 of 14 kinds of tokens; 2 431 trees with two levels of expressions and of blocks |
| `frame` | slots, reservation, names, scope exit | 2 identifiers, 2 functions (also redefined), 3 names handed out, depth 3, 2 parameters |
| `translate` | temporaries, waiting operands, slots of operands, the level of the stack, the size of the frame in the code, labels stay on their quads | four vocabularies: expressions (10 quads, 5 temporaries, 3 pending), names (7 quads, depth 3), operators (7 quads, 3 pending), errors and all statements (7 quads, 2 parameters, 2 functions) |
| `compile` | under every nesting of if, else, while, return and calls what can run is kept | 11 quads, 6 open constructs, 3 functions, one of them hidden |
| `dead_code` | blocks, marking, sweep, collapse, termination | all programs of 4 quads with distinct labels |
| `local_opt` | each pass keeps the meaning; all three together do | 28 740 programs: stretches of 4 quads and loops of 7, 3-bit integers, 4 variables, 4 rounds |
| `machine` | the bytes do what the quads say; statements are encoded or rejected; programs end | every operator on 6 boundary values, recursion to depth 4, nested calls, loops, 32 slots and 30 parameters, missing operands; 40 operands in every place of every operation |
| `linkage` | every reference leads to its label or is reported | 2 files, 2 labels, objects up to 11 bytes with text at 3 |
| `build` | success means newest; calls match; functions are found | 2 commands out of 17, 3 files with 3, 6 and 1 versions of the source and one of the assembly |

The bounds are what the interesting cases need: a slot is reused with a scope
closed and another opened (depth 2, 3 names); an if in a loop, a loop that ends
an if and an else that ends a branch fit in 11 quads; a call inside the
argument of a call with an operator fits in 10. Three bits have
overflow in every operation and the division that traps; in four rounds what a loop
has stored is tested, used and stored again; text at an address
other than 0 tells file offsets from code offsets. Words of two bytes
(`WordBytes` of `Assembly`, 4 in the code) keep the machine's integers small: all
widths of fields follow `WordBytes`, and a stack slot is 4 bytes as in the code.
Three characters tell a word from its prefix and a sign of two characters from
two signs, and the fourth looks behind them. Two commands suffice for what one
leaves to the next; the second can begin after a success, any failure, or a
death. Every mutant is found within these bounds.

`CONSTRAINT NoErrors` and `ErrorsAreErrors` cut what `main` throws away after an
error in the source; the vocabulary of errors in `translate` does without. Deadlock
is checked in `machine` and `parse`, whose `Done` and `Ended` stutter only in the
ends they name. It is not in the other runs: a finished or aborted compilation
has no next step there.

The named limits, all places where the code departs from what one expects and no
text of the repository says which is meant: `EndsInSpace` (Lexer), `Merges`
(Parser: statements that run together because newlines are no tokens), a file
that ends in an open list (the parser then never ends), `BooleanLogic`,
`CopyIsLastRead`, `SelfInverse`, `TestsVariables` (LocalOpt), `Limit` (Machine), `LostToOthers` and
`FromSources` (Build), and `PlainFuns` (TacGen), below. Each is a disjunct or guard in the property it belongs to, or a premise of its theorem,
and outside of it the property holds. `MissingOperandReported` begins behind the
optimizer: `f() / f()` with a nil `f` has become a literal there (`optimizer.cpp:113`).

`PlainFuns`: no function is spelled like a label that the compiler makes. The
lexer lets a word begin with an underscore, so `_L0` and `_start` can be functions,
and they share the names of labels: `get_block` finds the first block of that name,
the assembler reports the label as a second definition when both are kept, and a
call of an imported `_L7` leads to a local block of that label. With such a function
TLC finds `ExecutedCodeKept` violated (the call of `_L0` has two places, one of them
dead), so the premise is needed. The functions of the runs are plain, one of `compile`
is hidden.

### What the code does otherwise than it says

Three runs expect a violation; each checks one statement of the source.

* `assign_parameter`: assigning to a parameter indexes the `m_ptypes` of a type
  that is no function type (`tmdAst.hpp:385`, `type.hpp:9`).
* `prefix_parameter`: in a function with a parameter `xs` an undeclared name `x` is
  translated as the parameter, without an error (`tmdAst.hpp:319`): the comparison
  is over the length of the name. A local `x` cannot be declared there, since the same
  comparison reports it (`tmdAst.hpp:282`).
* `lost_label`: of two labels for one quad the first is dropped
  (`semant.cpp:12`); a jump to it has no target. Such places are an if with an
  empty block, whose two labels have no quad between them, and the end of an if
  or a while that ends the block of an if without else. A while and an else put a
  `Goto` before their labels, and make none.

Two more departures are part of the models. A second declaration of a local is
reported (`tmdAst.hpp:294`) and then hits the assertion of `add_local`
(`x86_frame.cpp:27`), so the compiler aborts without printing the error: `Frame`
has it as `AddLocalAborts`. `merge_adjacent_store_fetch` (`optimizer.cpp:57`) drops
the store into a local variable that is read again (`x: int = 1`, `y: int = x`,
`return x`), overwrites the jump of `if b { c = b }`, and merges a copy that other
jumps lead to; `todo.txt:84` warns of it for register allocation only.

## Fairness

Three specifications state fairness, `WF_vars(Next)` each, because the code is a
sequence of loops and calls in one thread and takes its next step as long as
there is one: `DeadCode` (no assumption on which grey block is taken; `Terminates`
holds because a block is pushed once), `Parser` (`EndsUnlessListOpen`: every
procedure consumes or returns, except in two loops over lists) and `Machine`
(`Ends`: the compiler ends on every file, and the programs, which all end, do so as
machine code). `Machine` writes it as `Progress`, with the explicit condition
`Busy` in the place of `ENABLED <<Next>>_vars`, which TLC would have to evaluate by
running a step; `Done` makes a state that is not `Busy` and not an end a deadlock.
Every other property is a safety property.

## Proofs

All constants are arbitrary, subject to the named assumptions of the module
that declares them; TLC evaluates these in every run.

**Frame.** `AnonAssumption` and `BoundsAssumption` are all that is assumed.
`SlotsDisjoint`, `LocalsInsideReservation`, `EntriesUnique` and `TypeCorrect`
hold for any identifiers. `NamesResolve` and `ScopeExit` need `PlainIdents` (no
identifier is spelled like a generated name), which is necessary: with an
identifier spelled `_t1` a declared name and a temporary share a key, and one of
them is left without a slot. `NoSlotClash` is not
inductive: a new symbol gets the number of visible symbols plus one as its
slot, and without more that could be a slot in use. `LiveInv` adds that the
slot of a symbol is its rank among the visible symbols and that an inner scope
lies above the outer ones, so that closing a scope takes the highest slots
away. `LayoutInv` relates the entries of the frame and of all tables to the
counter, and `NamesInv`, under `PlainIdents`, says that every name handed out is
visible or entered.

**DeadCode.** `HiddenAssumption` and `ProgramsAssumption`. The invariant says
in tri-colour form that no edge leads from a white block to a black one, that
every grey block waits on the stack, and that nothing is coloured that is not
in each closed set (one that holds the roots and the targets of its edges).
When stack and roots are used up the white blocks are themselves closed.
Reachability is stated through closed sets, so no induction over paths is
needed.

**Linkage.** `StartAssumption` and `SizesAssumption`. `JumpsLand` follows from
`AsmInv`: while a file is assembled its fields are exactly the sites of its
label table, each with the address behind it, and a site belongs to one label,
so that patching label by label changes every field at most once.
`NoReferenceForgotten` follows from the same; `ObjectsDisjoint` from `LayoutInv`
and `SizesInv`: what has been placed lies below the end of the buffer.

**Build.** `CommandsAssumption` (a command line is a sequence of names with
suffixes) and `MissingAssumption` (no file is not a content). `SuccessIsCurrent`
relates the executable to the sources two phases earlier, through files that
older commands may have written. `Inv` says, phase by phase, that a file of the
command is still in the list of the phase, or that what the next phase reads has
been made from its newest version. A file may be named twice, or as a `.tmd` and as
an `.asm`, so the invariant speaks of the sets of files in the lists (`Range`) and
not of their order. `CallsMatch` and `FunctionsFound` follow with `CallTraced`: a
call in the executable was checked against a declaration, and marking keeps what
is called in the file itself (`CalleeKept`) and what is visible in others
(`VisibleKept`).

**Linker** (the second part of `LinkageProofs`). `ReferencesResolved`,
`UnresolvedReported`, `EntryIsStart` and `TypeOK` follow from `LinkInv`, which
follows the linker: the objects appended so far are distinct, a field without a
relocation holds what the assembler left, a relocation done whose label is
defined holds the displacement to the last definition, and an error was reported
exactly when one done was not found. The step that matters is
`RelocationsKeepLinkInv`: a relocation writes to its own field only, because no
two fields of the executable coincide (`PlacesApart`, from the layout of the
objects and the owner of each site). `EntryIsStart` keeps its condition: only files
that define `_start` refer to it.

**DeadCode, blocks and jumps.** `BlocksPartition` and `CollapseKeepsJumps` need that
no two quads carry one label (`LabelsAssumption`: a second function of one name is
an error, and `main` stops before this phase; the other labels come from a
counter, and a function spelled like one of them is left out). The first is an
induction over the rounds of `create_basic_blocks`: `CutUpTo` says after each
round that the blocks pushed so far end where the next label is and that
`begin_idx` is the last label met, and `CutAtLabels` what the loop leaves. The
second uses `JumpsStayInKeptCode`: the block the omitted target
names is the next quad, and it was kept.

**TacGen.** `FrameAssumption`, `SigsAssumption`, `BinOpsAssumption`. Each step of the
translation is a step of `Frame`, with the same variables, or leaves it alone
(`StepDrivesFrame`), so the theorems about `Frame` hold of every translation
(`TranslationKeepsSlots`, with the instance `FP` of `FrameProofs`).
`LabelsStay` needs no more than that quads and labels are sequences.

**Operands** (the second part of `TacGenProofs`). Three more assumptions
name what the model's values stand for: `ImportedAssumption` (an imported
signature lists types), `NothingAssumption` (the empty string is no label and no
name) and `OperandsAssumption` (a literal and the empty operand are no names of
`add_local`). Everything rests on `WalkInv`, the shape of the walk: a function is
open at the bottom of `ctx` only, a call only inside of a block, a condition or
a call, and nothing but a call inside of a call, so operands wait only where an
expression is being translated. `FrameInv` is what `FrameProofs` knows of the
names in scopes and tables, carried over by the refinement; `NamesInv` says that
every operand is a literal, a parameter or a name `add_local` has made, and that
only such names are written. The steps are then of a few kinds: `PlainStep(m)`
appends up to m quads without a label, `ControlStep` takes the last result and
puts a label or a jump, and the ends of a scope, a function and the file are
apart.

* `OperandsKept` proves `PendingOperandsKept`: what a step writes has a name
  that was made in that step, unless it is an assignment or a declaration.
* `TempsStayInBlock` proves `TempsBlockLocal`. It is not inductive: a step that
  reads a temporary must know it was written in the same block. `LocalInv` adds
  the operands that wait, for which the next quad is the place where they will
  be read: each has one write, and neither a label nor a jump has come since.
* `OperandsFound` proves `OperandsHaveSlots`. `SlotsInv` follows a name from the
  scope, where it has a symbol, to the table of its function, where `end_scope`
  and `end_fun` leave it, and follows the function of a quad, which is the label
  of the last `FunBegin` before it; the step into the table is `Resolvable` of
  `Frame`. After an error the property says nothing: a second definition goes on
  with the table of the first.
* `PrologueReserves` proves `ReservationInCode`. `ReserveInv` says that the one
  `FunBegin` without a size is that of the function that is being compiled, so that
  the kept index is its place, that its table holds parameters and what was handed
  out since it began, and that every other one has a size into which its table
  fits (`Fits`). That the difference of the counter covers the deepest slot is
  `LayoutInv` of `FrameProofs`. It needs no `PlainIdents`; after an error it says
  nothing, as a second definition goes on with the table of the first.
* `StackIsLevel` proves `StackLevel`, also after errors. `StackInv` counts: what
  was pushed and not yet popped are the arguments done of the calls in `ctx`.
  The numbers are cardinalities of sets of places, so the facts are those of
  `FiniteSetTheorems` and no induction is needed.

The first three need `PlainIdents`, as `NamesResolve` does: with an identifier
spelled `_t1` an assignment the program writes can hit a temporary.

**Jumps** (the third part of `TacGenProofs`). `LabelsAssumption` says what
kinds of labels there are: `_start`, names of functions, and the numbers that
stand for `s_label_counter`; `main` is no generated one. That no other function is
either is the premise `PlainFuns` of what follows, and of the theorems of Compile. `JumpInv` is the shape of what
`emit_ir` writes: a label is carried by one quad, unless a function was declared
twice, and numbers in labels and jumps were given out; the labels of an open
construct belong to it alone, and those it has still to place are on no quad
(`ConstructsInv`). Control runs into a label only at the end of an if without
else (`RegionsInv`), and the quads between its conditional jump and that label are
a `Region` entered through that jump only: a label in it is jumped to from inside
alone. While the if is open the region goes on to the last quad, and no construct
outside of it may jump in (`OpenInv`). The induction is over the walk, with three
kinds of steps: straight ones, branches, and the ends of ifs and loops;
`insert_return_labels` then labels what follows a return.

**Compile** (`CompileProofs`). `SameWalk` says that the walk inside of `Compile` is
the one `TacGenProofs` is about, and `G` applies what `DeadCodeProofs` knows of
marking. `OnlyDeadCodeRemoved` proves `ExecutedCodeKept`. What is jumped to is
kept by the edges. What is run into at an end of an if could be lost if only the
inside of its region were kept; but then the kept blocks without those of the
region would still be closed, and marking keeps the least closed set
(`KeptIsLeast`): so the conditional jump is kept (`ConditionKept`), and it has an
edge to the label (`NextKept`). `collapse_cond_jumps` takes no place away, because the
second target it drops is the next quad. `EntriesKept` proves `EntryPointsKept`, with the functions in
`HiddenFuns` as no roots. Both say ASSUME `PlainFuns`; neither needs `PlainIdents`.

**Lexer** (`LexerProofs`). `CharsAssumption`: letters, digits and the characters
the lexer looks for are different from one another, and the terminating 0 is not in
a text. `ReservedAssumption`: reserved words are made of letters, and each has a type
that nothing else has (`m_reserved_words` of the compiler and of the assembler are
such tables). `TextCovered` proves `TokensCoverText`. `Reading` is that property for
what was read so far; a round of `next_token` adds one run of solid characters to
both sides of it (`Sound`, one lemma per kind of token), skips a run of spaces or
counts a newline. That a run stops needs no induction: the positions outside of a set
of characters are a set of numbers with a least one (`Least`), and the terminating 0
is one of them. The parser touches neither text nor tokens, and does not return to
the lexer (`ParserDoesNotLex`). The property keeps its condition that the text
does not end in a space, where the lexer reads on behind it.

**LocalOpt** (`LocalOptProofs`). `WidthAssumption` (two bits at least),
`NamesAssumption` (names are no integers, and none is the empty string) and
`ProgramsAssumption` (no operand is missing, and there are two quads at least:
every file begins with the three of `_start`). What an execution is, and a
power of two, are recursive functions; `Recursion` and `BoundedInduction`
give what is needed of them from the least element of a set of numbers.

* `SpecFoldKeepsMeaning`: the result the compiler computes is the one the
  machine does. For and and or that is a fact about bits: an integer is given by
  its bits (`FromBits` undoes `Bits`), those of 0 and 1 are none and the lowest.
* `SpecSimplifyKeepsMeaning`: a quad that has the same effect in every state may
  take the place of another; each identity is such a pair of quads.
* `SpecMergeKeepsMeaning` is a simulation. `Alike` relates the states of the two
  executions: they differ in the variable that is no longer stored at most, and
  where they do the next quad is in the set `L` of places from which the variable is
  not read. It holds quad by quad over a round, and round by round.
* `SpecResultKept` needs the limits to survive. `MeaningKept` is the inductive
  invariant: the quads have the meaning of the source, and they are inside the
  limits of the passes to come (`StillRegular`), of merging from the place it has
  reached. Folding makes copies, which are stores and not reads, and literals in
  the place of variables; merging moves a read one quad on. The proof
  showed that `TestsVariables` is needed; the run has programs of
  either kind.

Model-checked only: everything of `Parser` and `Grammar`, and of `Codegen`,
`Assembly` and `Machine`. Out of the
prover's reach are liveness (`Terminates`, `EndsUnlessListOpen`, `Ends`), `ENABLED`,
and facts that need induction over data other than numbers up to a bound (the
yield of a tree in `Grammar`, the nested expressions of operands in `Assembly`,
the execution of bytes by a program of any length in `Machine`). `Grammar`,
`Assembly` and with it `Machine` also declare recursive operators, which leave the
prover without its arithmetic.

## Not modelled

* Headers and string tables of ELF files: layout. Sizes and offsets of the text
  enter `Linkage`.
* The texts, lines and order of error messages; whether there are any is what the
  phases ask for.
* Function definitions inside functions and statements outside of them: the
  parser builds such trees (`Parser` has them), but the translator uses a null
  `m_compiling_fun` for them, and what follows is not determined.
* Which function names are taken for instructions or registers by the assembler:
  `Build` has a file that compiles and does not assemble.
* A file that is cut in the middle of being written: writing one is one step.
* Tests and build scripts, which only drive the program.

## Plan

Done, in order: Frame and its proofs; TacGen over it; DeadCode and its proofs;
Compile; Linkage and its proofs; LocalOpt; Codegen, Assembly and Machine; Lexer
and Parser; Build and its proofs; then the linker, the blocks and labels; the
operands, the reservation and the stack of TacGen; its jumps and
labels, and with them Compile; the tokens of Lexer; the passes of LocalOpt.

Left: that the slots of `Frame` make `LockStep` inductive for a single
activation. It takes an invariant that relates every byte of the text in memory to
the quad it was made from, through the text of the assembly.
