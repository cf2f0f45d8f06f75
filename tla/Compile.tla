------------------------------ MODULE Compile ------------------------------
(***************************************************************************)
(* One source file on its way through main.cpp up to code generation: its  *)
(* translation (TacGen) and, when that reported no error, the control-flow *)
(* graph and the removal of dead code (DeadCode) over the same quads.      *)
(***************************************************************************)
EXTENDS Integers, Sequences, FiniteSets

CONSTANTS
    Idents, Anon, MaxTemps, MaxDepth, MaxParams, PrefixOf, Funs, Imported,
    Sigs, Nodes, BinOps, Lit, Nothing, Main, Start, PrintInt, PrintBool,
    MaxQuads, MaxPending, MaxOpen,
    HiddenFuns   \* the functions whose name begins with an underscore

VARIABLES
    cur, depth, live, frame, tables, temps, start, named, reserved, aborted,
    quads, labels, lcount, vals, ctx, fun, types, globals, imported, errors,
    crashed, finished,
    phase, blocks, ends, edges, mark, greys, roots

T == INSTANCE TacGen
D == INSTANCE DeadCode WITH Programs <- {}, Hidden <- {Start} \cup Nat \cup HiddenFuns

\* TacGen's assumptions on the same constants
ASSUME TranslationAssumption ==
    /\ T!FrameAssumption /\ T!NodesAssumption /\ T!BinOpsAssumption /\ T!SigsAssumption
    /\ T!ImportedAssumption /\ T!NothingAssumption /\ T!OperandsAssumption
    /\ T!LabelsAssumption
ASSUME HiddenFunsAssumption == HiddenFuns \subseteq Funs \ {Main}

walkVars == <<cur, depth, live, frame, tables, temps, start, named, reserved, aborted,
              lcount, vals, ctx, fun, types, globals, imported, errors,
              crashed, finished>>
graphVars == <<phase, blocks, ends, edges, mark, greys, roots>>
vars == <<walkVars, quads, labels, graphVars>>

Init ==
    /\ T!Init
    /\ phase = "idle"
    /\ blocks = {} /\ ends = <<>> /\ edges = {}
    /\ mark = <<>>
    /\ greys = {} /\ roots = {}

Translate == T!Next /\ UNCHANGED graphVars

\* main returns when ems has errors
Optimize == /\ finished /\ ~errors
            /\ D!Next
            /\ UNCHANGED walkVars

Next == Translate \/ Optimize

Spec == Init /\ [][Next]_vars

-----------------------------------------------------------------------------
(***************************************************************************)
(* Where control goes after quad i of the translated file.  FunEnd emits   *)
(* no instruction; that a function ends in a return is left to the author  *)
(* of the program (the compiler does not check it), so it has no successor *)
(* here.                                                                   *)
(***************************************************************************)
Places(l) == {j \in DOMAIN quads : l # Nothing /\ labels[j] = l}
Flow(i) ==
    LET q == quads[i]
    IN  CASE q.op = "Goto" -> Places(q.opd2)
          [] q.op = "CondGoto" -> Places(q.opd1) \cup
                (IF q.opd2 = Nothing THEN {i + 1} ELSE Places(q.opd2))
          [] q.op \in {"CallNil", "CallResult"} -> {i + 1} \cup Places(q.opd2)
          [] q.op \in {"Return", "Exit", "FunEnd"} -> {}
          [] OTHER -> {i + 1}
Kept == UNION {D!Block(ends, b) : b \in blocks}

(***************************************************************************)
(* Removing dead code never removes code that can run.  The graph has no   *)
(* edge for a block that runs on into the next one, so this rests on the   *)
(* shape of what emit_ir produces: whatever is run into is also the target *)
(* of a jump that is kept.                                                 *)
(***************************************************************************)
ExecutedCodeKept ==
    D!Swept => \A i \in Kept : Flow(i) \subseteq Kept

\* Everything the file defines for others survives: _start and main of an
\* executable, of a library every function whose name does not begin with an
\* underscore.
EntryPointsKept ==
    D!Swept => /\ Main \in DOMAIN globals =>
                      {1} \cup Places(Main) \subseteq Kept
               /\ Main \notin DOMAIN globals =>
                      \A f \in DOMAIN globals \ HiddenFuns : Places(f) \subseteq Kept

=============================================================================
