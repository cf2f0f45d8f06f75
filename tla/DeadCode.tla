------------------------------ MODULE DeadCode ------------------------------
(***************************************************************************)
(* The control-flow graph of a file and what is done with it before code   *)
(* is generated: create_basic_blocks and generate_graph                    *)
(* (ControlFlowGraph.cpp), eliminate_dead_code and collapse_cond_jumps     *)
(* (optimizer.cpp), in the order of main.cpp.                              *)
(*                                                                         *)
(* A basic block is known by its m_begin: m_label is labels[m_begin], ends *)
(* has its m_end, and the vector m_blocks is in the order of m_begin.      *)
(* Quads are counted from 1, so quads.size() is Len(quads) + 1.  The grey  *)
(* stack is the set greys, and a step takes any of its elements: what is   *)
(* proved here does not depend on the order the code visits the blocks in. *)
(*                                                                         *)
(* A Mutant_* operator is a faulty variant of the definition after it that *)
(* no specification uses; PROJECT.json says which property it breaks.      *)
(***************************************************************************)
EXTENDS Integers, Sequences, FiniteSets

CONSTANTS
    Nothing,     \* the empty string
    Start, Main, \* the labels _start and main
    Hidden,      \* the labels that begin with an underscore
    Programs     \* the quads and labels a run may start from

ASSUME HiddenAssumption == Start \in Hidden /\ Main \notin Hidden
\* generate_ir puts the label _start on the first quad of every file
ASSUME ProgramsAssumption ==
    \A P \in Programs :
        /\ DOMAIN P.quads = 1 .. Len(P.quads) /\ Len(P.quads) \in Nat \ {0}
        /\ DOMAIN P.labels = DOMAIN P.quads /\ Len(P.labels) = Len(P.quads)
        /\ P.labels[1] # Nothing
        /\ \A i \in DOMAIN P.quads :
              DOMAIN P.quads[i] = {"op", "target", "opd1", "opd2"}
\* main stops before this when a function was declared twice, and new_label
\* counts up; a function that is spelled like a label of new_label is left out
ASSUME LabelsAssumption ==
    \A P \in Programs : \A i, j \in DOMAIN P.labels :
        P.labels[i] = P.labels[j] /\ P.labels[i] # Nothing => i = j

VARIABLES
    quads, labels,
    phase,       \* idle, mark, swept, done
    blocks,      \* m_blocks
    ends,        \* the m_end of each block that was made
    edges,       \* m_edges
    mark,        \* m_mark
    greys,       \* the local stack of mark_from_root_label
    roots        \* blocks eliminate_dead_code has still to mark from

graphVars == <<phase, blocks, ends, edges, mark, greys, roots>>
vars == <<quads, labels, graphVars>>

Colors == {"Black", "Grey", "White"}
Positions == DOMAIN quads

(***************************************************************************)
(* create_basic_blocks: begin_idx is 0 while block_label is empty; at each *)
(* further label the block before it is pushed, and after the loop the     *)
(* last one, whose m_end is the number of quads.                           *)
(***************************************************************************)
Pushed(E, b, e) == [c \in DOMAIN E \cup {b} |-> IF c = b THEN e ELSE E[c]]
Mutant_EndWithLabel(L, s, i) ==
    IF L[i] = Nothing THEN s
    ELSE [begin_idx |-> i,
          ends |-> IF s.begin_idx = 0 THEN s.ends ELSE Pushed(s.ends, s.begin_idx, i + 1)]
NextLabel(L, s, i) ==
    IF L[i] = Nothing THEN s
    ELSE [begin_idx |-> i,
          ends |-> IF s.begin_idx = 0 THEN s.ends ELSE Pushed(s.ends, s.begin_idx, i)]
BlockEnds(L) ==
    LET cut[i \in 0 .. Len(L)] ==
            IF i = 0 THEN [begin_idx |-> 0, ends |-> <<>>] ELSE NextLabel(L, cut[i - 1], i)
        last == cut[Len(L)]
    IN  Pushed(last.ends, last.begin_idx, Len(L) + 1)

\* the quads of the block that begins at b
Block(E, b) == b .. E[b] - 1

\* generate_inter_block_edges and generate_inter_procedural_edges
Mutant_TargetsIfFalse(q) ==
    CASE q.op \in {"Goto", "CallNil", "CallResult"} -> {q.opd2}
      [] q.op = "CondGoto" -> {q.opd1}
      [] OTHER -> {}
Targets(q) ==
    CASE q.op = "Goto" -> {q.opd2}
      [] q.op = "CondGoto" -> {q.opd1, q.opd2}
      [] q.op \in {"CallNil", "CallResult"} -> {q.opd2}
      [] OTHER -> {}
Mutant_EdgesOfLastQuad(Q, L, E) ==
    UNION {{<<L[b], t>> : t \in Targets(Q[E[b] - 1])} : b \in DOMAIN E}
EdgesOf(Q, L, E) ==
    UNION {UNION {{<<L[b], t>> : t \in Targets(Q[i])} : i \in Block(E, b)} :
              b \in DOMAIN E}

\* get_block: the first block with the label, if there is one
GetBlock(B, L, l) == {b \in B : L[b] = l /\ \A c \in B : L[c] = l => b <= c}
Mutant_Predecessors(b) ==
    UNION {GetBlock(blocks, labels, e[1]) : e \in {d \in edges : d[2] = labels[b]}}
Successors(b) ==
    UNION {GetBlock(blocks, labels, e[2]) : e \in {d \in edges : d[1] = labels[b]}}

Mutant_Unwhite(b) == {c \in Successors(b) : mark[c] # "Grey"}
Undiscovered(b) == {c \in Successors(b) : mark[c] = "Black"}

\* _start of an executable, the visible functions of a library
Mutant_RootsFromMain(B, L) ==
    IF \E b \in B : L[b] = Main THEN GetBlock(B, L, Main)
    ELSE {b \in B : L[b] \notin Hidden}
RootsOf(B, L) ==
    IF \E b \in B : L[b] = Main THEN GetBlock(B, L, Start)
    ELSE {b \in B : L[b] \notin Hidden}

Init ==
    /\ \E P \in Programs : quads = P.quads /\ labels = P.labels
    /\ phase = "idle"
    /\ blocks = {} /\ ends = <<>> /\ edges = {}
    /\ mark = <<>>
    /\ greys = {} /\ roots = {}

\* create_basic_blocks, generate_graph and the choice of the roots
BuildGraph ==
    /\ phase = "idle"
    /\ phase' = "mark"
    /\ ends' = BlockEnds(labels)
    /\ blocks' = DOMAIN ends'
    /\ edges' = EdgesOf(quads, labels, ends')
    /\ mark' = [b \in blocks' |-> "Black"]
    /\ roots' = RootsOf(blocks', labels)
    /\ UNCHANGED <<quads, labels, greys>>

\* mark_from_root_label: the root is pushed without being greyed
MarkFromRoot(r) ==
    /\ phase = "mark" /\ greys = {}
    /\ r \in roots /\ \A s \in roots : r <= s
    /\ greys' = GetBlock(blocks, labels, labels[r])
    /\ roots' = roots \ {r}
    /\ UNCHANGED <<quads, labels, phase, blocks, ends, edges, mark>>

\* one round of its loop: Black successors become Grey, then the block White
Visit(b) ==
    /\ phase = "mark" /\ b \in greys
    /\ LET new == Undiscovered(b)
       IN  /\ greys' = (greys \ {b}) \cup new
           /\ mark' = [c \in blocks |-> IF c = b THEN "White"
                                        ELSE IF c \in new THEN "Grey"
                                        ELSE mark[c]]
    /\ UNCHANGED <<quads, labels, phase, blocks, ends, edges, roots>>

\* eliminate_dead_code after marking
Sweep ==
    /\ phase = "mark" /\ greys = {} /\ roots = {}
    /\ phase' = "swept"
    /\ blocks' = {b \in blocks : mark[b] = "White"}
    /\ UNCHANGED <<quads, labels, ends, edges, mark, greys, roots>>

\* collapse_cond_jumps: a jump to the next quad is left out
Mutant_ElseFollows(i) ==
    i + 1 \in Positions /\ quads[i].op = "CondGoto" /\ quads[i].opd1 = labels[i + 1]
ThenFollows(i) ==
    i + 1 \in Positions /\ quads[i].op = "CondGoto" /\ quads[i].opd2 = labels[i + 1]

Collapse ==
    /\ phase = "swept"
    /\ phase' = "done"
    /\ quads' = [i \in Positions |->
                    IF ThenFollows(i) THEN [quads[i] EXCEPT !.opd2 = Nothing]
                    ELSE quads[i]]
    /\ UNCHANGED <<labels, blocks, ends, edges, mark, greys, roots>>

Next ==
    \/ BuildGraph \/ Sweep \/ Collapse
    \/ \E b \in blocks : MarkFromRoot(b) \/ Visit(b)

Spec == Init /\ [][Next]_vars /\ WF_vars(Next)

-----------------------------------------------------------------------------
All == DOMAIN mark
Built == phase # "idle"
Swept == phase \in {"swept", "done"}

TypeOK ==
    /\ phase \in {"idle", "mark", "swept", "done"}
    /\ blocks \subseteq Positions
    /\ mark \in [All -> Colors] /\ All \subseteq Positions
    /\ DOMAIN ends = All /\ \A b \in All : ends[b] \in Nat
    /\ greys \subseteq All /\ roots \subseteq All
    /\ DOMAIN labels = Positions

\* The blocks of create_basic_blocks cut the file: every quad is in exactly
\* one of them, also the last one, and only the first quad of a block has a
\* label, so that it alone can be jumped to.
BlocksPartition ==
    Built =>
        /\ \A i \in Positions :
              \E b \in All : /\ i \in Block(ends, b)
                             /\ \A c \in All : i \in Block(ends, c) => c = b
                             /\ i # b => labels[i] = Nothing
        /\ \A b \in All : labels[b] # Nothing /\ Block(ends, b) \subseteq Positions

(***************************************************************************)
(* What is left is what the roots reach over the edges: all of it, so that *)
(* no edge leaves the kept code, and nothing else, so that dead code is    *)
(* gone.  Closed(S) says that S contains the roots and every successor.    *)
(***************************************************************************)
EdgeTargets(b) ==
    UNION {GetBlock(All, labels, e[2]) : e \in {d \in edges : d[1] = labels[b]}}
RootBlocks == UNION {GetBlock(All, labels, labels[r]) : r \in RootsOf(All, labels)}
Closed(S) == RootBlocks \subseteq S /\ \A b \in S : EdgeTargets(b) \subseteq S
KeptIsReachable ==
    Swept => Closed(blocks) /\ \A S \in SUBSET All : Closed(S) => blocks \subseteq S

\* A jump or call in kept code whose label is in this file finds its block
\* kept; only the name of an imported function is left to the linker.
JumpsStayInKeptCode ==
    Swept =>
        \A b \in blocks : \A i \in Block(ends, b) :
            \A t \in Targets(quads[i]) \ {Nothing} :
                GetBlock(All, labels, t) \subseteq blocks

(***************************************************************************)
(* Leaving out the second target of a conditional jump does not change     *)
(* where it leads: the next quad begins exactly that block, and the block  *)
(* was kept, so its code is generated next.                                *)
(***************************************************************************)
JumpLeadsTo(i) ==
    LET q == quads[i]
    IN  IF q.op = "CondGoto"
        THEN <<GetBlock(blocks, labels, q.opd1),
               IF q.opd2 = Nothing THEN {i + 1}
               ELSE GetBlock(blocks, labels, q.opd2)>>
        ELSE <<>>
CollapseKeepsJumps ==
    [][Swept => \A b \in blocks : \A i \in Block(ends, b) :
                   JumpLeadsTo(i)' = JumpLeadsTo(i)]_vars

\* Marking ends: a block is greyed once, a root is taken once.
Terminates == <>(phase = "done")

=============================================================================
