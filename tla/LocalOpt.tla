------------------------------ MODULE LocalOpt ------------------------------
(***************************************************************************)
(* The three passes of the optimizer that rewrite quads in place           *)
(* (optimizer.cpp): fold_constants, merge_adjacent_store_fetch and         *)
(* simplify_algebraic_identities, in the order of main.cpp, one round of a *)
(* loop per step.                                                          *)
(*                                                                         *)
(* What the quads compute is defined by the code x86_generator.cpp makes   *)
(* of them (Step), for integers of Width bits.  The programs are stretches *)
(* of one function without calls.  A literal is the integer it denotes, a  *)
(* label the index of its quad.                                            *)
(*                                                                         *)
(* A Mutant_* operator is a faulty variant of the definition after it that *)
(* no specification uses; PROJECT.json says which property it breaks.      *)
(***************************************************************************)
EXTENDS Integers, Sequences, Functions

CONSTANTS
    Vars,        \* the variables and temporaries
    Width,       \* bits of an integer: 32 in the code
    Values,      \* the values a variable may have at the start
    Nothing,     \* the empty string
    Programs,    \* the quads a run may start from
    Rounds       \* how often an execution may go back

Pow2[n \in 0 .. Width] == IF n = 0 THEN 1 ELSE 2 * Pow2[n - 1]
Half == Pow2[Width - 1]
Ints == -Half .. Half - 1

BinaryOps == {"Plus", "Minus", "Star", "Slash", "Less", "EqualEqual", "And", "Or"}
Quad(op, target, opd1, opd2) ==
    [op |-> op, target |-> target, opd1 |-> opd1, opd2 |-> opd2]
EmptyQuad == Quad("EmptyQuad", Nothing, Nothing, Nothing)

\* no operand is missing: Machine has what becomes of those that are
Operands == Vars \cup Ints
WellFormed(q) ==
    /\ q = Quad(q.op, q.target, q.opd1, q.opd2)
    /\ \/ q.op \in BinaryOps /\ q.target \in Vars /\ {q.opd1, q.opd2} \subseteq Operands
       \/ /\ q.op = "Assign" /\ q.target \in Vars
          /\ q.opd1 \in Operands /\ q.opd2 \in Operands \cup {Nothing}
       \/ /\ q.op = "CondGoto" /\ q.target \in Operands
          /\ q.opd1 \in Nat /\ q.opd2 \in Nat \cup {Nothing}
       \/ q.op = "Goto" /\ q.target = Nothing /\ q.opd1 = Nothing /\ q.opd2 \in Nat
       \/ /\ q.op \in {"PushArg", "Return"} /\ q.target = Nothing
          /\ q.opd1 = Nothing /\ q.opd2 \in Operands
       \/ q = EmptyQuad

ASSUME WidthAssumption == Width \in Nat \ {0, 1} /\ Values \subseteq Ints /\ Rounds \in Nat
ASSUME NamesAssumption == (Vars \cup {Nothing}) \cap Int = {} /\ Nothing \notin Vars
ASSUME ProgramsAssumption ==
    \A P \in Programs : P \in Seq(Range(P)) /\ Len(P) >= 2 /\ \A q \in Range(P) : WellFormed(q)

VARIABLES
    quads,       \* m_quads
    pass,        \* fold, merge, simplify, done
    i,           \* the loop counter of the pass
    crashed,     \* the compiler divided by zero
    source       \* the quads before the first pass

vars == <<quads, pass, i, crashed, source>>

Wrap(n) == ((n + Half) % Pow2[Width]) - Half
Abs(n) == IF n < 0 THEN -n ELSE n
Quotient(l, r) ==
    IF (l < 0) = (r < 0) THEN Abs(l) \div Abs(r) ELSE -(Abs(l) \div Abs(r))
Truth(b) == IF b THEN 1 ELSE 0
\* idiv traps, in the compiled program as in the compiler
Traps(op, l, r) == op = "Slash" /\ (r = 0 \/ Quotient(l, r) \notin Ints)

\* the result fold_constants computes
Mutant_LessOrEqual(op, l, r) ==
    CASE op = "Plus" -> Wrap(l + r)
      [] op = "Minus" -> Wrap(l - r)
      [] op = "Star" -> Wrap(l * r)
      [] op = "Slash" -> Quotient(l, r)
      [] op = "Less" -> Truth(l <= r)
      [] op = "EqualEqual" -> Truth(l = r)
      [] op = "And" -> Truth(l # 0 /\ r # 0)
      [] op = "Or" -> Truth(l # 0 \/ r # 0)
Folded(op, l, r) ==
    CASE op = "Plus" -> Wrap(l + r)
      [] op = "Minus" -> Wrap(l - r)
      [] op = "Star" -> Wrap(l * r)
      [] op = "Slash" -> Quotient(l, r)
      [] op = "Less" -> Truth(l < r)
      [] op = "EqualEqual" -> Truth(l = r)
      [] op = "And" -> Truth(l # 0 /\ r # 0)
      [] op = "Or" -> Truth(l # 0 \/ r # 0)

\* what becomes of two adjacent quads: the second is a copy of the first's
\* target, and takes its place
Mutant_AnyAssign(q1, q2) == q2.op = "Assign"
Merges(q1, q2) == q2.op = "Assign" /\ q2.opd1 = q1.target
Mutant_CopyFirst(q1, q2) == Quad("Assign", q2.target, q1.opd1, Nothing)
Merged(q1, q2) == Quad(q1.op, q2.target, q1.opd1, q1.opd2)

\* what simplify_algebraic_identities makes of a quad; in the branch for x - x
\* the code compares where it means to assign, so that x remains
Copy(q, x) == Quad("Assign", q.target, x, Nothing)
Mutant_ZeroIsOne(q) ==
    IF q.op = "Star" /\ 0 \in {q.opd1, q.opd2} THEN Copy(q, 1) ELSE q
Simplified(q) ==
    CASE q.op = "Plus" /\ q.opd1 = 0 -> Copy(q, q.opd2)
      [] q.op = "Plus" /\ q.opd1 # 0 /\ q.opd2 = 0 -> Copy(q, q.opd1)
      [] q.op = "Minus" /\ q.opd1 = q.opd2 -> Quad("Assign", q.target, q.opd1, q.opd2)
      [] q.op = "Minus" /\ q.opd1 # q.opd2 /\ q.opd2 = 0 -> Copy(q, q.opd1)
      [] q.op = "Star" /\ q.opd1 = 1 -> Copy(q, q.opd2)
      [] q.op = "Star" /\ q.opd1 # 1 /\ q.opd2 = 1 -> Copy(q, q.opd1)
      [] q.op = "Star" /\ 1 \notin {q.opd1, q.opd2} /\ 0 \in {q.opd1, q.opd2} -> Copy(q, 0)
      [] q.op = "Slash" /\ q.opd2 = 1 -> Copy(q, q.opd1)
      [] q.op = "Slash" /\ q.opd2 # 1 /\ q.opd1 = q.opd2 -> Copy(q, 1)
      [] q.op \in {"And", "Or"} /\ q.opd1 = q.opd2 -> Copy(q, q.opd1)
      [] OTHER -> q

-----------------------------------------------------------------------------
Init ==
    /\ quads \in Programs
    /\ source = quads
    /\ pass = "fold" /\ i = 1
    /\ crashed = FALSE

\* the for loops: fold_constants looks at every quad, the others not at the
\* last one
Limit == IF pass = "fold" THEN Len(quads) ELSE Len(quads) - 1
Following == [fold |-> "merge", merge |-> "simplify", simplify |-> "done"]
Advance ==
    /\ IF i < Limit THEN i' = i + 1 /\ pass' = pass
                    ELSE i' = 1 /\ pass' = Following[pass]
    /\ UNCHANGED source

FoldConstants ==
    /\ pass = "fold" /\ ~crashed
    /\ Advance
    /\ LET q == quads[i]
       IN  IF q.op \in BinaryOps /\ {q.opd1, q.opd2} \subseteq Ints
           THEN IF Traps(q.op, q.opd1, q.opd2)
                THEN crashed' = TRUE /\ UNCHANGED quads
                ELSE /\ quads' = [quads EXCEPT ![i] =
                                     Copy(q, Folded(q.op, q.opd1, q.opd2))]
                     /\ UNCHANGED crashed
           ELSE UNCHANGED <<quads, crashed>>

MergeAdjacentStoreFetch ==
    /\ pass = "merge" /\ ~crashed
    /\ Advance
    /\ quads' = IF Merges(quads[i], quads[i + 1])
                THEN [quads EXCEPT ![i] = EmptyQuad,
                                   ![i + 1] = Merged(quads[i], quads[i + 1])]
                ELSE quads
    /\ UNCHANGED crashed

SimplifyAlgebraicIdentities ==
    /\ pass = "simplify" /\ ~crashed
    /\ Advance
    /\ quads' = [quads EXCEPT ![i] = Simplified(quads[i])]
    /\ UNCHANGED crashed

Next == FoldConstants \/ MergeAdjacentStoreFetch \/ SimplifyAlgebraicIdentities

Spec == Init /\ [][Next]_vars

-----------------------------------------------------------------------------
(* What the generated code computes. *)

Bits(n) == {k \in 0 .. Width - 1 : (n \div Pow2[k]) % 2 = 1}
FromBits(S) == CHOOSE n \in Ints : Bits(n) = S

\* the instruction for a binary quad: and, or work on bits, cmp and setl,
\* sete make 0 or 1
Computed(op, l, r) ==
    CASE op = "And" -> FromBits(Bits(l) \cap Bits(r))
      [] op = "Or" -> FromBits(Bits(l) \cup Bits(r))
      [] op = "Plus" -> Wrap(l + r)
      [] op = "Minus" -> Wrap(l - r)
      [] op = "Star" -> Wrap(l * r)
      [] op = "Slash" -> Quotient(l, r)
      [] op = "Less" -> Truth(l < r)
      [] op = "EqualEqual" -> Truth(l = r)

\* fetch: an immediate, or what is in the slot
Fetch(env, x) == IF x \in Ints THEN x ELSE env[x]
Store(s, x, v) == [s EXCEPT !.env[x] = v]
Stop(s, v) == [s EXCEPT !.out = Append(@, v), !.halted = TRUE]

\* the code of each kind of quad
Compute(s, q) ==
    LET l == Fetch(s.env, q.opd1)
        r == Fetch(s.env, q.opd2)
    IN  IF Traps(q.op, l, r) THEN Stop(s, "trap")
        ELSE Store(s, q.target, Computed(q.op, l, r))
Assign(s, q) == Store(s, q.target, Fetch(s.env, q.opd1))
Jump(s, q) == [s EXCEPT !.next = q.opd2]
Branch(s, q) ==
    IF Fetch(s.env, q.target) = 0 THEN [s EXCEPT !.next = q.opd1]
    ELSE IF q.opd2 # Nothing THEN [s EXCEPT !.next = q.opd2] ELSE s
Push(s, q) == [s EXCEPT !.out = Append(@, Fetch(s.env, q.opd2))]
ReturnValue(s, q) == Stop(s, Fetch(s.env, q.opd2))

Step(s, q) ==
    CASE q.op \in BinaryOps -> Compute(s, q)
      [] q.op = "Assign" -> Assign(s, q)
      [] q.op = "Goto" -> Jump(s, q)
      [] q.op = "CondGoto" -> Branch(s, q)
      [] q.op = "PushArg" -> Push(s, q)
      [] q.op = "Return" -> ReturnValue(s, q)
      [] q.op = "EmptyQuad" -> s

(***************************************************************************)
(* An execution passes the quads in their order and executes those it is   *)
(* at; s.next is the next one.  A jump ahead is taken in the same round, a *)
(* jump back in the next.                                                  *)
(***************************************************************************)
Passed(s, k, q) ==
    IF s.halted \/ s.next # k THEN s ELSE Step([s EXCEPT !.next = k + 1], q)
Round(qs, s) ==
    LET r[k \in 0 .. Len(qs)] == IF k = 0 THEN s ELSE Passed(r[k - 1], k, qs[k])
    IN  r[Len(qs)]
Start(env) == [env |-> env, out |-> <<>>, halted |-> FALSE, next |-> 1]
\* what goes out: the arguments pushed and the value returned
Run(qs, env) ==
    LET r[n \in 0 .. Rounds] == IF n = 0 THEN Start(env) ELSE Round(qs, r[n - 1])
    IN  r[Rounds].out
Meaning(qs) == [env \in [Vars -> Values] |-> Run(qs, env)]
SameMeaning(ps, qs) == ps = qs \/ Meaning(ps) = Meaning(qs)

-----------------------------------------------------------------------------
Reads(q) ==
    CASE q.op \in BinaryOps -> {q.opd1, q.opd2}
      [] q.op = "Assign" -> {q.opd1}
      [] q.op = "CondGoto" -> {q.target}
      [] q.op \in {"PushArg", "Return"} -> {q.opd2}
      [] OTHER -> {}

\* The type checker lets an and or an or have integer operands, for which the
\* folded result is the truth value and the computed one is not.
BooleanLogic(qs) ==
    \A k \in DOMAIN qs : qs[k].op \in {"And", "Or"} =>
                            {qs[k].opd1, qs[k].opd2} \cap Ints \subseteq {0, 1}

\* Folding does not change what the program computes, at any width.
FoldKeepsMeaning ==
    [][pass = "fold" /\ BooleanLogic(quads) => SameMeaning(quads, quads')]_vars

(***************************************************************************)
(* Leaving out the store before a copy of it changes nothing as long as    *)
(* the name that is no longer written is not read again, which holds of a  *)
(* temporary that is the value of a declaration or an assignment; and as   *)
(* long as the copy is reached from the store only.  A jump that tests the *)
(* name is no store of it.                                                 *)
(***************************************************************************)
Landings(q) ==
    CASE q.op = "CondGoto" -> {q.opd1, q.opd2} [] q.op = "Goto" -> {q.opd2} [] OTHER -> {}
Followers(qs, j) ==
    Landings(qs[j]) \cup (IF qs[j].op \in {"Goto", "Return"} THEN {} ELSE {j + 1})
\* the places L, to which the program keeps after the copy
KeepsTo(qs, L) == \A j \in L : Followers(qs, j) \cap DOMAIN qs \subseteq L
NotReadAfter(qs, k, x) ==
    \E L \in SUBSET DOMAIN qs :
        /\ k + 2 \in L \cup {Len(qs) + 1}
        /\ KeepsTo(qs, L)
        /\ \A j \in L \ {k + 1} : x \notin Reads(qs[j])
CopyIsLastRead(qs, k) ==
    Merges(qs[k], qs[k + 1]) =>
        /\ qs[k].op # "CondGoto"
        /\ \A q \in Range(qs) : k + 1 \notin Landings(q)
        /\ NotReadAfter(qs, k, qs[k].target)
MergeKeepsMeaning ==
    [][pass = "merge" /\ CopyIsLastRead(quads, i) =>
          SameMeaning(quads, quads')]_vars

\* The identities hold in the arithmetic of the machine, but for x - x, where
\* the code is wrong, and x / x, which traps when x is 0.
SelfInverse(q) == q.op \in {"Minus", "Slash"} /\ q.opd1 = q.opd2
SimplifyKeepsMeaning ==
    [][pass = "simplify" /\ ~SelfInverse(quads[i]) =>
          SameMeaning(quads, quads')]_vars

(***************************************************************************)
(* The passes together keep the meaning of every program that is, before   *)
(* the first of them, inside these three limits and tests no literal: no   *)
(* pass brings about what the next one is wrong about.  A jump that tests  *)
(* the literal 1 is taken for its store when the quad after it copies a 1, *)
(* and folding makes such copies.                                          *)
(***************************************************************************)
TestsVariables(qs) == \A k \in DOMAIN qs : qs[k].op = "CondGoto" => qs[k].target \in Vars
Regular(qs) ==
    /\ BooleanLogic(qs) /\ TestsVariables(qs)
    /\ \A k \in 1 .. Len(qs) - 1 : CopyIsLastRead(qs, k)
    /\ \A k \in DOMAIN qs : ~SelfInverse(qs[k])
ResultKept ==
    pass = "done" /\ ~crashed /\ Regular(source) => SameMeaning(quads, source)

=============================================================================
