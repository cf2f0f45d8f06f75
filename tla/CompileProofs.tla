--------------------------- MODULE CompileProofs ---------------------------
(***************************************************************************)
(* Proofs about Compile: the dead code that is removed from a translated   *)
(* file is dead, for every program.                                        *)
(***************************************************************************)
EXTENDS Compile, FiniteSetTheorems, SequenceTheorems, TLAPS

\* W: what is proved of every walk.  G: what is proved of the marking from any
\* roots; Programs is where DeadCode takes its own initial quads from, which
\* Compile does not (its quads are those of the walk).
W == INSTANCE TacGenProofs
G == INSTANCE DeadCodeProofs WITH Programs <- {}, Hidden <- {Start} \cup Nat \cup HiddenFuns

-----------------------------------------------------------------------------
(***************************************************************************)
(* T, of which Compile is made, and W, about which TacGenProofs speaks,    *)
(* are the same walk: their definitions agree one by one.                  *)
(***************************************************************************)

LEMMA SameFrame ==
    /\ \A n, x : T!Fr!TacName(n, x) = W!Fr!TacName(n, x)
    /\ \A L, k : T!Fr!Lookup(L, k) = W!Fr!Lookup(L, k)
    /\ \A L, d, k : T!Fr!DefinedIn(L, d, k) <=> W!Fr!DefinedIn(L, d, k)
    /\ \A f, ps : T!Fr!BeginFun(f, ps) <=> W!Fr!BeginFun(f, ps)
    /\ T!Fr!EndFun <=> W!Fr!EndFun
    /\ T!Fr!BeginScope <=> W!Fr!BeginScope
    /\ T!Fr!EndScope <=> W!Fr!EndScope
    /\ \A x : T!Fr!AddLocal(x) <=> W!Fr!AddLocal(x)
    /\ \A x : T!Fr!AddLocalAborts(x) <=> W!Fr!AddLocalAborts(x)
    /\ T!Fr!AddTemp <=> W!Fr!AddTemp
    /\ T!Fr!AddThreeTemps <=> W!Fr!AddThreeTemps
    /\ T!Fr!Reservation = W!Fr!Reservation
<1>1. /\ \A n, x : T!Fr!TacName(n, x) = W!Fr!TacName(n, x)
      /\ \A n, x : T!Fr!Key(n, x) = W!Fr!Key(n, x)
      /\ T!Fr!inFun <=> W!Fr!inFun
  BY DEF T!Fr!TacName, W!Fr!TacName, T!Fr!Key, W!Fr!Key, T!Fr!inFun, W!Fr!inFun
<1>2. /\ \A L, k : T!Fr!Lookup(L, k) = W!Fr!Lookup(L, k)
      /\ \A L, d, k : T!Fr!DefinedIn(L, d, k) <=> W!Fr!DefinedIn(L, d, k)
  BY DEF T!Fr!Lookup, W!Fr!Lookup, T!Fr!DefinedIn, W!Fr!DefinedIn
<1>3. \A f, ps : T!Fr!BeginFun(f, ps) <=> W!Fr!BeginFun(f, ps)
  BY <1>1 DEF T!Fr!BeginFun, W!Fr!BeginFun, T!Fr!ParamEntries, W!Fr!ParamEntries,
     T!Fr!Keys, W!Fr!Keys
<1>4. /\ T!Fr!EndFun <=> W!Fr!EndFun
      /\ T!Fr!BeginScope <=> W!Fr!BeginScope
  BY <1>1 DEF T!Fr!EndFun, W!Fr!EndFun, T!Fr!BeginScope, W!Fr!BeginScope,
     T!Fr!Reservation, W!Fr!Reservation
<1>5. T!Fr!EndScope <=> W!Fr!EndScope
  BY <1>1 DEF T!Fr!EndScope, W!Fr!EndScope, T!Fr!Flush, W!Fr!Flush, T!Fr!Keys, W!Fr!Keys
<1>6. \A L, d, n, x : T!Fr!Insert(L, d, n, x) = W!Fr!Insert(L, d, n, x)
  <2>1. \A L, d : T!Fr!Slot(L, d) = W!Fr!Slot(L, d)
    BY DEF T!Fr!Slot, W!Fr!Slot, T!Fr!Cardinality, W!Fr!Cardinality
  <2>2. QED
    BY <1>1, <1>2, <2>1 DEF T!Fr!Insert, W!Fr!Insert
<1>7. \A x : T!Fr!AddLocal(x) <=> W!Fr!AddLocal(x)
  BY <1>1, <1>2, <1>6 DEF T!Fr!AddLocal, W!Fr!AddLocal
<1>8. \A x : T!Fr!AddLocalAborts(x) <=> W!Fr!AddLocalAborts(x)
  BY <1>1, <1>2 DEF T!Fr!AddLocalAborts, W!Fr!AddLocalAborts
<1>9. T!Fr!AddTemp <=> W!Fr!AddTemp
  BY <1>1, <1>6 DEF T!Fr!AddTemp, W!Fr!AddTemp
<1>10. T!Fr!AddThreeTemps <=> W!Fr!AddThreeTemps
  BY <1>1, <1>6 DEF T!Fr!AddThreeTemps, W!Fr!AddThreeTemps
<1>11. T!Fr!Reservation = W!Fr!Reservation
  BY DEF T!Fr!Reservation, W!Fr!Reservation
<1>12. QED
  BY <1>1, <1>2, <1>3, <1>4, <1>5, <1>7, <1>8, <1>9, <1>10, <1>11

LEMMA SameHelpers ==
    /\ \A op, t, a, b : T!Quad(op, t, a, b) = W!Quad(op, t, a, b)
    /\ \A n : T!PopArgs(n) = W!PopArgs(n)
    /\ \A t, type : T!Result(t, type) = W!Result(t, type)
    /\ T!NilResult = W!NilResult
    /\ \A k, l, m : T!Open(k, l, m) = W!Open(k, l, m)
    /\ T!NoFun = W!NoFun /\ T!Top = W!Top /\ T!Popped = W!Popped /\ T!Last = W!Last
    /\ T!Pending = W!Pending
    /\ T!Running <=> W!Running
    /\ T!AtStatement <=> W!AtStatement
    /\ T!InExpression <=> W!InExpression
    /\ T!StatementEnd <=> W!StatementEnd
    /\ \A L, n, l : T!WithLabel(L, n, l) = W!WithLabel(L, n, l)
    /\ \A qs : T!Emit(qs) <=> W!Emit(qs)
    /\ \A bad : T!Fail(bad) <=> W!Fail(bad)
    /\ \A n, r : T!Replace(n, r) <=> W!Replace(n, r)
    /\ \A i : T!Temp(i) = W!Temp(i)
    /\ \A m : T!Matches(m) = W!Matches(m)
    /\ T!Known = W!Known
    /\ \A f : T!Signature(f) = W!Signature(f)
    /\ UNCHANGED T!frameVars <=> UNCHANGED W!frameVars
<1>1. /\ \A op, t, a, b : T!Quad(op, t, a, b) = W!Quad(op, t, a, b)
      /\ \A t, type : T!Result(t, type) = W!Result(t, type)
      /\ T!NoFun = W!NoFun
      /\ T!Running <=> W!Running
  BY DEF T!Quad, W!Quad, T!Result, W!Result, T!NoFun, W!NoFun, T!Running, W!Running
<1>2. /\ \A n : T!PopArgs(n) = W!PopArgs(n)
      /\ T!NilResult = W!NilResult
      /\ \A k, l, m : T!Open(k, l, m) = W!Open(k, l, m)
  BY <1>1 DEF T!PopArgs, W!PopArgs, T!NilResult, W!NilResult, T!Open, W!Open
<1>3. T!Top = W!Top /\ T!Popped = W!Popped /\ T!Last = W!Last
  BY <1>2 DEF T!Top, W!Top, T!Popped, W!Popped, T!Last, W!Last
<1>4. /\ T!Pending = W!Pending
      /\ T!AtStatement <=> W!AtStatement
      /\ T!InExpression <=> W!InExpression
      /\ T!StatementEnd <=> W!StatementEnd
  BY <1>1, <1>3 DEF T!Pending, W!Pending, T!AtStatement, W!AtStatement,
     T!InExpression, W!InExpression, T!StatementEnd, W!StatementEnd
<1>5. /\ \A L, n, l : T!WithLabel(L, n, l) = W!WithLabel(L, n, l)
      /\ \A qs : T!Emit(qs) <=> W!Emit(qs)
  BY DEF T!WithLabel, W!WithLabel, T!Emit, W!Emit
<1>6. /\ \A bad : T!Fail(bad) <=> W!Fail(bad)
      /\ \A n, r : T!Replace(n, r) <=> W!Replace(n, r)
  BY DEF T!Fail, W!Fail, T!Replace, W!Replace
<1>7. /\ \A i : T!Temp(i) = W!Temp(i)
      /\ \A m : T!Matches(m) = W!Matches(m)
      /\ T!Known = W!Known
      /\ \A f : T!Signature(f) = W!Signature(f)
      /\ UNCHANGED T!frameVars <=> UNCHANGED W!frameVars
  BY SameFrame DEF T!Temp, W!Temp, T!Matches, W!Matches, T!Known, W!Known,
     T!Signature, W!Signature, T!frameVars, W!frameVars
<1>8. QED
  BY <1>1, <1>2, <1>3, <1>4, <1>5, <1>6, <1>7

LEMMA SameWalk == T!Next => W!Next
<1>1. T!Import => W!Import
  BY SameHelpers DEF T!Import, W!Import, T!frameVars, W!frameVars
<1>2. T!Finish => W!Finish
  <2>1. \A Q, L : T!AfterReturn(Q, L) = W!AfterReturn(Q, L)
    BY DEF T!AfterReturn, W!AfterReturn
  <2>2. \A L, n : T!Resized(L, n) = W!Resized(L, n)
    BY DEF T!Resized, W!Resized
  <2>3. \A S : T!Cardinality(S) = W!Cardinality(S)
    BY DEF T!Cardinality, W!Cardinality
  <2>4. \A Q, L, c : T!InsertReturnLabels(Q, L, c) = W!InsertReturnLabels(Q, L, c)
    BY <2>1, <2>3 DEF T!InsertReturnLabels, W!InsertReturnLabels
  <2>5. QED
    BY SameHelpers, <2>1, <2>2, <2>3, <2>4 DEF T!Finish, W!Finish, T!frameVars, W!frameVars
<1>3. \A f, sig : T!FunDef(f, sig) => W!FunDef(f, sig)
  BY SameFrame, SameHelpers DEF T!FunDef, W!FunDef
<1>4. T!FunDefEnd => W!FunDefEnd
  BY SameFrame, SameHelpers DEF T!FunDefEnd, W!FunDefEnd
<1>5. (T!BodyBegin => W!BodyBegin) /\ (T!BlockBegin => W!BlockBegin)
  BY SameFrame, SameHelpers DEF T!BodyBegin, W!BodyBegin, T!BlockBegin, W!BlockBegin,
     T!OpenBlock, W!OpenBlock
<1>6. T!BlockEnd => W!BlockEnd
  BY SameFrame, SameHelpers DEF T!BlockEnd, W!BlockEnd
<1>7. \A type : T!Literal(type) => W!Literal(type)
  BY SameHelpers DEF T!Literal, W!Literal, T!frameVars, W!frameVars
<1>8. \A m : T!GetSym(m) => W!GetSym(m)
  <2>1. \A S : T!First(S) = W!First(S)
    BY DEF T!First, W!First
  <2>2. QED
    BY <2>1, SameFrame, SameHelpers DEF T!GetSym, W!GetSym, T!frameVars, W!frameVars
<1>9. \A m : T!SetSym(m) => W!SetSym(m)
  BY SameFrame, SameHelpers DEF T!SetSym, W!SetSym, T!frameVars, W!frameVars
<1>10. \A m : /\ T!SetSymUndeclared(m) => W!SetSymUndeclared(m)
              /\ T!SetSymParam(m) => W!SetSymParam(m)
  BY SameFrame, SameHelpers DEF T!SetSymUndeclared, W!SetSymUndeclared,
     T!SetSymParam, W!SetSymParam,
     T!frameVars, W!frameVars
<1>11. \A op : T!Binary(op) => W!Binary(op)
  <2>1. T!Plain = W!Plain /\ T!Arith = W!Arith /\ T!Composite = W!Composite
    BY DEF T!Plain, W!Plain, T!Arith, W!Arith, T!Composite, W!Composite
  <2>2. \A op, l, r : T!BinQuads(op, l, r) = W!BinQuads(op, l, r)
    <3>1. /\ \A q, t, a, b : T!Quad(q, t, a, b) = W!Quad(q, t, a, b)
          /\ \A i : T!Temp(i) = W!Temp(i)
      BY SameHelpers
    <3>2. SUFFICES ASSUME NEW op, NEW l, NEW r
                   PROVE T!BinQuads(op, l, r) = W!BinQuads(op, l, r)
      OBVIOUS
    <3>3. QED
      BY <2>1, <3>1 DEF T!BinQuads, W!BinQuads
  <2>3. QED
    BY <2>1, <2>2, SameFrame, SameHelpers DEF T!Binary, W!Binary
<1>12. T!Unary => W!Unary
  BY SameFrame, SameHelpers DEF T!Unary, W!Unary
<1>13. \A f : /\ T!Call(f) => W!Call(f)
              /\ \A n : T!CallRejected(f, n) => W!CallRejected(f, n)
  BY SameHelpers DEF T!Call, W!Call, T!CallRejected, W!CallRejected,
     T!frameVars, W!frameVars
<1>14. (T!CallArg => W!CallArg) /\ (T!CallEnd => W!CallEnd)
  BY SameFrame, SameHelpers DEF T!CallArg, W!CallArg, T!CallEnd, W!CallEnd,
     T!frameVars, W!frameVars
<1>15. /\ T!PrintStmt => W!PrintStmt
       /\ T!ExprStmt => W!ExprStmt
       /\ T!Return => W!Return
  BY SameHelpers DEF T!PrintStmt, W!PrintStmt, T!ExprStmt, W!ExprStmt, T!Return, W!Return,
     T!frameVars, W!frameVars
<1>16. \A x, type : T!DeclSym(x, type) => W!DeclSym(x, type)
  BY SameFrame, SameHelpers DEF T!DeclSym, W!DeclSym
<1>17. \A hasElse : T!If(hasElse) => W!If(hasElse)
  BY SameHelpers DEF T!If, W!If,
     T!frameVars, W!frameVars
<1>18. (T!Else => W!Else) /\ (T!IfEnd => W!IfEnd)
  BY SameHelpers DEF T!Else, W!Else, T!IfEnd, W!IfEnd,
     T!frameVars, W!frameVars
<1>19. (T!While => W!While) /\ (T!WhileBody => W!WhileBody) /\ (T!WhileEnd => W!WhileEnd)
  BY SameHelpers DEF T!While, W!While, T!WhileBody, W!WhileBody, T!WhileEnd, W!WhileEnd,
     T!frameVars, W!frameVars
<1>20. T!Types = W!Types
  BY DEF T!Types, W!Types
<1>21. QED
  BY <1>1, <1>2, <1>3, <1>4, <1>5, <1>6, <1>7, <1>8, <1>9, <1>10, <1>11, <1>12, <1>13,
     <1>14, <1>15, <1>16, <1>17, <1>18, <1>19, <1>20 DEF T!Next, W!Next

\* what TacGen assumes of the constants, in the words of W and of G
LEMMA WalkAssumptions ==
    /\ W!FrameAssumption /\ W!NodesAssumption /\ W!BinOpsAssumption /\ W!SigsAssumption
    /\ W!ImportedAssumption /\ W!NothingAssumption /\ W!OperandsAssumption
    /\ W!LabelsAssumption
<1>1. /\ T!NodeKinds = W!NodeKinds /\ T!Types = W!Types /\ T!Plain = W!Plain
      /\ T!Composite = W!Composite
  BY DEF T!NodeKinds, W!NodeKinds, T!Types, W!Types, T!Plain, W!Plain, T!Arith, W!Arith,
     T!Composite, W!Composite
<1>2. QED
  BY <1>1, TranslationAssumption

LEMMA Names ==
    /\ Main # Start /\ Main \notin Nat /\ Start \notin Nat
    /\ Nothing \notin Nat /\ Main # Nothing /\ Start # Nothing
    /\ Nothing \notin Funs /\ Main \notin HiddenFuns
BY TranslationAssumption, HiddenFunsAssumption DEF T!LabelsAssumption, T!NothingAssumption

-----------------------------------------------------------------------------
(***************************************************************************)
(* The graph is built when the translation has ended without an error, and *)
(* it is the graph of the quads that were translated until they are        *)
(* changed at the very end.                                                *)
(***************************************************************************)
Translated == W!WalkInv /\ W!JumpInv /\ W!EndInv
NoGraph == blocks = {} /\ greys = {} /\ roots = {} /\ mark = <<>> /\ ends = <<>>
Graph ==
    /\ finished /\ ~errors /\ G!MarkInv
    /\ phase \in {"mark", "swept"} => edges = G!EdgesOf(quads, labels, ends)

CompileInv ==
    /\ phase \in {"idle", "mark", "swept", "done"}
    /\ phase # "done" => Translated
    /\ phase = "idle" => NoGraph
    /\ phase # "idle" => Graph
    /\ phase = "done" => ExecutedCodeKept /\ EntryPointsKept

LEMMA WalkStep ==
    ASSUME Translated, T!Next PROVE Translated'
<1>1. W!Next
  BY SameWalk
<1>2. QED
  BY <1>1, WalkAssumptions, W!WalkNext, W!JumpNext, W!EndNext DEF Translated

LEMMA WalkStands ==
    ASSUME Translated, UNCHANGED <<walkVars, quads, labels>> PROVE Translated'
<1>1. UNCHANGED <<cur, quads, labels, lcount, vals, ctx, fun, globals, errors, finished>>
  BY DEF walkVars
<1>2. W!WalkInv' /\ W!JumpInv'
  BY <1>1, WalkAssumptions, W!QuietKeepsWalk, W!SameShape DEF Translated
<1>3. W!EndInv'
  BY <1>1 DEF Translated, W!EndInv
<1>4. QED
  BY <1>2, <1>3 DEF Translated

LEMMA WalkBegins == ASSUME T!Init, T!PlainFuns PROVE Translated
<1>1. W!Init
  BY DEF T!Init, W!Init, T!Fr!Init, W!Fr!Init, T!Quad, W!Quad, T!NoFun, W!NoFun
<1>2. W!PlainFuns
  BY DEF T!PlainFuns, W!PlainFuns
<1>3. QED
  BY <1>1, <1>2, WalkAssumptions, W!InitWalk, W!JumpInit DEF Translated

-----------------------------------------------------------------------------
(* What the sweep keeps *)

\* Quad i lies in the block that begins at b: no label lies between.
Within(i, b) == b <= i /\ \A c \in b + 1 .. i : labels[c] = Nothing

LEMMA SweptFacts ==
    ASSUME CompileInv, phase = "swept"
    PROVE  /\ Len(quads) \in Nat /\ 3 <= Len(quads)
           /\ DOMAIN quads = 1 .. Len(quads) /\ DOMAIN labels = 1 .. Len(quads)
           /\ DOMAIN mark = {b \in 1 .. Len(quads) : labels[b] # Nothing}
           /\ blocks \subseteq DOMAIN mark
           /\ \A i, j \in 1 .. Len(quads) : labels[i] = labels[j] /\ labels[i] # Nothing => i = j
           /\ \A j \in 1 .. Len(quads) : W!LabelIn(labels, j) = labels[j]
           /\ ctx = <<>> /\ Len(ctx) = 0
           /\ W!WalkInv /\ W!JumpInv /\ Graph /\ G!CutAtLabels(labels, ends)
           /\ DOMAIN ends = DOMAIN mark
<1>1. W!WalkInv /\ W!JumpInv /\ W!EndInv /\ Graph
  BY DEF CompileInv, Translated
<1>2. /\ Len(quads) \in Nat /\ DOMAIN quads = 1 .. Len(quads)
      /\ DOMAIN labels = 1 .. Len(labels)
  BY <1>1, WalkAssumptions, W!Lengths
<1>3. Len(labels) = Len(quads) /\ ctx = <<>> /\ ~errors
  BY <1>1 DEF W!EndInv, Graph
<1>4. 3 <= Len(quads) /\ W!CarriedOnce
  BY <1>1 DEF W!JumpInv, W!TextInv, W!Entry
<1>5. G!CutAtLabels(labels, ends) /\ DOMAIN ends = DOMAIN mark
  BY <1>1 DEF Graph, G!MarkInv, G!Shape, G!All
<1>6. DOMAIN mark = {b \in 1 .. Len(quads) : labels[b] # Nothing}
  BY <1>2, <1>3, <1>5 DEF G!CutAtLabels, G!Begins
<1>7. blocks \subseteq DOMAIN mark
  BY <1>1 DEF Graph, G!MarkInv, G!Shape, G!Swept, G!All
<1>8. \A j \in 1 .. Len(quads) : W!LabelIn(labels, j) = labels[j]
  BY <1>2, <1>3 DEF W!LabelIn
<1>9. \A i, j \in 1 .. Len(quads) : labels[i] = labels[j] /\ labels[i] # Nothing => i = j
  BY <1>2, <1>3, <1>4, <1>8 DEF W!CarriedOnce
<1>10. Len(ctx) = 0
  BY <1>3
<1>11. QED
  BY <1>1, <1>2, <1>3, <1>4, <1>5, <1>6, <1>7, <1>8, <1>9, <1>10

\* a block ends at the next label or with the file
LEMMA BlockCut ==
    ASSUME CompileInv, phase = "swept", NEW b \in DOMAIN mark
    PROVE  /\ b \in 1 .. Len(quads) /\ ends[b] \in b + 1 .. Len(quads) + 1
           /\ \A c \in b + 1 .. ends[b] - 1 : labels[c] = Nothing
           /\ ends[b] = Len(quads) + 1 \/ labels[ends[b]] # Nothing
<1>1. Len(labels) = Len(quads)
  BY DEF CompileInv, Translated, Graph, W!EndInv
<1>2. QED
  BY <1>1, SweptFacts DEF G!CutAtLabels, G!Begins

LEMMA BlockIs ==
    ASSUME CompileInv, phase = "swept", NEW b \in DOMAIN mark, NEW i
    PROVE  i \in G!Block(ends, b) <=> i \in 1 .. Len(quads) /\ Within(i, b)
<1>1. /\ b \in 1 .. Len(quads) /\ ends[b] \in b + 1 .. Len(quads) + 1
      /\ \A c \in b + 1 .. ends[b] - 1 : labels[c] = Nothing
      /\ ends[b] = Len(quads) + 1 \/ labels[ends[b]] # Nothing
      /\ Len(quads) \in Nat
  BY BlockCut, SweptFacts
<1>2. ASSUME i \in b .. ends[b] - 1 PROVE i \in 1 .. Len(quads) /\ Within(i, b)
  <2>1. i \in 1 .. Len(quads) /\ b <= i /\ i <= ends[b] - 1
    BY <1>1, <1>2
  <2>2. \A c \in b + 1 .. i : c \in b + 1 .. ends[b] - 1
    BY <1>1, <2>1
  <2>3. QED
    BY <1>1, <2>1, <2>2 DEF Within
<1>3. ASSUME i \in 1 .. Len(quads), Within(i, b) PROVE i \in b .. ends[b] - 1
  <2>1. b <= i /\ \A c \in b + 1 .. i : labels[c] = Nothing
    BY <1>3 DEF Within
  <2>2. ASSUME ends[b] <= i PROVE FALSE
    <3>1. ends[b] \in b + 1 .. i /\ ends[b] # Len(quads) + 1
      BY <1>1, <1>3, <2>2
    <3>2. QED
      BY <1>1, <2>1, <3>1
  <2>3. QED
    BY <1>1, <1>3, <2>1, <2>2
<1>4. QED
  BY <1>2, <1>3 DEF G!Block

LEMMA KeptIs ==
    ASSUME CompileInv, phase = "swept"
    PROVE  \A i : i \in Kept <=> i \in 1 .. Len(quads) /\ \E b \in blocks : Within(i, b)
<1>1. ASSUME NEW b \in blocks, NEW i
      PROVE  i \in D!Block(ends, b) <=> i \in 1 .. Len(quads) /\ Within(i, b)
  BY SweptFacts, BlockIs DEF D!Block, G!Block
<1>2. QED
  BY <1>1 DEF Kept

\* a label is on kept code exactly if its block is kept
LEMMA LabelKept ==
    ASSUME CompileInv, phase = "swept", NEW e \in 1 .. Len(quads), labels[e] # Nothing
    PROVE  e \in Kept <=> e \in blocks
<1>1. ASSUME NEW b \in blocks, Within(e, b) PROVE e \in blocks
  <2>1. b \in Nat /\ e \in Nat /\ b <= e /\ e \notin b + 1 .. e
    BY <1>1, SweptFacts DEF Within
  <2>2. b = e
    BY <2>1
  <2>3. QED
    BY <2>2
<1>2. ASSUME e \in blocks PROVE Within(e, e)
  BY <1>2, SweptFacts DEF Within
<1>3. QED
  BY <1>1, <1>2, KeptIs

\* the code of a block goes on to its end
LEMMA KeptGoesOn ==
    ASSUME CompileInv, phase = "swept", NEW i \in Kept, i + 1 \in 1 .. Len(quads),
           labels[i + 1] = Nothing
    PROVE  i + 1 \in Kept
<1>1. PICK b \in blocks : i \in 1 .. Len(quads) /\ Within(i, b)
  BY KeptIs
<1>2. b \in Nat /\ i \in Nat
  BY <1>1, SweptFacts
<1>3. Within(i + 1, b)
  <2>1. ASSUME NEW c \in b + 1 .. i + 1 PROVE c \in b + 1 .. i \/ c = i + 1
    BY <1>2
  <2>2. QED
    BY <1>1, <1>2, <2>1 DEF Within
<1>4. QED
  BY <1>1, <1>3, KeptIs

\* a jump or call in kept code leads to kept code
LEMMA TargetKept ==
    ASSUME CompileInv, phase = "swept", NEW i \in Kept,
           NEW t \in W!JumpTargets(quads[i]), t # Nothing
    PROVE  Places(t) \subseteq Kept
<1>1. PICK b \in blocks : i \in D!Block(ends, b)
  BY DEF Kept
<1>2. i \in G!Block(ends, b)
  BY <1>1 DEF D!Block, G!Block
<1>3. G!JumpsStayInKeptCode /\ G!Swept
  BY SweptFacts, Names, G!MarkKeepsTargets DEF Graph, G!Swept
<1>4. t \in G!Targets(quads[i]) \ {Nothing}
  BY DEF G!Targets, W!JumpTargets
<1>5. G!GetBlock(G!All, labels, t) \subseteq blocks
  BY <1>2, <1>3, <1>4 DEF G!JumpsStayInKeptCode
<1>6. ASSUME NEW j \in Places(t) PROVE j \in Kept
  <2>1. j \in 1 .. Len(quads) /\ labels[j] = t
    BY SweptFacts DEF Places
  <2>2. j \in G!GetBlock(G!All, labels, t)
    BY <2>1, SweptFacts DEF G!GetBlock, G!All
  <2>3. QED
    BY <1>5, <2>1, <2>2, LabelKept
<1>7. QED
  BY <1>6

\* what is kept is closed, and no closed set is smaller
LEMMA KeptIsLeast ==
    ASSUME CompileInv, phase = "swept"
    PROVE  G!Closed(blocks) /\ \A S \in SUBSET G!All : G!Closed(S) => blocks \subseteq S
<1>1. G!KeptIsReachable /\ G!Swept
  BY SweptFacts, Names, G!MarkReaches DEF Graph, G!Swept
<1>2. QED
  BY <1>1 DEF G!KeptIsReachable

\* a root has a name, so a block inside a construct is none
LEMMA RootsHaveNames ==
    ASSUME CompileInv, phase = "swept", NEW b \in G!RootBlocks
    PROVE  b \in DOMAIN mark /\ labels[b] \notin Nat
<1>1. PICK r \in G!RootsOf(G!All, labels) : b \in G!GetBlock(G!All, labels, labels[r])
  BY DEF G!RootBlocks
<1>2. b \in DOMAIN mark /\ labels[b] = labels[r]
  BY <1>1 DEF G!GetBlock, G!All
<1>3. labels[r] = Start \/ labels[r] \notin {Start} \cup Nat \cup HiddenFuns
  BY <1>1 DEF G!RootsOf, G!GetBlock
<1>4. QED
  BY <1>2, <1>3, Names

\* an edge from a block is a jump or call of one of its quads
LEMMA EdgeIsJump ==
    ASSUME CompileInv, phase = "swept", NEW b \in DOMAIN mark, NEW d \in G!EdgeTargets(b)
    PROVE  /\ d \in DOMAIN mark
           /\ \E k \in 1 .. Len(quads) : Within(k, b) /\ labels[d] \in W!JumpTargets(quads[k])
<1>1. PICK e \in edges : e[1] = labels[b] /\ d \in G!GetBlock(G!All, labels, e[2])
  BY DEF G!EdgeTargets
<1>2. d \in DOMAIN mark /\ labels[d] = e[2]
  BY <1>1 DEF G!GetBlock, G!All
<1>3. e \in G!EdgesOf(quads, labels, ends)
  BY SweptFacts DEF Graph
<1>4. PICK c \in DOMAIN ends : \E k \in G!Block(ends, c) :
          \E t \in G!Targets(quads[k]) : e = <<labels[c], t>>
  BY <1>3 DEF G!EdgesOf
<1>5. PICK k \in G!Block(ends, c) : \E t \in G!Targets(quads[k]) : e = <<labels[c], t>>
  BY <1>4
<1>6. labels[c] = labels[b] /\ labels[d] \in G!Targets(quads[k])
  BY <1>1, <1>2, <1>5
<1>7. c = b
  BY <1>6, SweptFacts
<1>8. k \in 1 .. Len(quads) /\ Within(k, b)
  BY <1>7, BlockIs
<1>9. labels[d] \in W!JumpTargets(quads[k])
  BY <1>6 DEF G!Targets, W!JumpTargets
<1>10. QED
  BY <1>2, <1>8, <1>9

(***************************************************************************)
(* Where an if without else ends: if the quad before its end is kept, so   *)
(* is the conditional jump that begins it.  The blocks between the two are *)
(* reached from that jump only; without its block they could be left out   *)
(* and the rest would still be closed.                                     *)
(***************************************************************************)
LEMMA ConditionKept ==
    ASSUME CompileInv, phase = "swept", NEW i \in Kept, i + 1 \in 1 .. Len(quads),
           NEW c \in 1 .. i, W!Region(c, i + 1, Len(ctx))
    PROVE  c \in Kept
<1> DEFINE S == {b \in blocks : b <= c \/ i + 1 <= b}
<1>1. SUFFICES ASSUME c \notin Kept PROVE FALSE
  OBVIOUS
<1>2. i \in 1 .. Len(quads) /\ Len(quads) \in Nat /\ c \in 1 .. Len(quads)
  BY KeptIs, SweptFacts
<1>3. \A b \in blocks : b \in 1 .. Len(quads) /\ labels[b] # Nothing
  BY SweptFacts
\* a kept block that begins before c and goes on behind it would keep c
<1>4. ASSUME NEW b \in blocks, b <= c, NEW k \in Nat, c <= k, Within(k, b) PROVE FALSE
  <2>1. b \in Nat
    BY <1>3
  <2>2. \A x \in b + 1 .. c : x \in b + 1 .. k
    BY <1>2, <1>4, <2>1
  <2>3. Within(c, b)
    BY <1>4, <2>2 DEF Within
  <2>4. QED
    BY <1>1, <1>2, <2>3, KeptIs
<1>5. ASSUME NEW d \in DOMAIN mark, c < d, d < i + 1
      PROVE  /\ labels[d] \in Nat /\ labels[d] # Nothing
             /\ \A k \in 1 .. Len(quads) : labels[d] \in W!JumpTargets(quads[k]) => k \in c .. i
  <2>1. d \in 1 .. Len(quads) /\ labels[d] # Nothing /\ W!LabelIn(labels, d) = labels[d]
    BY SweptFacts
  <2>2. d \in c + 1 .. (i + 1) - 1
    BY <1>2, <1>5, <2>1
  <2>3. labels[d] \in Nat /\ W!JumpsFrom(labels[d], c, (i + 1) - 1)
    BY <2>1, <2>2 DEF W!Region
  <2>4. \A k : k \in c .. (i + 1) - 1 => k \in c .. i
    BY <1>2
  <2>5. QED
    BY <2>1, <2>3, <2>4 DEF W!JumpsFrom
<1>6. G!Closed(S)
  <2>1. G!RootBlocks \subseteq S
    <3>1. SUFFICES ASSUME NEW b \in G!RootBlocks PROVE b \in S
      OBVIOUS
    <3>2. b \in blocks /\ b \in DOMAIN mark /\ labels[b] \notin Nat
      BY KeptIsLeast, RootsHaveNames DEF G!Closed
    <3>3. ~(c < b /\ b < i + 1)
      BY <1>5, <3>2
    <3>4. QED
      BY <1>2, <1>3, <3>2, <3>3
  <2>2. ASSUME NEW b \in S, NEW d \in G!EdgeTargets(b) PROVE d \in S
    <3>1. b \in blocks /\ d \in blocks /\ b \in DOMAIN mark
      BY KeptIsLeast, SweptFacts DEF G!Closed
    <3>2. b \in 1 .. Len(quads) /\ d \in 1 .. Len(quads)
      BY <1>3, <3>1
    <3>3. PICK k \in 1 .. Len(quads) : Within(k, b) /\ labels[d] \in W!JumpTargets(quads[k])
      BY <3>1, EdgeIsJump
    <3>4. ASSUME c < d, d < i + 1 PROVE FALSE
      <4>1. k \in c .. i
        BY <1>5, <3>1, <3>3, <3>4, SweptFacts
      <4>2. b <= k
        BY <3>3 DEF Within
      <4>3. b <= c
        BY <1>2, <3>2, <4>1, <4>2
      <4>4. QED
        BY <1>2, <1>4, <3>1, <3>3, <4>1, <4>3
    <3>5. QED
      BY <1>2, <3>1, <3>2, <3>4
  <2>3. QED
    BY <2>1, <2>2 DEF G!Closed
<1>7. S \in SUBSET G!All
  BY SweptFacts DEF G!All
<1>8. blocks \subseteq S
  BY <1>6, <1>7, KeptIsLeast
<1>9. PICK b \in blocks : Within(i, b)
  BY KeptIs
<1>10. b <= i /\ b \in Nat
  BY <1>3, <1>9 DEF Within
<1>11. b <= c
  BY <1>2, <1>8, <1>10
<1>12. QED
  BY <1>2, <1>4, <1>9, <1>11

\* the next quad of kept code that can be run into is kept
LEMMA NextKept ==
    ASSUME CompileInv, phase = "swept", NEW i \in Kept, ~W!Leaves(quads[i])
    PROVE  i + 1 \in Kept
<1>1. i \in 1 .. Len(quads) /\ Len(quads) \in Nat
  BY KeptIs, SweptFacts
<1>2. i + 1 \in 1 .. Len(quads)
  <2>1. quads[Len(quads)].op \in {"FunEnd", "Exit"}
    BY SweptFacts DEF W!JumpInv, W!ConstructsInv
  <2>2. i # Len(quads)
    BY <2>1 DEF W!Leaves
  <2>3. QED
    BY <1>1, <2>2
<1>3. CASE labels[i + 1] = Nothing
  BY <1>2, <1>3, KeptGoesOn
<1>4. CASE labels[i + 1] # Nothing
  <2>1. W!LabelIn(labels, i + 1) = labels[i + 1]
    BY <1>2, SweptFacts
  <2>2. i + 1 \in 2 .. Len(quads) + 1 /\ (i + 1) - 1 = i
    BY <1>1, <1>2
  <2>3. W!RunsInto(i + 1)
    BY <1>4, <2>1, <2>2 DEF W!RunsInto
  <2>4. PICK c \in 1 .. (i + 1) - 1 :
            W!OpenFor(c, W!LabelIn(labels, i + 1)) /\ W!Region(c, i + 1, Len(ctx))
    BY <2>2, <2>3, SweptFacts DEF W!JumpInv, W!RegionsInv
  <2>5. c \in 1 .. i
    BY <2>2
  <2>6. c \in Kept
    BY <1>2, <2>4, <2>5, ConditionKept
  <2>7. labels[i + 1] \in W!JumpTargets(quads[c])
    BY <2>1, <2>4 DEF W!OpenFor, W!JumpTargets
  <2>8. Places(labels[i + 1]) \subseteq Kept
    BY <1>4, <2>6, <2>7, TargetKept
  <2>9. i + 1 \in Places(labels[i + 1])
    BY <1>2, <1>4, SweptFacts DEF Places
  <2>10. QED
    BY <2>8, <2>9
<1>5. QED
  BY <1>3, <1>4

LEMMA CondGotoNames ==
    ASSUME CompileInv, phase = "swept", NEW i \in 1 .. Len(quads), quads[i].op = "CondGoto"
    PROVE  /\ quads[i].opd2 \in Nat /\ quads[i].opd2 # Nothing
           /\ DOMAIN quads[i] = W!Fields
BY SweptFacts, Names DEF W!JumpInv, W!TextInv, W!GivenOut

LEMMA SweptKeepsExecuted ==
    ASSUME CompileInv, phase = "swept", NEW i \in Kept PROVE Flow(i) \subseteq Kept
<1> DEFINE q == quads[i]
<1>1. i \in 1 .. Len(quads)
  BY KeptIs
<1>2. \A t \in W!JumpTargets(q) : Places(t) \subseteq Kept
  <2>1. \A t : t = Nothing => Places(t) = {}
    BY DEF Places
  <2>2. QED
    BY <2>1, TargetKept
<1>3. ~W!Leaves(q) => i + 1 \in Kept
  BY NextKept
<1>4. CASE q.op = "Goto"
  <2>1. W!JumpTargets(q) = {q.opd2}
    BY <1>4 DEF W!JumpTargets
  <2>2. Flow(i) = Places(q.opd2)
    BY <1>4 DEF Flow
  <2>3. QED
    BY <1>2, <2>1, <2>2
<1>5. CASE q.op = "CondGoto"
  <2>1. W!JumpTargets(q) = {q.opd1, q.opd2}
    BY <1>5 DEF W!JumpTargets
  <2>2. Flow(i) = Places(q.opd1) \cup Places(q.opd2)
    BY <1>1, <1>5, CondGotoNames DEF Flow
  <2>3. QED
    BY <1>2, <2>1, <2>2
<1>6. CASE q.op \in {"CallNil", "CallResult"}
  <2>1. W!JumpTargets(q) = {q.opd2} /\ ~W!Leaves(q)
    BY <1>6 DEF W!JumpTargets, W!Leaves
  <2>2. Flow(i) = {i + 1} \cup Places(q.opd2)
    BY <1>6 DEF Flow
  <2>3. QED
    BY <1>2, <1>3, <2>1, <2>2
<1>7. CASE q.op \in {"Return", "Exit", "FunEnd"}
  BY <1>7 DEF Flow
<1>8. CASE q.op \notin {"Goto", "CondGoto", "CallNil", "CallResult", "Return", "Exit", "FunEnd"}
  <2>1. ~W!Leaves(q)
    BY <1>8 DEF W!Leaves
  <2>2. Flow(i) = {i + 1}
    BY <1>8 DEF Flow
  <2>3. QED
    BY <1>3, <2>1, <2>2
<1>9. QED
  BY <1>4, <1>5, <1>6, <1>7, <1>8

LEMMA SweptKeepsEntries ==
    ASSUME CompileInv, phase = "swept" PROVE EntryPointsKept
<1>1. /\ 3 <= Len(quads) /\ Len(quads) \in Nat /\ labels[1] = Start /\ labels[2] = Nothing
      /\ quads[2].op = "CallNil" /\ quads[2].opd2 = Main
  <2>1. 1 \in 1 .. Len(quads) /\ 2 \in 1 .. Len(quads)
    BY SweptFacts
  <2>2. W!LabelIn(labels, 1) = labels[1] /\ W!LabelIn(labels, 2) = labels[2]
    BY <2>1, SweptFacts
  <2>3. W!Entry
    BY SweptFacts DEF W!JumpInv, W!TextInv
  <2>4. QED
    BY <2>2, <2>3, SweptFacts DEF W!Entry
<1>2. \A g \in DOMAIN globals : g \in Funs /\ \E j \in 1 .. Len(quads) : labels[j] = g
  BY SweptFacts DEF W!JumpInv, W!TextInv, W!Defining
<1>3. G!RootBlocks \subseteq blocks
  BY KeptIsLeast DEF G!Closed
<1>4. ASSUME NEW j \in 1 .. Len(quads), labels[j] # Nothing,
             j \in G!RootsOf(G!All, labels)
      PROVE  j \in Kept
  <2>1. j \in G!GetBlock(G!All, labels, labels[j])
    BY <1>4, SweptFacts DEF G!GetBlock, G!All
  <2>2. j \in blocks
    BY <1>3, <1>4, <2>1 DEF G!RootBlocks
  <2>3. QED
    BY <1>4, <2>2, LabelKept
<1>5. ASSUME Main \in DOMAIN globals PROVE {1} \cup Places(Main) \subseteq Kept
  <2>1. PICK m \in 1 .. Len(quads) : labels[m] = Main
    BY <1>2, <1>5
  <2>2. m \in G!All /\ 1 \in G!All
    BY <1>1, <2>1, SweptFacts, Names DEF G!All
  <2>3. G!RootsOf(G!All, labels) = G!GetBlock(G!All, labels, Start)
    BY <2>1, <2>2 DEF G!RootsOf
  <2>4. 1 \in G!GetBlock(G!All, labels, Start)
    BY <1>1, <2>2, SweptFacts DEF G!GetBlock, G!All
  <2>5. 1 \in 1 .. Len(quads) /\ 2 \in 1 .. Len(quads) /\ 1 + 1 = 2
    BY <1>1
  <2>6. 1 \in Kept
    BY <1>1, <1>4, <2>3, <2>4, <2>5, Names
  <2>7. 2 \in Kept
    BY <1>1, <2>5, <2>6, KeptGoesOn
  <2>8. Main \in W!JumpTargets(quads[2])
    BY <1>1 DEF W!JumpTargets
  <2>9. QED
    BY <2>6, <2>7, <2>8, TargetKept, Names
<1>6. ASSUME Main \notin DOMAIN globals, NEW g \in DOMAIN globals \ HiddenFuns
      PROVE  Places(g) \subseteq Kept
  <2>1. ASSUME NEW j \in G!All PROVE labels[j] # Main
    <3>1. j \in 1 .. Len(quads) /\ W!LabelIn(labels, j) = labels[j] /\ j \in 1 .. Len(quads) + 1
      BY SweptFacts DEF G!All
    <3>2. labels[j] \in Funs => labels[j] \in DOMAIN globals
      BY <3>1, SweptFacts DEF W!JumpInv, W!TextInv, W!Carried
    <3>3. labels[j] \in {Nothing, Start} \cup Funs \cup 0 .. lcount - 1
      BY <3>1, SweptFacts DEF W!JumpInv, W!TextInv, W!Carried
    <3>4. labels[j] \in 0 .. lcount - 1 => labels[j] \in Nat
      OBVIOUS
    <3>5. QED
      BY <1>6, <3>2, <3>3, <3>4, Names
  <2>2. G!RootsOf(G!All, labels) = {b \in G!All : labels[b] \notin {Start} \cup Nat \cup HiddenFuns}
    BY <2>1 DEF G!RootsOf
  <2>3. g \notin {Start} \cup Nat \cup HiddenFuns /\ g # Nothing
    BY <1>2, <1>6, Names, SweptFacts DEF W!JumpInv, W!PlainFuns
  <2>4. ASSUME NEW j \in Places(g) PROVE j \in Kept
    <3>1. j \in 1 .. Len(quads) /\ labels[j] = g
      BY SweptFacts DEF Places
    <3>2. j \in G!All
      BY <2>3, <3>1, SweptFacts DEF G!All
    <3>3. QED
      BY <1>4, <2>2, <2>3, <3>1, <3>2
  <2>5. QED
    BY <2>4
<1>7. QED
  BY <1>5, <1>6 DEF EntryPointsKept

-----------------------------------------------------------------------------
(* The steps *)

\* main stops here when there were errors, and the walk is over
LEMMA TranslateStep ==
    ASSUME CompileInv, Translate PROVE CompileInv'
<1>1. ~finished /\ T!Next /\ UNCHANGED <<phase, blocks, ends, edges, mark, greys, roots>>
  <2>1. T!Next /\ UNCHANGED <<phase, blocks, ends, edges, mark, greys, roots>>
    BY SMTT(40) DEF Translate, graphVars
  <2>2. W!Next => W!Running
    BY DEF W!Next, W!Import, W!Finish, W!FunDef, W!FunDefEnd, W!BodyBegin, W!BlockBegin,
       W!BlockEnd, W!AtStatement, W!InExpression, W!StatementEnd, W!Literal, W!GetSym,
       W!SetSym, W!SetSymUndeclared, W!SetSymParam, W!Binary, W!Unary, W!Call,
       W!CallRejected, W!CallArg, W!CallEnd, W!PrintStmt, W!ExprStmt, W!Return, W!DeclSym,
       W!If, W!Else, W!IfEnd, W!While, W!WhileBody, W!WhileEnd
  <2>3. ~finished
    BY <2>1, <2>2, SameWalk DEF W!Running
  <2>4. QED
    BY <2>1, <2>3
<1>2. phase = "idle" /\ phase' = "idle"
  BY <1>1 DEF CompileInv, Graph
<1>3. Translated'
  BY <1>1, <1>2, WalkStep DEF CompileInv
<1>4. NoGraph'
  BY <1>1, <1>2 DEF CompileInv, NoGraph
<1>5. QED
  BY <1>2, <1>3, <1>4 DEF CompileInv

LEMMA IdleMark ==
    ASSUME CompileInv, phase = "idle", finished PROVE G!MarkInv /\ G!All = {}
<1>1. Translated /\ NoGraph
  BY DEF CompileInv
<1>2. /\ Len(quads) \in Nat /\ DOMAIN quads = 1 .. Len(quads)
      /\ DOMAIN labels = 1 .. Len(labels) /\ Len(labels) = Len(quads)
  BY <1>1, WalkAssumptions, W!Lengths DEF Translated, W!EndInv
<1>3. G!All = {} /\ mark \in [{} -> G!Colors]
  BY <1>1 DEF NoGraph, G!All
<1>4. Len(labels) # 0 /\ labels[1] # Nothing
  <2>1. 3 <= Len(quads) /\ W!LabelIn(labels, 1) = Start
    BY <1>1 DEF Translated, W!JumpInv, W!TextInv, W!Entry
  <2>2. QED
    BY <1>2, <2>1, Names DEF W!LabelIn
<1>5. G!Shape
  BY <1>1, <1>2, <1>3, <1>4 DEF NoGraph, G!Shape, G!Swept
<1>6. QED
  BY <1>1, <1>3, <1>5 DEF NoGraph, G!MarkInv, G!TriColour, G!RootsSeen, G!OnlyReachable,
     G!EdgesComplete

LEMMA BuildStep ==
    ASSUME CompileInv, finished, ~errors, D!BuildGraph, UNCHANGED walkVars PROVE CompileInv'
<1>1. G!BuildGraph
  <2>1. \A L : D!BlockEnds(L) = G!BlockEnds(L)
    <3>1. \A E, b, e : D!Pushed(E, b, e) = G!Pushed(E, b, e)
      BY DEF D!Pushed, G!Pushed
    <3>2. \A L, t, i : D!NextLabel(L, t, i) = G!NextLabel(L, t, i)
      BY <3>1 DEF D!NextLabel, G!NextLabel
    <3>3. QED
      BY <3>1, <3>2 DEF D!BlockEnds, G!BlockEnds
  <2>2. \A Q, L, E : D!EdgesOf(Q, L, E) = G!EdgesOf(Q, L, E)
    BY DEF D!EdgesOf, G!EdgesOf, D!Block, G!Block, D!Targets, G!Targets
  <2>3. \A B, L : D!RootsOf(B, L) = G!RootsOf(B, L)
    BY DEF D!RootsOf, G!RootsOf, D!GetBlock, G!GetBlock
  <2>4. QED
    BY <2>1, <2>2, <2>3 DEF D!BuildGraph, G!BuildGraph
<1>2. /\ phase = "idle" /\ phase' = "mark" /\ UNCHANGED <<quads, labels, finished, errors>>
      /\ edges' = G!EdgesOf(quads, labels, ends')
  BY <1>1 DEF G!BuildGraph, walkVars
<1>3. G!MarkInv'
  BY <1>1, <1>2, IdleMark, Names, G!BuildGraphInv
<1>4. edges' = G!EdgesOf(quads', labels', ends')
  BY <1>2
<1>5. Graph'
  BY <1>2, <1>3, <1>4 DEF Graph, G!EdgesOf, G!Block
<1>6. Translated'
  BY <1>2, WalkStands DEF CompileInv
<1>7. QED
  BY <1>2, <1>5, <1>6 DEF CompileInv

LEMMA MarkingSteps ==
    ASSUME CompileInv, finished, ~errors, UNCHANGED walkVars,
           D!Sweep \/ \E b \in blocks : D!MarkFromRoot(b) \/ D!Visit(b)
    PROVE  CompileInv'
<1>1. G!Sweep \/ \E b \in blocks : G!MarkFromRoot(b) \/ G!Visit(b)
  BY DEF D!Sweep, G!Sweep, D!MarkFromRoot, G!MarkFromRoot, D!Visit, G!Visit, D!GetBlock,
     G!GetBlock, D!Undiscovered, G!Undiscovered, D!Successors, G!Successors
<1>2. /\ phase = "mark" /\ phase' \in {"mark", "swept"} /\ UNCHANGED <<quads, labels, ends, edges>>
  BY <1>1 DEF G!Sweep, G!MarkFromRoot, G!Visit
<1>3. Graph /\ Translated
  BY <1>2 DEF CompileInv
<1>4. G!MarkInv'
  BY <1>1, <1>3, Names, G!SweepInv, G!MarkFromRootInv, G!VisitInv DEF Graph
<1>5. Graph'
  <2>1. finished' /\ ~errors'
    BY DEF walkVars
  <2>2. edges' = G!EdgesOf(quads', labels', ends')
    BY <1>2, <1>3 DEF Graph
  <2>3. QED
    BY <1>4, <2>1, <2>2 DEF Graph, G!EdgesOf, G!Block
<1>6. Translated'
  BY <1>2, <1>3, WalkStands
<1>7. QED
  BY <1>2, <1>5, <1>6 DEF CompileInv

\* leaving out the target that is the next quad anyway
LEMMA CollapseStep ==
    ASSUME CompileInv, finished, ~errors, D!Collapse, UNCHANGED walkVars PROVE CompileInv'
<1>1. G!Collapse
  BY DEF D!Collapse, G!Collapse, D!ThenFollows, G!ThenFollows, D!Positions, G!Positions
<1>2. /\ phase = "swept" /\ phase' = "done"
      /\ UNCHANGED <<labels, blocks, ends, edges, mark, globals, finished, errors>>
      /\ quads' = [i \in DOMAIN quads |->
                      IF G!ThenFollows(i) THEN [quads[i] EXCEPT !.opd2 = Nothing]
                      ELSE quads[i]]
  BY <1>1 DEF G!Collapse, walkVars, G!Positions
<1>3. G!MarkInv'
  BY <1>1, SweptFacts, Names, <1>2, G!CollapseInv DEF Graph
<1>4. Graph'
  BY <1>2, <1>3, SweptFacts DEF Graph
<1>5. Kept' = Kept /\ \A l : Places(l)' = Places(l)
  BY <1>2 DEF Kept, Places, D!Block
<1>6. EntryPointsKept'
  <2>1. EntryPointsKept /\ D!Swept
    BY <1>2, SweptKeepsEntries DEF D!Swept
  <2>2. QED
    BY <1>2, <1>5, <2>1 DEF EntryPointsKept
<1>7. ASSUME NEW i \in Kept PROVE Flow(i)' \subseteq Kept
  <2>1. i \in 1 .. Len(quads) /\ i \in DOMAIN quads /\ Flow(i) \subseteq Kept
    BY <1>2, KeptIs, SweptFacts, SweptKeepsExecuted
  <2>2. CASE ~G!ThenFollows(i)
    <3>1. quads'[i] = quads[i]
      BY <1>2, <2>1, <2>2
    <3>2. Flow(i)' = Flow(i)
      BY <1>5, <3>1 DEF Flow
    <3>3. QED
      BY <2>1, <3>2
  <2>3. CASE G!ThenFollows(i)
    <3>1. /\ i + 1 \in DOMAIN quads /\ quads[i].op = "CondGoto"
          /\ quads[i].opd2 = labels[i + 1]
      BY <2>3 DEF G!ThenFollows, G!Positions
    <3>2. quads[i].opd2 \in Nat /\ quads[i].opd2 # Nothing
      BY <1>2, <2>1, <3>1, CondGotoNames
    <3>3. Flow(i) = Places(quads[i].opd1) \cup Places(quads[i].opd2)
      BY <3>1, <3>2 DEF Flow
    <3>4. i + 1 \in Places(quads[i].opd2)
      BY <3>1, <3>2 DEF Places
    <3>5. /\ quads'[i].op = "CondGoto" /\ quads'[i].opd1 = quads[i].opd1
          /\ quads'[i].opd2 = Nothing
      <4>1. quads'[i] = [quads[i] EXCEPT !.opd2 = Nothing]
        BY <1>2, <2>1, <2>3
      <4>2. DOMAIN quads[i] = {"op", "target", "opd1", "opd2"}
        BY <1>2, <2>1, <3>1, CondGotoNames DEF W!Fields
      <4>3. QED
        BY <3>1, <4>1, <4>2
    <3>6. Flow(i)' = Places(quads[i].opd1) \cup {i + 1}
      BY <1>5, <3>5 DEF Flow
    <3>7. QED
      BY <2>1, <3>3, <3>4, <3>6
  <2>4. QED
    BY <2>2, <2>3
<1>8. ExecutedCodeKept'
  BY <1>5, <1>7 DEF ExecutedCodeKept
<1>9. QED
  BY <1>2, <1>4, <1>6, <1>8 DEF CompileInv

LEMMA CompileInit == Init /\ T!PlainFuns => CompileInv
<1> SUFFICES ASSUME Init, T!PlainFuns PROVE CompileInv
  OBVIOUS
<1>1. T!Init /\ phase = "idle" /\ NoGraph
  BY DEF Init, NoGraph
<1>2. QED
  BY <1>1, WalkBegins DEF CompileInv

LEMMA CompileNext == CompileInv /\ [Next]_vars => CompileInv'
<1> SUFFICES ASSUME CompileInv, [Next]_vars PROVE CompileInv'
  OBVIOUS
<1>1. CASE Translate
  BY <1>1, TranslateStep
<1>2. CASE Optimize
  BY <1>2, BuildStep, MarkingSteps, CollapseStep DEF Optimize, D!Next
<1>3. CASE UNCHANGED vars
  <2>1. /\ UNCHANGED <<walkVars, quads, labels>>
        /\ UNCHANGED <<phase, blocks, ends, edges, mark, greys, roots>>
    BY <1>3 DEF vars, graphVars
  <2>2. UNCHANGED <<finished, errors, globals>>
    BY <2>1 DEF walkVars
  <2>3. Translated => Translated'
    BY <2>1, WalkStands
  <2>4. NoGraph => NoGraph'
    BY <2>1 DEF NoGraph
  <2>5. Graph => Graph'
    <3>1. SUFFICES ASSUME Graph PROVE Graph'
      OBVIOUS
    <3>2. G!MarkInv'
      BY <2>1, <3>1, Names, G!StutterInv DEF Graph, G!vars, G!graphVars
    <3>3. G!EdgesOf(quads, labels, ends)' = G!EdgesOf(quads, labels, ends)
      BY <2>1 DEF G!EdgesOf, G!Block
    <3>4. QED
      BY <2>1, <2>2, <3>1, <3>2, <3>3 DEF Graph
  <2>6. Kept' = Kept /\ D!Swept' = D!Swept /\ \A l : Places(l)' = Places(l)
    BY <2>1 DEF Kept, Places, D!Swept, D!Block
  <2>7. ExecutedCodeKept => ExecutedCodeKept'
    <3>1. \A i : Flow(i)' = Flow(i)
      BY <2>1, <2>6 DEF Flow
    <3>2. QED
      BY <2>6, <3>1 DEF ExecutedCodeKept
  <2>8. EntryPointsKept => EntryPointsKept'
    BY <2>2, <2>6 DEF EntryPointsKept
  <2>9. QED
    BY <2>1, <2>3, <2>4, <2>5, <2>7, <2>8 DEF CompileInv
<1>4. QED
  BY <1>1, <1>2, <1>3 DEF Next

LEMMA CompileInductive == ASSUME T!PlainFuns PROVE Spec => []CompileInv
BY CompileInit, CompileNext, PTL DEF Spec

(***************************************************************************)
(* eliminate_dead_code has no edge for a block that runs on into the next  *)
(* one, and yet never removes code that can run: in the code of any        *)
(* program, hidden functions or not, from kept code control goes to kept   *)
(* code only, also after collapse_cond_jumps.  The one premise is that no  *)
(* function is spelled like a label of the compiler, _start, _L0, ...: the *)
(* graph finds blocks by label, and such a name would name two of them.    *)
(***************************************************************************)
THEOREM OnlyDeadCodeRemoved ==
    ASSUME T!PlainFuns PROVE Spec => []ExecutedCodeKept
<1>1. CompileInv => ExecutedCodeKept
  <2>1. ASSUME CompileInv, phase = "swept" PROVE ExecutedCodeKept
    BY <2>1, SweptKeepsExecuted DEF ExecutedCodeKept
  <2>2. ASSUME CompileInv, phase # "swept" PROVE ExecutedCodeKept
    BY <2>2 DEF CompileInv, ExecutedCodeKept, D!Swept
  <2>3. QED
    BY <2>1, <2>2
<1>2. QED
  BY <1>1, CompileInductive, PTL

\* What a file defines for others is kept: _start and main of a program, and
\* of a file without main every function whose name does not begin with an
\* underscore; again if no function has the name of a generated label.
THEOREM EntriesKept ==
    ASSUME T!PlainFuns PROVE Spec => []EntryPointsKept
<1>1. CompileInv => EntryPointsKept
  <2>1. ASSUME CompileInv, phase = "swept" PROVE EntryPointsKept
    BY <2>1, SweptKeepsEntries
  <2>2. ASSUME CompileInv, phase # "swept" PROVE EntryPointsKept
    BY <2>2 DEF CompileInv, EntryPointsKept, D!Swept
  <2>3. QED
    BY <2>1, <2>2
<1>2. QED
  BY <1>1, CompileInductive, PTL

=============================================================================
