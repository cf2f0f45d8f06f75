---------------------------- MODULE TacGenProofs ----------------------------
(***************************************************************************)
(* Proofs about TacGen: the labels of emitted quads never move; temporaries *)
(* are local to a basic block, operands that wait are not overwritten,     *)
(* every operand has a slot in the frame of its function, every prologue   *)
(* reserves what its function uses, and no argument is on the stack where  *)
(* control can arrive or leave.  What FrameProofs proves of frames carries *)
(* over, since every step of the walk is a step of Frame.  The last part   *)
(* is about labels and jumps.                                              *)
(***************************************************************************)
EXTENDS TacGen, FiniteSetTheorems, SequenceTheorems, TLAPS

-----------------------------------------------------------------------------
(* Frame is implemented *)

LEMMA SignaturesAreParamLists ==
    \A sig \in Sigs : sig.params \in Fr!ParamLists
<1>1. SUFFICES ASSUME NEW sig \in Sigs PROVE sig.params \in Fr!ParamLists
  OBVIOUS
<1>2. /\ sig.params \in Seq(Idents) /\ Len(sig.params) <= MaxParams
      /\ Len(sig.params) \in Nat
  BY SigsAssumption
<1>3. Len(sig.params) \in 0 .. MaxParams
  BY <1>2, FrameAssumption
<1>4. sig.params \in [1 .. Len(sig.params) -> Idents]
  BY <1>2, SMTT(40)
<1>5. QED
  BY <1>3, <1>4 DEF Fr!ParamLists

\* Every step of the walk is a step of the frame or leaves it alone.
LEMMA StepDrivesFrame == [Next]_vars => [Fr!Next]_(Fr!vars)
<1>1. SUFFICES ASSUME [Next]_vars PROVE Fr!Next \/ UNCHANGED frameVars
  BY DEF Fr!vars, frameVars
<1>2. ASSUME NEW f \in Funs, NEW sig \in Sigs, FunDef(f, sig) PROVE Fr!Next
  <2>1. Fr!BeginFun(f, sig.params) /\ sig.params \in Fr!ParamLists
    BY <1>2, SignaturesAreParamLists DEF FunDef
  <2>2. QED
    BY <2>1 DEF Fr!Next
<1>3. CASE FunDefEnd
  BY <1>3 DEF FunDefEnd, Fr!Next
<1>4. CASE BodyBegin \/ BlockBegin
  BY <1>4 DEF BodyBegin, BlockBegin, OpenBlock, Fr!Next
<1>5. CASE BlockEnd
  BY <1>5 DEF BlockEnd, Fr!Next
<1>6. ASSUME NEW op \in BinOps, Binary(op) PROVE Fr!Next
  BY <1>6 DEF Binary, Fr!Next
<1>7. CASE Unary
  <2>1. Fr!AddTemp \/ Fr!AddThreeTemps
    BY <1>7 DEF Unary
  <2>2. QED
    BY <2>1 DEF Fr!Next
<1>8. CASE CallEnd
  BY <1>8 DEF CallEnd, Fr!Next
<1>9. ASSUME NEW x \in Idents, NEW type \in Types, DeclSym(x, type) PROVE Fr!Next
  <2>1. Fr!AddLocal(x) \/ Fr!AddLocalAborts(x)
    BY <1>9 DEF DeclSym
  <2>2. QED
    BY <2>1 DEF Fr!Next
<1>10. CASE UNCHANGED frameVars
  BY <1>10
<1>11. QED
  BY <1>1, <1>2, <1>3, <1>4, <1>5, <1>6, <1>7, <1>8, <1>9, <1>10
     DEF Next, Import, Finish, Literal, GetSym, SetSym, SetSymUndeclared, SetSymParam,
         Call, CallRejected, CallArg, PrintStmt, ExprStmt, Return, If, Else, IfEnd,
         While, WhileBody, WhileEnd, vars

LEMMA WalkDrivesFrame == Spec => Fr!Spec
<1>1. Init => Fr!Init
  BY DEF Init
<1>2. QED
  BY <1>1, StepDrivesFrame, PTL DEF Spec, Fr!Spec

(* Frame's theorems, carried over: FP is Frame with its theorems, for the   *)
(* same variables.                                                         *)
FP == INSTANCE FrameProofs

LEMMA SameFrame == Spec => FP!Spec
<1>1. Fr!Init => FP!Init
  BY DEF Fr!Init, FP!Init
<1>2. /\ \A L, d, k : Fr!DefinedIn(L, d, k) <=> FP!DefinedIn(L, d, k)
      /\ \A L, d, n, x : Fr!Insert(L, d, n, x) = FP!Insert(L, d, n, x)
      /\ \A n, x : Fr!TacName(n, x) = FP!TacName(n, x)
      /\ \A F, S : Fr!Flush(F, S) = FP!Flush(F, S)
      /\ \A F, ps : Fr!ParamEntries(F, ps) = FP!ParamEntries(F, ps)
      /\ Fr!ParamLists = FP!ParamLists
  <2>1. /\ \A L, d, k : Fr!DefinedIn(L, d, k) <=> FP!DefinedIn(L, d, k)
        /\ \A n, x : Fr!TacName(n, x) = FP!TacName(n, x)
        /\ \A L, d : Fr!Slot(L, d) = FP!Slot(L, d)
        /\ \A F : Fr!Keys(F) = FP!Keys(F)
    <3>1. \A L, d, k : Fr!DefinedIn(L, d, k) <=> FP!DefinedIn(L, d, k)
      BY DEF Fr!DefinedIn, FP!DefinedIn
    <3>2. \A n, x : Fr!TacName(n, x) = FP!TacName(n, x)
      BY DEF Fr!TacName, FP!TacName
    <3>3. \A L, d : Fr!Slot(L, d) = FP!Slot(L, d)
      BY DEF Fr!Slot, FP!Slot, Fr!Cardinality, FP!Cardinality
    <3>4. \A F : Fr!Keys(F) = FP!Keys(F)
      BY DEF Fr!Keys, FP!Keys
    <3>5. QED
      BY <3>1, <3>2, <3>3, <3>4
  <2>2. \A n, x : Fr!Key(n, x) = FP!Key(n, x)
    BY <2>1 DEF Fr!Key, FP!Key
  <2>3. \A L, d, n, x : Fr!Insert(L, d, n, x) = FP!Insert(L, d, n, x)
    <3>1. SUFFICES ASSUME NEW L, NEW d, NEW n, NEW x
                   PROVE  Fr!Insert(L, d, n, x) = FP!Insert(L, d, n, x)
      OBVIOUS
    <3>2. QED
      BY <2>1, <2>2 DEF Fr!Insert, FP!Insert
  <2>4. \A F, S : Fr!Flush(F, S) = FP!Flush(F, S)
    BY <2>1 DEF Fr!Flush, FP!Flush
  <2>5. \A F, ps : Fr!ParamEntries(F, ps) = FP!ParamEntries(F, ps)
    BY <2>1 DEF Fr!ParamEntries, FP!ParamEntries
  <2>6. Fr!ParamLists = FP!ParamLists
    BY DEF Fr!ParamLists, FP!ParamLists
  <2>7. QED
    BY <2>1, <2>3, <2>4, <2>5, <2>6
<1>3. [Fr!Next]_(Fr!vars) => [FP!Next]_(FP!vars)
  <2>1. \A f, ps : Fr!BeginFun(f, ps) => FP!BeginFun(f, ps)
    BY <1>2 DEF Fr!BeginFun, FP!BeginFun, Fr!inFun, FP!inFun
  <2>2. Fr!EndFun => FP!EndFun
    BY DEF Fr!EndFun, FP!EndFun, Fr!inFun, FP!inFun, Fr!Reservation, FP!Reservation
  <2>3. Fr!BeginScope => FP!BeginScope
    BY DEF Fr!BeginScope, FP!BeginScope, Fr!inFun, FP!inFun
  <2>4. Fr!EndScope => FP!EndScope
    BY <1>2 DEF Fr!EndScope, FP!EndScope, Fr!inFun, FP!inFun
  <2>5. \A x : /\ Fr!AddLocal(x) => FP!AddLocal(x)
               /\ Fr!AddLocalAborts(x) => FP!AddLocalAborts(x)
    BY <1>2 DEF Fr!AddLocal, FP!AddLocal, Fr!AddLocalAborts, FP!AddLocalAborts,
                Fr!inFun, FP!inFun
  <2>6. Fr!AddTemp => FP!AddTemp
    BY <1>2 DEF Fr!AddTemp, FP!AddTemp, Fr!inFun, FP!inFun
  <2>7. Fr!AddThreeTemps => FP!AddThreeTemps
    BY <1>2 DEF Fr!AddThreeTemps, FP!AddThreeTemps, Fr!inFun, FP!inFun
  <2>8. QED
    BY <1>2, <2>1, <2>2, <2>3, <2>4, <2>5, <2>6, <2>7
       DEF Fr!Next, FP!Next, Fr!vars, FP!vars
<1>4. QED
  BY WalkDrivesFrame, <1>1, <1>3, PTL DEF Fr!Spec, FP!Spec

(***************************************************************************)
(* In the translation of any program no two visible symbols share a slot,  *)
(* and every slot lies inside the reservation of its function.             *)
(***************************************************************************)
THEOREM TranslationKeepsSlots == Spec => [](Fr!NoSlotClash /\ Fr!FrameFits)
<1>1. /\ Fr!NoSlotClash <=> FP!NoSlotClash
      /\ Fr!FrameFits <=> FP!FrameFits
  BY DEF Fr!NoSlotClash, FP!NoSlotClash, Fr!FrameFits, FP!FrameFits, Fr!Room, FP!Room,
         Fr!inFun, FP!inFun
<1>2. /\ FP!Spec => []FP!NoSlotClash
      /\ FP!Spec => []FP!FrameFits
  BY FP!SlotsDisjoint, FP!LocalsInsideReservation, FrameAssumption
<1>3. QED
  BY SameFrame, <1>1, <1>2, PTL

-----------------------------------------------------------------------------
(* Labels *)

\* s is a sequence, whatever it holds
IsSeq(s) == s \in Seq({s[i] : i \in DOMAIN s})

LEMMA SeqIsSeq == ASSUME NEW S, NEW s \in Seq(S) PROVE IsSeq(s)
<1>1. DOMAIN s = 1 .. Len(s) /\ Len(s) \in Nat /\ s \in [1 .. Len(s) -> S]
  BY LenProperties
<1>2. s \in [1 .. Len(s) -> {s[i] : i \in DOMAIN s}]
  BY <1>1
<1>3. QED
  BY <1>1, <1>2, SeqDef DEF IsSeq

LEMMA FunctionIsSeq ==
    ASSUME NEW n \in Nat, NEW s, s = [i \in 1 .. n |-> s[i]]
    PROVE  IsSeq(s) /\ Len(s) = n
<1>1. DOMAIN s = 1 .. n
  OBVIOUS
<1>2. s \in [1 .. n -> {s[i] : i \in DOMAIN s}]
  BY <1>1
<1>3. IsSeq(s)
  BY <1>2, SeqDef DEF IsSeq
<1>4. Len(s) \in Nat /\ DOMAIN s = 1 .. Len(s)
  BY <1>3, LenProperties DEF IsSeq
<1>5. QED
  BY <1>1, <1>3, <1>4

LEMMA ConcatIsSeq ==
    ASSUME NEW s, IsSeq(s), NEW S, NEW t \in Seq(S) PROVE IsSeq(s \o t)
<1> DEFINE R == {s[i] : i \in DOMAIN s} \cup S
<1>1. s \in Seq(R) /\ t \in Seq(R)
  BY SeqMonotonic DEF IsSeq
<1> HIDE DEF R
<1>2. s \o t \in Seq(R)
  BY <1>1, ConcatProperties
<1>3. QED
  BY <1>2, SeqIsSeq

LEMMA LenIsNat ==
    ASSUME NEW s, IsSeq(s) PROVE Len(s) \in Nat /\ DOMAIN s = 1 .. Len(s)
BY LenProperties DEF IsSeq

QuadsAreSeq == IsSeq(quads) /\ IsSeq(labels)

LEMMA EmitKeepsSeq ==
    ASSUME QuadsAreSeq, NEW S, NEW qs \in Seq(S), Emit(qs) PROVE IsSeq(quads')
BY ConcatIsSeq DEF Emit, QuadsAreSeq

\* add_tac_label puts its label behind the last quad and keeps the others.
LEMMA WithLabelKeeps ==
    ASSUME QuadsAreSeq, NEW n \in Nat, Len(quads) <= n, NEW l,
           labels' = WithLabel(labels, n, l)
    PROVE  /\ IsSeq(labels')
           /\ \A i \in DOMAIN quads : LabelAt(i) # Nothing => labels'[i] = labels[i]
<1>1. labels' = [i \in 1 .. n + 1 |-> labels'[i]]
  BY DEF WithLabel
<1>2. IsSeq(labels')
  BY <1>1, FunctionIsSeq
<1>3. /\ Len(quads) \in Nat /\ DOMAIN quads = 1 .. Len(quads)
      /\ Len(labels) \in Nat /\ DOMAIN labels = 1 .. Len(labels)
  BY LenIsNat DEF QuadsAreSeq
<1>4. ASSUME NEW i \in DOMAIN quads, LabelAt(i) # Nothing PROVE labels'[i] = labels[i]
  <2>1. i \in DOMAIN labels
    BY <1>4 DEF LabelAt
  <2>2. i \in 1 .. n + 1 /\ i # n + 1 /\ i <= Len(labels)
    BY <1>3, <2>1
  <2>3. QED
    BY <2>2 DEF WithLabel
<1>5. QED
  BY <1>2, <1>4

\* The quads of a binary operator.
LEMMA BinQuadsAreSeq ==
    ASSUME NEW op \in BinOps, NEW l, NEW r
    PROVE  \E S : BinQuads(op, l, r) \in Seq(S)
<1>1. op \in Plain \cup Composite \cup {"Greater"}
  BY BinOpsAssumption
<1>2. \A q : <<q>> \in Seq({q})
  OBVIOUS
<1>3. \A q1, q2, q3 : <<q1, q2, q3>> \in Seq({q1, q2, q3})
  OBVIOUS
<1>4. \/ \E q : BinQuads(op, l, r) = <<q>>
      \/ \E q1, q2, q3 : BinQuads(op, l, r) = <<q1, q2, q3>>
  <2>1. CASE op \in Plain
    <3>1. BinQuads(op, l, r) = <<Quad(op, Temp(0), l, r)>>
      BY <2>1 DEF BinQuads, Plain, Arith
    <3>2. QED
      BY <3>1
  <2>2. CASE op = "Greater"
    <3>1. BinQuads(op, l, r) = <<Quad("Less", Temp(0), r, l)>>
      BY <2>2 DEF BinQuads, Plain, Arith
    <3>2. QED
      BY <3>1
  <2>3. CASE op = "LessEqual"
    <3>1. BinQuads(op, l, r) = <<Quad("Less", Temp(1), l, r),
                                 Quad("EqualEqual", Temp(2), l, r),
                                 Quad("Or", Temp(0), Temp(1), Temp(2))>>
      BY <2>3 DEF BinQuads, Plain, Arith
    <3>2. QED
      BY <3>1
  <2>4. CASE op = "GreaterEqual"
    <3>1. BinQuads(op, l, r) = <<Quad("Less", Temp(1), r, l),
                                 Quad("EqualEqual", Temp(2), l, r),
                                 Quad("Or", Temp(0), Temp(1), Temp(2))>>
      BY <2>4 DEF BinQuads, Plain, Arith
    <3>2. QED
      BY <3>1
  <2>5. CASE op = "NotEqual"
    <3>1. BinQuads(op, l, r) = <<Quad("Less", Temp(1), l, r),
                                 Quad("Less", Temp(2), r, l),
                                 Quad("Or", Temp(0), Temp(1), Temp(2))>>
      BY <2>5 DEF BinQuads, Plain, Arith
    <3>2. QED
      BY <3>1
  <2>6. QED
    BY <1>1, <2>1, <2>2, <2>3, <2>4, <2>5 DEF Composite
<1>5. CASE \E q : BinQuads(op, l, r) = <<q>>
  <2>1. PICK q : BinQuads(op, l, r) = <<q>>
    BY <1>5
  <2>2. BinQuads(op, l, r) \in Seq({q})
    BY <1>2, <2>1
  <2>3. QED
    BY <2>2
<1>6. CASE \E q1, q2, q3 : BinQuads(op, l, r) = <<q1, q2, q3>>
  <2>1. PICK q1, q2, q3 : BinQuads(op, l, r) = <<q1, q2, q3>>
    BY <1>6
  <2>2. BinQuads(op, l, r) \in Seq({q1, q2, q3})
    BY <1>3, <2>1
  <2>3. QED
    BY <2>2
<1>7. QED
  BY <1>4, <1>5, <1>6

LEMMA StepKeepsLabels ==
    ASSUME QuadsAreSeq, [Next]_vars
    PROVE  /\ QuadsAreSeq'
           /\ \A i \in DOMAIN quads : LabelAt(i) # Nothing => labels'[i] = labels[i]
<1> DEFINE Goal == /\ QuadsAreSeq'
                   /\ \A i \in DOMAIN quads : LabelAt(i) # Nothing => labels'[i] = labels[i]
<1>0. SUFFICES Goal
  OBVIOUS
<1>1. Len(quads) \in Nat /\ DOMAIN quads = 1 .. Len(quads) /\ IsSeq(quads) /\ IsSeq(labels)
  BY LenIsNat DEF QuadsAreSeq
<1>2. ASSUME UNCHANGED labels, IsSeq(quads') PROVE Goal
  BY <1>1, <1>2 DEF QuadsAreSeq
<1>3. ASSUME NEW n \in Nat, Len(quads) <= n, NEW l, labels' = WithLabel(labels, n, l),
             IsSeq(quads')
      PROVE  Goal
  BY <1>3, WithLabelKeeps DEF QuadsAreSeq
<1>4. \A q : <<q>> \in Seq({q})
  OBVIOUS
<1>5. \A q, r : <<q, r>> \in Seq({q, r})
  OBVIOUS
<1>6. ASSUME NEW q, Emit(<<q>>) PROVE IsSeq(quads')
  BY <1>4, <1>6, EmitKeepsSeq
<1>7. ASSUME UNCHANGED <<labels, quads>> PROVE Goal
  BY <1>1, <1>2, <1>7
<1>8. Len(quads) + 1 \in Nat /\ Len(quads) <= Len(quads) + 1
  BY <1>1
<1> HIDE DEF Goal
<1>9. ASSUME NEW f \in Funs, NEW sig \in Sigs, FunDef(f, sig) PROVE Goal
  BY <1>1, <1>3, <1>6, <1>9 DEF FunDef
<1>10. CASE FunDefEnd
  <2> DEFINE patched == [quads EXCEPT ![Top.left].opd2 = Fr!Reservation]
  <2>1. quads' = Append(patched, Quad("FunEnd", Nothing, Nothing, Nothing))
        /\ labels' = labels
    BY <1>10 DEF FunDefEnd
  <2>2. patched = [i \in 1 .. Len(quads) |-> patched[i]]
    BY <1>1
  <2> HIDE DEF patched
  <2>3. IsSeq(patched)
    BY <1>1, <2>2, FunctionIsSeq
  <2> DEFINE q == Quad("FunEnd", Nothing, Nothing, Nothing)
  <2>4. quads' = patched \o <<q>>
    <3>1. patched \in Seq({patched[i] : i \in DOMAIN patched} \cup {q})
      BY <2>3, SeqMonotonic DEF IsSeq
    <3> HIDE DEF q
    <3>2. Append(patched, q) = patched \o <<q>>
      BY <3>1
    <3>3. QED
      BY <2>1, <3>2 DEF q
  <2>5. IsSeq(quads')
    BY <1>4, <2>3, <2>4, ConcatIsSeq
  <2>6. QED
    BY <1>2, <2>1, <2>5
<1>11. ASSUME NEW m \in Idents, SetSym(m) PROVE Goal
  BY <1>1, <1>2, <1>6, <1>11 DEF SetSym
<1>12. ASSUME NEW op \in BinOps, Binary(op) PROVE Goal
  <2>1. labels' = labels /\ \E l, r : Emit(BinQuads(op, l, r))
    BY <1>12 DEF Binary
  <2>2. IsSeq(quads')
    BY <2>1, BinQuadsAreSeq, EmitKeepsSeq
  <2>3. QED
    BY <1>2, <2>1, <2>2
<1>13. CASE Unary
  <2>1. labels' = labels
    BY <1>13 DEF Unary
  <2>2. \/ UNCHANGED quads
        \/ \E q : Emit(<<q>>)
        \/ \E q1, q2, q3 : Emit(<<q1, q2, q3>>)
    BY <1>13 DEF Unary
  <2>3. \A q1, q2, q3 : <<q1, q2, q3>> \in Seq({q1, q2, q3})
    OBVIOUS
  <2>4. IsSeq(quads')
    BY <1>1, <1>6, <2>2, <2>3, EmitKeepsSeq
  <2>5. QED
    BY <1>2, <2>1, <2>4
<1>14. CASE CallArg
  BY <1>2, <1>6, <1>14 DEF CallArg
<1>15. CASE CallEnd
  <2>1. labels' = labels /\ \E q, r : Emit(<<q, r>>)
    BY <1>15 DEF CallEnd
  <2>2. IsSeq(quads')
    BY <1>5, <2>1, EmitKeepsSeq
  <2>3. QED
    BY <1>2, <2>1, <2>2
<1>16. CASE PrintStmt
  <2>1. labels' = labels
        /\ \E q, r : \E t : /\ t = <<>> \/ \E s : t = <<s>>
                            /\ Emit(<<q>> \o t \o <<r>>)
    BY <1>16 DEF PrintStmt
  <2>2. ASSUME NEW q, NEW r, NEW t, t = <<>> \/ \E s : t = <<s>>
        PROVE  \E S : <<q>> \o t \o <<r>> \in Seq(S)
    <3>1. PICK s : t = <<>> \/ t = <<s>>
      BY <2>2
    <3> DEFINE S == {q, r, s}
    <3>2. <<q>> \in Seq(S) /\ t \in Seq(S) /\ <<r>> \in Seq(S)
      <4>1. q \in S /\ r \in S /\ s \in S
        OBVIOUS
      <4> HIDE DEF S
      <4>2. <<q>> \in Seq(S) /\ <<r>> \in Seq(S) /\ <<s>> \in Seq(S) /\ <<>> \in Seq(S)
        BY <4>1
      <4>3. QED
        BY <3>1, <4>2
    <3> HIDE DEF S
    <3>3. <<q>> \o t \in Seq(S)
      BY <3>2, ConcatProperties
    <3>4. (<<q>> \o t) \o <<r>> \in Seq(S)
      BY <3>2, <3>3, ConcatProperties
    <3>5. QED
      BY <3>4
  <2>3. IsSeq(quads')
    BY <2>1, <2>2, EmitKeepsSeq
  <2>4. QED
    BY <1>2, <2>1, <2>3
<1>17. ASSUME NEW x \in Idents, NEW type \in Types, DeclSym(x, type) PROVE Goal
  BY <1>1, <1>2, <1>6, <1>17 DEF DeclSym
<1>18. CASE Return
  BY <1>2, <1>6, <1>18 DEF Return
<1>19. ASSUME NEW hasElse \in BOOLEAN, If(hasElse) PROVE Goal
  BY <1>3, <1>6, <1>8, <1>19 DEF If
<1>20. CASE Else
  BY <1>3, <1>6, <1>8, <1>20 DEF Else
<1>21. CASE IfEnd
  BY <1>1, <1>3, <1>6, <1>8, <1>21 DEF IfEnd
<1>22. CASE While \/ WhileBody \/ WhileEnd
  BY <1>3, <1>6, <1>8, <1>22 DEF While, WhileBody, WhileEnd
<1>23. CASE Finish
  <2> DEFINE L == Resized(labels, Len(quads))
  <2>1. quads' = quads /\ labels' = InsertReturnLabels(quads, L, lcount)
    BY <1>23 DEF Finish
  <2>2. L = [i \in 1 .. Len(quads) |-> L[i]]
    BY DEF Resized
  <2>3. Len(L) = Len(quads)
    BY <1>1, <2>2, FunctionIsSeq
  <2>4. \A i \in DOMAIN quads : LabelAt(i) # Nothing => L[i] = labels[i]
    BY <1>1, LenIsNat DEF Resized, LabelAt
  <2> HIDE DEF L
  <2>5. labels' = [i \in 1 .. Len(quads) |-> labels'[i]]
    BY <2>1, <2>3 DEF InsertReturnLabels
  <2>6. IsSeq(labels')
    BY <1>1, <2>5, FunctionIsSeq
  <2>7. ASSUME NEW i \in DOMAIN quads, LabelAt(i) # Nothing PROVE labels'[i] = labels[i]
    <3>1. L[i] = labels[i] /\ labels[i] # Nothing /\ i \in 1 .. Len(L)
      BY <1>1, <2>3, <2>4, <2>7 DEF LabelAt
    <3>2. i \notin AfterReturn(quads, L)
      BY <3>1 DEF AfterReturn
    <3>3. QED
      BY <2>1, <3>1, <3>2 DEF InsertReturnLabels
  <2>8. QED
    BY <1>1, <2>1, <2>6, <2>7 DEF QuadsAreSeq, Goal
<1>24. ASSUME UNCHANGED vars PROVE Goal
  BY <1>7, <1>24 DEF vars
<1>25. QED
  <2>1. ASSUME UNCHANGED <<quads, labels>> PROVE Goal
    BY <1>7, <2>1
  <2>2. CASE \/ Import \/ BodyBegin \/ BlockBegin \/ BlockEnd \/ ExprStmt
    BY <2>1, <2>2 DEF Import, BodyBegin, BlockBegin, OpenBlock, BlockEnd, ExprStmt
  <2>3. ASSUME NEW type, Literal(type) PROVE Goal
    BY <2>1, <2>3 DEF Literal
  <2>4. ASSUME NEW m, GetSym(m) \/ SetSymUndeclared(m) \/ SetSymParam(m) PROVE Goal
    BY <2>1, <2>4 DEF GetSym, SetSymUndeclared, SetSymParam
  <2>5. ASSUME NEW f, NEW n, Call(f) \/ CallRejected(f, n) PROVE Goal
    BY <2>1, <2>5 DEF Call, CallRejected
  <2>6. QED
    BY <2>2, <2>3, <2>4, <2>5, <1>9, <1>10, <1>11, <1>12, <1>13, <1>14, <1>15, <1>16, <1>17, <1>18, <1>19,
       <1>20, <1>21, <1>22, <1>23, <1>24 DEF Next

(***************************************************************************)
(* The label of an emitted quad stays on it until code is generated, for   *)
(* every program: add_tac_label and insert_return_labels only add labels.  *)
(***************************************************************************)
THEOREM LabelsStay == Spec => LabelsStable
<1>1. Init => QuadsAreSeq
  <2>1. SUFFICES ASSUME Init PROVE QuadsAreSeq
    OBVIOUS
  <2>2. labels = <<Start>> /\ <<Start>> \in Seq({Start})
    BY <2>1 DEF Init
  <2>3. \A q, r, s : <<q, r, s>> \in Seq({q, r, s})
    OBVIOUS
  <2>4. \E q, r, s : quads = <<q, r, s>>
    BY <2>1 DEF Init
  <2>5. QED
    BY <2>2, <2>3, <2>4, SeqIsSeq DEF QuadsAreSeq
<1>2. QuadsAreSeq /\ [Next]_vars => QuadsAreSeq'
  BY StepKeepsLabels
<1>3. QuadsAreSeq /\ [Next]_vars =>
          [\A i \in DOMAIN quads : LabelAt(i) # Nothing => labels'[i] = labels[i]]_vars
  BY StepKeepsLabels
<1>4. QED
  BY <1>1, <1>2, <1>3, PTL DEF Spec, LabelsStable

-----------------------------------------------------------------------------
(* Sequences of unknown elements *)

LEMMA Tuples ==
    /\ IsSeq(<<>>) /\ Len(<<>>) = 0
    /\ \A q : IsSeq(<<q>>) /\ Len(<<q>>) = 1 /\ <<q>>[1] = q
    /\ \A q, r : /\ IsSeq(<<q, r>>) /\ Len(<<q, r>>) = 2
                 /\ <<q, r>>[1] = q /\ <<q, r>>[2] = r
    /\ \A q, r, s : /\ IsSeq(<<q, r, s>>) /\ Len(<<q, r, s>>) = 3
                    /\ <<q, r, s>>[1] = q /\ <<q, r, s>>[2] = r /\ <<q, r, s>>[3] = s
<1>1. <<>> \in Seq({})
  OBVIOUS
<1>2. \A q : <<q>> \in Seq({q})
  OBVIOUS
<1>3. \A q, r : <<q, r>> \in Seq({q, r})
  OBVIOUS
<1>4. \A q, r, s : <<q, r, s>> \in Seq({q, r, s})
  OBVIOUS
<1>5. /\ IsSeq(<<>>)
      /\ \A q : IsSeq(<<q>>)
      /\ \A q, r : IsSeq(<<q, r>>)
      /\ \A q, r, s : IsSeq(<<q, r, s>>)
  BY <1>1, <1>2, <1>3, <1>4, SeqIsSeq
<1>6. QED
  BY <1>5

\* Two sequences one behind the other.
LEMMA Concat ==
    ASSUME NEW s, IsSeq(s), NEW t, IsSeq(t)
    PROVE  /\ IsSeq(s \o t)
           /\ Len(s \o t) = Len(s) + Len(t)
           /\ \A i \in 1 .. Len(s) : (s \o t)[i] = s[i]
           /\ \A j \in 1 .. Len(t) : (s \o t)[Len(s) + j] = t[j]
<1> DEFINE R == {s[i] : i \in DOMAIN s} \cup {t[i] : i \in DOMAIN t}
<1>1. s \in Seq(R) /\ t \in Seq(R)
  BY SeqMonotonic DEF IsSeq
<1> HIDE DEF R
<1>2. /\ s \o t \in Seq(R) /\ Len(s \o t) = Len(s) + Len(t)
      /\ \A i \in 1 .. Len(s) + Len(t) :
             (s \o t)[i] = IF i <= Len(s) THEN s[i] ELSE t[i - Len(s)]
      /\ Len(s) \in Nat /\ Len(t) \in Nat
  BY <1>1, ConcatProperties, LenProperties
<1>3. ASSUME NEW j \in 1 .. Len(t) PROVE (s \o t)[Len(s) + j] = t[j]
  <2>1. /\ Len(s) + j \in 1 .. Len(s) + Len(t) /\ ~(Len(s) + j <= Len(s))
        /\ (Len(s) + j) - Len(s) = j
    BY <1>2
  <2>2. QED
    BY <1>2, <2>1
<1>4. IsSeq(s \o t)
  BY <1>2, SeqIsSeq
<1>5. QED
  BY <1>2, <1>3, <1>4

\* A shorter sequence, with one element appended.
LEMMA AppendToPrefix ==
    ASSUME NEW s, IsSeq(s), NEW n \in Nat, n <= Len(s), NEW r
    PROVE  LET t == Append(SubSeq(s, 1, n), r)
           IN  /\ IsSeq(t) /\ Len(t) = n + 1 /\ t[n + 1] = r
               /\ \A i \in 1 .. n : t[i] = s[i]
<1> DEFINE R == {s[i] : i \in DOMAIN s} \cup {r}
           p == SubSeq(s, 1, n)
           t == Append(p, r)
<1>1. s \in Seq(R) /\ r \in R /\ Len(s) \in Nat /\ DOMAIN s = 1 .. Len(s)
  BY SeqMonotonic, LenIsNat DEF IsSeq
<1> HIDE DEF R
<1>2. \A i \in 1 .. n : s[i] \in R
  BY <1>1
<1>3. /\ p \in Seq(R) /\ Len(p) = n
      /\ \A i \in 1 .. n : p[i] = s[i]
  <2>1. /\ p \in Seq(R) /\ Len(p) = IF 1 <= n THEN n - 1 + 1 ELSE 0
        /\ \A i \in 1 .. n - 1 + 1 : p[i] = s[1 + i - 1]
    BY <1>2, SubSeqProperties
  <2>2. QED
    BY <2>1
<1> HIDE DEF p
<1>4. t \in Seq(R) /\ Len(t) = n + 1 /\ t[n + 1] = r /\ \A i \in 1 .. n : t[i] = p[i]
  BY <1>1, <1>3
<1>5. QED
  BY <1>3, <1>4, SeqIsSeq DEF p

LEMMA AppendTo ==
    ASSUME NEW s, IsSeq(s), NEW r
    PROVE  /\ IsSeq(Append(s, r)) /\ Len(Append(s, r)) = Len(s) + 1
           /\ Append(s, r)[Len(s) + 1] = r
           /\ \A i \in 1 .. Len(s) : Append(s, r)[i] = s[i]
<1>1. s \in Seq({s[i] : i \in DOMAIN s}) /\ Len(s) \in Nat
  BY LenIsNat DEF IsSeq
<1>2. SubSeq(s, 1, Len(s)) = s
  BY <1>1, SubSeqFull
<1> DEFINE n == Len(s)
<1> HIDE DEF n
<1>3. LET t == Append(SubSeq(s, 1, n), r)
      IN  /\ IsSeq(t) /\ Len(t) = n + 1 /\ t[n + 1] = r
          /\ \A i \in 1 .. n : t[i] = s[i]
  <2>1. n \in Nat /\ n <= Len(s)
    BY <1>1 DEF n
  <2>2. QED
    BY <2>1, AppendToPrefix
<1>4. QED
  BY <1>2, <1>3 DEF n

LEMMA PrefixOfSeq ==
    ASSUME NEW s, IsSeq(s), NEW n \in Nat, n <= Len(s)
    PROVE  LET t == SubSeq(s, 1, n)
           IN  IsSeq(t) /\ Len(t) = n /\ \A i \in 1 .. n : t[i] = s[i]
<1> DEFINE R == {s[i] : i \in DOMAIN s}
<1>1. s \in Seq(R) /\ Len(s) \in Nat /\ DOMAIN s = 1 .. Len(s)
  BY LenIsNat DEF IsSeq
<1> HIDE DEF R
<1>2. \A i \in 1 .. n : s[i] \in R
  BY <1>1
<1>3. /\ SubSeq(s, 1, n) \in Seq(R)
      /\ Len(SubSeq(s, 1, n)) = IF 1 <= n THEN n - 1 + 1 ELSE 0
      /\ \A i \in 1 .. n - 1 + 1 : SubSeq(s, 1, n)[i] = s[1 + i - 1]
  BY <1>2, SubSeqProperties
<1>4. IsSeq(SubSeq(s, 1, n))
  BY <1>3, SeqIsSeq
<1>5. QED
  BY <1>3, <1>4

\* What Emit appends, and that it moves nothing.
LEMMA Emitted ==
    ASSUME QuadsAreSeq, NEW qs, IsSeq(qs), Emit(qs)
    PROVE  /\ IsSeq(quads') /\ Len(quads') = Len(quads) + Len(qs)
           /\ \A i \in 1 .. Len(quads) : quads'[i] = quads[i]
           /\ \A j \in 1 .. Len(qs) : quads'[Len(quads) + j] = qs[j]
BY Concat DEF Emit, QuadsAreSeq

-----------------------------------------------------------------------------
(***************************************************************************)
(* The shape of the walk: which constructs may be open inside of which,    *)
(* and when operands can wait.  A call is open only inside of a block, a   *)
(* condition or a call, and nothing but a call inside of a call, so that   *)
(* no operand waits where a label or a jump is emitted.                    *)
(***************************************************************************)
Kinds == {"fun", "block", "cond", "call", "then", "else", "body"}
Evaluating == {"block", "cond", "call"}
Signatures == Sigs \cup {NoFun} \cup {Imported[h] : h \in DOMAIN Imported}
Opens == [kind : Kinds, l1 : Nat \cup {Nothing}, l2 : Nat \cup {Nothing},
          done : BOOLEAN, sig : Signatures, callee : Funs \cup {Nothing},
          left : Nat, base : Nat]

Nesting ==
    /\ ctx \in Seq(Opens)
    /\ \A i \in 1 .. Len(ctx) : ctx[i].kind = "fun" <=> i = 1
    /\ \A i \in 2 .. Len(ctx) : ctx[i].kind = "call" => ctx[i - 1].kind \in Evaluating
    /\ \A i \in 2 .. Len(ctx) : ctx[i - 1].kind = "call" => ctx[i].kind = "call"

Compiling ==
    /\ cur = Anon <=> ctx = <<>>
    /\ ctx # <<>> =>
          /\ ctx[1].left \in 1 .. Len(quads)
          /\ quads[ctx[1].left] = Quad("FunBegin", Nothing, Nothing, Nothing)
    /\ fun \in Sigs \cup {NoFun}
    /\ \A h \in DOMAIN globals : globals[h] \in Sigs

WalkInv ==
    /\ QuadsAreSeq /\ IsSeq(vals)
    /\ Len(labels) <= Len(quads) + 1
    /\ lcount \in Nat
    /\ Nesting
    /\ Top.kind \notin Evaluating => vals = <<>>
    /\ Compiling

(***************************************************************************)
(* What an operand is: a literal or nothing, a parameter, or a name that   *)
(* add_local has made.  Only such names are written.                       *)
(***************************************************************************)
Made(t) == t \in Nat \X Fr!Names /\ t[1] < temps

Operand(t) == t \in {Lit, Nothing} \cup Idents \/ Made(t)

NamesInv ==
    /\ \A i \in 1 .. Len(vals) : Operand(vals[i].temp)
    /\ \A i \in 1 .. Len(quads) : \A t \in Writes(quads[i]) : Made(t)

(***************************************************************************)
(* TempsBlockLocal with what must hold of the operands that wait: for them *)
(* the next quad is the place where they will be read.                     *)
(***************************************************************************)
LabelIn(L, k) == IF k \in DOMAIN L THEN L[k] ELSE Nothing
DefinedFor(Q, L, t, u) ==
    \E d \in 1 .. u - 1 :
        /\ t \in Writes(Q[d])
        /\ \A i \in 1 .. Len(Q) : t \in Writes(Q[i]) => i = d
        /\ \A k \in d + 1 .. u : LabelIn(L, k) = Nothing
        /\ \A k \in d + 1 .. u - 1 : ~LeavesBlock(Q[k])
BlockLocal(Q, L) ==
    \A u \in 1 .. Len(Q) : \A t \in Reads(Q[u]) : IsTemp(t) => DefinedFor(Q, L, t, u)

LocalInv ==
    ~errors => /\ BlockLocal(quads, labels)
               /\ \A i \in 1 .. Len(vals) :
                     IsTemp(vals[i].temp) =>
                         DefinedFor(quads, labels, vals[i].temp, Len(quads) + 1)

-----------------------------------------------------------------------------
(* The steps of the walk keep its shape *)

LEMMA TuplesConcat ==
    /\ \A q, r : <<q>> \o <<r>> = <<q, r>>
    /\ \A q, r, s : <<q, r>> \o <<s>> = <<q, r, s>>
<1>1. ASSUME NEW q, NEW r PROVE <<q>> \o <<r>> = <<q, r>>
  <2> DEFINE s == <<q>>
             t == <<r>>
             u == <<q, r>>
             S == {q, r}
  <2>1. s \in Seq(S) /\ t \in Seq(S) /\ u \in Seq(S)
    OBVIOUS
  <2>2. /\ Len(s) = 1 /\ Len(t) = 1 /\ Len(u) = 2
        /\ s[1] = q /\ t[1] = r /\ u[1] = q /\ u[2] = r
    OBVIOUS
  <2> HIDE DEF s, t, u, S
  <2>3. /\ s \o t \in Seq(S) /\ Len(s \o t) = 2
        /\ (s \o t)[1] = u[1] /\ (s \o t)[2] = u[2]
    <3>1. /\ s \o t \in Seq(S) /\ Len(s \o t) = Len(s) + Len(t)
          /\ \A i \in 1 .. Len(s) + Len(t) :
                 (s \o t)[i] = IF i <= Len(s) THEN s[i] ELSE t[i - Len(s)]
      BY <2>1, ConcatProperties
    <3>2. QED
      BY <2>2, <3>1
  <2>4. \A i \in 1 .. Len(s \o t) : (s \o t)[i] = u[i]
    BY <2>3
  <2>5. s \o t = u
    BY <2>1, <2>2, <2>3, <2>4, SeqEqual
  <2>6. QED
    BY <2>5 DEF s, t, u
<1>2. ASSUME NEW q, NEW r, NEW v PROVE <<q, r>> \o <<v>> = <<q, r, v>>
  <2> DEFINE s == <<q, r>>
             t == <<v>>
             u == <<q, r, v>>
             S == {q, r, v}
  <2>1. s \in Seq(S) /\ t \in Seq(S) /\ u \in Seq(S)
    OBVIOUS
  <2>2. /\ Len(s) = 2 /\ Len(t) = 1 /\ Len(u) = 3
        /\ s[1] = q /\ s[2] = r /\ t[1] = v /\ u[1] = q /\ u[2] = r /\ u[3] = v
    OBVIOUS
  <2> HIDE DEF s, t, u, S
  <2>3. /\ s \o t \in Seq(S) /\ Len(s \o t) = 3
        /\ (s \o t)[1] = u[1] /\ (s \o t)[2] = u[2] /\ (s \o t)[3] = u[3]
    <3>1. /\ s \o t \in Seq(S) /\ Len(s \o t) = Len(s) + Len(t)
          /\ \A i \in 1 .. Len(s) + Len(t) :
                 (s \o t)[i] = IF i <= Len(s) THEN s[i] ELSE t[i - Len(s)]
      BY <2>1, ConcatProperties
    <3>2. QED
      BY <2>2, <3>1
  <2>4. \A i \in 1 .. Len(s \o t) : (s \o t)[i] = u[i]
    BY <2>3
  <2>5. s \o t = u
    BY <2>1, <2>2, <2>3, <2>4, SeqEqual
  <2>6. QED
    BY <2>5 DEF s, t, u
<1>3. QED
  BY <1>1, <1>2

LEMMA Emits1 ==
    ASSUME QuadsAreSeq, NEW q, Emit(<<q>>)
    PROVE  /\ IsSeq(quads') /\ Len(quads) \in Nat /\ Len(quads') = Len(quads) + 1
           /\ quads'[Len(quads) + 1] = q
           /\ \A i \in 1 .. Len(quads) : quads'[i] = quads[i]
<1>1. IsSeq(<<q>>) /\ Len(<<q>>) = 1 /\ <<q>>[1] = q
  BY Tuples
<1>2. Len(quads) \in Nat
  BY LenIsNat DEF QuadsAreSeq
<1> DEFINE qs == <<q>>
<1>3. IsSeq(qs) /\ Len(qs) = 1 /\ Emit(qs)
  BY <1>1
<1> HIDE DEF qs
<1>4. /\ IsSeq(quads') /\ Len(quads') = Len(quads) + 1
      /\ \A i \in 1 .. Len(quads) : quads'[i] = quads[i]
      /\ \A j \in 1 .. 1 : quads'[Len(quads) + j] = qs[j]
  BY <1>3, Emitted
<1>5. QED
  BY <1>1, <1>2, <1>4 DEF qs

LEMMA Emits2 ==
    ASSUME QuadsAreSeq, NEW q, NEW r, Emit(<<q, r>>)
    PROVE  /\ IsSeq(quads') /\ Len(quads) \in Nat /\ Len(quads') = Len(quads) + 2
           /\ quads'[Len(quads) + 1] = q /\ quads'[Len(quads) + 2] = r
           /\ \A i \in 1 .. Len(quads) : quads'[i] = quads[i]
<1>1. IsSeq(<<q, r>>) /\ Len(<<q, r>>) = 2 /\ <<q, r>>[1] = q /\ <<q, r>>[2] = r
  BY Tuples
<1>2. Len(quads) \in Nat
  BY LenIsNat DEF QuadsAreSeq
<1> DEFINE qs == <<q, r>>
<1>3. IsSeq(qs) /\ Len(qs) = 2 /\ Emit(qs)
  BY <1>1
<1> HIDE DEF qs
<1>4. /\ IsSeq(quads') /\ Len(quads') = Len(quads) + 2
      /\ \A i \in 1 .. Len(quads) : quads'[i] = quads[i]
      /\ \A j \in 1 .. 2 : quads'[Len(quads) + j] = qs[j]
  BY <1>3, Emitted
<1>5. QED
  BY <1>1, <1>2, <1>4 DEF qs

LEMMA Emits3 ==
    ASSUME QuadsAreSeq, NEW q, NEW r, NEW s, Emit(<<q, r, s>>)
    PROVE  /\ IsSeq(quads') /\ Len(quads) \in Nat /\ Len(quads') = Len(quads) + 3
           /\ quads'[Len(quads) + 1] = q /\ quads'[Len(quads) + 2] = r
           /\ quads'[Len(quads) + 3] = s
           /\ \A i \in 1 .. Len(quads) : quads'[i] = quads[i]
<1>1. /\ IsSeq(<<q, r, s>>) /\ Len(<<q, r, s>>) = 3
      /\ <<q, r, s>>[1] = q /\ <<q, r, s>>[2] = r /\ <<q, r, s>>[3] = s
  BY Tuples
<1>2. Len(quads) \in Nat
  BY LenIsNat DEF QuadsAreSeq
<1> DEFINE qs == <<q, r, s>>
<1>3. IsSeq(qs) /\ Len(qs) = 3 /\ Emit(qs)
  BY <1>1
<1> HIDE DEF qs
<1>4. /\ IsSeq(quads') /\ Len(quads') = Len(quads) + 3
      /\ \A i \in 1 .. Len(quads) : quads'[i] = quads[i]
      /\ \A j \in 1 .. 3 : quads'[Len(quads) + j] = qs[j]
  BY <1>3, Emitted
<1>5. QED
  BY <1>1, <1>2, <1>4 DEF qs

\* The quads of a print statement: the pushed argument, a call unless the
\* argument is nil, and the popped argument.
LEMMA EmitsPrint ==
    ASSUME QuadsAreSeq, PrintStmt
    PROVE  LET push == Quad("PushArg", Nothing, Nothing, Last.temp)
           IN  \/ Emit(<<push, PopArgs(1)>>)
               \/ \E f \in {PrintInt, PrintBool} :
                     Emit(<<push, Quad("CallNil", Nothing, Nothing, f), PopArgs(1)>>)
<1>1. ASSUME NEW q, NEW r PROVE <<q>> \o <<>> \o <<r>> = <<q, r>>
  <2>1. <<q>> \in Seq({q, r})
    OBVIOUS
  <2>2. <<q>> \o <<>> = <<q>>
    BY <2>1, ConcatEmptySeq
  <2>3. QED
    BY <2>2, TuplesConcat
<1>2. ASSUME NEW q, NEW r, NEW s PROVE <<q>> \o <<s>> \o <<r>> = <<q, s, r>>
  <2>1. <<q>> \o <<s>> = <<q, s>>
    BY TuplesConcat
  <2>2. <<q, s>> \o <<r>> = <<q, s, r>>
    BY TuplesConcat
  <2>3. QED
    BY <2>1, <2>2
<1> DEFINE push == Quad("PushArg", Nothing, Nothing, Last.temp)
           pop == PopArgs(1)
           call(f) == Quad("CallNil", Nothing, Nothing, f)
           mid == CASE Last.type = "int" -> <<call(PrintInt)>>
                    [] Last.type = "bool" -> <<call(PrintBool)>>
                    [] OTHER -> <<>>
<1>3. Emit(<<push>> \o mid \o <<pop>>)
  BY DEF PrintStmt
<1>4. mid = <<>> \/ \E f \in {PrintInt, PrintBool} : mid = <<call(f)>>
  OBVIOUS
<1> HIDE DEF push, pop, call, mid
<1>5. CASE mid = <<>>
  <2>1. Emit(<<push, pop>>)
    BY <1>1, <1>3, <1>5
  <2>2. QED
    BY <2>1 DEF push, pop
<1>6. ASSUME NEW f \in {PrintInt, PrintBool}, mid = <<call(f)>>
      PROVE  Emit(<<push, call(f), pop>>)
  BY <1>2, <1>3, <1>6
<1>7. QED
  BY <1>4, <1>5, <1>6 DEF push, pop, call

\* add_tac_label, place by place.
LEMMA WithLabelAt ==
    ASSUME NEW L, IsSeq(L), NEW n \in Nat, NEW l
    PROVE  /\ Len(WithLabel(L, n, l)) = n + 1 /\ IsSeq(WithLabel(L, n, l))
           /\ LabelIn(WithLabel(L, n, l), n + 1) = l
           /\ \A k \in 1 .. n : LabelIn(WithLabel(L, n, l), k) = LabelIn(L, k)
<1> DEFINE M == WithLabel(L, n, l)
<1>1. M = [i \in 1 .. n + 1 |-> M[i]] /\ n + 1 \in Nat
  BY DEF WithLabel
<1>2. IsSeq(M) /\ Len(M) = n + 1
  BY <1>1, FunctionIsSeq
<1>3. DOMAIN M = 1 .. n + 1 /\ DOMAIN L = 1 .. Len(L) /\ Len(L) \in Nat
  BY LenIsNat DEF WithLabel
<1>4. LabelIn(M, n + 1) = l
  BY <1>3 DEF WithLabel, LabelIn
<1>5. ASSUME NEW k \in 1 .. n PROVE LabelIn(M, k) = LabelIn(L, k)
  BY <1>3 DEF WithLabel, LabelIn
<1>6. QED
  BY <1>2, <1>4, <1>5

\* The construct on top.
LEMMA TopFacts ==
    ASSUME Nesting
    PROVE  /\ Len(ctx) \in Nat /\ DOMAIN ctx = 1 .. Len(ctx)
           /\ ctx = <<>> => Top.kind = "file" /\ ~Top.done
           /\ ctx # <<>> => Len(ctx) >= 1 /\ Top = ctx[Len(ctx)] /\ Top \in Opens
<1>1. ctx \in Seq(Opens)
  BY DEF Nesting
<1>2. Len(ctx) \in Nat /\ DOMAIN ctx = 1 .. Len(ctx) /\ ctx \in [1 .. Len(ctx) -> Opens]
  BY <1>1, LenProperties
<1>3. ctx # <<>> => Len(ctx) >= 1
  BY <1>1, <1>2, EmptySeq
<1>4. ctx = <<>> => Top.kind = "file" /\ ~Top.done
  BY DEF Top, Open
<1>5. QED
  BY <1>2, <1>3, <1>4 DEF Top

LEMMA Push ==
    ASSUME Nesting, ctx # <<>>, NEW e \in Opens, e.kind # "fun",
           e.kind = "call" => Top.kind \in Evaluating,
           Top.kind = "call" => e.kind = "call",
           ctx' = Append(ctx, e)
    PROVE  /\ Nesting' /\ ctx' # <<>> /\ Top' = e
           /\ Len(ctx') = Len(ctx) + 1 /\ \A i \in 1 .. Len(ctx) : ctx'[i] = ctx[i]
<1>1. /\ Len(ctx) \in Nat /\ Len(ctx) >= 1 /\ Top = ctx[Len(ctx)] /\ ctx \in Seq(Opens)
  BY TopFacts DEF Nesting
<1>2. /\ ctx' \in Seq(Opens) /\ Len(ctx') = Len(ctx) + 1 /\ ctx'[Len(ctx) + 1] = e
      /\ \A i \in 1 .. Len(ctx) : ctx'[i] = ctx[i]
  BY <1>1
<1>3. ctx' # <<>>
  BY <1>1, <1>2, EmptySeq
<1>4. Top' = e
  BY <1>2, <1>3 DEF Top
<1>5. ASSUME NEW i \in 1 .. Len(ctx') PROVE ctx'[i].kind = "fun" <=> i = 1
  BY <1>1, <1>2, <1>5 DEF Nesting
<1>6. ASSUME NEW i \in 2 .. Len(ctx')
      PROVE  /\ ctx'[i].kind = "call" => ctx'[i - 1].kind \in Evaluating
             /\ ctx'[i - 1].kind = "call" => ctx'[i].kind = "call"
  <2>1. i - 1 \in 1 .. Len(ctx) /\ ctx'[i - 1] = ctx[i - 1]
    BY <1>1, <1>2
  <2>2. CASE i = Len(ctx) + 1
    BY <1>1, <1>2, <2>1, <2>2
  <2>3. CASE i # Len(ctx) + 1
    <3>1. i \in 2 .. Len(ctx) /\ ctx'[i] = ctx[i]
      BY <1>1, <1>2, <2>3
    <3>2. QED
      BY <2>1, <3>1 DEF Nesting
  <2>4. QED
    BY <2>2, <2>3
<1>7. QED
  BY <1>2, <1>3, <1>4, <1>5, <1>6 DEF Nesting

LEMMA Pop ==
    ASSUME Nesting, ctx # <<>>, Top.kind # "fun", ctx' = Popped
    PROVE  /\ Nesting' /\ ctx' # <<>> /\ Len(ctx') = Len(ctx) - 1
           /\ Top' = ctx[Len(ctx) - 1]
           /\ \A i \in 1 .. Len(ctx) - 1 : ctx'[i] = ctx[i]
<1>1. /\ Len(ctx) \in Nat /\ Len(ctx) >= 1 /\ Top = ctx[Len(ctx)] /\ ctx \in Seq(Opens)
  BY TopFacts DEF Nesting
<1>2. Len(ctx) >= 2
  BY <1>1 DEF Nesting
<1> DEFINE n == Len(ctx) - 1
<1>3. n \in Nat /\ n >= 1 /\ n + 1 = Len(ctx)
  BY <1>1, <1>2
<1>4. \A i \in 1 .. n : ctx[i] \in Opens
  BY <1>1
<1>5. /\ ctx' \in Seq(Opens) /\ Len(ctx') = n
      /\ \A i \in 1 .. n : ctx'[i] = ctx[i]
  <2>1. ctx' = SubSeq(ctx, 1, n)
    BY DEF Popped
  <2> HIDE DEF n
  <2>2. /\ ctx' \in Seq(Opens) /\ Len(ctx') = IF 1 <= n THEN n - 1 + 1 ELSE 0
        /\ \A i \in 1 .. n - 1 + 1 : ctx'[i] = ctx[1 + i - 1]
    BY <1>4, <1>3, <2>1, SubSeqProperties
  <2>3. QED
    BY <1>3, <1>4, <2>2
<1> HIDE DEF n
<1>6. ctx' # <<>>
  BY <1>3, <1>5, EmptySeq
<1>7. Top' = ctx[n]
  BY <1>3, <1>5, <1>6 DEF Top
<1>8. ASSUME NEW i \in 1 .. n PROVE ctx'[i].kind = "fun" <=> i = 1
  BY <1>1, <1>3, <1>5 DEF Nesting
<1>9. ASSUME NEW i \in 2 .. n
      PROVE  /\ ctx'[i].kind = "call" => ctx'[i - 1].kind \in Evaluating
             /\ ctx'[i - 1].kind = "call" => ctx'[i].kind = "call"
  <2>1. i \in 2 .. Len(ctx) /\ i \in 1 .. n /\ i - 1 \in 1 .. n
    BY <1>1, <1>3
  <2>2. QED
    BY <1>5, <2>1 DEF Nesting
<1>10. QED
  BY <1>5, <1>6, <1>7, <1>8, <1>9 DEF Nesting, n

\* One part of an if or a while is followed by the next one.
LEMMA Swap ==
    ASSUME Nesting, ctx # <<>>, Top.kind \notin {"fun", "call"},
           NEW e \in Opens, e.kind \notin {"fun", "call"},
           ctx' = Append(Popped, e)
    PROVE  /\ Nesting' /\ ctx' # <<>> /\ Top' = e
           /\ Len(ctx') = Len(ctx) /\ \A i \in 1 .. Len(ctx) - 1 : ctx'[i] = ctx[i]
<1>1. /\ Len(ctx) \in Nat /\ Len(ctx) >= 1 /\ Top = ctx[Len(ctx)] /\ ctx \in Seq(Opens)
  BY TopFacts DEF Nesting
<1> DEFINE n == Len(ctx) - 1
<1>2. n \in Nat /\ n >= 1 /\ n + 1 = Len(ctx)
  BY <1>1 DEF Nesting
<1>3. \A i \in 1 .. n : ctx[i] \in Opens
  BY <1>1
<1>4. /\ Popped \in Seq(Opens) /\ Len(Popped) = n
      /\ \A i \in 1 .. n : Popped[i] = ctx[i]
  <2>1. Popped = SubSeq(ctx, 1, n)
    BY DEF Popped
  <2> HIDE DEF n
  <2>2. /\ Popped \in Seq(Opens) /\ Len(Popped) = IF 1 <= n THEN n - 1 + 1 ELSE 0
        /\ \A i \in 1 .. n - 1 + 1 : Popped[i] = ctx[1 + i - 1]
    BY <1>3, <1>2, <2>1, SubSeqProperties
  <2>3. QED
    BY <1>2, <1>3, <2>2
<1> HIDE DEF n
<1>5. /\ ctx' \in Seq(Opens) /\ Len(ctx') = n + 1 /\ ctx'[n + 1] = e
      /\ \A i \in 1 .. n : ctx'[i] = ctx[i]
  BY <1>2, <1>4
<1>6. ctx' # <<>>
  BY <1>2, <1>5, EmptySeq
<1>7. Top' = e
  BY <1>2, <1>5, <1>6 DEF Top
<1>8. ASSUME NEW i \in 1 .. n + 1 PROVE ctx'[i].kind = "fun" <=> i = 1
  <2>1. CASE i = n + 1
    BY <1>2, <1>5, <2>1
  <2>2. CASE i # n + 1
    <3>1. i \in 1 .. n /\ i \in 1 .. Len(ctx)
      BY <1>2, <2>2
    <3>2. QED
      BY <1>5, <3>1 DEF Nesting
  <2>3. QED
    BY <2>1, <2>2
<1>9. ASSUME NEW i \in 2 .. n + 1
      PROVE  /\ ctx'[i].kind = "call" => ctx'[i - 1].kind \in Evaluating
             /\ ctx'[i - 1].kind = "call" => ctx'[i].kind = "call"
  <2>1. i \in 2 .. Len(ctx) /\ i - 1 \in 1 .. n
    BY <1>2
  <2>2. CASE i = n + 1
    <3>1. ctx[i - 1].kind # "call"
      BY <1>1, <1>2, <2>1, <2>2 DEF Nesting
    <3>2. QED
      BY <1>5, <2>1, <2>2, <3>1
  <2>3. CASE i # n + 1
    <3>1. i \in 1 .. n
      BY <1>2, <2>3
    <3>2. QED
      BY <1>5, <2>1, <3>1 DEF Nesting
  <2>4. QED
    BY <2>2, <2>3
<1>10. QED
  BY <1>2, <1>5, <1>6, <1>7, <1>8, <1>9 DEF Nesting

\* The end of a block marks the construct around it.
LEMMA CloseBlock ==
    ASSUME Nesting, ctx # <<>>, Top.kind = "block",
           ctx' = [i \in 1 .. Len(ctx) - 1 |->
                      [ctx[i] EXCEPT !.done = @ \/ i = Len(ctx) - 1]]
    PROVE  /\ Nesting' /\ ctx' # <<>> /\ Len(ctx') = Len(ctx) - 1
           /\ Len(ctx) >= 2
           /\ \A i \in 1 .. Len(ctx) - 1 :
                 /\ ctx'[i].kind = ctx[i].kind /\ ctx'[i].left = ctx[i].left
                 /\ ctx'[i].sig = ctx[i].sig /\ ctx'[i].base = ctx[i].base
                 /\ ctx'[i].l1 = ctx[i].l1 /\ ctx'[i].l2 = ctx[i].l2
<1>1. /\ Len(ctx) \in Nat /\ Len(ctx) >= 1 /\ Top = ctx[Len(ctx)] /\ ctx \in Seq(Opens)
  BY TopFacts DEF Nesting
<1>2. Len(ctx) >= 2
  BY <1>1 DEF Nesting
<1> DEFINE n == Len(ctx) - 1
<1>3. n \in Nat /\ n >= 1 /\ n + 1 = Len(ctx)
  BY <1>1, <1>2
<1>4. \A i \in 1 .. n : ctx[i] \in Opens
  BY <1>1
<1>5. ctx' = [i \in 1 .. n |-> [ctx[i] EXCEPT !.done = @ \/ i = n]]
  OBVIOUS
<1> HIDE DEF n
<1>6. ASSUME NEW i \in 1 .. n
      PROVE  /\ ctx'[i] \in Opens
             /\ ctx'[i].kind = ctx[i].kind /\ ctx'[i].left = ctx[i].left
             /\ ctx'[i].sig = ctx[i].sig /\ ctx'[i].base = ctx[i].base
             /\ ctx'[i].l1 = ctx[i].l1 /\ ctx'[i].l2 = ctx[i].l2
  <2>1. ctx[i] \in Opens /\ ctx'[i] = [ctx[i] EXCEPT !.done = @ \/ i = n]
    BY <1>4, <1>5
  <2>2. (ctx[i].done \/ i = n) \in BOOLEAN
    BY <2>1 DEF Opens
  <2>3. PICK d \in BOOLEAN : ctx'[i] = [ctx[i] EXCEPT !.done = d]
    BY <2>1, <2>2, Zenon
  <2>4. QED
    BY <2>1, <2>3, SMTT(40) DEF Opens
<1>7. ctx' \in Seq(Opens) /\ Len(ctx') = n
  <2>1. DOMAIN ctx' = 1 .. n /\ ctx' = [i \in 1 .. n |-> ctx'[i]]
    BY <1>5
  <2>2. ctx' \in [1 .. n -> Opens]
    BY <1>6, <2>1
  <2>3. QED
    BY <1>3, <2>2
<1>8. ctx' # <<>>
  BY <1>3, <1>7, EmptySeq
<1>9. ASSUME NEW i \in 1 .. n PROVE ctx'[i].kind = "fun" <=> i = 1
  BY <1>1, <1>3, <1>6 DEF Nesting
<1>10. ASSUME NEW i \in 2 .. n
       PROVE  /\ ctx'[i].kind = "call" => ctx'[i - 1].kind \in Evaluating
              /\ ctx'[i - 1].kind = "call" => ctx'[i].kind = "call"
  <2>1. i \in 2 .. Len(ctx) /\ i \in 1 .. n /\ i - 1 \in 1 .. n
    BY <1>1, <1>3
  <2>2. ctx'[i].kind = ctx[i].kind /\ ctx'[i - 1].kind = ctx[i - 1].kind
    BY <1>6, <2>1
  <2>3. QED
    BY <2>1, <2>2 DEF Nesting
<1>11. Nesting'
  BY <1>7, <1>9, <1>10 DEF Nesting
<1>12. QED
  BY <1>2, <1>3, <1>6, <1>7, <1>8, <1>11 DEF n

\* One argument of the call on top has been translated.
LEMMA CountArgument ==
    ASSUME Nesting, ctx # <<>>, Top.kind = "call", Top.left > 0,
           ctx' = [ctx EXCEPT ![Len(ctx)].left = @ - 1]
    PROVE  /\ Nesting' /\ ctx' # <<>> /\ Len(ctx') = Len(ctx) /\ Len(ctx) >= 2
           /\ \A i \in 1 .. Len(ctx) - 1 : ctx'[i] = ctx[i]
           /\ Top' = ctx'[Len(ctx)] /\ Top'.kind = "call" /\ Top'.sig = Top.sig
           /\ Top'.left = Top.left - 1 /\ Top'.base = Top.base
<1>1. /\ Len(ctx) \in Nat /\ Len(ctx) >= 1 /\ Top = ctx[Len(ctx)] /\ ctx \in Seq(Opens)
      /\ Top \in Opens
  BY TopFacts DEF Nesting
<1>2. Len(ctx) >= 2
  BY <1>1 DEF Nesting
<1> DEFINE e == [Top EXCEPT !.left = Top.left - 1]
<1>3. /\ e \in Opens /\ e.kind = "call" /\ e.sig = Top.sig /\ e.left = Top.left - 1
      /\ e.base = Top.base
  <2>1. Top.left - 1 \in Nat
    BY <1>1 DEF Opens
  <2>2. QED
    BY <1>1, <2>1 DEF Opens
<1>4. ctx' = [ctx EXCEPT ![Len(ctx)] = e]
  BY <1>1
<1> HIDE DEF e
<1>5. Len(ctx) \in 1 .. Len(ctx)
  BY <1>1
<1>6. /\ ctx' \in Seq(Opens) /\ Len(ctx') = Len(ctx)
      /\ \A j \in 1 .. Len(ctx) : ctx'[j] = IF j = Len(ctx) THEN e ELSE ctx[j]
  BY <1>1, <1>3, <1>4, <1>5, ExceptSeq
<1>7. ctx' # <<>>
  BY <1>1, <1>6, EmptySeq
<1>8. Top' = ctx'[Len(ctx)] /\ Top' = e
  BY <1>5, <1>6, <1>7 DEF Top
<1>9. \A j \in 1 .. Len(ctx) : ctx'[j].kind = ctx[j].kind
  BY <1>1, <1>3, <1>6
<1>10. Nesting'
  <2>1. \A i \in 1 .. Len(ctx') : ctx'[i].kind = "fun" <=> i = 1
    BY <1>6, <1>9 DEF Nesting
  <2>2. \A i \in 2 .. Len(ctx') : i \in 1 .. Len(ctx) /\ i - 1 \in 1 .. Len(ctx)
    BY <1>1, <1>6
  <2>3. \A i \in 2 .. Len(ctx') :
            /\ ctx'[i].kind = "call" => ctx'[i - 1].kind \in Evaluating
            /\ ctx'[i - 1].kind = "call" => ctx'[i].kind = "call"
    BY <1>6, <1>9, <2>2 DEF Nesting
  <2>4. QED
    BY <1>6, <2>1, <2>3 DEF Nesting
<1>11. \A i \in 1 .. Len(ctx) - 1 : ctx'[i] = ctx[i]
  BY <1>1, <1>6
<1>12. QED
  BY <1>2, <1>3, <1>6, <1>7, <1>8, <1>10, <1>11

LEMMA SignatureInSignatures ==
    ASSUME Compiling, NEW f \in Known
    PROVE  Signature(f) \in Signatures
BY DEF Compiling, Known, Signature, Signatures

\* The code of the function being compiled is kept and continued.
LEMMA StillCompiling ==
    ASSUME Compiling, QuadsAreSeq, ctx # <<>>, ctx' # <<>>,
           ctx'[1].left = ctx[1].left, cur' = cur, fun' = fun, globals' = globals,
           Len(quads) <= Len(quads'), Len(quads') \in Nat,
           \A i \in 1 .. Len(quads) : quads'[i] = quads[i]
    PROVE  Compiling'
<1>1. Len(quads) \in Nat
  BY LenIsNat DEF QuadsAreSeq
<1>2. QED
  BY <1>1 DEF Compiling

\* Frame's operations inside of a function do not change which one it is.
LEMMA SameFunction ==
    ASSUME \/ Fr!AddTemp \/ Fr!AddThreeTemps \/ Fr!BeginScope \/ Fr!EndScope
           \/ \E x : Fr!AddLocal(x) \/ Fr!AddLocalAborts(x)
           \/ UNCHANGED frameVars
    PROVE  cur' = cur
BY DEF Fr!AddTemp, Fr!AddThreeTemps, Fr!BeginScope, Fr!EndScope, Fr!AddLocal,
       Fr!AddLocalAborts, frameVars

\* A quad list of a binary operator is one quad or three.
LEMMA BinQuadsCases ==
    ASSUME NEW op \in BinOps, NEW l, NEW r
    PROVE  \/ /\ op \in Plain
              /\ BinQuads(op, l, r) = <<Quad(op, Temp(0), l, r)>>
           \/ /\ op = "Greater"
              /\ BinQuads(op, l, r) = <<Quad("Less", Temp(0), r, l)>>
           \/ /\ op \in Composite
              /\ \E q1, q2 :
                    /\ BinQuads(op, l, r) = <<q1, q2, Quad("Or", Temp(0), Temp(1), Temp(2))>>
                    /\ \E s \in {"Less"}, a \in {l, r}, b \in {l, r} :
                          q1 = Quad(s, Temp(1), a, b)
                    /\ \E s \in {"Less", "EqualEqual"}, a \in {l, r}, b \in {l, r} :
                          q2 = Quad(s, Temp(2), a, b)
<1>1. op \in Plain \cup Composite \cup {"Greater"}
  BY BinOpsAssumption
<1>2. CASE op \in Plain
  BY <1>2 DEF BinQuads, Plain, Arith
<1>3. CASE op = "Greater"
  BY <1>3 DEF BinQuads, Plain, Arith
<1> DEFINE or == Quad("Or", Temp(0), Temp(1), Temp(2))
<1>4. CASE op = "LessEqual"
  <2>1. BinQuads(op, l, r) = <<Quad("Less", Temp(1), l, r),
                               Quad("EqualEqual", Temp(2), l, r), or>>
    BY <1>4 DEF BinQuads, Plain, Arith
  <2>2. QED
    BY <1>4, <2>1 DEF Composite
<1>5. CASE op = "GreaterEqual"
  <2>1. BinQuads(op, l, r) = <<Quad("Less", Temp(1), r, l),
                               Quad("EqualEqual", Temp(2), l, r), or>>
    BY <1>5 DEF BinQuads, Plain, Arith
  <2>2. QED
    BY <1>5, <2>1 DEF Composite
<1>6. CASE op = "NotEqual"
  <2>1. BinQuads(op, l, r) = <<Quad("Less", Temp(1), l, r),
                               Quad("Less", Temp(2), r, l), or>>
    BY <1>6 DEF BinQuads, Plain, Arith
  <2>2. QED
    BY <1>6, <2>1 DEF Composite
<1>7. QED
  BY <1>1, <1>2, <1>3, <1>4, <1>5, <1>6 DEF Composite

LEMMA InitWalk == Init => WalkInv
<1> SUFFICES ASSUME Init PROVE WalkInv
  OBVIOUS
<1>1. QuadsAreSeq /\ IsSeq(vals) /\ Len(quads) = 3 /\ Len(labels) = 1
  <2>1. labels = <<Start>> /\ vals = <<>> /\ \E q, r, s : quads = <<q, r, s>>
    BY DEF Init
  <2>2. QED
    BY <2>1, Tuples DEF QuadsAreSeq
<1>2. Nesting
  <2>1. ctx = <<>> /\ <<>> \in Seq(Opens) /\ Len(<<>>) = 0
    BY EmptySeq DEF Init
  <2>2. QED
    BY <2>1 DEF Nesting
<1>3. Compiling
  BY DEF Init, Fr!Init, Compiling
<1>4. QED
  BY <1>1, <1>2, <1>3 DEF Init, WalkInv

\* A node takes n operands and leaves its result r.
Takes(n, r) ==
    /\ IsSeq(vals') /\ n \in Nat /\ n <= Len(vals) /\ Len(vals') = Len(vals) - n + 1
    /\ vals'[Len(vals) - n + 1] = r
    /\ \A i \in 1 .. Len(vals) - n : vals'[i] = vals[i]

LEMMA InFunction ==
    ASSUME WalkInv, Top.kind # "file"
    PROVE  /\ ctx # <<>> /\ Len(ctx) \in Nat /\ Len(ctx) >= 1
           /\ Top = ctx[Len(ctx)] /\ Top \in Opens
           /\ Top.kind # "fun" => Len(ctx) >= 2
BY TopFacts DEF WalkInv, Nesting

LEMMA ReplaceTakes ==
    ASSUME WalkInv, InExpression, NEW n \in Nat, Pending >= n, NEW r, Replace(n, r)
    PROVE  Takes(n, r)
<1>1. Top.base \in Nat
  BY InFunction DEF InExpression, Opens
<1>2. Len(vals) \in Nat /\ IsSeq(vals)
  BY LenIsNat DEF WalkInv
<1> DEFINE m == Len(vals) - n
<1>3. m \in Nat /\ m <= Len(vals) /\ n <= Len(vals)
  BY <1>1, <1>2 DEF Pending
<1>4. vals' = Append(SubSeq(vals, 1, m), r)
  BY DEF Replace
<1> HIDE DEF m
<1>5. /\ IsSeq(vals') /\ Len(vals') = m + 1 /\ vals'[m + 1] = r
      /\ \A i \in 1 .. m : vals'[i] = vals[i]
  BY <1>2, <1>3, <1>4, AppendToPrefix
<1>6. QED
  BY <1>3, <1>5 DEF m, Takes

LEMMA AppendTakes ==
    ASSUME WalkInv, NEW r, vals' = Append(vals, r)
    PROVE  Takes(0, r)
<1>1. Len(vals) \in Nat /\ IsSeq(vals)
  BY LenIsNat DEF WalkInv
<1>2. /\ IsSeq(vals') /\ Len(vals') = Len(vals) + 1 /\ vals'[Len(vals) + 1] = r
      /\ \A i \in 1 .. Len(vals) : vals'[i] = vals[i]
  BY <1>1, AppendTo
<1>3. QED
  BY <1>1, <1>2 DEF Takes

\* A step that goes on with the function and keeps its quads.
LEMMA KeepsWalk ==
    ASSUME WalkInv, ctx # <<>>, Nesting', ctx' # <<>>, ctx'[1].left = ctx[1].left,
           cur' = cur, fun' = fun, globals' = globals, lcount' \in Nat,
           IsSeq(vals'), Top'.kind \notin Evaluating => vals' = <<>>,
           IsSeq(quads'), IsSeq(labels'), Len(labels') <= Len(quads') + 1,
           Len(quads) <= Len(quads'),
           \A i \in 1 .. Len(quads) : quads'[i] = quads[i]
    PROVE  WalkInv'
<1>1. QuadsAreSeq' /\ Len(quads') \in Nat
  BY LenIsNat DEF QuadsAreSeq
<1>2. Compiling'
  BY <1>1, StillCompiling DEF WalkInv
<1>3. QED
  BY <1>1, <1>2 DEF WalkInv

\* An expression node: the quads qs are appended, no label is added.
Appends(n) ==
    /\ n \in Nat /\ IsSeq(quads') /\ Len(quads') = Len(quads) + n
    /\ \A i \in 1 .. Len(quads) : quads'[i] = quads[i]
    /\ labels' = labels

LEMMA Lengths ==
    ASSUME WalkInv
    PROVE  /\ Len(quads) \in Nat /\ Len(labels) \in Nat /\ Len(vals) \in Nat
           /\ DOMAIN quads = 1 .. Len(quads) /\ DOMAIN labels = 1 .. Len(labels)
           /\ DOMAIN vals = 1 .. Len(vals)
           /\ IsSeq(quads) /\ IsSeq(labels) /\ IsSeq(vals) /\ QuadsAreSeq
           /\ Nesting /\ Compiling /\ lcount \in Nat
           /\ Len(labels) <= Len(quads) + 1
BY LenIsNat DEF WalkInv, QuadsAreSeq

LEMMA ExpressionKeepsWalk ==
    ASSUME WalkInv, InExpression, NEW n, Appends(n), IsSeq(vals'),
           ctx' = ctx, cur' = cur, fun' = fun, globals' = globals, lcount' = lcount
    PROVE  WalkInv'
<1>1. ctx # <<>> /\ Top.kind \in Evaluating
  BY TopFacts DEF InExpression, Evaluating, WalkInv
<1>2. Nesting' /\ Top' = Top
  BY Lengths DEF Nesting, Top
<1>3. Len(quads) <= Len(quads') /\ Len(labels') <= Len(quads') + 1
  BY Lengths DEF Appends
<1>4. QED
  BY <1>1, <1>2, <1>3, Lengths, KeepsWalk DEF Appends

LEMMA NoQuads ==
    ASSUME WalkInv, UNCHANGED <<quads, labels>> PROVE Appends(0)
BY Lengths DEF Appends

LEMMA OneQuad ==
    ASSUME WalkInv, NEW q, Emit(<<q>>), labels' = labels
    PROVE  Appends(1) /\ quads'[Len(quads) + 1] = q
BY Lengths, Emits1 DEF Appends

LEMMA TwoQuads ==
    ASSUME WalkInv, NEW q, NEW r, Emit(<<q, r>>), labels' = labels
    PROVE  Appends(2) /\ quads'[Len(quads) + 1] = q /\ quads'[Len(quads) + 2] = r
BY Lengths, Emits2 DEF Appends

LEMMA ThreeQuads ==
    ASSUME WalkInv, NEW q, NEW r, NEW s, Emit(<<q, r, s>>), labels' = labels
    PROVE  /\ Appends(3) /\ quads'[Len(quads) + 1] = q /\ quads'[Len(quads) + 2] = r
           /\ quads'[Len(quads) + 3] = s
BY Lengths, Emits3 DEF Appends

(***************************************************************************)
(* The effect of each node on the quads, the operands and the open         *)
(* constructs.                                                             *)
(***************************************************************************)
LEMMA LeafEffect ==
    ASSUME WalkInv, InExpression, NEW r, vals' = Append(vals, r),
           UNCHANGED <<frameVars, quads, labels, lcount, ctx, fun, types, globals>>
    PROVE  WalkInv' /\ Appends(0) /\ Takes(0, r)
<1>1. Appends(0) /\ Takes(0, r)
  BY NoQuads, AppendTakes
<1>2. WalkInv'
  BY <1>1, ExpressionKeepsWalk DEF Takes, frameVars
<1>3. QED
  BY <1>1, <1>2

LEMMA SetSymEffect ==
    ASSUME WalkInv, NEW m \in Idents, SetSym(m)
    PROVE  /\ WalkInv'
           /\ \E s \in Fr!Lookup(live, m) :
                 \/ /\ Appends(1) /\ errors' = errors
                    /\ quads'[Len(quads) + 1] = Quad("Assign", s.tac, Last.temp, Nothing)
                    /\ Takes(1, Result(s.tac, Last.type))
                 \/ /\ Appends(0) /\ errors'
                    /\ Takes(1, NilResult)
<1>1. PICK s \in Fr!Lookup(live, m) :
          \/ /\ Emit(<<Quad("Assign", s.tac, Last.temp, Nothing)>>)
             /\ Replace(1, Result(s.tac, Last.type)) /\ errors' = errors
          \/ /\ Replace(1, NilResult) /\ errors' = TRUE /\ quads' = quads
  BY DEF SetSym
<1>2. /\ InExpression /\ Pending >= 1 /\ labels' = labels /\ ctx' = ctx /\ cur' = cur
      /\ fun' = fun /\ globals' = globals /\ lcount' = lcount
  BY DEF SetSym, frameVars
<1>3. CASE /\ Emit(<<Quad("Assign", s.tac, Last.temp, Nothing)>>)
           /\ Replace(1, Result(s.tac, Last.type)) /\ errors' = errors
  <2>1. /\ Appends(1)
        /\ quads'[Len(quads) + 1] = Quad("Assign", s.tac, Last.temp, Nothing)
    BY <1>2, <1>3, OneQuad
  <2>2. Takes(1, Result(s.tac, Last.type))
    BY <1>2, <1>3, ReplaceTakes
  <2>3. WalkInv'
    BY <1>2, <2>1, <2>2, ExpressionKeepsWalk DEF Takes
  <2>4. QED
    BY <1>3, <2>1, <2>2, <2>3
<1>4. CASE Replace(1, NilResult) /\ errors' = TRUE /\ quads' = quads
  <2>1. Appends(0)
    BY <1>2, <1>4, NoQuads
  <2>2. Takes(1, NilResult)
    BY <1>2, <1>4, ReplaceTakes
  <2>3. WalkInv'
    BY <1>2, <2>1, <2>2, ExpressionKeepsWalk DEF Takes
  <2>4. QED
    BY <1>4, <2>1, <2>2, <2>3
<1>5. QED
  BY <1>1, <1>3, <1>4

\* A binary node: one quad that computes Temp(0), or three.
Computes(op, l, r) ==
    /\ Appends(1)
    /\ op \in Plain /\ quads'[Len(quads) + 1] = Quad(op, Temp(0), l, r)
Composes(l, r) ==
    /\ Appends(3)
    /\ \E a, b \in {l, r} : quads'[Len(quads) + 1] = Quad("Less", Temp(1), a, b)
    /\ \E s \in {"Less", "EqualEqual"}, a, b \in {l, r} :
          quads'[Len(quads) + 2] = Quad(s, Temp(2), a, b)
    /\ quads'[Len(quads) + 3] = Quad("Or", Temp(0), Temp(1), Temp(2))

LEMMA BinaryEffect ==
    ASSUME WalkInv, NEW op \in BinOps, Binary(op)
    PROVE  LET left == vals[Len(vals) - 1]
           IN  /\ WalkInv' /\ Len(vals) >= 2
               /\ \E type : Takes(2, Result(Temp(0), type))
               /\ \/ /\ Fr!AddTemp
                     /\ \E s : Computes(s, left.temp, Last.temp)
                               \/ Computes(s, Last.temp, left.temp)
                  \/ Fr!AddThreeTemps /\ Composes(left.temp, Last.temp)
<1> DEFINE l == vals[Len(vals) - 1].temp
           r == Last.temp
<1>1. /\ InExpression /\ Pending >= 2 /\ Emit(BinQuads(op, l, r))
      /\ \E type : Replace(2, Result(Temp(0), type))
      /\ IF op \in Composite THEN Fr!AddThreeTemps ELSE Fr!AddTemp
      /\ labels' = labels /\ ctx' = ctx /\ fun' = fun /\ globals' = globals
      /\ lcount' = lcount
  BY DEF Binary
<1>2. cur' = cur
  BY <1>1, SameFunction
<1>3. PICK type : Takes(2, Result(Temp(0), type))
  BY <1>1, ReplaceTakes
<1>4. Len(vals) >= 2
  BY <1>3 DEF Takes
<1> HIDE DEF l, r
<1>5. CASE op \notin Composite
  <2> DEFINE One(s, a, b) == /\ BinQuads(op, l, r) = <<Quad(s, Temp(0), a, b)>>
                             /\ (a = l /\ b = r) \/ (a = r /\ b = l)
  <2>1. PICK s, a, b : s \in Plain /\ One(s, a, b)
    <3>1. "Less" \in Plain
      BY DEF Plain
    <3>2. CASE op \in Plain /\ BinQuads(op, l, r) = <<Quad(op, Temp(0), l, r)>>
      <4>1. One(op, l, r)
        BY <3>2
      <4>2. QED
        BY <3>2, <4>1
    <3>3. CASE BinQuads(op, l, r) = <<Quad("Less", Temp(0), r, l)>>
      <4>1. One("Less", r, l)
        BY <3>3
      <4>2. QED
        BY <3>1, <4>1
    <3>4. QED
      BY <1>5, <3>2, <3>3, BinQuadsCases
  <2>2. Appends(1) /\ quads'[Len(quads) + 1] = Quad(s, Temp(0), a, b)
    BY <1>1, <2>1, OneQuad
  <2>3. WalkInv'
    BY <1>1, <1>2, <1>3, <2>2, ExpressionKeepsWalk DEF Takes
  <2>4. Computes(s, l, r) \/ Computes(s, r, l)
    BY <2>1, <2>2 DEF Computes
  <2>5. QED
    BY <1>1, <1>3, <1>4, <1>5, <2>3, <2>4 DEF l, r
<1>6. CASE op \in Composite
  <2>1. PICK q1, q2 :
            /\ BinQuads(op, l, r) = <<q1, q2, Quad("Or", Temp(0), Temp(1), Temp(2))>>
            /\ \E s \in {"Less"}, a \in {l, r}, b \in {l, r} :
                  q1 = Quad(s, Temp(1), a, b)
            /\ \E s \in {"Less", "EqualEqual"}, a \in {l, r}, b \in {l, r} :
                  q2 = Quad(s, Temp(2), a, b)
    <3>1. op \notin Plain /\ op # "Greater"
      BY <1>6 DEF Plain, Composite, Arith
    <3>2. QED
      BY <3>1, BinQuadsCases
  <2>2. /\ Appends(3) /\ quads'[Len(quads) + 1] = q1 /\ quads'[Len(quads) + 2] = q2
        /\ quads'[Len(quads) + 3] = Quad("Or", Temp(0), Temp(1), Temp(2))
    BY <1>1, <2>1, ThreeQuads
  <2>3. WalkInv'
    BY <1>1, <1>2, <1>3, <2>2, ExpressionKeepsWalk DEF Takes
  <2>4. Composes(l, r)
    BY <2>1, <2>2 DEF Composes
  <2>5. QED
    BY <1>1, <1>3, <1>4, <1>6, <2>3, <2>4 DEF l, r
<1>7. QED
  BY <1>5, <1>6

LEMMA UnaryEffect ==
    ASSUME WalkInv, Unary
    PROVE  /\ WalkInv' /\ Len(vals) >= 1 /\ \E type : Takes(1, Result(Temp(0), type))
           /\ \/ Fr!AddTemp /\ Computes("Minus", Lit, Last.temp)
              \/ Fr!AddThreeTemps /\ Composes(Last.temp, Lit)
              \/ Fr!AddTemp /\ Appends(0) /\ errors'
<1>1. /\ InExpression /\ Pending >= 1 /\ Replace(1, Result(Temp(0), Last.type))
      /\ labels' = labels /\ ctx' = ctx /\ fun' = fun /\ globals' = globals
      /\ lcount' = lcount
  BY DEF Unary
<1>2. cur' = cur
  BY SameFunction DEF Unary
<1>3. Takes(1, Result(Temp(0), Last.type)) /\ Len(vals) >= 1
  BY <1>1, ReplaceTakes DEF Takes
<1>4. CASE Emit(<<Quad("Minus", Temp(0), Lit, Last.temp)>>) /\ Fr!AddTemp
  <2>1. Appends(1) /\ quads'[Len(quads) + 1] = Quad("Minus", Temp(0), Lit, Last.temp)
    BY <1>1, <1>4, OneQuad
  <2>2. WalkInv'
    BY <1>1, <1>2, <1>3, <2>1, ExpressionKeepsWalk DEF Takes
  <2>3. QED
    BY <1>3, <1>4, <2>1, <2>2 DEF Computes, Plain, Arith
<1>5. CASE /\ Emit(<<Quad("Less", Temp(1), Last.temp, Lit),
                     Quad("Less", Temp(2), Lit, Last.temp),
                     Quad("Or", Temp(0), Temp(1), Temp(2))>>)
           /\ Fr!AddThreeTemps
  <2>1. /\ Appends(3) /\ quads'[Len(quads) + 1] = Quad("Less", Temp(1), Last.temp, Lit)
        /\ quads'[Len(quads) + 2] = Quad("Less", Temp(2), Lit, Last.temp)
        /\ quads'[Len(quads) + 3] = Quad("Or", Temp(0), Temp(1), Temp(2))
    BY <1>1, <1>5, ThreeQuads
  <2>2. WalkInv'
    BY <1>1, <1>2, <1>3, <2>1, ExpressionKeepsWalk DEF Takes
  <2>3. QED
    BY <1>3, <1>5, <2>1, <2>2 DEF Composes
<1>6. CASE errors' = TRUE /\ Fr!AddTemp /\ quads' = quads
  <2>1. Appends(0)
    BY <1>1, <1>6, NoQuads
  <2>2. WalkInv'
    BY <1>1, <1>2, <1>3, <2>1, ExpressionKeepsWalk DEF Takes
  <2>3. QED
    BY <1>3, <1>6, <2>1, <2>2
<1>7. QED
  BY <1>4, <1>5, <1>6 DEF Unary

LEMMA CallEffect ==
    ASSUME WalkInv, NEW f \in Funs, Call(f)
    PROVE  /\ WalkInv' /\ Appends(0) /\ vals' = vals
           /\ Top.kind \in Evaluating
           /\ Len(ctx') = Len(ctx) + 1 /\ \A i \in 1 .. Len(ctx) : ctx'[i] = ctx[i]
           /\ Top'.kind = "call" /\ Top' = ctx'[Len(ctx')]
           /\ Top'.sig = Signature(f) /\ Top'.left = Len(Signature(f).ptypes)
<1> DEFINE e == [Open("call", Nothing, Nothing) EXCEPT
                    !.callee = f, !.sig = Signature(f),
                    !.left = Len(Signature(f).ptypes), !.base = Len(vals)]
<1>1. /\ InExpression /\ f \in Known /\ ctx' = Append(ctx, e)
      /\ UNCHANGED <<frameVars, quads, labels, lcount, vals, fun, types, globals>>
  BY DEF Call
<1>2. Top.kind \in Evaluating /\ Top.kind # "file"
  BY <1>1 DEF InExpression, Evaluating
<1>3. Signature(f) \in Signatures /\ Len(Signature(f).ptypes) \in Nat
  <2>1. Signature(f) \in Signatures
    BY <1>1, Lengths, SignatureInSignatures
  <2>2. \A s \in Sigs : Len(s.ptypes) \in Nat
    <3>1. SUFFICES ASSUME NEW s \in Sigs PROVE Len(s.ptypes) \in Nat
      OBVIOUS
    <3>2. Len(s.params) \in Nat /\ s.ptypes \in [1 .. Len(s.params) -> Types]
      BY SigsAssumption, LenProperties
    <3>3. s.ptypes \in Seq(Types)
      BY <3>2
    <3>4. QED
      BY <3>3, LenProperties
  <2>3. Len(NoFun.ptypes) \in Nat
    BY EmptySeq DEF NoFun
  <2>4. \A h \in DOMAIN Imported : Len(Imported[h].ptypes) \in Nat
    BY ImportedAssumption, LenProperties
  <2>5. QED
    BY <2>1, <2>2, <2>3, <2>4 DEF Signatures
<1>4. /\ e \in Opens /\ e.kind = "call" /\ e.sig = Signature(f)
      /\ e.left = Len(Signature(f).ptypes)
  <2>1. NoFun \in Signatures /\ Len(vals) \in Nat
    BY Lengths DEF Signatures
  <2>2. Open("call", Nothing, Nothing) \in Opens
    BY <2>1 DEF Open, Opens, Kinds
  <2>3. QED
    BY <1>3, <2>1, <2>2 DEF Open, Opens, Kinds
<1> HIDE DEF e
<1>5. ctx # <<>>
  BY <1>2, InFunction
<1>6. /\ Nesting' /\ ctx' # <<>> /\ Top' = e
      /\ Len(ctx') = Len(ctx) + 1 /\ \A i \in 1 .. Len(ctx) : ctx'[i] = ctx[i]
  BY <1>1, <1>2, <1>4, <1>5, Lengths, Push
<1>7. Appends(0)
  BY <1>1, NoQuads
<1>8. ctx'[1] = ctx[1] /\ Top' = ctx'[Len(ctx')]
  BY <1>2, <1>6, InFunction DEF Top
<1>9. WalkInv'
  BY <1>1, <1>4, <1>5, <1>6, <1>7, <1>8, Lengths, KeepsWalk DEF Appends, Evaluating, frameVars
<1>10. QED
  BY <1>1, <1>2, <1>4, <1>6, <1>7, <1>8, <1>9

LEMMA CallArgEffect ==
    ASSUME WalkInv, CallArg
    PROVE  /\ WalkInv' /\ Appends(1) /\ Len(vals) >= 1
           /\ quads'[Len(quads) + 1] = Quad("PushArg", Nothing, Nothing, Last.temp)
           /\ Len(vals') = Len(vals) - 1 /\ \A i \in 1 .. Len(vals') : vals'[i] = vals[i]
           /\ Len(ctx') = Len(ctx) /\ Len(ctx) >= 2
           /\ \A i \in 1 .. Len(ctx) - 1 : ctx'[i] = ctx[i]
           /\ Top.kind = "call" /\ Top = ctx[Len(ctx)] /\ Top.left > 0
           /\ Top' = ctx'[Len(ctx)] /\ Top'.kind = "call" /\ Top'.sig = Top.sig
           /\ Top'.left = Top.left - 1
<1>1. /\ Top.kind = "call" /\ Top.left > 0 /\ Pending = 1
      /\ Emit(<<Quad("PushArg", Nothing, Nothing, Last.temp)>>)
      /\ vals' = SubSeq(vals, 1, Len(vals) - 1)
      /\ ctx' = [ctx EXCEPT ![Len(ctx)].left = @ - 1]
      /\ UNCHANGED <<frameVars, labels, lcount, fun, types, globals>>
  BY DEF CallArg
<1>2. /\ ctx # <<>> /\ Top = ctx[Len(ctx)] /\ Top \in Opens
  BY <1>1, InFunction
<1>3. Len(vals) \in Nat /\ Len(vals) >= 1
  BY <1>1, <1>2, Lengths DEF Pending, Opens
<1> DEFINE m == Len(vals) - 1
<1>4. m \in Nat /\ m <= Len(vals) /\ vals' = SubSeq(vals, 1, m)
  BY <1>1, <1>3
<1> HIDE DEF m
<1>5. IsSeq(vals') /\ Len(vals') = m /\ \A i \in 1 .. m : vals'[i] = vals[i]
  BY <1>4, Lengths, PrefixOfSeq
<1>6. /\ Appends(1)
      /\ quads'[Len(quads) + 1] = Quad("PushArg", Nothing, Nothing, Last.temp)
  BY <1>1, OneQuad
<1>7. /\ Nesting' /\ ctx' # <<>> /\ Len(ctx') = Len(ctx) /\ Len(ctx) >= 2
      /\ \A i \in 1 .. Len(ctx) - 1 : ctx'[i] = ctx[i]
      /\ Top' = ctx'[Len(ctx)] /\ Top'.kind = "call" /\ Top'.sig = Top.sig
      /\ Top'.left = Top.left - 1
  BY <1>1, <1>2, Lengths, CountArgument
<1>8. ctx'[1] = ctx[1]
  BY <1>7, InFunction
<1>9. Len(quads) <= Len(quads') /\ Len(labels') <= Len(quads') + 1
  BY <1>6, Lengths DEF Appends
<1>10. WalkInv'
  BY <1>1, <1>2, <1>5, <1>6, <1>7, <1>8, <1>9, Lengths, KeepsWalk
     DEF Appends, Evaluating, frameVars
<1>11. QED
  BY <1>1, <1>2, <1>3, <1>4, <1>5, <1>6, <1>7, <1>10 DEF m

LEMMA CallEndEffect ==
    ASSUME WalkInv, CallEnd
    PROVE  /\ WalkInv' /\ Appends(2)
           /\ quads'[Len(quads) + 2] = PopArgs(Len(Top.sig.ptypes))
           /\ \/ /\ Fr!AddTemp
                 /\ quads'[Len(quads) + 1] = Quad("CallResult", Temp(0), Nothing, Top.callee)
                 /\ \E type : Takes(0, Result(Temp(0), type))
              \/ /\ UNCHANGED frameVars
                 /\ quads'[Len(quads) + 1] = Quad("CallNil", Nothing, Nothing, Top.callee)
                 /\ Takes(0, NilResult)
           /\ Len(ctx) >= 2 /\ Len(ctx') = Len(ctx) - 1
           /\ \A i \in 1 .. Len(ctx) - 1 : ctx'[i] = ctx[i]
           /\ Top.kind = "call" /\ Top = ctx[Len(ctx)] /\ Top.left = 0
           /\ Top' = ctx[Len(ctx) - 1] /\ Top \in Opens
<1> DEFINE pop == PopArgs(Len(Top.sig.ptypes))
           res == Quad("CallResult", Temp(0), Nothing, Top.callee)
           nil == Quad("CallNil", Nothing, Nothing, Top.callee)
<1>1. /\ Top.kind = "call" /\ Top.left = 0
      /\ \/ /\ Fr!AddTemp /\ Emit(<<res, pop>>)
            /\ vals' = Append(vals, Result(Temp(0), Top.sig.rtype))
         \/ /\ UNCHANGED frameVars /\ Emit(<<nil, pop>>)
            /\ vals' = Append(vals, NilResult)
      /\ ctx' = Popped
      /\ UNCHANGED <<labels, lcount, fun, types, globals>>
  BY DEF CallEnd
<1> HIDE DEF pop, res, nil
<1>2. /\ ctx # <<>> /\ Top = ctx[Len(ctx)] /\ Top \in Opens /\ Len(ctx) >= 2
      /\ Len(ctx) \in Nat
  BY <1>1, InFunction
<1>3. /\ Nesting' /\ ctx' # <<>> /\ Len(ctx') = Len(ctx) - 1
      /\ Top' = ctx[Len(ctx) - 1]
      /\ \A i \in 1 .. Len(ctx) - 1 : ctx'[i] = ctx[i]
  BY <1>1, <1>2, Lengths, Pop
<1>4. /\ Appends(2) /\ quads'[Len(quads) + 2] = pop
      /\ \/ /\ Fr!AddTemp /\ quads'[Len(quads) + 1] = res
            /\ Takes(0, Result(Temp(0), Top.sig.rtype))
         \/ /\ UNCHANGED frameVars /\ quads'[Len(quads) + 1] = nil
            /\ Takes(0, NilResult)
  BY <1>1, TwoQuads, AppendTakes
<1>5. Top'.kind \in Evaluating
  BY <1>1, <1>2, <1>3, Lengths DEF Nesting
<1>6. cur' = cur
  BY <1>1, SameFunction
<1>7. Len(quads) <= Len(quads') /\ Len(labels') <= Len(quads') + 1
  BY <1>4, Lengths DEF Appends
<1>8. ctx'[1] = ctx[1]
  BY <1>2, <1>3
<1>9. WalkInv'
  BY <1>1, <1>2, <1>3, <1>4, <1>5, <1>6, <1>7, <1>8, Lengths, KeepsWalk DEF Appends, Takes
<1>10. QED
  BY <1>1, <1>2, <1>3, <1>4, <1>9 DEF pop, res, nil

-----------------------------------------------------------------------------
(* Statements *)

LEMMA StatementKeepsWalk ==
    ASSUME WalkInv, StatementEnd, NEW n, Appends(n),
           ctx' = ctx, cur' = cur, fun' = fun, globals' = globals, lcount' = lcount
    PROVE  WalkInv' /\ vals' = <<>> /\ Len(vals) = 1 /\ Len(vals') = 0
<1>1. InExpression /\ vals' = <<>> /\ Len(vals) = 1
  BY DEF StatementEnd, InExpression
<1>2. IsSeq(vals') /\ Len(vals') = 0
  BY <1>1, Tuples
<1>3. QED
  BY <1>1, <1>2, ExpressionKeepsWalk

LEMMA PrintEffect ==
    ASSUME WalkInv, PrintStmt
    PROVE  LET push == Quad("PushArg", Nothing, Nothing, Last.temp)
           IN  /\ WalkInv' /\ vals' = <<>> /\ Len(vals) = 1
               /\ UNCHANGED <<frameVars, labels, ctx, errors>>
               /\ quads'[Len(quads) + 1] = push
               /\ \/ Appends(2) /\ quads'[Len(quads) + 2] = PopArgs(1)
                  \/ /\ Appends(3) /\ quads'[Len(quads) + 3] = PopArgs(1)
                     /\ \E f : quads'[Len(quads) + 2] = Quad("CallNil", Nothing, Nothing, f)
<1> DEFINE push == Quad("PushArg", Nothing, Nothing, Last.temp)
           call(f) == Quad("CallNil", Nothing, Nothing, f)
           pop == PopArgs(1)
<1>1. \/ Emit(<<push, pop>>)
      \/ \E f : Emit(<<push, call(f), pop>>)
  BY Lengths, EmitsPrint
<1>2. /\ StatementEnd
      /\ UNCHANGED <<frameVars, labels, lcount, ctx, fun, globals, errors>>
  BY DEF PrintStmt
<1>3. cur' = cur
  BY <1>2 DEF frameVars
<1> HIDE DEF push, call, pop
<1>4. CASE Emit(<<push, pop>>)
  <2>1. /\ Appends(2) /\ quads'[Len(quads) + 1] = push /\ quads'[Len(quads) + 2] = pop
    BY <1>2, <1>4, TwoQuads
  <2>2. QED
    BY <1>2, <1>3, <2>1, StatementKeepsWalk DEF push, pop
<1>5. ASSUME NEW f, Emit(<<push, call(f), pop>>) PROVE
        /\ Appends(3) /\ quads'[Len(quads) + 1] = push
        /\ quads'[Len(quads) + 2] = call(f) /\ quads'[Len(quads) + 3] = pop
  BY <1>2, <1>5, ThreeQuads
<1>6. CASE \E f : Emit(<<push, call(f), pop>>)
  <2>1. PICK f : Emit(<<push, call(f), pop>>)
    BY <1>6
  <2>2. QED
    BY <1>2, <1>3, <1>5, <2>1, StatementKeepsWalk DEF push, pop, call
<1>7. QED
  BY <1>1, <1>4, <1>6

LEMMA ExprStmtEffect ==
    ASSUME WalkInv, ExprStmt
    PROVE  /\ WalkInv' /\ vals' = <<>> /\ Len(vals) = 1 /\ Appends(0)
           /\ UNCHANGED <<frameVars, ctx, errors, quads>>
<1>1. /\ StatementEnd
      /\ UNCHANGED <<frameVars, quads, labels, lcount, ctx, fun, globals, errors>>
  BY DEF ExprStmt
<1>2. Appends(0) /\ cur' = cur
  BY <1>1, NoQuads DEF frameVars
<1>3. QED
  BY <1>1, <1>2, StatementKeepsWalk

LEMMA ReturnEffect ==
    ASSUME WalkInv, Return
    PROVE  /\ WalkInv' /\ vals' = <<>> /\ Len(vals) = 1 /\ Appends(1)
           /\ UNCHANGED <<frameVars, ctx>> /\ (errors => errors')
           /\ quads'[Len(quads) + 1] = Quad("Return", Nothing, Nothing, Last.temp)
<1>1. /\ StatementEnd /\ Emit(<<Quad("Return", Nothing, Nothing, Last.temp)>>)
      /\ UNCHANGED <<frameVars, labels, lcount, ctx, fun, globals>>
      /\ (errors => errors')
  BY DEF Return, Fail
<1>2. /\ Appends(1) /\ cur' = cur
      /\ quads'[Len(quads) + 1] = Quad("Return", Nothing, Nothing, Last.temp)
  BY <1>1, OneQuad DEF frameVars
<1>3. QED
  BY <1>1, <1>2, StatementKeepsWalk

LEMMA DeclEffect ==
    ASSUME WalkInv, NEW x \in Idents, NEW type, DeclSym(x, type)
    PROVE  /\ WalkInv' /\ vals' = <<>> /\ Len(vals) = 1 /\ ctx' = ctx
           /\ errors => errors'
           /\ \/ /\ Appends(1) /\ Fr!AddLocal(x)
                 /\ quads'[Len(quads) + 1] =
                        Quad("Assign", Fr!TacName(temps, x), Last.temp, Nothing)
              \/ Appends(0) /\ Fr!AddLocalAborts(x)
<1> DEFINE q == Quad("Assign", Fr!TacName(temps, x), Last.temp, Nothing)
<1>1. /\ StatementEnd /\ (errors => errors')
      /\ UNCHANGED <<labels, lcount, ctx, fun, globals>>
      /\ \/ Fr!AddLocal(x) /\ Emit(<<q>>)
         \/ Fr!AddLocalAborts(x) /\ UNCHANGED quads
  BY DEF DeclSym
<1> HIDE DEF q
<1>2. cur' = cur
  BY <1>1, SameFunction
<1>3. CASE Fr!AddLocal(x) /\ Emit(<<q>>)
  <2>1. Appends(1) /\ quads'[Len(quads) + 1] = q
    BY <1>1, <1>3, OneQuad
  <2>2. QED
    BY <1>1, <1>2, <1>3, <2>1, StatementKeepsWalk DEF q
<1>4. CASE Fr!AddLocalAborts(x) /\ UNCHANGED quads
  <2>1. Appends(0)
    BY <1>1, <1>4, NoQuads
  <2>2. QED
    BY <1>1, <1>2, <1>4, <2>1, StatementKeepsWalk
<1>5. QED
  BY <1>1, <1>3, <1>4

-----------------------------------------------------------------------------
(* Control structures *)

\* One quad q, and the label l behind it.
Jumps(q, l) ==
    /\ IsSeq(quads') /\ Len(quads') = Len(quads) + 1
    /\ quads'[Len(quads) + 1] = q
    /\ \A i \in 1 .. Len(quads) : quads'[i] = quads[i]
    /\ IsSeq(labels') /\ Len(labels') = Len(quads) + 2
    /\ LabelIn(labels', Len(quads) + 2) = l
    /\ \A k \in 1 .. Len(quads) + 1 : LabelIn(labels', k) = LabelIn(labels, k)

LEMMA JumpsTo ==
    ASSUME WalkInv, NEW q, NEW l, Emit(<<q>>),
           labels' = WithLabel(labels, Len(quads) + 1, l)
    PROVE  Jumps(q, l)
<1> DEFINE n == Len(quads) + 1
<1>1. n \in Nat /\ n + 1 = Len(quads) + 2 /\ labels' = WithLabel(labels, n, l)
  BY Lengths
<1> HIDE DEF n
<1>2. /\ Len(labels') = n + 1 /\ IsSeq(labels') /\ LabelIn(labels', n + 1) = l
      /\ \A k \in 1 .. n : LabelIn(labels', k) = LabelIn(labels, k)
  BY <1>1, Lengths, WithLabelAt
<1>3. /\ IsSeq(quads') /\ Len(quads') = Len(quads) + 1
      /\ quads'[Len(quads) + 1] = q
      /\ \A i \in 1 .. Len(quads) : quads'[i] = quads[i]
  BY Lengths, Emits1
<1>4. QED
  BY <1>1, <1>2, <1>3 DEF Jumps, n

LEMMA OpenIsOpens ==
    ASSUME NEW kind \in Kinds, NEW l1 \in Nat \cup {Nothing}, NEW l2 \in Nat \cup {Nothing}
    PROVE  LET e == Open(kind, l1, l2)
           IN  /\ e \in Opens /\ e.kind = kind /\ e.l1 = l1 /\ e.l2 = l2
               /\ e.left = 0 /\ e.sig = NoFun
BY DEF Open, Opens, Signatures

\* A step of a control structure: a quad with a label behind it, or a label.
LEMMA ControlKeepsWalk ==
    ASSUME WalkInv, NEW q, NEW l, Jumps(q, l), ctx # <<>>, Nesting', ctx' # <<>>,
           ctx'[1].left = ctx[1].left, UNCHANGED frameVars, fun' = fun,
           globals' = globals, lcount' \in Nat, vals' = <<>>
    PROVE  WalkInv' /\ Len(vals') = 0
<1>1. /\ Len(quads) <= Len(quads') /\ Len(labels') <= Len(quads') + 1
      /\ IsSeq(vals') /\ Len(vals') = 0
  BY Lengths, Tuples DEF Jumps
<1>2. cur' = cur
  BY DEF frameVars
<1>3. QED
  BY <1>1, <1>2, Lengths, KeepsWalk DEF Jumps

LEMMA IfEffect ==
    ASSUME WalkInv, NEW hasElse \in BOOLEAN, If(hasElse)
    PROVE  LET no == IF hasElse THEN lcount + 2 ELSE lcount + 1
           IN  /\ WalkInv' /\ vals' = <<>> /\ Len(vals) = 1
               /\ Jumps(Quad("CondGoto", Last.temp, no, lcount), lcount)
               /\ UNCHANGED frameVars /\ (errors => errors') /\ Top.kind = "block"
               /\ ctx' = Append(ctx, Open("then", lcount + 1,
                                          IF hasElse THEN lcount + 2 ELSE Nothing))
               /\ Len(ctx') = Len(ctx) + 1 /\ \A i \in 1 .. Len(ctx) : ctx'[i] = ctx[i]
               /\ Top'.kind = "then"
<1> DEFINE no == IF hasElse THEN lcount + 2 ELSE lcount + 1
           q == Quad("CondGoto", Last.temp, no, lcount)
           second == IF hasElse THEN lcount + 2 ELSE Nothing
           first == lcount + 1
           e == Open("then", first, second)
<1>1. /\ StatementEnd /\ (errors => errors') /\ Emit(<<q>>)
      /\ labels' = WithLabel(labels, Len(quads) + 1, lcount)
      /\ lcount' = lcount + (IF hasElse THEN 3 ELSE 2)
      /\ ctx' = Append(ctx, e)
      /\ UNCHANGED <<frameVars, fun, globals>>
  BY DEF If, Fail
<1>2. /\ e \in Opens /\ e.kind = "then"
  <2>1. /\ "then" \in Kinds /\ first \in Nat \cup {Nothing}
        /\ second \in Nat \cup {Nothing}
    BY Lengths DEF Kinds
  <2> HIDE DEF first, second
  <2>2. QED
    BY <2>1, OpenIsOpens
<1>3. lcount' \in Nat
  BY <1>1, Lengths
<1> HIDE DEF q, e
<1>4. Jumps(q, lcount)
  BY <1>1, JumpsTo
<1>5. vals' = <<>> /\ Len(vals) = 1 /\ Top.kind = "block"
  BY <1>1 DEF StatementEnd
<1>6. ctx # <<>> /\ Len(ctx) \in Nat /\ Len(ctx) >= 1
  BY <1>5, InFunction
<1>7. /\ Nesting' /\ ctx' # <<>> /\ Top' = e
      /\ Len(ctx') = Len(ctx) + 1 /\ \A i \in 1 .. Len(ctx) : ctx'[i] = ctx[i]
  BY <1>1, <1>2, <1>5, <1>6, Lengths, Push
<1>8. ctx'[1] = ctx[1]
  BY <1>6, <1>7
<1>9. WalkInv'
  BY <1>1, <1>3, <1>4, <1>5, <1>6, <1>7, <1>8, ControlKeepsWalk
<1>10. QED
  BY <1>1, <1>2, <1>4, <1>5, <1>7, <1>9 DEF q, e

LEMMA ElseEffect ==
    ASSUME WalkInv, Else
    PROVE  /\ WalkInv' /\ vals = <<>> /\ vals' = <<>>
           /\ Jumps(Quad("Goto", Nothing, Nothing, Top.l1), Top.l2)
           /\ UNCHANGED frameVars /\ errors' = errors
           /\ Top.kind = "then" /\ Top.l2 # Nothing
           /\ Len(ctx') = Len(ctx) /\ Len(ctx) >= 2
           /\ \A i \in 1 .. Len(ctx) - 1 : ctx'[i] = ctx[i]
           /\ Top' = Open("else", Top.l1, Nothing) /\ Top'.kind = "else"
<1> DEFINE q == Quad("Goto", Nothing, Nothing, Top.l1)
           e == Open("else", Top.l1, Nothing)
<1>1. /\ Top.kind = "then" /\ Top.l2 # Nothing /\ Emit(<<q>>)
      /\ labels' = WithLabel(labels, Len(quads) + 1, Top.l2)
      /\ ctx' = Append(Popped, e)
      /\ UNCHANGED <<frameVars, lcount, vals, fun, globals, errors>>
  BY DEF Else
<1>2. /\ ctx # <<>> /\ Len(ctx) \in Nat /\ Len(ctx) >= 2 /\ Top \in Opens
  BY <1>1, InFunction
<1>3. e \in Opens /\ e.kind = "else"
  <2>1. /\ "else" \in Kinds /\ Top.l1 \in Nat \cup {Nothing}
        /\ Nothing \in Nat \cup {Nothing}
    BY <1>2 DEF Opens, Kinds
  <2>2. QED
    BY <2>1, OpenIsOpens
<1>4. vals = <<>>
  BY <1>1 DEF WalkInv, Evaluating
<1> HIDE DEF q, e
<1>5. Jumps(q, Top.l2)
  BY <1>1, JumpsTo
<1>6. /\ Nesting' /\ ctx' # <<>> /\ Top' = e
      /\ Len(ctx') = Len(ctx) /\ \A i \in 1 .. Len(ctx) - 1 : ctx'[i] = ctx[i]
  BY <1>1, <1>2, <1>3, Lengths, Swap
<1>7. ctx'[1] = ctx[1] /\ lcount' \in Nat
  BY <1>1, <1>2, <1>6, Lengths
<1>8. WalkInv'
  BY <1>1, <1>2, <1>4, <1>5, <1>6, <1>7, ControlKeepsWalk
<1>9. QED
  BY <1>1, <1>2, <1>3, <1>4, <1>5, <1>6, <1>8 DEF q, e

LEMMA IfEndEffect ==
    ASSUME WalkInv, IfEnd
    PROVE  /\ WalkInv' /\ vals = <<>> /\ vals' = <<>>
           /\ UNCHANGED frameVars /\ errors' = errors
           /\ \/ /\ Top.kind = "then" /\ Top.l2 = Nothing /\ quads' = quads
                 /\ IsSeq(labels') /\ Len(labels') = Len(quads) + 1
                 /\ LabelIn(labels', Len(quads) + 1) = Top.l1
                 /\ \A k \in 1 .. Len(quads) : LabelIn(labels', k) = LabelIn(labels, k)
              \/ /\ Top.kind = "else"
                 /\ Jumps(Quad("Goto", Nothing, Nothing, Top.l1), Top.l1)
           /\ Len(ctx') = Len(ctx) - 1 /\ Len(ctx) >= 2
           /\ \A i \in 1 .. Len(ctx) - 1 : ctx'[i] = ctx[i]
<1> DEFINE q == Quad("Goto", Nothing, Nothing, Top.l1)
<1>1. /\ \/ /\ Top.kind = "then" /\ Top.l2 = Nothing /\ quads' = quads
            /\ labels' = WithLabel(labels, Len(quads), Top.l1)
         \/ /\ Top.kind = "else" /\ Emit(<<q>>)
            /\ labels' = WithLabel(labels, Len(quads) + 1, Top.l1)
      /\ ctx' = Popped
      /\ UNCHANGED <<frameVars, lcount, vals, fun, globals, errors>>
  BY DEF IfEnd
<1> HIDE DEF q
<1>2. /\ ctx # <<>> /\ Len(ctx) \in Nat /\ Len(ctx) >= 2 /\ vals = <<>>
      /\ Top = ctx[Len(ctx)]
  BY <1>1, InFunction DEF WalkInv, Evaluating
<1>3. /\ Nesting' /\ ctx' # <<>> /\ Len(ctx') = Len(ctx) - 1
      /\ Top' = ctx[Len(ctx) - 1] /\ \A i \in 1 .. Len(ctx) - 1 : ctx'[i] = ctx[i]
  BY <1>1, <1>2, Lengths, Pop
<1>4. ctx'[1].left = ctx[1].left /\ lcount' \in Nat /\ vals' = <<>> /\ cur' = cur
  BY <1>1, <1>2, <1>3, Lengths DEF frameVars
<1>5. CASE /\ Top.kind = "then" /\ Top.l2 = Nothing /\ quads' = quads
           /\ labels' = WithLabel(labels, Len(quads), Top.l1)
  <2>1. /\ Len(labels') = Len(quads) + 1 /\ IsSeq(labels')
        /\ LabelIn(labels', Len(quads) + 1) = Top.l1
        /\ \A k \in 1 .. Len(quads) : LabelIn(labels', k) = LabelIn(labels, k)
    BY <1>5, Lengths, WithLabelAt
  <2>2. IsSeq(vals') /\ Len(labels') <= Len(quads') + 1 /\ IsSeq(quads')
        /\ Len(quads) <= Len(quads') /\ \A i \in 1 .. Len(quads) : quads'[i] = quads[i]
    BY <1>4, <1>5, <2>1, Lengths, Tuples
  <2>3. WalkInv'
    BY <1>1, <1>2, <1>3, <1>4, <2>1, <2>2, KeepsWalk
  <2>4. QED
    BY <1>1, <1>2, <1>3, <1>4, <1>5, <2>1, <2>3
<1>6. CASE /\ Top.kind = "else" /\ Emit(<<q>>)
           /\ labels' = WithLabel(labels, Len(quads) + 1, Top.l1)
  <2>1. Jumps(q, Top.l1)
    BY <1>6, JumpsTo
  <2>2. WalkInv'
    BY <1>1, <1>2, <1>3, <1>4, <2>1, ControlKeepsWalk
  <2>3. QED
    BY <1>1, <1>2, <1>3, <1>4, <1>6, <2>1, <2>2 DEF q
<1>7. QED
  BY <1>1, <1>5, <1>6

LEMMA WhileEffect ==
    ASSUME WalkInv, While
    PROVE  /\ WalkInv' /\ vals = <<>> /\ vals' = <<>>
           /\ Jumps(Quad("Goto", Nothing, Nothing, lcount), lcount)
           /\ UNCHANGED frameVars /\ errors' = errors /\ Top.kind = "block"
           /\ Len(ctx') = Len(ctx) + 1 /\ \A i \in 1 .. Len(ctx) : ctx'[i] = ctx[i]
           /\ Top' = Open("cond", lcount, Nothing) /\ Top'.kind = "cond"
<1> DEFINE q == Quad("Goto", Nothing, Nothing, lcount)
           cond == lcount
           e == Open("cond", cond, Nothing)
<1>1. /\ AtStatement /\ Emit(<<q>>) /\ ctx' = Append(ctx, e)
      /\ labels' = WithLabel(labels, Len(quads) + 1, lcount)
      /\ lcount' = lcount + 1
      /\ UNCHANGED <<frameVars, vals, fun, globals, errors>>
  BY DEF While
<1>2. e \in Opens /\ e.kind = "cond"
  <2>1. "cond" \in Kinds /\ cond \in Nat \cup {Nothing} /\ Nothing \in Nat \cup {Nothing}
    BY Lengths DEF Kinds
  <2> HIDE DEF cond
  <2>2. QED
    BY <2>1, OpenIsOpens, ZenonT(60)
<1> HIDE DEF q, e
<1>3. vals = <<>> /\ Top.kind = "block"
  BY <1>1 DEF AtStatement
<1>4. ctx # <<>> /\ Len(ctx) \in Nat /\ Len(ctx) >= 1
  BY <1>3, InFunction
<1>5. Jumps(q, lcount)
  BY <1>1, JumpsTo
<1>6. /\ Nesting' /\ ctx' # <<>> /\ Top' = e
      /\ Len(ctx') = Len(ctx) + 1 /\ \A i \in 1 .. Len(ctx) : ctx'[i] = ctx[i]
  BY <1>1, <1>2, <1>3, <1>4, Lengths, Push
<1>7. ctx'[1] = ctx[1] /\ lcount' \in Nat
  BY <1>1, <1>4, <1>6, Lengths
<1>8. WalkInv'
  BY <1>1, <1>3, <1>4, <1>5, <1>6, <1>7, ControlKeepsWalk
<1>9. QED
  BY <1>1, <1>2, <1>3, <1>5, <1>6, <1>8 DEF q, e

LEMMA WhileBodyEffect ==
    ASSUME WalkInv, WhileBody
    PROVE  /\ WalkInv' /\ vals' = <<>> /\ Len(vals) = 1
           /\ Jumps(Quad("CondGoto", Last.temp, lcount + 1, lcount), lcount)
           /\ UNCHANGED frameVars /\ (errors => errors') /\ Top.kind = "cond"
           /\ Len(ctx') = Len(ctx) /\ Len(ctx) >= 2
           /\ \A i \in 1 .. Len(ctx) - 1 : ctx'[i] = ctx[i]
           /\ Top' = Open("body", Top.l1, lcount + 1) /\ Top'.kind = "body"
<1> DEFINE end == lcount + 1
           q == Quad("CondGoto", Last.temp, end, lcount)
           e == Open("body", Top.l1, end)
<1>1. /\ Top.kind = "cond" /\ Len(vals) = 1 /\ vals' = <<>>
      /\ (errors => errors') /\ Emit(<<q>>) /\ ctx' = Append(Popped, e)
      /\ labels' = WithLabel(labels, Len(quads) + 1, lcount)
      /\ lcount' = lcount + 2
      /\ UNCHANGED <<frameVars, fun, globals>>
  BY DEF WhileBody, Fail
<1>2. /\ ctx # <<>> /\ Len(ctx) \in Nat /\ Len(ctx) >= 2 /\ Top \in Opens
      /\ Top = ctx[Len(ctx)]
  BY <1>1, InFunction
<1>3. e \in Opens /\ e.kind = "body"
  <2>1. "body" \in Kinds /\ end \in Nat \cup {Nothing} /\ Top.l1 \in Nat \cup {Nothing}
    BY <1>2, Lengths, SMTT(40) DEF Kinds, Opens
  <2> HIDE DEF end
  <2>2. QED
    BY <2>1, OpenIsOpens
<1> HIDE DEF q, e
<1>4. Jumps(q, lcount)
  BY <1>1, JumpsTo
<1>5. /\ Nesting' /\ ctx' # <<>> /\ Top' = e
      /\ Len(ctx') = Len(ctx) /\ \A i \in 1 .. Len(ctx) - 1 : ctx'[i] = ctx[i]
  BY <1>1, <1>2, <1>3, Lengths, Swap
<1>6. ctx'[1] = ctx[1] /\ lcount' \in Nat
  BY <1>1, <1>2, <1>5, Lengths
<1>7. WalkInv'
  BY <1>1, <1>2, <1>4, <1>5, <1>6, ControlKeepsWalk
<1>8. QED
  BY <1>1, <1>2, <1>3, <1>4, <1>5, <1>7 DEF q, e

LEMMA WhileEndEffect ==
    ASSUME WalkInv, WhileEnd
    PROVE  /\ WalkInv' /\ vals = <<>> /\ vals' = <<>>
           /\ Jumps(Quad("Goto", Nothing, Nothing, Top.l1), Top.l2)
           /\ UNCHANGED frameVars /\ errors' = errors /\ Top.kind = "body"
           /\ Len(ctx') = Len(ctx) - 1 /\ Len(ctx) >= 2
           /\ \A i \in 1 .. Len(ctx) - 1 : ctx'[i] = ctx[i]
<1> DEFINE q == Quad("Goto", Nothing, Nothing, Top.l1)
<1>1. /\ Top.kind = "body" /\ Emit(<<q>>) /\ ctx' = Popped
      /\ labels' = WithLabel(labels, Len(quads) + 1, Top.l2)
      /\ UNCHANGED <<frameVars, lcount, vals, fun, globals, errors>>
  BY DEF WhileEnd
<1> HIDE DEF q
<1>2. /\ ctx # <<>> /\ Len(ctx) \in Nat /\ Len(ctx) >= 2 /\ vals = <<>>
      /\ Top = ctx[Len(ctx)]
  BY <1>1, InFunction DEF WalkInv, Evaluating
<1>3. Jumps(q, Top.l2)
  BY <1>1, JumpsTo
<1>4. /\ Nesting' /\ ctx' # <<>> /\ Len(ctx') = Len(ctx) - 1
      /\ \A i \in 1 .. Len(ctx) - 1 : ctx'[i] = ctx[i]
  BY <1>1, <1>2, Lengths, Pop
<1>5. ctx'[1].left = ctx[1].left /\ lcount' \in Nat /\ vals' = <<>>
  BY <1>1, <1>2, <1>4, Lengths
<1>6. WalkInv'
  BY <1>1, <1>2, <1>3, <1>4, <1>5, ControlKeepsWalk
<1>7. QED
  BY <1>1, <1>2, <1>3, <1>4, <1>5, <1>6 DEF q

-----------------------------------------------------------------------------
(* Functions and blocks *)

LEMMA FunDefEffect ==
    ASSUME WalkInv, NEW f \in Funs, NEW sig \in Sigs, FunDef(f, sig)
    PROVE  /\ WalkInv' /\ vals = <<>> /\ vals' = <<>> /\ ctx = <<>> /\ Len(ctx') = 1
           /\ Fr!BeginFun(f, sig.params) /\ fun' = sig
           /\ errors' = (errors \/ f \in DOMAIN globals)
           /\ DOMAIN globals' = DOMAIN globals \cup {f}
           /\ Len(quads') = Len(quads) + 1
           /\ \A i \in 1 .. Len(quads) : quads'[i] = quads[i]
           /\ quads'[Len(quads) + 1] = Quad("FunBegin", Nothing, Nothing, Nothing)
           /\ Len(labels') = Len(quads) + 1 /\ LabelIn(labels', Len(quads) + 1) = f
           /\ \A k \in 1 .. Len(quads) : LabelIn(labels', k) = LabelIn(labels, k)
<1> DEFINE q == Quad("FunBegin", Nothing, Nothing, Nothing)
           e == [Open("fun", Nothing, Nothing) EXCEPT !.left = Len(quads) + 1]
<1>1. /\ ctx = <<>> /\ Fr!BeginFun(f, sig.params) /\ Emit(<<q>>)
      /\ labels' = WithLabel(labels, Len(quads), f) /\ ctx' = <<e>> /\ fun' = sig
      /\ globals' = IF f \in DOMAIN globals THEN globals
                    ELSE [g \in DOMAIN globals \cup {f} |->
                             IF g = f THEN sig ELSE globals[g]]
      /\ errors' = (errors \/ f \in DOMAIN globals)
      /\ UNCHANGED <<lcount, vals>>
  BY DEF FunDef, Fail
<1>2. /\ DOMAIN globals' = DOMAIN globals \cup {f}
      /\ \A h \in DOMAIN globals' : globals'[h] \in Sigs
  BY <1>1, Lengths DEF Compiling
<1>3. Len(quads) + 1 \in Nat /\ Len(quads) \in Nat
  BY Lengths
<1>4. e \in Opens /\ e.kind = "fun" /\ e.left = Len(quads) + 1
  <2> DEFINE n == Len(quads) + 1
             o == Open("fun", Nothing, Nothing)
  <2>1. "fun" \in Kinds /\ Nothing \in Nat \cup {Nothing} /\ n \in Nat
    BY <1>3 DEF Kinds
  <2>2. o \in Opens /\ o.kind = "fun"
    BY <2>1, OpenIsOpens
  <2>3. e = [o EXCEPT !.left = n]
    OBVIOUS
  <2> HIDE DEF n, o, e
  <2>4. e \in Opens /\ e.kind = "fun" /\ e.left = n
    BY <2>1, <2>2, <2>3 DEF Opens
  <2>5. QED
    BY <2>4 DEF n
<1> HIDE DEF q, e
<1>5. /\ IsSeq(quads') /\ Len(quads') = Len(quads) + 1 /\ quads'[Len(quads) + 1] = q
      /\ \A i \in 1 .. Len(quads) : quads'[i] = quads[i]
  BY <1>1, Lengths, Emits1
<1>6. /\ IsSeq(labels') /\ Len(labels') = Len(quads) + 1
      /\ LabelIn(labels', Len(quads) + 1) = f
      /\ \A k \in 1 .. Len(quads) : LabelIn(labels', k) = LabelIn(labels, k)
  <2> DEFINE n == Len(quads)
  <2>1. n \in Nat /\ IsSeq(labels) /\ labels' = WithLabel(labels, n, f)
    BY <1>1, Lengths
  <2> HIDE DEF n
  <2>2. /\ Len(labels') = n + 1 /\ IsSeq(labels') /\ LabelIn(labels', n + 1) = f
        /\ \A k \in 1 .. n : LabelIn(labels', k) = LabelIn(labels, k)
    BY <2>1, WithLabelAt
  <2>3. QED
    BY <2>2 DEF n
<1>7. /\ ctx' \in Seq(Opens) /\ Len(ctx') = 1 /\ ctx'[1] = e /\ ctx' # <<>>
  <2>1. ctx' = <<e>> /\ <<e>> \in Seq(Opens) /\ Len(<<e>>) = 1 /\ <<e>>[1] = e
    BY <1>1, <1>4
  <2>2. QED
    BY <2>1, EmptySeq
<1>8. Nesting' /\ Top' = e
  BY <1>4, <1>7 DEF Nesting, Top
<1>9. cur' = f /\ cur' # Anon
  BY <1>1, FrameAssumption DEF Fr!BeginFun
<1>10. Compiling'
  <2>1. ctx'[1].left \in 1 .. Len(quads')
    BY <1>3, <1>4, <1>5, <1>7
  <2>2. quads'[ctx'[1].left] = q
    BY <1>4, <1>5, <1>7
  <2>3. QED
    BY <1>1, <1>2, <1>7, <1>9, <2>1, <2>2 DEF Compiling, q
<1>11. vals = <<>>
  BY <1>1 DEF Top, Open, Evaluating, WalkInv
<1>12. IsSeq(vals') /\ vals' = <<>> /\ lcount' \in Nat
  BY <1>1, <1>11, Lengths, Tuples
<1>13. WalkInv'
  BY <1>3, <1>5, <1>6, <1>8, <1>10, <1>12 DEF WalkInv, QuadsAreSeq
<1>14. QED
  BY <1>1, <1>2, <1>5, <1>6, <1>7, <1>11, <1>12, <1>13 DEF q

LEMMA FunDefEndEffect ==
    ASSUME WalkInv, FunDefEnd
    PROVE  /\ WalkInv' /\ vals = <<>> /\ vals' = <<>> /\ Len(ctx) = 1 /\ Len(ctx') = 0
           /\ Fr!EndFun /\ errors' = errors /\ labels' = labels /\ globals' = globals
           /\ Top = ctx[1] /\ Top.left \in 1 .. Len(quads)
           /\ quads[Top.left] = Quad("FunBegin", Nothing, Nothing, Nothing)
           /\ Len(quads') = Len(quads) + 1
           /\ quads'[Len(quads) + 1] = Quad("FunEnd", Nothing, Nothing, Nothing)
           /\ quads'[Top.left] = Quad("FunBegin", Nothing, Nothing, Fr!Reservation)
           /\ \A i \in 1 .. Len(quads) : i # Top.left => quads'[i] = quads[i]
<1> DEFINE patched == [quads EXCEPT ![Top.left].opd2 = Fr!Reservation]
           q == Quad("FunEnd", Nothing, Nothing, Nothing)
<1>1. /\ Top.kind = "fun" /\ Fr!EndFun /\ quads' = Append(patched, q) /\ ctx' = <<>>
      /\ fun' = NoFun
      /\ UNCHANGED <<labels, lcount, vals, globals, errors>>
  BY DEF FunDefEnd
<1>2. /\ ctx # <<>> /\ Top = ctx[Len(ctx)] /\ Len(ctx) \in Nat /\ Len(ctx) >= 1
      /\ Top \in Opens
  BY <1>1, InFunction
<1>3. Len(ctx) = 1 /\ Top = ctx[1]
  <2>1. Len(ctx) \in 1 .. Len(ctx)
    BY <1>2
  <2>2. ctx[Len(ctx)].kind = "fun" <=> Len(ctx) = 1
    BY <2>1, Lengths DEF Nesting
  <2>3. QED
    BY <1>1, <1>2, <2>2
<1>4. /\ Top.left \in 1 .. Len(quads)
      /\ quads[Top.left] = Quad("FunBegin", Nothing, Nothing, Nothing)
  BY <1>2, <1>3, Lengths DEF Compiling
<1>5. /\ patched = [i \in 1 .. Len(quads) |-> patched[i]]
      /\ patched[Top.left] = Quad("FunBegin", Nothing, Nothing, Fr!Reservation)
      /\ \A i \in 1 .. Len(quads) : i # Top.left => patched[i] = quads[i]
  <2>1. patched[Top.left] = [quads[Top.left] EXCEPT !.opd2 = Fr!Reservation]
    BY <1>4, Lengths
  <2>2. patched[Top.left] = Quad("FunBegin", Nothing, Nothing, Fr!Reservation)
    BY <1>4, <2>1 DEF Quad
  <2>3. QED
    BY <1>4, <2>2, Lengths
<1> HIDE DEF patched, q
<1>6. IsSeq(patched) /\ Len(patched) = Len(quads)
  BY <1>5, Lengths, FunctionIsSeq
<1>7. /\ IsSeq(quads') /\ Len(quads') = Len(quads) + 1 /\ quads'[Len(quads) + 1] = q
      /\ \A i \in 1 .. Len(quads) : quads'[i] = patched[i]
  BY <1>1, <1>6, AppendTo
<1>8. vals = <<>> /\ vals' = <<>> /\ IsSeq(vals')
  BY <1>1, Tuples DEF WalkInv, Evaluating
<1>9. Nesting' /\ Len(ctx') = 0
  <2>1. ctx' = <<>> /\ <<>> \in Seq(Opens) /\ Len(<<>>) = 0
    BY <1>1, EmptySeq
  <2>2. QED
    BY <2>1 DEF Nesting
<1>10. Compiling'
  BY <1>1, Lengths DEF Compiling, Fr!EndFun
<1>11. IsSeq(labels') /\ Len(labels') <= Len(quads') + 1
  BY <1>1, <1>7, Lengths
<1>12. WalkInv'
  BY <1>1, <1>7, <1>8, <1>9, <1>10, <1>11, Lengths DEF WalkInv, QuadsAreSeq
<1>13. QED
  BY <1>1, <1>3, <1>4, <1>5, <1>7, <1>8, <1>9, <1>12 DEF q

LEMMA OpenBlockEffect ==
    ASSUME WalkInv, OpenBlock, ctx # <<>>, Top.kind # "call"
    PROVE  /\ WalkInv' /\ Appends(0) /\ vals' = vals /\ errors' = errors
           /\ Fr!BeginScope /\ Top'.kind = "block"
           /\ Len(ctx') = Len(ctx) + 1 /\ \A i \in 1 .. Len(ctx) : ctx'[i] = ctx[i]
<1> DEFINE e == Open("block", Nothing, Nothing)
<1>1. /\ Fr!BeginScope /\ ctx' = Append(ctx, e)
      /\ UNCHANGED <<quads, labels, lcount, vals, fun, globals, errors>>
  BY DEF OpenBlock
<1>2. e \in Opens /\ e.kind = "block"
  <2>1. "block" \in Kinds /\ Nothing \in Nat \cup {Nothing}
    BY DEF Kinds
  <2>2. QED
    BY <2>1, OpenIsOpens
<1> HIDE DEF e
<1>3. /\ Nesting' /\ ctx' # <<>> /\ Top' = e
      /\ Len(ctx') = Len(ctx) + 1 /\ \A i \in 1 .. Len(ctx) : ctx'[i] = ctx[i]
  BY <1>1, <1>2, Lengths, Push
<1>4. Appends(0) /\ cur' = cur
  BY <1>1, NoQuads, SameFunction
<1>5. ctx'[1] = ctx[1]
  BY <1>3, Lengths, TopFacts
<1>6. WalkInv'
  BY <1>1, <1>2, <1>3, <1>4, <1>5, Lengths, KeepsWalk DEF Appends, Evaluating
<1>7. QED
  BY <1>1, <1>2, <1>3, <1>4, <1>6

LEMMA BlockEffect ==
    ASSUME WalkInv, BodyBegin \/ BlockBegin
    PROVE  /\ WalkInv' /\ Appends(0) /\ vals' = vals /\ vals = <<>> /\ errors' = errors
           /\ Fr!BeginScope /\ Top.kind # "call" /\ Top'.kind = "block"
           /\ Len(ctx') = Len(ctx) + 1 /\ \A i \in 1 .. Len(ctx) : ctx'[i] = ctx[i]
<1>1. /\ OpenBlock /\ Top.kind \in {"fun", "then", "else", "body", "block"} /\ vals = <<>>
  BY DEF BodyBegin, BlockBegin, AtStatement, WalkInv, Evaluating
<1>2. ctx # <<>>
  BY <1>1, InFunction
<1>3. QED
  BY <1>1, <1>2, OpenBlockEffect

LEMMA BlockEndEffect ==
    ASSUME WalkInv, BlockEnd
    PROVE  /\ WalkInv' /\ Appends(0) /\ vals = <<>> /\ vals' = <<>> /\ errors' = errors
           /\ Fr!EndScope /\ Len(ctx) >= 2 /\ Len(ctx') = Len(ctx) - 1
           /\ \A i \in 1 .. Len(ctx) - 1 :
                 /\ ctx'[i].kind = ctx[i].kind /\ ctx'[i].left = ctx[i].left
                 /\ ctx'[i].sig = ctx[i].sig
<1>1. /\ AtStatement /\ Fr!EndScope
      /\ ctx' = [i \in 1 .. Len(ctx) - 1 |->
                  [ctx[i] EXCEPT !.done = @ \/ i = Len(ctx) - 1]]
      /\ UNCHANGED <<quads, labels, lcount, vals, fun, globals, errors>>
  BY DEF BlockEnd
<1>2. Top.kind = "block" /\ vals = <<>>
  BY <1>1 DEF AtStatement
<1>3. ctx # <<>> /\ Len(ctx) \in Nat
  BY <1>2, InFunction
<1>4. /\ Nesting' /\ ctx' # <<>> /\ Len(ctx') = Len(ctx) - 1 /\ Len(ctx) >= 2
      /\ \A i \in 1 .. Len(ctx) - 1 :
            /\ ctx'[i].kind = ctx[i].kind /\ ctx'[i].left = ctx[i].left
            /\ ctx'[i].sig = ctx[i].sig
  BY <1>1, <1>2, <1>3, Lengths, CloseBlock
<1>5. Appends(0) /\ cur' = cur /\ vals' = <<>>
  BY <1>1, <1>2, NoQuads, SameFunction
<1>6. ctx'[1].left = ctx[1].left
  BY <1>3, <1>4
<1>7. WalkInv'
  BY <1>1, <1>3, <1>4, <1>5, <1>6, Lengths, KeepsWalk DEF Appends
<1>8. QED
  BY <1>1, <1>2, <1>4, <1>5, <1>7

LEMMA FinishEffect ==
    ASSUME WalkInv, Finish
    PROVE  /\ WalkInv' /\ vals = <<>> /\ vals' = <<>> /\ ctx = <<>> /\ ctx' = <<>>
           /\ quads' = quads /\ errors' = errors /\ UNCHANGED frameVars
           /\ globals' = globals
           /\ \A k \in 1 .. Len(quads) :
                 \/ LabelIn(labels', k) = LabelIn(labels, k)
                 \/ /\ k >= 2 /\ quads[k - 1].op = "Return" /\ quads[k].op # "FunEnd"
                    /\ LabelIn(labels, k) = Nothing /\ LabelIn(labels', k) \in Nat
<1> DEFINE L == Resized(labels, Len(quads))
           P == AfterReturn(quads, L)
<1>1. /\ ctx = <<>> /\ labels' = InsertReturnLabels(quads, L, lcount)
      /\ lcount' = lcount + Cardinality(P)
      /\ UNCHANGED <<frameVars, quads, vals, ctx, fun, globals, errors>>
  BY DEF Finish
<1>2. L = [i \in 1 .. Len(quads) |-> L[i]]
  BY DEF Resized
<1>3. Len(L) = Len(quads) /\ DOMAIN L = 1 .. Len(quads)
  BY <1>2, Lengths, FunctionIsSeq
<1>4. \A k \in 1 .. Len(quads) : L[k] = LabelIn(labels, k)
  BY Lengths DEF Resized, LabelIn
<1>5. P = {k \in 2 .. Len(quads) : /\ quads[k - 1].op = "Return"
                                   /\ quads[k].op # "FunEnd" /\ L[k] = Nothing}
  BY DEF AfterReturn
<1>6. \A S \in SUBSET P : Cardinality(S) \in Nat
  <2>1. SUFFICES ASSUME NEW S \in SUBSET P PROVE Cardinality(S) \in Nat
    OBVIOUS
  <2>2. IsFiniteSet(2 .. Len(quads))
    BY Lengths, FS_Interval
  <2>3. S \subseteq 2 .. Len(quads)
    BY <1>5
  <2>4. QED
    BY <2>2, <2>3, FS_Subset, FS_CardinalityType
<1> HIDE DEF L
<1>7. labels' = [i \in 1 .. Len(quads) |->
                    IF i \in P THEN lcount + Cardinality({j \in P : j < i}) ELSE L[i]]
  BY <1>1, <1>3 DEF InsertReturnLabels
<1> HIDE DEF P
<1>8. IsSeq(labels') /\ Len(labels') = Len(quads)
  <2>1. labels' = [i \in 1 .. Len(quads) |-> labels'[i]]
    BY <1>7
  <2>2. QED
    BY <2>1, Lengths, FunctionIsSeq
<1>9. ASSUME NEW k \in 1 .. Len(quads)
      PROVE  \/ LabelIn(labels', k) = LabelIn(labels, k)
             \/ /\ k >= 2 /\ quads[k - 1].op = "Return" /\ quads[k].op # "FunEnd"
                /\ LabelIn(labels, k) = Nothing /\ LabelIn(labels', k) \in Nat
  <2>1. k \in DOMAIN labels'
    BY <1>7
  <2>2. LabelIn(labels', k) =
            IF k \in P THEN lcount + Cardinality({j \in P : j < k}) ELSE L[k]
    BY <1>7, <2>1 DEF LabelIn
  <2>3. CASE k \in P
    <3>1. Cardinality({j \in P : j < k}) \in Nat
      BY <1>6
    <3>2. LabelIn(labels', k) \in Nat
      BY <2>2, <2>3, <3>1, Lengths
    <3>3. QED
      BY <1>4, <1>5, <2>3, <3>2
  <2>4. CASE k \notin P
    BY <1>4, <2>2, <2>4
  <2>5. QED
    BY <2>3, <2>4
<1>10. lcount' \in Nat /\ vals = <<>>
  BY <1>1, <1>6, Lengths DEF Top, Open, Evaluating, WalkInv
<1>11. WalkInv'
  <2>1. Nesting' /\ Compiling' /\ cur' = cur
    BY <1>1, Lengths DEF Nesting, Compiling, frameVars
  <2>2. QED
    BY <1>1, <1>8, <1>10, <2>1, Lengths DEF WalkInv, QuadsAreSeq
<1>12. QED
  BY <1>1, <1>9, <1>10, <1>11

\* A step that leaves everything the walk's shape is about alone.
LEMMA QuietKeepsWalk ==
    ASSUME WalkInv,
           UNCHANGED <<cur, quads, labels, lcount, vals, ctx, fun, globals>>
    PROVE  WalkInv'
<1>1. Nesting' /\ Compiling' /\ Top' = Top
  BY Lengths DEF Nesting, Compiling, Top
<1>2. QED
  BY <1>1 DEF WalkInv, QuadsAreSeq

LEMMA WalkNext == WalkInv /\ [Next]_vars => WalkInv'
<1> SUFFICES ASSUME WalkInv, [Next]_vars PROVE WalkInv'
  OBVIOUS
<1>2. CASE Import \/ (\E m \in Idents : SetSymParam(m)) \/ UNCHANGED vars
  BY <1>2, QuietKeepsWalk DEF Import, SetSymParam, vars, frameVars
<1>3. CASE Finish
  BY <1>3, FinishEffect
<1>4. ASSUME NEW f \in Funs, NEW sig \in Sigs, FunDef(f, sig) PROVE WalkInv'
  BY <1>4, FunDefEffect
<1>5. CASE FunDefEnd
  BY <1>5, FunDefEndEffect
<1>6. CASE BodyBegin \/ BlockBegin
  BY <1>6, BlockEffect
<1>7. CASE BlockEnd
  BY <1>7, BlockEndEffect
<1>8. ASSUME NEW r, InExpression, vals' = Append(vals, r),
             UNCHANGED <<frameVars, quads, labels, lcount, ctx, fun, types, globals>>
      PROVE  WalkInv'
  BY <1>8, LeafEffect
<1>9. CASE \/ \E type : Literal(type)
           \/ \E m \in Idents : GetSym(m) \/ SetSymUndeclared(m)
           \/ \E f \in Funs, n \in 0 .. MaxParams : CallRejected(f, n)
  BY <1>8, <1>9 DEF Literal, GetSym, SetSymUndeclared, CallRejected
<1>10. ASSUME NEW m \in Idents, SetSym(m) PROVE WalkInv'
  BY <1>10, SetSymEffect
<1>11. ASSUME NEW op \in BinOps, Binary(op) PROVE WalkInv'
  BY <1>11, BinaryEffect
<1>12. CASE Unary
  BY <1>12, UnaryEffect
<1>13. ASSUME NEW f \in Funs, Call(f) PROVE WalkInv'
  BY <1>13, CallEffect
<1>14. CASE CallArg
  BY <1>14, CallArgEffect
<1>15. CASE CallEnd
  BY <1>15, CallEndEffect
<1>16. CASE PrintStmt
  BY <1>16, PrintEffect
<1>17. CASE ExprStmt
  BY <1>17, ExprStmtEffect
<1>18. CASE Return
  BY <1>18, ReturnEffect
<1>19. ASSUME NEW x \in Idents, NEW type, DeclSym(x, type) PROVE WalkInv'
  BY <1>19, DeclEffect
<1>20. CASE If(FALSE) \/ If(TRUE)
  BY <1>20, IfEffect
<1>21. CASE Else
  BY <1>21, ElseEffect
<1>22. CASE IfEnd
  BY <1>22, IfEndEffect
<1>23. CASE While
  BY <1>23, WhileEffect
<1>24. CASE WhileBody
  BY <1>24, WhileBodyEffect
<1>25. CASE WhileEnd
  BY <1>25, WhileEndEffect
<1>26. QED
  BY <1>2, <1>3, <1>4, <1>5, <1>6, <1>7, <1>9, <1>10, <1>11, <1>12, <1>13, <1>14,
     <1>15, <1>16, <1>17, <1>18, <1>19, <1>20, <1>21, <1>22, <1>23, <1>24, <1>25 DEF Next

LEMMA WalkInductive == Spec => []WalkInv
BY InitWalk, WalkNext, PTL DEF Spec

-----------------------------------------------------------------------------
(***************************************************************************)
(* What the frame says of names, carried over from FrameProofs: every name *)
(* of a visible symbol was made before, and is found again by its source   *)
(* name; a table has locals under the names of quads and parameters under  *)
(* their own.                                                              *)
(***************************************************************************)
FrameInv ==
    /\ temps \in 0 .. MaxTemps
    /\ cur = Anon => depth = 0
    /\ \A s \in live : /\ Made(s.tac) /\ s.level \in 1 .. depth
                       /\ s.key = IF s.tac[2] = Anon THEN s.tac ELSE s.tac[2]
    /\ \A e \in frame : IF e.off < 0 THEN Made(e.key) ELSE e.key \in Idents
    /\ \A h \in DOMAIN tables : \A e \in tables[h] :
          IF e.off < 0 THEN Made(e.key) ELSE e.key \in Idents

LEMMA FrameInductive == Spec => []FrameInv
<1>1. Fr!Names = FP!Names /\ FP!NatNames = Nat \X Fr!Names
  BY DEF Fr!Names, FP!Names, FP!NatNames
<1>2. ASSUME NEW F, NEW lo \in Nat, lo <= temps, temps \in Nat, FP!EntryInv(F, lo, temps)
      PROVE  \A e \in F : IF e.off < 0 THEN Made(e.key) ELSE e.key \in Idents
  <2>1. SUFFICES ASSUME NEW e \in F PROVE IF e.off < 0 THEN Made(e.key) ELSE e.key \in Idents
    OBVIOUS
  <2>2. e.off \in Int
    BY <1>2 DEF FP!EntryInv
  <2>3. CASE e.off < 0
    <3>1. e.key \in FP!NatNames /\ e.key[1] < temps
      BY <1>2, <2>3 DEF FP!EntryInv
    <3>2. QED
      BY <1>1, <2>3, <3>1 DEF Made
  <2>4. CASE ~(e.off < 0)
    <3>1. e.key \in Idents
      BY <1>2, <2>2, <2>4 DEF FP!EntryInv
    <3>2. QED
      BY <2>4, <3>1
  <2>5. QED
    BY <2>3, <2>4
<1>3. FP!LayoutInv => FrameInv
  <2> SUFFICES ASSUME FP!LayoutInv PROVE FrameInv
    OBVIOUS
  <2>1. /\ temps \in 0 .. MaxTemps /\ start \in 0 .. temps /\ depth \in 0 .. MaxDepth
        /\ cur = Anon => depth = 0
    BY DEF FP!LayoutInv, FP!Counters
  <2>2. temps \in Nat /\ start \in Nat /\ start <= temps /\ depth \in Nat
    BY <2>1, FrameAssumption
  <2>3. FP!LiveInv(live, depth, start, temps)
    BY DEF FP!LayoutInv
  <2>4. ASSUME NEW s \in live
        PROVE  /\ Made(s.tac) /\ s.level \in 1 .. depth
               /\ s.key = IF s.tac[2] = Anon THEN s.tac ELSE s.tac[2]
    <3>1. s \in FP!Sym /\ s.level \in 1 .. depth /\ s.tac[1] \in start .. temps - 1
          /\ s.key = FP!Key(s.tac[1], s.tac[2])
      BY <2>3 DEF FP!LiveInv
    <3>2. s.tac \in Nat \X Fr!Names
      BY <1>1, <3>1 DEF FP!Sym
    <3>3. Made(s.tac) /\ s.level \in 1 .. depth
      BY <2>2, <3>1, <3>2 DEF Made
    <3>4. <<s.tac[1], s.tac[2]>> = s.tac
      BY <3>2
    <3>5. QED
      BY <3>1, <3>3, <3>4 DEF FP!Key, FP!TacName
  <2>5. FP!EntryInv(frame, start, temps)
    BY DEF FP!LayoutInv
  <2>6. \A h \in DOMAIN tables : FP!EntryInv(tables[h], temps, temps)
    BY DEF FP!LayoutInv
  <2>7. QED
    BY <1>2, <2>1, <2>2, <2>4, <2>5, <2>6 DEF FrameInv
<1>4. FP!Spec => []FP!LayoutInv
  BY FP!LayoutInductive, FrameAssumption
<1>5. QED
  BY SameFrame, <1>3, <1>4, PTL

\* The smallest of some natural numbers.
LEMMA FirstOf ==
    ASSUME NEW S \in SUBSET Nat, S # {}
    PROVE  First(S) \in S /\ \A j \in S : First(S) <= j
<1>1. \E x \in S : \A y \in S : ~ (<<y, x>> \in OpToRel(<, Nat))
  BY NatLessThanWellFounded, WFMin
<1>2. PICK x \in S : \A y \in S : ~ (<<y, x>> \in OpToRel(<, Nat))
  BY <1>1
<1>3. \A y \in S : y < x => <<y, x>> \in OpToRel(<, Nat)
  BY DEF OpToRel
<1>4. \A y \in S : ~(y < x)
  BY <1>2, <1>3
<1>5. \A y \in S : x <= y
  BY <1>4
<1>6. QED
  BY <1>5 DEF First

-----------------------------------------------------------------------------
(* What the quads read and write *)

LEMMA Uses ==
    /\ \A t, a, b : \A op \in Plain : /\ Reads(Quad(op, t, a, b)) = {a, b}
                                  /\ Writes(Quad(op, t, a, b)) = {t}
                                  /\ ~LeavesBlock(Quad(op, t, a, b))
    /\ \A t, a, b : /\ Reads(Quad("Assign", t, a, b)) = {a}
                    /\ Writes(Quad("Assign", t, a, b)) = {t}
                    /\ ~LeavesBlock(Quad("Assign", t, a, b))
    /\ \A t, a, b : /\ Reads(Quad("CallResult", t, a, b)) = {}
                    /\ Writes(Quad("CallResult", t, a, b)) = {t}
                    /\ ~LeavesBlock(Quad("CallResult", t, a, b))
    /\ \A t, a, b : /\ Reads(Quad("CondGoto", t, a, b)) = {t}
                    /\ Writes(Quad("CondGoto", t, a, b)) = {}
                    /\ LeavesBlock(Quad("CondGoto", t, a, b))
    /\ \A t, a, b : /\ Reads(Quad("PushArg", t, a, b)) = {b}
                    /\ Writes(Quad("PushArg", t, a, b)) = {}
                    /\ ~LeavesBlock(Quad("PushArg", t, a, b))
    /\ \A t, a, b : /\ Reads(Quad("Return", t, a, b)) = {b}
                    /\ Writes(Quad("Return", t, a, b)) = {}
                    /\ LeavesBlock(Quad("Return", t, a, b))
    /\ \A t, a, b : \A op \in {"CallNil", "Goto", "FunBegin", "FunEnd", "PopArgs", "Entry", "Exit"} :
          /\ Reads(Quad(op, t, a, b)) = {} /\ Writes(Quad(op, t, a, b)) = {}
          /\ op \in {"CallNil", "PopArgs"} => ~LeavesBlock(Quad(op, t, a, b))
<1> USE DEF Reads, Writes, LeavesBlock, Quad, Plain, Arith
<1>1. \A t, a, b : \A op \in Plain : /\ Reads(Quad(op, t, a, b)) = {a, b}
                                 /\ Writes(Quad(op, t, a, b)) = {t}
                                 /\ ~LeavesBlock(Quad(op, t, a, b))
  OBVIOUS
<1>2. \A t, a, b : /\ Reads(Quad("Assign", t, a, b)) = {a}
                   /\ Writes(Quad("Assign", t, a, b)) = {t}
                   /\ ~LeavesBlock(Quad("Assign", t, a, b))
  OBVIOUS
<1>3. \A t, a, b : /\ Reads(Quad("CallResult", t, a, b)) = {}
                   /\ Writes(Quad("CallResult", t, a, b)) = {t}
                   /\ ~LeavesBlock(Quad("CallResult", t, a, b))
  OBVIOUS
<1>4. \A t, a, b : /\ Reads(Quad("CondGoto", t, a, b)) = {t}
                   /\ Writes(Quad("CondGoto", t, a, b)) = {}
                   /\ LeavesBlock(Quad("CondGoto", t, a, b))
  OBVIOUS
<1>5. \A t, a, b : /\ Reads(Quad("PushArg", t, a, b)) = {b}
                   /\ Writes(Quad("PushArg", t, a, b)) = {}
                   /\ ~LeavesBlock(Quad("PushArg", t, a, b))
  OBVIOUS
<1>6. \A t, a, b : /\ Reads(Quad("Return", t, a, b)) = {b}
                   /\ Writes(Quad("Return", t, a, b)) = {}
                   /\ LeavesBlock(Quad("Return", t, a, b))
  OBVIOUS
<1>7. \A t, a, b : \A op \in {"CallNil", "Goto", "FunBegin", "FunEnd", "PopArgs", "Entry", "Exit"} :
          /\ Reads(Quad(op, t, a, b)) = {} /\ Writes(Quad(op, t, a, b)) = {}
          /\ op \in {"CallNil", "PopArgs"} => ~LeavesBlock(Quad(op, t, a, b))
  OBVIOUS
<1>8. QED
  BY <1>1, <1>2, <1>3, <1>4, <1>5, <1>6, <1>7

\* The counter of names only grows.
LEMMA CounterGrows ==
    ASSUME [Next]_vars, temps \in Nat PROVE temps' \in Nat /\ temps <= temps'
<1>1. [Fr!Next]_(Fr!vars)
  BY StepDrivesFrame
<1>2. QED
  BY <1>1 DEF Fr!Next, Fr!vars, Fr!BeginFun, Fr!EndFun, Fr!BeginScope, Fr!EndScope,
              Fr!AddLocal, Fr!AddLocalAborts, Fr!AddTemp, Fr!AddThreeTemps

\* Temporaries that a node makes are new names.
LEMMA NewTemps ==
    ASSUME temps \in Nat
    PROVE  /\ Temp(0) = <<temps, Anon>> /\ Temp(1) = <<temps + 1, Anon>>
           /\ Temp(2) = <<temps + 2, Anon>>
           /\ Fr!AddTemp =>
                 /\ temps' = temps + 1 /\ temps < MaxTemps /\ depth > 0
                 /\ \A t \in {Temp(0)} : Made(t)'
           /\ Fr!AddThreeTemps =>
                 /\ temps' = temps + 3 /\ temps + 2 < MaxTemps /\ depth > 0
                 /\ \A t \in {Temp(0), Temp(1), Temp(2)} : Made(t)'
<1>1. /\ Temp(0) = <<temps, Anon>> /\ Temp(1) = <<temps + 1, Anon>>
      /\ Temp(2) = <<temps + 2, Anon>>
  BY DEF Temp, Fr!TacName
<1>2. ASSUME NEW n \in Nat, n < temps' PROVE \A t \in {<<n, Anon>>} : Made(t)'
  BY <1>2 DEF Made, Fr!Names
<1>3. CASE Fr!AddTemp
  <2>1. temps' = temps + 1 /\ temps < MaxTemps /\ depth > 0 /\ ~Fr!AddThreeTemps
    BY <1>3 DEF Fr!AddTemp, Fr!AddThreeTemps
  <2>2. QED
    BY <1>1, <1>2, <2>1
<1>4. CASE Fr!AddThreeTemps
  <2>1. temps' = temps + 3 /\ temps + 2 < MaxTemps /\ depth > 0 /\ ~Fr!AddTemp
    BY <1>4 DEF Fr!AddTemp, Fr!AddThreeTemps
  <2>2. temps + 1 \in Nat /\ temps + 2 \in Nat /\ temps < temps' /\ temps + 1 < temps'
        /\ temps + 2 < temps'
    BY <2>1
  <2>3. QED
    BY <1>1, <1>2, <2>1, <2>2
<1>5. QED
  BY <1>1, <1>3, <1>4

-----------------------------------------------------------------------------
(***************************************************************************)
(* Three kinds of steps.  A plain step appends quads without a label; what *)
(* it writes are new names, or the variable of an assignment; what it      *)
(* reads waited as an operand, or it wrote it itself.  A step of a control *)
(* structure appends at most one quad, reads at most the last operand and  *)
(* leaves none.  The others begin and end a function, or the file.         *)
(***************************************************************************)
NewWrites(m) ==
    \A k \in 1 .. m : \A t \in Writes(quads'[Len(quads) + k]) :
        /\ Made(t)'
        /\ \/ t[1] >= temps /\ t \in named'
           \/ \E x \in Idents : /\ SetSym(x)
                                /\ \E s \in live : s.tac = t /\ s.key \in Idents
        /\ \A j \in 1 .. m : t \in Writes(quads'[Len(quads) + j]) => j = k
NewReads(m) ==
    \A k \in 1 .. m : \A t \in Reads(quads'[Len(quads) + k]) :
        \/ t = Lit
        \/ \E i \in 1 .. Len(vals) : t = vals[i].temp
        \/ \E d \in 1 .. k - 1 : t \in Writes(quads'[Len(quads) + d])
NewVals(m) ==
    \A i \in 1 .. Len(vals') :
        \/ i <= Len(vals) /\ vals'[i] = vals[i]
        \/ vals'[i].temp \in {Lit, Nothing}
        \/ \E j \in DOMAIN fun.params : vals'[i].temp = fun.params[j]
        \/ \E s \in live : s.key \in Idents /\ vals'[i].temp = s.tac
        \/ \E k \in 1 .. m : vals'[i].temp \in Writes(quads'[Len(quads) + k])
        \/ errors' /\ \A t \in {vals'[i].temp} : Made(t)'
SameFrameNames ==
    /\ cur' = cur /\ fun' = fun /\ tables' = tables /\ globals' = globals
    /\ frame \subseteq frame'
    /\ \A s \in live : s \in live' \/ \E e \in frame' : e.key = s.tac

PlainStep(m) ==
    /\ Appends(m) /\ (errors => errors')
    /\ \A k \in 1 .. m : /\ quads'[Len(quads) + k].op # "FunBegin"
                         /\ LeavesBlock(quads'[Len(quads) + k]) => k = m /\ vals' = <<>>
    /\ NewWrites(m) /\ NewReads(m) /\ NewVals(m) /\ SameFrameNames

ControlStep ==
    /\ UNCHANGED <<frameVars, fun, globals>> /\ vals' = <<>> /\ (errors => errors')
    /\ \A k \in 1 .. Len(quads) : LabelIn(labels', k) = LabelIn(labels, k)
    /\ \/ quads' = quads
       \/ /\ Len(quads') = Len(quads) + 1
          /\ \A i \in 1 .. Len(quads) : quads'[i] = quads[i]
          /\ quads'[Len(quads) + 1].op # "FunBegin"
          /\ LabelIn(labels', Len(quads) + 1) = LabelIn(labels, Len(quads) + 1)
          /\ Writes(quads'[Len(quads) + 1]) = {}
          /\ \A t \in Reads(quads'[Len(quads) + 1]) :
                \E i \in 1 .. Len(vals) : t = vals[i].temp

\* What a scope does with names: they stay visible, or go to the table.
LEMMA NamesStay ==
    /\ Fr!AddTemp => UNCHANGED <<cur, tables, frame>> /\ live \subseteq live'
    /\ Fr!AddThreeTemps => UNCHANGED <<cur, tables, frame>> /\ live \subseteq live'
    /\ Fr!BeginScope => UNCHANGED <<cur, tables, frame, live>>
    /\ \A x : Fr!AddLocal(x) => UNCHANGED <<cur, tables, frame>> /\ live \subseteq live'
    /\ \A x : Fr!AddLocalAborts(x) => UNCHANGED <<cur, tables, frame, live>>
    /\ Fr!EndScope => /\ UNCHANGED <<cur, tables>> /\ frame \subseteq frame'
                      /\ \A s \in live : s \in live' \/ \E e \in frame' : e.key = s.tac
<1>1. \A L, d, n, x : L \subseteq Fr!Insert(L, d, n, x)
  BY DEF Fr!Insert
<1>2. Fr!AddTemp => UNCHANGED <<cur, tables, frame>> /\ live \subseteq live'
  BY <1>1 DEF Fr!AddTemp
<1>3. Fr!AddThreeTemps => UNCHANGED <<cur, tables, frame>> /\ live \subseteq live'
  <2> SUFFICES ASSUME Fr!AddThreeTemps
               PROVE  UNCHANGED <<cur, tables, frame>> /\ live \subseteq live'
    OBVIOUS
  <2> DEFINE L1 == Fr!Insert(live, depth, temps, Anon)
             L2 == Fr!Insert(L1, depth, temps + 1, Anon)
             L3 == Fr!Insert(L2, depth, temps + 2, Anon)
  <2>1. live' = L3 /\ UNCHANGED <<cur, tables, frame>>
    BY DEF Fr!AddThreeTemps
  <2>2. live \subseteq L1 /\ L1 \subseteq L2 /\ L2 \subseteq L3
    BY <1>1
  <2> HIDE DEF L1, L2, L3
  <2>3. QED
    BY <2>1, <2>2
<1>4. Fr!BeginScope => UNCHANGED <<cur, tables, frame, live>>
  BY DEF Fr!BeginScope
<1>5. \A x : Fr!AddLocal(x) => UNCHANGED <<cur, tables, frame>> /\ live \subseteq live'
  BY <1>1 DEF Fr!AddLocal
<1>6. \A x : Fr!AddLocalAborts(x) => UNCHANGED <<cur, tables, frame, live>>
  BY DEF Fr!AddLocalAborts
<1>7. Fr!EndScope => /\ UNCHANGED <<cur, tables>> /\ frame \subseteq frame'
                     /\ \A s \in live : s \in live' \/ \E e \in frame' : e.key = s.tac
  <2> SUFFICES ASSUME Fr!EndScope
               PROVE  /\ UNCHANGED <<cur, tables>> /\ frame \subseteq frame'
                      /\ \A s \in live : s \in live' \/ \E e \in frame' : e.key = s.tac
    OBVIOUS
  <2> DEFINE S == {s \in live : s.level = depth}
  <2>1. /\ UNCHANGED <<cur, tables>> /\ frame' = Fr!Flush(frame, S)
        /\ live' = {s \in live : s.level # depth}
    BY DEF Fr!EndScope
  <2>2. \A s \in S : \E e \in frame' : e.key = s.tac
    <3>1. SUFFICES ASSUME NEW s \in S PROVE \E e \in frame' : e.key = s.tac
      OBVIOUS
    <3>2. CASE s.tac \in Fr!Keys(frame)
      BY <2>1, <3>2 DEF Fr!Keys, Fr!Flush
    <3>3. CASE s.tac \notin Fr!Keys(frame)
      <4>1. [key |-> s.tac, off |-> -s.slot] \in frame'
        BY <2>1, <3>1, <3>3 DEF Fr!Flush
      <4>2. QED
        BY <4>1
    <3>4. QED
      BY <3>2, <3>3
  <2>3. frame \subseteq frame'
    BY <2>1 DEF Fr!Flush
  <2>4. QED
    BY <2>1, <2>2, <2>3
<1>8. QED
  BY <1>2, <1>3, <1>4, <1>5, <1>6, <1>7

LEMMA TakesVals ==
    ASSUME WalkInv, NEW n, NEW r, Takes(n, r)
    PROVE  /\ Len(vals') \in Nat
           /\ \A i \in 1 .. Len(vals') :
                 (i <= Len(vals) /\ vals'[i] = vals[i]) \/ vals'[i] = r
<1>1. /\ Len(vals) \in Nat /\ n \in Nat /\ n <= Len(vals)
      /\ Len(vals') = Len(vals) - n + 1 /\ vals'[Len(vals) - n + 1] = r
      /\ \A i \in 1 .. Len(vals) - n : vals'[i] = vals[i]
  BY Lengths DEF Takes
<1>2. ASSUME NEW i \in 1 .. Len(vals')
      PROVE  (i <= Len(vals) /\ vals'[i] = vals[i]) \/ vals'[i] = r
  <2>1. CASE i = Len(vals) - n + 1
    BY <1>1, <2>1
  <2>2. CASE i # Len(vals) - n + 1
    <3>1. i \in Nat /\ i >= 1 /\ i <= Len(vals) - n + 1
      BY <1>1
    <3>2. i \in 1 .. Len(vals) - n /\ i <= Len(vals)
      BY <1>1, <2>2, <3>1
    <3>3. QED
      BY <1>1, <3>2
  <2>3. QED
    BY <2>1, <2>2
<1>3. QED
  BY <1>1, <1>2

LEMMA NoNewQuads == NewWrites(0) /\ NewReads(0)
BY DEF NewWrites, NewReads

\* A step without quads and without a new operand.
LEMMA QuietStep ==
    ASSUME WalkInv, Appends(0), errors => errors', SameFrameNames,
           vals' = vals \/ vals' = <<>>
    PROVE  PlainStep(0)
<1>1. NewVals(0)
  <2>1. CASE vals' = vals
    BY <2>1, Lengths DEF NewVals
  <2>2. CASE vals' = <<>>
    BY <2>2, Tuples DEF NewVals
  <2>3. QED
    BY <2>1, <2>2
<1>2. QED
  BY <1>1, NoNewQuads DEF PlainStep

LEMMA LeafStep ==
    ASSUME WalkInv, InExpression, NEW r, vals' = Append(vals, r),
           UNCHANGED <<frameVars, quads, labels, lcount, ctx, fun, types, globals>>,
           errors => errors',
           \/ r.temp \in {Lit, Nothing}
           \/ \E j \in DOMAIN fun.params : r.temp = fun.params[j]
           \/ \E s \in live : s.key \in Idents /\ r.temp = s.tac
    PROVE  PlainStep(0)
<1>1. Appends(0) /\ Takes(0, r)
  BY LeafEffect
<1>2. NewVals(0)
  BY <1>1, TakesVals DEF NewVals
<1>3. SameFrameNames
  BY DEF SameFrameNames, frameVars
<1>4. QED
  BY <1>1, <1>2, <1>3, NoNewQuads DEF PlainStep

LEMMA GetSymStep ==
    ASSUME WalkInv, NEW m \in Idents, GetSym(m) PROVE PlainStep(0)
<1> DEFINE syms == Fr!Lookup(live, m)
           i == First(Matches(m))
<1>1. \E r : /\ vals' = Append(vals, r)
             /\ \/ Matches(m) # {} /\ r.temp = fun.params[i]
                \/ syms = {} /\ r.temp = Nothing
                \/ \E s \in syms : r.temp = s.tac
  <2>1. CASE Matches(m) # {}
    <3> DEFINE r == Result(fun.params[i], fun.ptypes[i])
    <3>1. vals' = Append(vals, r) /\ r.temp = fun.params[i]
      BY <2>1 DEF GetSym, Result
    <3> HIDE DEF r
    <3>2. QED
      BY <2>1, <3>1
  <2>2. CASE Matches(m) = {} /\ syms = {}
    <3>1. vals' = Append(vals, NilResult) /\ NilResult.temp = Nothing
      BY <2>2 DEF GetSym, Result, NilResult
    <3>2. QED
      BY <2>2, <3>1
  <2>3. CASE Matches(m) = {} /\ syms # {}
    <3> DEFINE s == CHOOSE s \in syms : TRUE
               r == Result(s.tac, types[s.tac])
    <3>1. vals' = Append(vals, r)
      BY <2>3 DEF GetSym
    <3>2. r.temp = s.tac /\ s \in syms
      BY <2>3 DEF Result
    <3> HIDE DEF r, s
    <3>3. QED
      BY <3>1, <3>2
  <2>4. QED
    BY <2>1, <2>2, <2>3
<1>2. /\ InExpression /\ (errors => errors')
      /\ UNCHANGED <<frameVars, quads, labels, lcount, ctx, fun, types, globals>>
  BY DEF GetSym, Fail
<1>3. \A s \in syms : s \in live /\ s.key \in Idents
  BY DEF Fr!Lookup
<1>4. Matches(m) # {} => i \in DOMAIN fun.params
  <2>1. fun \in Sigs \/ fun = NoFun
    BY Lengths DEF Compiling
  <2>2. fun.params \in Seq(Idents)
    <3>1. NoFun.params \in Seq(Idents)
      BY DEF NoFun
    <3>2. QED
      BY <2>1, <3>1, SigsAssumption
  <2>3. DOMAIN fun.params \subseteq Nat
    BY <2>2, LenProperties
  <2>4. Matches(m) \subseteq DOMAIN fun.params
    BY DEF Matches
  <2>5. QED
    BY <2>3, <2>4, FirstOf
<1> HIDE DEF syms, i
<1>5. PICK r : /\ vals' = Append(vals, r)
               /\ \/ Matches(m) # {} /\ r.temp = fun.params[i]
                  \/ syms = {} /\ r.temp = Nothing
                  \/ \E s \in syms : r.temp = s.tac
  BY <1>1
<1>6. QED
  BY <1>2, <1>3, <1>4, <1>5, LeafStep

LEMMA SetSymStep ==
    ASSUME WalkInv, FrameInv, NEW m \in Idents, SetSym(m)
    PROVE  PlainStep(0) \/ PlainStep(1)
<1>1. PICK s \in Fr!Lookup(live, m) :
                 \/ /\ Appends(1) /\ errors' = errors
                    /\ quads'[Len(quads) + 1] = Quad("Assign", s.tac, Last.temp, Nothing)
                    /\ Takes(1, Result(s.tac, Last.type))
                 \/ /\ Appends(0) /\ errors'
                    /\ Takes(1, NilResult)
  BY SetSymEffect
<1>2. SameFrameNames
  BY DEF SetSym, SameFrameNames, frameVars
<1>3. CASE /\ Appends(1) /\ errors' = errors
           /\ quads'[Len(quads) + 1] = Quad("Assign", s.tac, Last.temp, Nothing)
           /\ Takes(1, Result(s.tac, Last.type))
  <2> DEFINE q == quads'[Len(quads) + 1]
  <2>1. Reads(q) = {Last.temp} /\ Writes(q) = {s.tac} /\ ~LeavesBlock(q)
    BY <1>3, Uses
  <2>2. q.op = "Assign"
    BY <1>3 DEF Quad
  <2>3. s \in live /\ s.key \in Idents
    BY DEF Fr!Lookup
  <2>4. \A t \in {s.tac} : Made(t)'
    BY <2>3 DEF FrameInv, Made, SetSym, frameVars
  <2>5. Len(vals) \in 1 .. Len(vals) /\ Last.temp = vals[Len(vals)].temp
    BY <1>3, Lengths DEF Takes, Last
  <2>6. vals'[Len(vals)].temp = s.tac
    BY <1>3 DEF Takes, Result
  <2> HIDE DEF q
  <2>7. NewWrites(1)
    <3>1. SUFFICES ASSUME NEW t, t \in Writes(q)
                   PROVE  /\ Made(t)'
                          /\ \E x \in Idents : /\ SetSym(x)
                                               /\ \E r \in live : r.tac = t /\ r.key \in Idents
      BY DEF NewWrites, q
    <3>2. t \in {s.tac}
      BY <2>1, <3>1
    <3>3. Made(t)'
      BY <2>4, <3>2
    <3>4. QED
      BY <2>3, <3>2, <3>3
  <2>8. NewReads(1)
    BY <2>1, <2>5 DEF NewReads, q
  <2>9. NewVals(1)
    <3>1. SUFFICES ASSUME NEW i \in 1 .. Len(vals'), vals'[i] = Result(s.tac, Last.type)
                   PROVE  vals'[i].temp \in Writes(q)
      BY <1>3, TakesVals DEF NewVals, q
    <3>2. QED
      BY <2>1, <3>1 DEF Result
  <2>10. \A k \in 1 .. 1 : /\ quads'[Len(quads) + k].op # "FunBegin"
                            /\ ~LeavesBlock(quads'[Len(quads) + k])
    BY <2>1, <2>2 DEF q
  <2>11. errors => errors'
    BY <1>3
  <2>12. QED
    BY <1>2, <1>3, <2>7, <2>8, <2>9, <2>10, <2>11 DEF PlainStep
<1>4. CASE Appends(0) /\ errors' /\ Takes(1, NilResult)
  <2>1. NewVals(0)
    BY <1>4, TakesVals DEF NewVals, NilResult, Result
  <2>2. QED
    BY <1>2, <1>4, <2>1, NoNewQuads DEF PlainStep
<1>5. QED
  BY <1>1, <1>3, <1>4

Waits(t) == t = Lit \/ \E i \in 1 .. Len(vals) : t = vals[i].temp

LEMMA NewNamed ==
    ASSUME temps \in Nat
    PROVE  /\ Fr!AddTemp => Temp(0) \in named'
           /\ Fr!AddThreeTemps => Temp(0) \in named' /\ Temp(1) \in named' /\ Temp(2) \in named'
           /\ \A x : Fr!AddLocal(x) => Fr!TacName(temps, x) \in named'
BY DEF Fr!AddTemp, Fr!AddThreeTemps, Fr!AddLocal, Temp

LEMMA ComputesStep ==
    ASSUME WalkInv, FrameInv, Fr!AddTemp, NEW op, NEW a, NEW b, Computes(op, a, b),
           Waits(a), Waits(b), NEW n, NEW type, Takes(n, Result(Temp(0), type)),
           fun' = fun, globals' = globals, errors => errors'
    PROVE  PlainStep(1)
<1> DEFINE q == quads'[Len(quads) + 1]
           t == Temp(0)
<1>1. Appends(1) /\ op \in Plain /\ q = Quad(op, t, a, b)
  BY DEF Computes
<1>2. Reads(q) = {a, b} /\ Writes(q) = {t} /\ ~LeavesBlock(q)
  BY <1>1, Uses
<1>3. q.op # "FunBegin"
  BY <1>1 DEF Quad, Plain, Arith
<1>4. temps \in Nat
  BY FrameAssumption DEF FrameInv
<1>5. t = <<temps, Anon>> /\ t \in named' /\ \A u \in {t} : Made(u)'
  BY <1>4, NewTemps, NewNamed
<1> HIDE DEF q, t
<1>6. t[1] >= temps
  BY <1>4, <1>5
<1>7. NewWrites(1)
  <2>1. SUFFICES ASSUME NEW u \in Writes(q)
                 PROVE  Made(u)' /\ u[1] >= temps /\ u \in named'
    BY DEF NewWrites, q
  <2>2. u \in {t}
    BY <1>2
  <2>3. QED
    BY <1>5, <1>6, <2>2
<1>8. NewReads(1)
  BY <1>2 DEF NewReads, Waits, q
<1>9. NewVals(1)
  <2>1. SUFFICES ASSUME NEW i \in 1 .. Len(vals'), vals'[i] = Result(t, type)
                 PROVE  vals'[i].temp \in Writes(q)
    BY TakesVals DEF NewVals, q, t
  <2>2. QED
    BY <1>2, <2>1 DEF Result
<1>10. SameFrameNames
  BY NamesStay DEF SameFrameNames
<1>11. \A k \in 1 .. 1 : /\ quads'[Len(quads) + k].op # "FunBegin"
                         /\ ~LeavesBlock(quads'[Len(quads) + k])
  BY <1>2, <1>3 DEF q
<1>12. QED
  BY <1>1, <1>7, <1>8, <1>9, <1>10, <1>11 DEF PlainStep

LEMMA ComposesStep ==
    ASSUME WalkInv, FrameInv, Fr!AddThreeTemps, NEW a, NEW b, Composes(a, b),
           Waits(a), Waits(b), NEW n, NEW type, Takes(n, Result(Temp(0), type)),
           fun' = fun, globals' = globals, errors => errors'
    PROVE  PlainStep(3)
<1> DEFINE q(k) == quads'[Len(quads) + k]
           t0 == Temp(0)
           t1 == Temp(1)
           t2 == Temp(2)
<1>1. PICK s \in {"Less", "EqualEqual"}, c \in {a, b}, d \in {a, b}, e \in {a, b}, f \in {a, b} :
          /\ Appends(3) /\ q(1) = Quad("Less", t1, c, d) /\ q(2) = Quad(s, t2, e, f)
          /\ q(3) = Quad("Or", t0, t1, t2)
  BY DEF Composes
<1>2. "Less" \in Plain /\ s \in Plain /\ "Or" \in Plain
  BY DEF Plain
<1>3. /\ Reads(q(1)) = {c, d} /\ Writes(q(1)) = {t1} /\ ~LeavesBlock(q(1))
      /\ Reads(q(2)) = {e, f} /\ Writes(q(2)) = {t2} /\ ~LeavesBlock(q(2))
      /\ Reads(q(3)) = {t1, t2} /\ Writes(q(3)) = {t0} /\ ~LeavesBlock(q(3))
  BY <1>1, <1>2, Uses
<1>4. q(1).op # "FunBegin" /\ q(2).op # "FunBegin" /\ q(3).op # "FunBegin"
  BY <1>1 DEF Quad
<1>5. temps \in Nat
  BY FrameAssumption DEF FrameInv
<1>6. /\ t0 = <<temps, Anon>> /\ t1 = <<temps + 1, Anon>> /\ t2 = <<temps + 2, Anon>>
      /\ t0 \in named' /\ t1 \in named' /\ t2 \in named'
      /\ \A u \in {t0, t1, t2} : Made(u)'
  BY <1>5, NewTemps, NewNamed
<1> HIDE DEF q, t0, t1, t2
<1>7. /\ t0[1] >= temps /\ t1[1] >= temps /\ t2[1] >= temps
      /\ t0 # t1 /\ t0 # t2 /\ t1 # t2
  BY <1>5, <1>6
<1>8. \A k \in 1 .. 3 : k = 1 \/ k = 2 \/ k = 3
  OBVIOUS
<1>9. NewWrites(3)
  <2>1. SUFFICES ASSUME NEW k \in 1 .. 3, NEW u \in Writes(q(k))
                 PROVE  /\ Made(u)' /\ u[1] >= temps /\ u \in named'
                        /\ \A j \in 1 .. 3 : u \in Writes(q(j)) => j = k
    BY DEF NewWrites, q
  <2>2. u \in {t0, t1, t2}
    BY <1>3, <1>8
  <2>3. Made(u)'
    BY <1>6, <2>2
  <2>4. u[1] >= temps /\ u \in named'
    BY <1>6, <1>7, <2>2
  <2>5. \A j \in 1 .. 3 : u \in Writes(q(j)) => j = k
    BY <1>3, <1>7, <1>8
  <2>6. QED
    BY <2>3, <2>4, <2>5
<1>10. NewReads(3)
  <2>1. ASSUME NEW k \in 1 .. 3, NEW u \in Reads(q(k))
        PROVE  \/ Waits(u)
               \/ \E j \in 1 .. k - 1 : u \in Writes(q(j))
    <3>1. CASE k = 1 \/ k = 2
      BY <1>3, <3>1
    <3>2. CASE k = 3
      <4>1. 1 \in 1 .. k - 1 /\ 2 \in 1 .. k - 1
        BY <3>2
      <4>2. u = t1 \/ u = t2
        BY <1>3, <2>1, <3>2
      <4>3. QED
        BY <1>3, <4>1, <4>2
    <3>3. QED
      BY <1>8, <3>1, <3>2
  <2>2. QED
    BY <2>1 DEF NewReads, Waits, q
<1>11. NewVals(3)
  <2>1. ASSUME NEW i \in 1 .. Len(vals'), vals'[i] = Result(t0, type)
        PROVE  \E k \in 1 .. 3 : vals'[i].temp \in Writes(q(k))
    <3>1. vals'[i].temp \in Writes(q(3)) /\ 3 \in 1 .. 3
      BY <1>3, <2>1 DEF Result
    <3>2. QED
      BY <3>1
  <2>2. QED
    BY <2>1, TakesVals DEF NewVals, q, t0
<1>12. SameFrameNames
  BY NamesStay DEF SameFrameNames
<1>13. \A k \in 1 .. 3 : q(k).op # "FunBegin" /\ ~LeavesBlock(q(k))
  BY <1>3, <1>4, <1>8
<1>14. QED
  BY <1>1, <1>9, <1>10, <1>11, <1>12, <1>13 DEF PlainStep, q

LEMMA BinaryStep ==
    ASSUME WalkInv, FrameInv, NEW op \in BinOps, Binary(op)
    PROVE  PlainStep(1) \/ PlainStep(3)
<1> DEFINE l == vals[Len(vals) - 1].temp
           r == Last.temp
<1>1. /\ Len(vals) >= 2 /\ \E type : Takes(2, Result(Temp(0), type))
      /\ \/ Fr!AddTemp /\ \E s : Computes(s, l, r) \/ Computes(s, r, l)
         \/ Fr!AddThreeTemps /\ Composes(l, r)
  BY BinaryEffect
<1>2. Waits(l) /\ Waits(r)
  <2>1. Len(vals) - 1 \in 1 .. Len(vals) /\ Len(vals) \in 1 .. Len(vals)
    BY <1>1, Lengths
  <2>2. QED
    BY <2>1 DEF Waits, Last
<1>3. fun' = fun /\ globals' = globals /\ (errors => errors')
  BY DEF Binary, Fail
<1> HIDE DEF l, r
<1>4. QED
  BY <1>1, <1>2, <1>3, ComputesStep, ComposesStep

LEMMA UnaryStep ==
    ASSUME WalkInv, FrameInv, Unary
    PROVE  PlainStep(0) \/ PlainStep(1) \/ PlainStep(3)
<1>1. /\ Len(vals) >= 1 /\ \E type : Takes(1, Result(Temp(0), type))
      /\ \/ Fr!AddTemp /\ Computes("Minus", Lit, Last.temp)
         \/ Fr!AddThreeTemps /\ Composes(Last.temp, Lit)
         \/ Fr!AddTemp /\ Appends(0) /\ errors'
  BY UnaryEffect
<1>2. Waits(Last.temp) /\ Waits(Lit)
  <2>1. Len(vals) \in 1 .. Len(vals)
    BY <1>1, Lengths
  <2>2. QED
    BY <2>1 DEF Waits, Last
<1>3. fun' = fun /\ globals' = globals /\ (errors => errors')
  BY DEF Unary
<1>4. PICK type : Takes(1, Result(Temp(0), type))
  BY <1>1
<1>5. CASE Fr!AddTemp /\ Computes("Minus", Lit, Last.temp)
  BY <1>2, <1>3, <1>4, <1>5, ComputesStep
<1>6. CASE Fr!AddThreeTemps /\ Composes(Last.temp, Lit)
  BY <1>2, <1>3, <1>4, <1>6, ComposesStep
<1>7. CASE Fr!AddTemp /\ Appends(0) /\ errors'
  <2>1. temps \in Nat
    BY FrameAssumption DEF FrameInv
  <2>2. \A u \in {Temp(0)} : Made(u)'
    BY <1>7, <2>1, NewTemps
  <2> DEFINE t == Temp(0)
  <2>3. /\ \A u \in {t} : Made(u)'
        /\ \A i \in 1 .. Len(vals') :
              (i <= Len(vals) /\ vals'[i] = vals[i]) \/ vals'[i] = Result(t, type)
    BY <1>4, <2>2, TakesVals
  <2> HIDE DEF t
  <2>4. \A i \in 1 .. Len(vals') :
              \/ i <= Len(vals) /\ vals'[i] = vals[i]
              \/ \A u \in {vals'[i].temp} : Made(u)'
    <3>1. Result(t, type).temp = t
      BY DEF Result
    <3>2. QED
      BY <2>3, <3>1
  <2>5. NewVals(0)
    BY <1>7, <2>4 DEF NewVals
  <2>6. SameFrameNames
    BY <1>3, <1>7, NamesStay DEF SameFrameNames
  <2>7. QED
    BY <1>3, <1>7, <2>5, <2>6, NoNewQuads DEF PlainStep
<1>8. QED
  BY <1>1, <1>5, <1>6, <1>7

\* Nodes that leave an operand and nothing else.
LEMMA LeavesStep ==
    ASSUME WalkInv,
           \/ \E type : Literal(type)
           \/ \E m \in Idents : GetSym(m) \/ SetSymUndeclared(m)
           \/ \E f \in Funs, n \in 0 .. MaxParams : CallRejected(f, n)
    PROVE  PlainStep(0)
<1>1. CASE \E type : Literal(type)
  <2>1. PICK type : Literal(type)
    BY <1>1
  <2> DEFINE r == Result(Lit, type)
  <2>2. /\ InExpression /\ vals' = Append(vals, r) /\ (errors => errors')
        /\ UNCHANGED <<frameVars, quads, labels, lcount, ctx, fun, types, globals>>
        /\ r.temp = Lit
    BY <2>1 DEF Literal, Result
  <2> HIDE DEF r
  <2>3. QED
    BY <2>2, LeafStep
<1>2. CASE \/ \E m \in Idents : SetSymUndeclared(m)
           \/ \E f \in Funs, n \in 0 .. MaxParams : CallRejected(f, n)
  <2>1. /\ InExpression /\ vals' = Append(vals, NilResult) /\ errors' = TRUE
        /\ UNCHANGED <<frameVars, quads, labels, lcount, ctx, fun, types, globals>>
    BY <1>2 DEF SetSymUndeclared, CallRejected
  <2>2. NilResult.temp = Nothing
    BY DEF NilResult, Result
  <2>3. QED
    BY <2>1, <2>2, LeafStep
<1>3. CASE \E m \in Idents : GetSym(m)
  BY <1>3, GetSymStep
<1>4. QED
  BY <1>1, <1>2, <1>3

\* an import leaves all alone but the errors
LEMMA ImportEffect ==
    ASSUME Import \/ UNCHANGED vars
    PROVE  /\ UNCHANGED <<frameVars, quads, labels, lcount, vals, ctx, fun, types, globals>>
           /\ errors => errors'
<1>1. UNCHANGED <<frameVars, quads, labels, lcount, vals, ctx, fun, types, globals>>
  BY DEF Import, vars
<1>2. errors' = errors \/ errors' = TRUE
  BY DEF Import, vars
<1>3. errors => errors'
  BY <1>2, Zenon
<1>4. QED
  BY <1>1, <1>3

\* Nodes that touch neither quads nor operands, and the end of a statement
\* that emits nothing.
LEMMA QuietSteps ==
    ASSUME WalkInv,
           \/ Import \/ (\E m \in Idents : SetSymParam(m)) \/ UNCHANGED vars
           \/ BodyBegin \/ BlockBegin \/ BlockEnd \/ ExprStmt
           \/ \E f \in Funs : Call(f)
    PROVE  PlainStep(0)
<1>1. CASE Import \/ (\E m \in Idents : SetSymParam(m)) \/ UNCHANGED vars
  <2>1. /\ UNCHANGED <<frameVars, quads, labels, vals, fun, globals>>
        /\ errors => errors'
    <3>1. CASE \E m \in Idents : SetSymParam(m)
      BY <3>1 DEF SetSymParam
    <3>2. QED
      BY <1>1, <3>1, ImportEffect
  <2>2. SameFrameNames
    BY <2>1 DEF SameFrameNames, frameVars
  <2>3. QED
    BY <2>1, <2>2, NoQuads, QuietStep
<1>2. CASE BodyBegin \/ BlockBegin
  <2>1. /\ Appends(0) /\ vals' = vals /\ errors' = errors /\ Fr!BeginScope
    BY <1>2, BlockEffect
  <2>2. fun' = fun /\ globals' = globals
    BY <1>2 DEF BodyBegin, BlockBegin, OpenBlock
  <2>3. SameFrameNames
    BY <2>1, <2>2, NamesStay DEF SameFrameNames
  <2>4. QED
    BY <2>1, <2>3, QuietStep
<1>3. CASE BlockEnd
  <2>1. /\ Appends(0) /\ vals' = <<>> /\ errors' = errors /\ Fr!EndScope
    BY <1>3, BlockEndEffect
  <2>2. fun' = fun /\ globals' = globals
    BY <1>3 DEF BlockEnd
  <2>3. SameFrameNames
    BY <2>1, <2>2, NamesStay DEF SameFrameNames
  <2>4. QED
    BY <2>1, <2>3, QuietStep
<1>4. CASE ExprStmt
  <2>1. /\ vals' = <<>> /\ Appends(0) /\ UNCHANGED <<frameVars, errors>>
    BY <1>4, ExprStmtEffect
  <2>2. fun' = fun /\ globals' = globals
    BY <1>4 DEF ExprStmt
  <2>3. SameFrameNames
    BY <2>1, <2>2 DEF SameFrameNames, frameVars
  <2>4. QED
    BY <2>1, <2>3, QuietStep
<1>5. CASE \E f \in Funs : Call(f)
  <2>1. PICK f \in Funs : Call(f)
    BY <1>5
  <2>2. Appends(0) /\ vals' = vals
    BY <2>1, CallEffect
  <2>3. UNCHANGED <<frameVars, fun, globals, errors>>
    BY <2>1 DEF Call
  <2>4. SameFrameNames
    BY <2>3 DEF SameFrameNames, frameVars
  <2>5. QED
    BY <2>2, <2>3, <2>4, QuietStep
<1>6. QED
  BY <1>1, <1>2, <1>3, <1>4, <1>5

LEMMA CallArgStep ==
    ASSUME WalkInv, CallArg PROVE PlainStep(1)
<1> DEFINE q == quads'[Len(quads) + 1]
<1>1. /\ Appends(1) /\ Len(vals) >= 1
      /\ q = Quad("PushArg", Nothing, Nothing, Last.temp)
      /\ Len(vals') = Len(vals) - 1 /\ \A i \in 1 .. Len(vals') : vals'[i] = vals[i]
  BY CallArgEffect
<1>2. /\ UNCHANGED <<frameVars, fun, globals>> /\ (errors => errors')
  BY DEF CallArg, Fail
<1>3. Reads(q) = {Last.temp} /\ Writes(q) = {} /\ ~LeavesBlock(q)
  BY <1>1, Uses
<1>4. q.op # "FunBegin"
  BY <1>1 DEF Quad
<1> HIDE DEF q
<1>5. NewWrites(1)
  BY <1>3 DEF NewWrites, q
<1>6. NewReads(1)
  <2>1. Len(vals) \in 1 .. Len(vals) /\ Last.temp = vals[Len(vals)].temp
    BY <1>1, Lengths DEF Last
  <2>2. QED
    BY <1>3, <2>1 DEF NewReads, q
<1>7. NewVals(1)
  BY <1>1, Lengths DEF NewVals
<1>8. SameFrameNames
  BY <1>2 DEF SameFrameNames, frameVars
<1>9. \A k \in 1 .. 1 : /\ quads'[Len(quads) + k].op # "FunBegin"
                        /\ ~LeavesBlock(quads'[Len(quads) + k])
  BY <1>3, <1>4 DEF q
<1>10. QED
  BY <1>1, <1>2, <1>5, <1>6, <1>7, <1>8, <1>9 DEF PlainStep

LEMMA CallEndStep ==
    ASSUME WalkInv, FrameInv, CallEnd PROVE PlainStep(2)
<1> DEFINE q(k) == quads'[Len(quads) + k]
           t == Temp(0)
<1>1. /\ Appends(2) /\ q(2) = PopArgs(Len(Top.sig.ptypes))
      /\ \/ /\ Fr!AddTemp
            /\ q(1) = Quad("CallResult", t, Nothing, Top.callee)
            /\ \E type : Takes(0, Result(t, type))
         \/ /\ UNCHANGED frameVars
            /\ q(1) = Quad("CallNil", Nothing, Nothing, Top.callee)
            /\ Takes(0, NilResult)
  BY CallEndEffect
<1>2. /\ UNCHANGED <<fun, globals, errors>>
  BY DEF CallEnd
<1>3. Reads(q(2)) = {} /\ Writes(q(2)) = {} /\ ~LeavesBlock(q(2)) /\ q(2).op # "FunBegin"
  <2>1. q(2) = Quad("PopArgs", Nothing, Nothing, Len(Top.sig.ptypes))
    BY <1>1 DEF PopArgs
  <2> HIDE DEF q
  <2>2. q(2).op # "FunBegin"
    BY <2>1 DEF Quad
  <2>3. Reads(q(2)) = {} /\ Writes(q(2)) = {} /\ ~LeavesBlock(q(2))
    BY <2>1, Uses
  <2>4. QED
    BY <2>2, <2>3
<1>4. temps \in Nat
  BY FrameAssumption DEF FrameInv
<1>5. t = <<temps, Anon>> /\ (Fr!AddTemp => t \in named' /\ \A u \in {t} : Made(u)')
  BY <1>4, NewTemps, NewNamed
<1> HIDE DEF t
<1>6. \A k \in 1 .. 2 : k = 1 \/ k = 2
  OBVIOUS
<1>7. CASE /\ Fr!AddTemp
           /\ q(1) = Quad("CallResult", t, Nothing, Top.callee)
           /\ \E type : Takes(0, Result(t, type))
  <2>1. Reads(q(1)) = {} /\ Writes(q(1)) = {t} /\ ~LeavesBlock(q(1)) /\ q(1).op # "FunBegin"
    BY <1>7, Uses, SMTT(40) DEF Quad
  <2> HIDE DEF q
  <2>2. t[1] >= temps
    BY <1>4, <1>5
  <2>3. NewWrites(2)
    <3>1. SUFFICES ASSUME NEW k \in 1 .. 2, NEW u \in Writes(q(k))
                   PROVE  /\ Made(u)' /\ u[1] >= temps /\ u \in named'
                          /\ \A j \in 1 .. 2 : u \in Writes(q(j)) => j = k
      BY DEF NewWrites, q
    <3>2. k = 1 /\ u \in {t}
      BY <1>3, <1>6, <2>1
    <3>3. Made(u)'
      BY <1>5, <1>7, <3>2
    <3>4. \A j \in 1 .. 2 : u \in Writes(q(j)) => j = k
      BY <1>3, <1>6, <3>2
    <3>5. QED
      BY <1>5, <1>7, <2>2, <3>2, <3>3, <3>4
  <2>4. NewReads(2)
    BY <1>3, <1>6, <2>1 DEF NewReads, q
  <2>5. NewVals(2)
    <3>1. PICK type : Takes(0, Result(t, type))
      BY <1>7
    <3>2. ASSUME NEW i \in 1 .. Len(vals'), vals'[i] = Result(t, type)
          PROVE  \E k \in 1 .. 2 : vals'[i].temp \in Writes(q(k))
      <4>1. vals'[i].temp \in Writes(q(1)) /\ 1 \in 1 .. 2
        BY <2>1, <3>2 DEF Result
      <4>2. QED
        BY <4>1
    <3>3. QED
      BY <3>1, <3>2, TakesVals DEF NewVals, q
  <2>6. SameFrameNames
    BY <1>2, <1>7, NamesStay DEF SameFrameNames
  <2>7. \A k \in 1 .. 2 : q(k).op # "FunBegin" /\ ~LeavesBlock(q(k))
    BY <1>3, <1>6, <2>1
  <2>8. QED
    BY <1>1, <1>2, <2>3, <2>4, <2>5, <2>6, <2>7 DEF PlainStep, q
<1>8. CASE /\ UNCHANGED frameVars
           /\ q(1) = Quad("CallNil", Nothing, Nothing, Top.callee)
           /\ Takes(0, NilResult)
  <2>1. Reads(q(1)) = {} /\ Writes(q(1)) = {} /\ ~LeavesBlock(q(1)) /\ q(1).op # "FunBegin"
    <3>1. q(1).op # "FunBegin"
      BY <1>8 DEF Quad
    <3>2. Reads(q(1)) = {} /\ Writes(q(1)) = {} /\ ~LeavesBlock(q(1))
      BY <1>8, Uses
    <3>3. QED
      BY <3>1, <3>2
  <2> HIDE DEF q
  <2>2. NewWrites(2)
    BY <1>3, <1>6, <2>1 DEF NewWrites, q
  <2>3. NewReads(2)
    BY <1>3, <1>6, <2>1 DEF NewReads, q
  <2>4. NewVals(2)
    BY <1>8, TakesVals DEF NewVals, NilResult, Result
  <2>5. SameFrameNames
    BY <1>2, <1>8 DEF SameFrameNames, frameVars
  <2>6. \A k \in 1 .. 2 : q(k).op # "FunBegin" /\ ~LeavesBlock(q(k))
    BY <1>3, <1>6, <2>1
  <2>7. QED
    BY <1>1, <1>2, <2>2, <2>3, <2>4, <2>5, <2>6 DEF PlainStep, q
<1>9. QED
  BY <1>1, <1>7, <1>8

\* The quads of a statement that writes nothing: the first reads the operand.
LEMMA ReadsLast ==
    ASSUME WalkInv, Len(vals) = 1, NEW n \in 1 .. 3, Appends(n), vals' = <<>>,
           Reads(quads'[Len(quads) + 1]) = {Last.temp},
           \A k \in 2 .. n : Reads(quads'[Len(quads) + k]) = {},
           \A k \in 1 .. n : /\ Writes(quads'[Len(quads) + k]) = {}
                             /\ quads'[Len(quads) + k].op # "FunBegin"
                             /\ LeavesBlock(quads'[Len(quads) + k]) => k = n,
           UNCHANGED frameVars, fun' = fun, globals' = globals, errors => errors'
    PROVE  PlainStep(n)
<1>1. NewWrites(n)
  BY DEF NewWrites
<1>2. NewReads(n)
  <2>1. 1 \in 1 .. Len(vals) /\ Last.temp = vals[1].temp
    BY DEF Last
  <2>2. \A k \in 1 .. n : k = 1 \/ k \in 2 .. n
    OBVIOUS
  <2>3. QED
    BY <2>1, <2>2 DEF NewReads
<1>3. NewVals(n)
  BY Tuples DEF NewVals
<1>4. SameFrameNames
  BY DEF SameFrameNames, frameVars
<1>5. QED
  BY <1>1, <1>2, <1>3, <1>4 DEF PlainStep

LEMMA PrintStep ==
    ASSUME WalkInv, PrintStmt PROVE PlainStep(2) \/ PlainStep(3)
<1> DEFINE q(k) == quads'[Len(quads) + k]
           push == Quad("PushArg", Nothing, Nothing, Last.temp)
           pop == Quad("PopArgs", Nothing, Nothing, 1)
<1>1. /\ vals' = <<>> /\ Len(vals) = 1 /\ UNCHANGED <<frameVars, labels, ctx, errors>>
      /\ q(1) = push
      /\ \/ Appends(2) /\ q(2) = pop
         \/ /\ Appends(3) /\ q(3) = pop
            /\ \E f : q(2) = Quad("CallNil", Nothing, Nothing, f)
  BY PrintEffect DEF PopArgs
<1>2. fun' = fun /\ globals' = globals
  BY DEF PrintStmt
<1>3. /\ Reads(push) = {Last.temp} /\ Writes(push) = {} /\ ~LeavesBlock(push)
      /\ Reads(pop) = {} /\ Writes(pop) = {} /\ ~LeavesBlock(pop)
      /\ \A f : LET c == Quad("CallNil", Nothing, Nothing, f)
                IN  Reads(c) = {} /\ Writes(c) = {} /\ ~LeavesBlock(c)
  BY Uses
<1>4. /\ push.op # "FunBegin" /\ pop.op # "FunBegin"
      /\ \A f : Quad("CallNil", Nothing, Nothing, f).op # "FunBegin"
  BY DEF Quad
<1> HIDE DEF push, pop, q
<1>5. CASE Appends(2) /\ q(2) = pop
  <2>1. \A k \in 1 .. 2 : k = 1 \/ k = 2
    OBVIOUS
  <2>2. /\ Reads(q(1)) = {Last.temp} /\ \A k \in 2 .. 2 : Reads(q(k)) = {}
        /\ \A k \in 1 .. 2 : Writes(q(k)) = {} /\ q(k).op # "FunBegin" /\ ~LeavesBlock(q(k))
    BY <1>1, <1>3, <1>4, <1>5, <2>1
  <2>3. PlainStep(2)
    BY <1>1, <1>2, <1>5, <2>2, ReadsLast DEF q
  <2>4. QED
    BY <2>3
<1>6. CASE /\ Appends(3) /\ q(3) = pop
           /\ \E f : q(2) = Quad("CallNil", Nothing, Nothing, f)
  <2>1. /\ \A k \in 1 .. 3 : k = 1 \/ k = 2 \/ k = 3
        /\ \A k \in 2 .. 3 : k = 2 \/ k = 3
    OBVIOUS
  <2>2. Reads(q(2)) = {} /\ Writes(q(2)) = {} /\ q(2).op # "FunBegin" /\ ~LeavesBlock(q(2))
    BY <1>3, <1>4, <1>6
  <2>3. /\ Reads(q(1)) = {Last.temp} /\ \A k \in 2 .. 3 : Reads(q(k)) = {}
        /\ \A k \in 1 .. 3 : Writes(q(k)) = {} /\ q(k).op # "FunBegin" /\ ~LeavesBlock(q(k))
    BY <1>1, <1>3, <1>4, <1>6, <2>1, <2>2
  <2>4. PlainStep(3)
    BY <1>1, <1>2, <1>6, <2>3, ReadsLast DEF q
  <2>5. QED
    BY <2>4
<1>7. QED
  BY <1>1, <1>5, <1>6

LEMMA ReturnStep ==
    ASSUME WalkInv, Return PROVE PlainStep(1)
<1> DEFINE q == quads'[Len(quads) + 1]
<1>1. /\ vals' = <<>> /\ Len(vals) = 1 /\ Appends(1)
      /\ UNCHANGED <<frameVars, ctx>> /\ (errors => errors')
      /\ q = Quad("Return", Nothing, Nothing, Last.temp)
  BY ReturnEffect
<1>2. fun' = fun /\ globals' = globals
  BY DEF Return
<1>3. Reads(q) = {Last.temp} /\ Writes(q) = {}
  BY <1>1, Uses
<1>4. q.op # "FunBegin"
  BY <1>1 DEF Quad
<1> HIDE DEF q
<1>5. /\ \A k \in 2 .. 1 : Reads(quads'[Len(quads) + k]) = {}
      /\ \A k \in 1 .. 1 : /\ Writes(quads'[Len(quads) + k]) = {}
                           /\ quads'[Len(quads) + k].op # "FunBegin"
                           /\ LeavesBlock(quads'[Len(quads) + k]) => k = 1
  BY <1>3, <1>4 DEF q
<1>6. QED
  BY <1>1, <1>2, <1>3, <1>5, ReadsLast DEF q

LEMMA DeclStep ==
    ASSUME WalkInv, FrameInv, NEW x \in Idents, NEW type, DeclSym(x, type)
    PROVE  PlainStep(0) \/ PlainStep(1)
<1> DEFINE q == quads'[Len(quads) + 1]
           t == Fr!TacName(temps, x)
<1>1. /\ vals' = <<>> /\ Len(vals) = 1 /\ (errors => errors')
      /\ \/ /\ Appends(1) /\ Fr!AddLocal(x)
            /\ q = Quad("Assign", t, Last.temp, Nothing)
         \/ Appends(0) /\ Fr!AddLocalAborts(x)
  BY DeclEffect
<1>2. fun' = fun /\ globals' = globals
  BY DEF DeclSym
<1>3. CASE /\ Appends(1) /\ Fr!AddLocal(x)
           /\ q = Quad("Assign", t, Last.temp, Nothing)
  <2>1. Reads(q) = {Last.temp} /\ Writes(q) = {t} /\ ~LeavesBlock(q)
    BY <1>3, Uses
  <2>2. q.op # "FunBegin"
    BY <1>3 DEF Quad
  <2>3. temps \in Nat
    BY FrameAssumption DEF FrameInv
  <2>4. t = <<temps, x>> /\ temps' = temps + 1 /\ t \in named'
    BY <1>3, <2>3, NewNamed DEF Fr!TacName, Fr!AddLocal
  <2> HIDE DEF t
  <2>5. t[1] >= temps /\ \A u \in {t} : Made(u)'
    BY <2>3, <2>4 DEF Made, Fr!Names
  <2> HIDE DEF q
  <2>6. NewWrites(1)
    <3>1. SUFFICES ASSUME NEW u \in Writes(q)
                   PROVE  Made(u)' /\ u[1] >= temps /\ u \in named'
      BY DEF NewWrites, q
    <3>2. u \in {t}
      BY <2>1
    <3>3. QED
      BY <2>4, <2>5, <3>2
  <2>7. NewReads(1)
    <3>1. 1 \in 1 .. Len(vals) /\ Last.temp = vals[1].temp
      BY <1>1 DEF Last
    <3>2. QED
      BY <2>1, <3>1 DEF NewReads, q
  <2>8. NewVals(1)
    BY <1>1, Tuples DEF NewVals
  <2>9. SameFrameNames
    BY <1>2, <1>3, NamesStay DEF SameFrameNames
  <2>10. \A k \in 1 .. 1 : /\ quads'[Len(quads) + k].op # "FunBegin"
                           /\ ~LeavesBlock(quads'[Len(quads) + k])
    BY <2>1, <2>2 DEF q
  <2>11. QED
    BY <1>1, <1>3, <2>6, <2>7, <2>8, <2>9, <2>10 DEF PlainStep
<1>4. CASE Appends(0) /\ Fr!AddLocalAborts(x)
  <2>1. SameFrameNames
    BY <1>2, <1>4, NamesStay DEF SameFrameNames
  <2>2. QED
    BY <1>1, <1>4, <2>1, QuietStep
<1>5. QED
  BY <1>1, <1>3, <1>4

\* A control structure's quad reads the condition or nothing.
LEMMA JumpStep ==
    ASSUME WalkInv, NEW q, NEW l, Jumps(q, l), UNCHANGED <<frameVars, fun, globals>>,
           vals' = <<>>, errors => errors', q.op # "FunBegin", Writes(q) = {},
           \A t \in Reads(q) : \E i \in 1 .. Len(vals) : t = vals[i].temp
    PROVE  ControlStep
<1>1. \A k \in 1 .. Len(quads) : k \in 1 .. Len(quads) + 1
  BY Lengths
<1>2. Len(quads) + 1 \in 1 .. Len(quads) + 1
  BY Lengths
<1>3. QED
  BY <1>1, <1>2 DEF Jumps, ControlStep

LEMMA GotoStep ==
    ASSUME WalkInv, NEW k, NEW l, Jumps(Quad("Goto", Nothing, Nothing, k), l),
           UNCHANGED <<frameVars, fun, globals>>, vals' = <<>>, errors => errors'
    PROVE  ControlStep
<1> DEFINE q == Quad("Goto", Nothing, Nothing, k)
<1>1. Reads(q) = {} /\ Writes(q) = {}
  BY Uses
<1>2. q.op # "FunBegin"
  BY DEF Quad
<1> HIDE DEF q
<1>3. Jumps(q, l)
  BY DEF q
<1>4. QED
  BY <1>1, <1>2, <1>3, JumpStep

LEMMA CondGotoStep ==
    ASSUME WalkInv, NEW k, NEW l, Jumps(Quad("CondGoto", Last.temp, k, l), l), Len(vals) = 1,
           UNCHANGED <<frameVars, fun, globals>>, vals' = <<>>, errors => errors'
    PROVE  ControlStep
<1> DEFINE q == Quad("CondGoto", Last.temp, k, l)
<1>1. Reads(q) = {Last.temp} /\ Writes(q) = {}
  BY Uses
<1>2. q.op # "FunBegin"
  BY DEF Quad
<1>3. 1 \in 1 .. Len(vals) /\ Last.temp = vals[1].temp
  BY DEF Last
<1> HIDE DEF q
<1>4. Jumps(q, l)
  BY DEF q
<1>5. QED
  BY <1>1, <1>2, <1>3, <1>4, JumpStep

LEMMA ControlSteps ==
    ASSUME WalkInv,
           If(FALSE) \/ If(TRUE) \/ Else \/ IfEnd \/ While \/ WhileBody \/ WhileEnd
    PROVE  ControlStep
<1>1. fun' = fun /\ globals' = globals
  BY DEF If, Else, IfEnd, While, WhileBody, WhileEnd
<1>2. ASSUME NEW hasElse \in BOOLEAN, If(hasElse) PROVE ControlStep
  <2> DEFINE no == IF hasElse THEN lcount + 2 ELSE lcount + 1
  <2>1. /\ vals' = <<>> /\ Len(vals) = 1 /\ UNCHANGED frameVars /\ (errors => errors')
        /\ Jumps(Quad("CondGoto", Last.temp, no, lcount), lcount)
    BY <1>2, IfEffect
  <2> HIDE DEF no
  <2>2. QED
    BY <1>1, <2>1, CondGotoStep
<1>3. CASE Else
  <2>1. /\ vals' = <<>> /\ UNCHANGED frameVars /\ errors' = errors
        /\ Jumps(Quad("Goto", Nothing, Nothing, Top.l1), Top.l2)
    BY <1>3, ElseEffect
  <2>2. QED
    BY <1>1, <2>1, GotoStep
<1>4. CASE IfEnd
  <2>1. /\ vals' = <<>> /\ UNCHANGED frameVars /\ errors' = errors
        /\ \/ /\ quads' = quads
              /\ \A k \in 1 .. Len(quads) : LabelIn(labels', k) = LabelIn(labels, k)
           \/ Jumps(Quad("Goto", Nothing, Nothing, Top.l1), Top.l1)
    BY <1>4, IfEndEffect
  <2>2. QED
    BY <1>1, <2>1, GotoStep DEF ControlStep
<1>5. CASE While
  <2>1. /\ vals' = <<>> /\ UNCHANGED frameVars /\ errors' = errors
        /\ Jumps(Quad("Goto", Nothing, Nothing, lcount), lcount)
    BY <1>5, WhileEffect
  <2>2. QED
    BY <1>1, <2>1, GotoStep
<1>6. CASE WhileBody
  <2> DEFINE end == lcount + 1
  <2>1. /\ vals' = <<>> /\ Len(vals) = 1 /\ UNCHANGED frameVars /\ (errors => errors')
        /\ Jumps(Quad("CondGoto", Last.temp, end, lcount), lcount)
    BY <1>6, WhileBodyEffect
  <2> HIDE DEF end
  <2>2. QED
    BY <1>1, <2>1, CondGotoStep
<1>7. CASE WhileEnd
  <2>1. /\ vals' = <<>> /\ UNCHANGED frameVars /\ errors' = errors
        /\ Jumps(Quad("Goto", Nothing, Nothing, Top.l1), Top.l2)
    BY <1>7, WhileEndEffect
  <2>2. QED
    BY <1>1, <2>1, GotoStep
<1>8. QED
  BY <1>2, <1>3, <1>4, <1>5, <1>6, <1>7

\* Every step of the walk is of one of these kinds.
LEMMA Steps ==
    ASSUME WalkInv, FrameInv, [Next]_vars
    PROVE  \/ \E m \in 0 .. 3 : PlainStep(m)
           \/ ControlStep
           \/ \E f \in Funs, sig \in Sigs : FunDef(f, sig)
           \/ FunDefEnd
           \/ Finish
<1>1. CASE \/ Import \/ (\E m \in Idents : SetSymParam(m)) \/ UNCHANGED vars
           \/ BodyBegin \/ BlockBegin \/ BlockEnd \/ ExprStmt
           \/ \E f \in Funs : Call(f)
  BY <1>1, QuietSteps
<1>2. CASE \/ \E type : Literal(type)
           \/ \E m \in Idents : GetSym(m) \/ SetSymUndeclared(m)
           \/ \E f \in Funs, n \in 0 .. MaxParams : CallRejected(f, n)
  BY <1>2, LeavesStep
<1>3. ASSUME NEW m \in Idents, SetSym(m) PROVE \E n \in 0 .. 3 : PlainStep(n)
  BY <1>3, SetSymStep
<1>4. ASSUME NEW op \in BinOps, Binary(op) PROVE \E n \in 0 .. 3 : PlainStep(n)
  BY <1>4, BinaryStep
<1>5. CASE Unary
  BY <1>5, UnaryStep
<1>6. CASE CallArg
  BY <1>6, CallArgStep
<1>7. CASE CallEnd
  BY <1>7, CallEndStep
<1>8. CASE PrintStmt
  BY <1>8, PrintStep
<1>9. CASE Return
  BY <1>9, ReturnStep
<1>10. ASSUME NEW x \in Idents, NEW type, DeclSym(x, type)
       PROVE  \E n \in 0 .. 3 : PlainStep(n)
  BY <1>10, DeclStep
<1>11. CASE If(FALSE) \/ If(TRUE) \/ Else \/ IfEnd \/ While \/ WhileBody \/ WhileEnd
  BY <1>11, ControlSteps
<1>12. QED
  BY <1>1, <1>2, <1>3, <1>4, <1>5, <1>6, <1>7, <1>8, <1>9, <1>10, <1>11 DEF Next

-----------------------------------------------------------------------------
(* Operands are names that were made *)

\* A quad that a plain step leaves behind is an old one or one of its own.
LEMMA OldOrNew ==
    ASSUME WalkInv, NEW m, Appends(m), NEW i \in 1 .. Len(quads')
    PROVE  \/ i \in 1 .. Len(quads) /\ quads'[i] = quads[i]
           \/ \E k \in 1 .. m : i = Len(quads) + k
<1>1. /\ Len(quads) \in Nat /\ m \in Nat /\ Len(quads') = Len(quads) + m
      /\ \A j \in 1 .. Len(quads) : quads'[j] = quads[j]
  BY Lengths DEF Appends
<1>2. CASE i <= Len(quads)
  BY <1>1, <1>2
<1>3. CASE ~(i <= Len(quads))
  <2>1. i - Len(quads) \in 1 .. m /\ i = Len(quads) + (i - Len(quads))
    BY <1>1, <1>3
  <2>2. QED
    BY <2>1
<1>4. QED
  BY <1>2, <1>3

LEMMA ParamsAreIdents ==
    ASSUME WalkInv
    PROVE  /\ fun.params \in Seq(Idents) /\ DOMAIN fun.params \subseteq Nat
           /\ \A j \in DOMAIN fun.params : fun.params[j] \in Idents
<1>1. fun \in Sigs \/ fun = NoFun
  BY Lengths DEF Compiling
<1>2. NoFun.params \in Seq(Idents)
  BY DEF NoFun
<1>3. fun.params \in Seq(Idents)
  BY <1>1, <1>2, SigsAssumption
<1>4. QED
  BY <1>3, LenProperties

LEMMA NamesInit == Init => NamesInv
<1> SUFFICES ASSUME Init PROVE NamesInv
  OBVIOUS
<1> DEFINE q == Quad("Entry", Nothing, Nothing, Nothing)
           r == Quad("CallNil", Nothing, Nothing, Main)
           s == Quad("Exit", Nothing, Nothing, Nothing)
<1>1. quads = <<q, r, s>> /\ vals = <<>>
  BY DEF Init
<1>2. Writes(q) = {} /\ Writes(r) = {} /\ Writes(s) = {}
  BY Uses
<1> HIDE DEF q, r, s
<1>3. Len(quads) = 3 /\ quads[1] = q /\ quads[2] = r /\ quads[3] = s /\ Len(vals) = 0
  BY <1>1, Tuples
<1>4. \A i \in 1 .. Len(quads) : Writes(quads[i]) = {}
  <2>1. \A i \in 1 .. 3 : i = 1 \/ i = 2 \/ i = 3
    OBVIOUS
  <2>2. QED
    BY <1>2, <1>3, <2>1
<1>5. QED
  BY <1>3, <1>4 DEF NamesInv

LEMMA NamesNext ==
    ASSUME WalkInv, FrameInv, NamesInv, [Next]_vars PROVE NamesInv'
<1> DEFINE M(t) == t \in Nat \X Fr!Names /\ t[1] < temps'
           O(t) == t \in {Lit, Nothing} \cup Idents \/ M(t)
<1>1. \A t : Made(t) => M(t)
  <2>1. temps \in Nat
    BY FrameAssumption DEF FrameInv
  <2>2. temps' \in Nat /\ temps <= temps'
    BY <2>1, CounterGrows
  <2>3. SUFFICES ASSUME NEW t, Made(t) PROVE M(t)
    OBVIOUS
  <2>4. t \in Nat \X Fr!Names /\ t[1] \in Nat /\ t[1] < temps
    BY <2>3 DEF Made
  <2>5. QED
    BY <2>1, <2>2, <2>4
<1>2. \A t : Made(t)' => M(t)
  BY DEF Made
<1>3. \A t : Operand(t) => O(t)
  BY <1>1 DEF Operand
<1>4. /\ \A i \in 1 .. Len(vals) : O(vals[i].temp)
      /\ \A i \in 1 .. Len(quads) : \A t \in Writes(quads[i]) : M(t)
  BY <1>1, <1>3 DEF NamesInv
<1>5. SUFFICES /\ \A i \in 1 .. Len(vals') : O(vals'[i].temp)
               /\ \A i \in 1 .. Len(quads') : \A t \in Writes(quads'[i]) : M(t)
  BY DEF NamesInv, Operand, Made
<1> DEFINE Goal == /\ \A i \in 1 .. Len(vals') : O(vals'[i].temp)
                   /\ \A i \in 1 .. Len(quads') : \A t \in Writes(quads'[i]) : M(t)
<1>6. \A t : M(t) \/ t \in {Lit, Nothing} \cup Idents => O(t)
  OBVIOUS
<1> HIDE DEF M, O
<1>7. ASSUME NEW m \in 0 .. 3, PlainStep(m) PROVE Goal
  <2>1. Appends(m) /\ NewWrites(m) /\ NewVals(m)
    BY <1>7 DEF PlainStep
  <2>2. \A k \in 1 .. m : \A t \in Writes(quads'[Len(quads) + k]) : M(t)
    BY <1>2, <2>1 DEF NewWrites
  <2>3. \A i \in 1 .. Len(quads') : \A t \in Writes(quads'[i]) : M(t)
    BY <1>4, <2>1, <2>2, OldOrNew
  <2>4. ASSUME NEW i \in 1 .. Len(vals') PROVE O(vals'[i].temp)
    <3>1. CASE i <= Len(vals) /\ vals'[i] = vals[i]
      <4>1. i \in 1 .. Len(vals)
        BY <3>1, Lengths
      <4>2. QED
        BY <1>4, <3>1, <4>1
    <3>2. CASE vals'[i].temp \in {Lit, Nothing}
      BY <1>6, <3>2
    <3>3. CASE \E j \in DOMAIN fun.params : vals'[i].temp = fun.params[j]
      BY <1>6, <3>3, ParamsAreIdents
    <3>4. CASE \E s \in live : s.key \in Idents /\ vals'[i].temp = s.tac
      BY <1>1, <1>6, <3>4 DEF FrameInv
    <3>5. CASE \E k \in 1 .. m : vals'[i].temp \in Writes(quads'[Len(quads) + k])
      BY <1>6, <2>2, <3>5
    <3>6. CASE \A t \in {vals'[i].temp} : Made(t)'
      BY <1>2, <1>6, <3>6
    <3>7. QED
      BY <2>1, <3>1, <3>2, <3>3, <3>4, <3>5, <3>6 DEF NewVals
  <2>5. QED
    BY <2>3, <2>4
<1>8. CASE ControlStep
  <2>1. \/ quads' = quads
        \/ /\ Len(quads') = Len(quads) + 1
           /\ \A i \in 1 .. Len(quads) : quads'[i] = quads[i]
           /\ Writes(quads'[Len(quads) + 1]) = {}
    BY <1>8 DEF ControlStep
  <2>2. \A i \in 1 .. Len(quads') : i \in 1 .. Len(quads) \/ i = Len(quads) + 1 \/ quads' = quads
    BY <2>1, Lengths
  <2>3. \A i \in 1 .. Len(vals') : FALSE
    BY <1>8, Tuples DEF ControlStep
  <2>4. QED
    BY <1>4, <2>1, <2>2, <2>3
<1>9. ASSUME NEW f \in Funs, NEW sig \in Sigs, FunDef(f, sig) PROVE Goal
  <2>1. /\ vals' = <<>> /\ Len(quads') = Len(quads) + 1
        /\ \A i \in 1 .. Len(quads) : quads'[i] = quads[i]
        /\ quads'[Len(quads) + 1] = Quad("FunBegin", Nothing, Nothing, Nothing)
    BY <1>9, FunDefEffect
  <2>2. Writes(quads'[Len(quads) + 1]) = {}
    BY <2>1, Uses
  <2>3. \A i \in 1 .. Len(quads') : i \in 1 .. Len(quads) \/ i = Len(quads) + 1
    BY <2>1, Lengths
  <2>4. \A i \in 1 .. Len(vals') : FALSE
    BY <2>1, Tuples
  <2>5. QED
    BY <1>4, <2>1, <2>2, <2>3, <2>4
<1>10. CASE FunDefEnd
  <2>1. /\ vals' = <<>> /\ Len(quads') = Len(quads) + 1
        /\ quads'[Len(quads) + 1] = Quad("FunEnd", Nothing, Nothing, Nothing)
        /\ quads'[Top.left] = Quad("FunBegin", Nothing, Nothing, Fr!Reservation)
        /\ \A i \in 1 .. Len(quads) : i # Top.left => quads'[i] = quads[i]
    BY <1>10, FunDefEndEffect
  <2>2. Writes(quads'[Len(quads) + 1]) = {} /\ Writes(quads'[Top.left]) = {}
    BY <2>1, Uses
  <2>3. \A i \in 1 .. Len(quads') : i \in 1 .. Len(quads) \/ i = Len(quads) + 1
    BY <2>1, Lengths
  <2>4. \A i \in 1 .. Len(vals') : FALSE
    BY <2>1, Tuples
  <2>5. QED
    BY <1>4, <2>1, <2>2, <2>3, <2>4
<1>11. CASE Finish
  <2>1. vals' = <<>> /\ quads' = quads
    BY <1>11, FinishEffect
  <2>2. \A i \in 1 .. Len(vals') : FALSE
    BY <2>1, Tuples
  <2>3. QED
    BY <1>4, <2>1, <2>2
<1>12. QED
  BY <1>7, <1>8, <1>9, <1>10, <1>11, Steps

\* The invariant of the walk on which the theorems below rest.
WalkNames == WalkInv /\ FrameInv /\ NamesInv

LEMMA NamesInductive == Spec => []WalkNames
<1>1. WalkInv /\ FrameInv /\ NamesInv /\ [Next]_vars => NamesInv'
  BY NamesNext
<1>2. QED
  BY NamesInit, WalkInductive, FrameInductive, <1>1, PTL DEF Spec, WalkNames

-----------------------------------------------------------------------------
(* Operands that wait *)

\* An operand that a step writes was made before.
LEMMA WrittenIsMade ==
    ASSUME Fr!PlainIdents, FrameInv', NEW t, Made(t)'
    PROVE  t \in Fr!TacNames /\ t \notin {Lit, Nothing} \cup Idents
<1>1. t \in Nat \X Fr!Names /\ t[1] < temps' /\ temps' \in 0 .. MaxTemps
  BY DEF Made, FrameInv
<1>2. t \in (0 .. MaxTemps) \X Fr!Names
  <2>1. t = <<t[1], t[2]>> /\ t[1] \in Nat /\ t[2] \in Fr!Names
    BY <1>1
  <2>2. t[1] \in 0 .. MaxTemps
    BY <1>1, <2>1, FrameAssumption
  <2>3. QED
    BY <2>1, <2>2
<1>3. t \in Fr!TacNames
  BY <1>2 DEF Fr!TacNames
<1>4. t \notin Idents
  BY <1>3 DEF Fr!PlainIdents
<1>5. t \notin {Lit, Nothing}
  BY <1>2, OperandsAssumption DEF Fr!Names
<1>6. QED
  BY <1>3, <1>4, <1>5

\* A visible variable of the program is no temporary.
LEMMA VariableIsNoTemp ==
    ASSUME Fr!PlainIdents, FrameInv, NEW s \in live, s.key \in Idents
    PROVE  ~IsTemp(s.tac)
<1>1. s.key = IF s.tac[2] = Anon THEN s.tac ELSE s.tac[2]
  BY DEF FrameInv
<1>2. s.key \notin Fr!TacNames
  BY DEF Fr!PlainIdents
<1>3. QED
  BY <1>1, <1>2 DEF IsTemp

LEMMA KeptByStep ==
    ASSUME Fr!PlainIdents, WalkNames, WalkNames', [Next]_vars
    PROVE  \A i \in DOMAIN vals \cap DOMAIN vals' :
              vals'[i] = vals[i] =>
                  \A k \in Len(quads) + 1 .. Len(quads') :
                      vals[i].temp \in Writes(quads'[k]) =>
                          ~IsTemp(vals[i].temp) /\ \E m \in Idents : SetSym(m)
<1>1. SUFFICES ASSUME NEW i \in DOMAIN vals \cap DOMAIN vals', vals'[i] = vals[i],
                      NEW k \in Len(quads) + 1 .. Len(quads'),
                      vals[i].temp \in Writes(quads'[k])
               PROVE  ~IsTemp(vals[i].temp) /\ \E m \in Idents : SetSym(m)
  OBVIOUS
<1> DEFINE t == vals[i].temp
<1>2. WalkInv /\ FrameInv /\ NamesInv /\ FrameInv' /\ WalkInv'
  BY DEF WalkNames
<1>3. i \in 1 .. Len(vals) /\ i \in 1 .. Len(vals') /\ Operand(t)
  <2>1. DOMAIN vals = 1 .. Len(vals)
    BY <1>2, Lengths
  <2>2. DOMAIN vals' = 1 .. Len(vals')
    BY <1>2, LenIsNat DEF WalkInv
  <2>3. QED
    BY <1>1, <1>2, <2>1, <2>2 DEF NamesInv
<1>4. vals' # <<>>
  BY <1>3, Tuples
<1>5. PICK m \in 0 .. 3 : PlainStep(m)
  <2>1. ~ControlStep
    BY <1>4 DEF ControlStep
  <2>2. ~FunDefEnd /\ ~Finish /\ \A f \in Funs, sig \in Sigs : ~FunDef(f, sig)
    BY <1>2, <1>4, FunDefEndEffect, FinishEffect, FunDefEffect
  <2>3. QED
    BY <1>2, <2>1, <2>2, Steps
<1>6. PICK j \in 1 .. m : k = Len(quads) + j
  <2>1. Len(quads') = Len(quads) + m /\ m \in Nat /\ Len(quads) \in Nat
    BY <1>2, <1>5, Lengths DEF PlainStep, Appends
  <2>2. k - Len(quads) \in 1 .. m /\ k = Len(quads) + (k - Len(quads))
    BY <2>1
  <2>3. QED
    BY <2>2
<1> HIDE DEF t
<1>7. t \in Writes(quads'[Len(quads) + j])
  BY <1>1, <1>6 DEF t
<1>8. \A u \in {t} :
        /\ Made(u)'
        /\ \/ u[1] >= temps
           \/ \E x \in Idents : /\ SetSym(x)
                                /\ \E s \in live : s.tac = u /\ s.key \in Idents
  BY <1>5, <1>7 DEF PlainStep, NewWrites
<1>9. \A u \in {t} : u \in Fr!TacNames /\ u \notin {Lit, Nothing} \cup Idents
  BY <1>2, <1>8, WrittenIsMade
<1>10. Made(t)
  BY <1>3, <1>9 DEF Operand
<1>11. ~(t[1] >= temps)
  <2>1. t[1] \in Nat /\ t[1] < temps /\ temps \in Nat
    BY <1>2, <1>10, FrameAssumption DEF Made, FrameInv
  <2>2. QED
    BY <2>1
<1>12. PICK x \in Idents : SetSym(x) /\ \E s \in live : s.tac = t /\ s.key \in Idents
  BY <1>8, <1>11
<1>13. ~IsTemp(t)
  BY <1>2, <1>12, VariableIsNoTemp
<1>14. QED
  BY <1>12, <1>13 DEF t

(***************************************************************************)
(* In the translation of any program, nothing overwrites a temporary that  *)
(* waits for its operator: what a node leaves in vals is still there when  *)
(* the node above it emits its quad, however large the operand between.    *)
(* Only an assignment that the program itself writes changes what waits,   *)
(* and then a variable waits.                                              *)
(***************************************************************************)
THEOREM OperandsKept == ASSUME Fr!PlainIdents PROVE Spec => PendingOperandsKept
<1> DEFINE Kept == \A i \in DOMAIN vals \cap DOMAIN vals' :
                      vals'[i] = vals[i] =>
                          \A k \in Len(quads) + 1 .. Len(quads') :
                              vals[i].temp \in Writes(quads'[k]) =>
                                  ~IsTemp(vals[i].temp) /\ \E m \in Idents : SetSym(m)
<1>1. WalkNames /\ WalkNames' /\ [Next]_vars => Kept
  BY KeptByStep
<1>2. WalkNames /\ WalkNames' /\ [Next]_vars => [Kept]_vars
  BY <1>1
<1> HIDE DEF Kept
<1>3. Spec => [][Kept]_vars
  BY <1>2, NamesInductive, PTL DEF Spec
<1>4. QED
  BY <1>3 DEF PendingOperandsKept, Kept

-----------------------------------------------------------------------------
(* Temporaries stay in their block *)

\* More quads and labels behind a use do not disturb it.
LEMMA DefinedStill ==
    ASSUME NEW Q, NEW L, NEW Q1, NEW L1, NEW t, NEW u, DefinedFor(Q, L, t, u),
           Len(Q) \in Nat, u \in Nat, u <= Len(Q) + 1,
           \A i \in 1 .. Len(Q) : /\ Writes(Q1[i]) = Writes(Q[i])
                                  /\ LeavesBlock(Q1[i]) <=> LeavesBlock(Q[i]),
           \A i \in 1 .. Len(Q1) : i \in 1 .. Len(Q) \/ t \notin Writes(Q1[i]),
           \A k \in 1 .. u : LabelIn(L1, k) = LabelIn(L, k)
    PROVE  DefinedFor(Q1, L1, t, u)
<1>1. PICK d \in 1 .. u - 1 :
          /\ t \in Writes(Q[d])
          /\ \A i \in 1 .. Len(Q) : t \in Writes(Q[i]) => i = d
          /\ \A k \in d + 1 .. u : LabelIn(L, k) = Nothing
          /\ \A k \in d + 1 .. u - 1 : ~LeavesBlock(Q[k])
  BY DEF DefinedFor
<1>2. d \in 1 .. Len(Q) /\ t \in Writes(Q1[d])
  BY <1>1
<1>3. \A i \in 1 .. Len(Q1) : t \in Writes(Q1[i]) => i = d
  BY <1>1
<1>4. \A k \in d + 1 .. u : LabelIn(L1, k) = Nothing
  <2>1. \A k \in d + 1 .. u : k \in 1 .. u
    BY <1>1
  <2>2. QED
    BY <1>1, <2>1
<1>5. \A k \in d + 1 .. u - 1 : ~LeavesBlock(Q1[k])
  <2>1. \A k \in d + 1 .. u - 1 : k \in 1 .. Len(Q)
    BY <1>1
  <2>2. QED
    BY <1>1, <2>1
<1>6. QED
  BY <1>1, <1>2, <1>3, <1>4, <1>5 DEF DefinedFor

\* A use may move on as long as no label and no jump comes between.
LEMMA DefinedLater ==
    ASSUME NEW Q, NEW L, NEW t, NEW u \in Nat, NEW v \in Nat, DefinedFor(Q, L, t, u), u <= v,
           \A k \in u + 1 .. v : LabelIn(L, k) = Nothing,
           \A k \in u .. v - 1 : ~LeavesBlock(Q[k])
    PROVE  DefinedFor(Q, L, t, v)
<1>1. PICK d \in 1 .. u - 1 :
          /\ t \in Writes(Q[d])
          /\ \A i \in 1 .. Len(Q) : t \in Writes(Q[i]) => i = d
          /\ \A k \in d + 1 .. u : LabelIn(L, k) = Nothing
          /\ \A k \in d + 1 .. u - 1 : ~LeavesBlock(Q[k])
  BY DEF DefinedFor
<1>2. d \in 1 .. v - 1
  BY <1>1
<1>3. \A k \in d + 1 .. v : k \in d + 1 .. u \/ k \in u + 1 .. v
  BY <1>1
<1>4. \A k \in d + 1 .. v - 1 : k \in d + 1 .. u - 1 \/ k \in u .. v - 1
  BY <1>1
<1>5. QED
  BY <1>1, <1>2, <1>3, <1>4 DEF DefinedFor

\* What is defined in the quads was made.
LEMMA DefinedIsMade ==
    ASSUME NamesInv, NEW L, NEW t, NEW u, u \in Nat, Len(quads) \in Nat, u <= Len(quads) + 1,
           DefinedFor(quads, L, t, u)
    PROVE  Made(t)
<1>1. PICK d \in 1 .. u - 1 : t \in Writes(quads[d])
  BY DEF DefinedFor
<1>2. d \in 1 .. Len(quads)
  BY <1>1
<1>3. QED
  BY <1>1, <1>2 DEF NamesInv

LEMMA LiteralIsNoTemp == ~IsTemp(Lit) /\ ~IsTemp(Nothing)
BY OperandsAssumption DEF IsTemp, Fr!TacNames, Fr!Names

LEMMA PlainKeepsLocal ==
    ASSUME Fr!PlainIdents, WalkNames, FrameInv', LocalInv, NEW m \in 0 .. 3, PlainStep(m)
    PROVE  LocalInv'
<1> DEFINE n == Len(quads)
<1>1. WalkInv /\ FrameInv /\ NamesInv
  BY DEF WalkNames
<1>2. /\ n \in Nat /\ Len(quads') = n + m /\ labels' = labels
      /\ \A i \in 1 .. n : quads'[i] = quads[i]
      /\ \A k \in Nat : k >= n + 2 => LabelIn(labels', k) = Nothing
  BY <1>1, Lengths DEF PlainStep, Appends, LabelIn
<1>3. /\ NewWrites(m) /\ NewReads(m) /\ NewVals(m)
      /\ \A k \in 1 .. m : LeavesBlock(quads'[n + k]) => k = m /\ vals' = <<>>
  BY DEF PlainStep
<1>4. SUFFICES ASSUME ~errors'
               PROVE  /\ BlockLocal(quads', labels')
                      /\ \A i \in 1 .. Len(vals') :
                            IsTemp(vals'[i].temp) =>
                                DefinedFor(quads', labels', vals'[i].temp, n + m + 1)
  BY <1>2 DEF LocalInv
<1>5. /\ BlockLocal(quads, labels)
      /\ \A i \in 1 .. Len(vals) :
            IsTemp(vals[i].temp) => DefinedFor(quads, labels, vals[i].temp, n + 1)
  BY <1>4 DEF LocalInv, PlainStep
\* the temporaries of the step are new
<1>6. ASSUME NEW t, IsTemp(t), NEW k \in 1 .. m, t \in Writes(quads'[n + k])
      PROVE  /\ ~Made(t)
             /\ \A j \in 1 .. m : t \in Writes(quads'[n + j]) => j = k
  <2>1. /\ \/ t[1] >= temps
           \/ \E x \in Idents : /\ SetSym(x)
                                /\ \E s \in live : s.tac = t /\ s.key \in Idents
        /\ \A j \in 1 .. m : t \in Writes(quads'[n + j]) => j = k
    BY <1>3, <1>6 DEF NewWrites
  <2>2. ~\E s \in live : s.tac = t /\ s.key \in Idents
    BY <1>1, <1>6, VariableIsNoTemp
  <2>3. t[1] \in Nat /\ temps \in Nat
    BY <1>1, <1>6, FrameAssumption DEF IsTemp, Fr!TacNames, FrameInv
  <2>4. ~Made(t)
    BY <2>1, <2>2, <2>3 DEF Made
  <2>5. QED
    BY <2>1, <2>4
\* old definitions are still good
<1>7. ASSUME NEW t, NEW u \in 1 .. n + 1, IsTemp(t), DefinedFor(quads, labels, t, u)
      PROVE  DefinedFor(quads', labels', t, u)
  <2>1. Made(t)
    BY <1>1, <1>2, <1>7, DefinedIsMade
  <2>2. \A i \in 1 .. Len(quads') : i \in 1 .. n \/ t \notin Writes(quads'[i])
    <3>1. SUFFICES ASSUME NEW i \in 1 .. Len(quads'), i \notin 1 .. n, t \in Writes(quads'[i])
                   PROVE  FALSE
      OBVIOUS
    <3>2. PICK k \in 1 .. m : i = n + k
      BY <1>1, <3>1, OldOrNew DEF PlainStep
    <3>3. QED
      BY <1>6, <1>7, <2>1, <3>1, <3>2
  <2>3. QED
    BY <1>2, <1>7, <2>2, DefinedStill
\* and hold as far as the step goes
<1>8. ASSUME NEW t, IsTemp(t), DefinedFor(quads', labels', t, n + 1), NEW v \in n + 1 .. n + m + 1,
             \A k \in n + 1 .. v - 1 : ~LeavesBlock(quads'[k])
      PROVE  DefinedFor(quads', labels', t, v)
  <2> DEFINE w == n + 1
  <2>1. /\ w \in Nat /\ v \in Nat /\ w <= v /\ DefinedFor(quads', labels', t, w)
        /\ \A k \in w + 1 .. v : LabelIn(labels', k) = Nothing
        /\ \A k \in w .. v - 1 : ~LeavesBlock(quads'[k])
    BY <1>2, <1>8
  <2> HIDE DEF w
  <2>2. QED
    BY <2>1, DefinedLater
\* a name the step makes is defined from there on
<1>9. ASSUME NEW t, IsTemp(t), NEW d \in 1 .. m, t \in Writes(quads'[n + d]),
             NEW v \in n + d + 1 .. n + m + 1,
             \A k \in n + 1 .. v - 1 : ~LeavesBlock(quads'[k])
      PROVE  DefinedFor(quads', labels', t, v)
  <2>1. ~Made(t) /\ \A j \in 1 .. m : t \in Writes(quads'[n + j]) => j = d
    BY <1>6, <1>9
  <2>2. \A i \in 1 .. Len(quads') : t \in Writes(quads'[i]) => i = n + d
    <3>1. SUFFICES ASSUME NEW i \in 1 .. Len(quads'), t \in Writes(quads'[i])
                   PROVE  i = n + d
      OBVIOUS
    <3>2. CASE i \in 1 .. n
      BY <1>1, <1>2, <2>1, <3>1, <3>2 DEF NamesInv
    <3>3. CASE \E k \in 1 .. m : i = n + k
      BY <2>1, <3>1, <3>3
    <3>4. QED
      BY <1>1, <3>2, <3>3, OldOrNew DEF PlainStep
  <2>3. n + d \in 1 .. v - 1 /\ d \in Nat /\ d >= 1 /\ v \in Nat
    BY <1>2
  <2>4. \A k \in n + d + 1 .. v : LabelIn(labels', k) = Nothing
    BY <1>2, <2>3
  <2>5. \A k \in n + d + 1 .. v - 1 : ~LeavesBlock(quads'[k])
    BY <1>2, <1>9, <2>3
  <2> DEFINE e == n + d
  <2>6. /\ e \in 1 .. v - 1 /\ t \in Writes(quads'[e])
        /\ \A i \in 1 .. Len(quads') : t \in Writes(quads'[i]) => i = e
        /\ \A k \in e + 1 .. v : LabelIn(labels', k) = Nothing
        /\ \A k \in e + 1 .. v - 1 : ~LeavesBlock(quads'[k])
    BY <1>9, <2>2, <2>3, <2>4, <2>5
  <2> HIDE DEF e
  <2>7. QED
    BY <2>6 DEF DefinedFor
<1>10. BlockLocal(quads', labels')
  <2>1. SUFFICES ASSUME NEW u \in 1 .. Len(quads'), NEW t \in Reads(quads'[u]), IsTemp(t)
                 PROVE  DefinedFor(quads', labels', t, u)
    BY DEF BlockLocal
  <2>2. CASE u \in 1 .. n
    <3>1. t \in Reads(quads[u]) /\ u \in 1 .. n + 1
      BY <1>2, <2>1, <2>2
    <3>2. DefinedFor(quads, labels, t, u)
      BY <1>5, <2>1, <2>2, <3>1 DEF BlockLocal
    <3>3. QED
      BY <1>7, <2>1, <3>1, <3>2
  <2>3. ASSUME NEW k \in 1 .. m, u = n + k PROVE DefinedFor(quads', labels', t, u)
    <3>1. \A j \in n + 1 .. u - 1 : ~LeavesBlock(quads'[j])
      <4>1. SUFFICES ASSUME NEW j \in n + 1 .. u - 1 PROVE ~LeavesBlock(quads'[j])
        OBVIOUS
      <4>2. j - n \in 1 .. m /\ j - n # m /\ j = n + (j - n)
        BY <1>2, <2>3
      <4>3. QED
        BY <1>3, <4>2
    <3>2. u \in n + 1 .. n + m + 1
      BY <1>2, <2>3
    <3>3. t # Lit
      BY <2>1, LiteralIsNoTemp
    <3>4. CASE \E i \in 1 .. Len(vals) : t = vals[i].temp
      <4>1. DefinedFor(quads, labels, t, n + 1)
        BY <1>5, <2>1, <3>4
      <4>2. n + 1 \in 1 .. n + 1
        BY <1>2
      <4> DEFINE w == n + 1
      <4>3. DefinedFor(quads, labels, t, w) /\ w \in 1 .. n + 1
        BY <4>1, <4>2
      <4> HIDE DEF w
      <4>4. DefinedFor(quads', labels', t, w)
        BY <1>7, <2>1, <4>3
      <4>5. QED
        BY <1>8, <2>1, <3>1, <3>2, <4>4 DEF w
    <3>5. CASE \E d \in 1 .. k - 1 : t \in Writes(quads'[n + d])
      <4>1. PICK d \in 1 .. k - 1 : t \in Writes(quads'[n + d])
        BY <3>5
      <4>2. d \in 1 .. m /\ u \in n + d + 1 .. n + m + 1
        BY <1>2, <2>3
      <4>3. QED
        BY <1>9, <2>1, <3>1, <4>1, <4>2
    <3>6. QED
      BY <1>3, <2>1, <2>3, <3>3, <3>4, <3>5 DEF NewReads
  <2>4. QED
    BY <1>1, <2>2, <2>3, OldOrNew DEF PlainStep
<1>11. ASSUME NEW i \in 1 .. Len(vals'), IsTemp(vals'[i].temp)
       PROVE  DefinedFor(quads', labels', vals'[i].temp, n + m + 1)
  <2> DEFINE t == vals'[i].temp
             v == n + m + 1
  <2>1. vals' # <<>>
    BY <1>11, Tuples
  <2>2. \A k \in n + 1 .. v - 1 : ~LeavesBlock(quads'[k])
    <3>1. SUFFICES ASSUME NEW k \in n + 1 .. v - 1 PROVE ~LeavesBlock(quads'[k])
      OBVIOUS
    <3>2. k - n \in 1 .. m /\ k = n + (k - n)
      BY <1>2
    <3>3. QED
      BY <1>3, <2>1, <3>2
  <2>3. v \in n + 1 .. n + m + 1 /\ \A k \in 1 .. m : v \in n + k + 1 .. n + m + 1
    BY <1>2
  <2> HIDE DEF v
  <2>4. CASE i <= Len(vals) /\ vals'[i] = vals[i]
    <3>1. i \in 1 .. Len(vals)
      BY <1>1, <2>4, Lengths
    <3> DEFINE w == n + 1
    <3>2. DefinedFor(quads, labels, t, w) /\ w \in 1 .. n + 1
      BY <1>2, <1>5, <1>11, <2>4, <3>1
    <3> HIDE DEF w
    <3>3. DefinedFor(quads', labels', t, w)
      BY <1>7, <1>11, <3>2
    <3>4. DefinedFor(quads', labels', t, v)
      BY <1>8, <1>11, <2>2, <2>3, <3>3 DEF w
    <3>5. QED
      BY <3>4 DEF v
  <2>5. CASE t \in {Lit, Nothing}
    BY <1>11, <2>5, LiteralIsNoTemp
  <2>6. CASE \E j \in DOMAIN fun.params : t = fun.params[j]
    BY <1>1, <1>11, <2>6, ParamsAreIdents DEF IsTemp, Fr!PlainIdents
  <2>7. CASE \E s \in live : s.key \in Idents /\ t = s.tac
    BY <1>1, <1>11, <2>7, VariableIsNoTemp
  <2>8. CASE \E k \in 1 .. m : t \in Writes(quads'[n + k])
    <3>1. DefinedFor(quads', labels', t, v)
      BY <1>9, <1>11, <2>2, <2>3, <2>8
    <3>2. QED
      BY <3>1 DEF v
  <2>9. QED
    BY <1>3, <1>4, <2>4, <2>5, <2>6, <2>7, <2>8 DEF NewVals
<1>12. QED
  BY <1>10, <1>11

\* Steps that leave no operand, and whose quads read the old ones at most.
LEMMA ControlKeepsLocal ==
    ASSUME WalkInv, LocalInv, ControlStep PROVE LocalInv'
<1> DEFINE n == Len(quads)
<1>1. vals' = <<>> /\ (errors => errors') /\ Len(vals') = 0 /\ n \in Nat
  BY Lengths, Tuples DEF ControlStep
<1>2. SUFFICES ASSUME ~errors' PROVE BlockLocal(quads', labels')
  BY <1>1 DEF LocalInv
<1>3. /\ BlockLocal(quads, labels)
      /\ \A i \in 1 .. Len(vals) :
            IsTemp(vals[i].temp) => DefinedFor(quads, labels, vals[i].temp, n + 1)
  BY <1>1, <1>2 DEF LocalInv
<1>4. SUFFICES ASSUME NEW u \in 1 .. Len(quads'), NEW t \in Reads(quads'[u]), IsTemp(t)
               PROVE  DefinedFor(quads', labels', t, u)
  BY DEF BlockLocal
<1>5. CASE quads' = quads
  <2>1. DefinedFor(quads, labels, t, u)
    BY <1>3, <1>4, <1>5 DEF BlockLocal
  <2>2. \A k \in 1 .. u : LabelIn(labels', k) = LabelIn(labels, k)
    BY <1>1, <1>5 DEF ControlStep
  <2>3. u \in Nat /\ u <= n + 1
    BY <1>1, <1>5
  <2>4. QED
    BY <1>1, <1>5, <2>1, <2>2, <2>3, DefinedStill
<1>6. CASE /\ Len(quads') = n + 1 /\ \A i \in 1 .. n : quads'[i] = quads[i]
           /\ LabelIn(labels', n + 1) = LabelIn(labels, n + 1)
           /\ Writes(quads'[n + 1]) = {}
           /\ \A r \in Reads(quads'[n + 1]) : \E i \in 1 .. Len(vals) : r = vals[i].temp
  <2>1. u \in Nat /\ u <= n + 1
    BY <1>1, <1>6
  <2>2. DefinedFor(quads, labels, t, u)
    <3>1. CASE u \in 1 .. n
      BY <1>3, <1>4, <1>6, <3>1 DEF BlockLocal
    <3>2. CASE u = n + 1
      BY <1>3, <1>4, <1>6, <3>2
    <3>3. QED
      BY <1>1, <1>4, <2>1, <3>1, <3>2
  <2>3. \A k \in 1 .. u : LabelIn(labels', k) = LabelIn(labels, k)
    <3>1. \A k \in 1 .. u : k \in 1 .. n \/ k = n + 1
      BY <1>1, <2>1
    <3>2. QED
      BY <1>6, <3>1 DEF ControlStep
  <2>4. \A i \in 1 .. Len(quads') : i \in 1 .. n \/ t \notin Writes(quads'[i])
    <3>1. \A i \in 1 .. Len(quads') : i \in 1 .. n \/ i = n + 1
      BY <1>1, <1>6
    <3>2. QED
      BY <1>6, <3>1
  <2>5. QED
    BY <1>1, <1>6, <2>1, <2>2, <2>3, <2>4, DefinedStill
<1>7. QED
  BY <1>5, <1>6 DEF ControlStep

LEMMA FunDefKeepsLocal ==
    ASSUME WalkInv, LocalInv, NEW f \in Funs, NEW sig \in Sigs, FunDef(f, sig)
    PROVE  LocalInv'
<1> DEFINE n == Len(quads)
<1>1. /\ vals' = <<>> /\ (errors => errors') /\ Len(quads') = n + 1
      /\ \A i \in 1 .. n : quads'[i] = quads[i]
      /\ quads'[n + 1] = Quad("FunBegin", Nothing, Nothing, Nothing)
      /\ \A k \in 1 .. n : LabelIn(labels', k) = LabelIn(labels, k)
  BY FunDefEffect
<1>2. Reads(quads'[n + 1]) = {} /\ Writes(quads'[n + 1]) = {} /\ n \in Nat /\ Len(vals') = 0
  BY <1>1, Uses, Lengths, Tuples
<1>3. SUFFICES ASSUME ~errors' PROVE BlockLocal(quads', labels')
  BY <1>2 DEF LocalInv
<1>4. BlockLocal(quads, labels)
  BY <1>1, <1>3 DEF LocalInv
<1>5. SUFFICES ASSUME NEW u \in 1 .. Len(quads'), NEW t \in Reads(quads'[u]), IsTemp(t)
               PROVE  DefinedFor(quads', labels', t, u)
  BY DEF BlockLocal
<1>6. \A i \in 1 .. Len(quads') : i \in 1 .. n \/ i = n + 1
  BY <1>1, <1>2
<1>7. u \in 1 .. n /\ u \in Nat /\ u <= n + 1
  BY <1>2, <1>5, <1>6
<1>8. DefinedFor(quads, labels, t, u)
  BY <1>1, <1>4, <1>5, <1>7 DEF BlockLocal
<1>9. \A k \in 1 .. u : LabelIn(labels', k) = LabelIn(labels, k)
  BY <1>1, <1>2, <1>7
<1>10. QED
  BY <1>1, <1>2, <1>6, <1>7, <1>8, <1>9, DefinedStill

LEMMA FunDefEndKeepsLocal ==
    ASSUME WalkInv, LocalInv, FunDefEnd PROVE LocalInv'
<1> DEFINE n == Len(quads)
           open == Quad("FunBegin", Nothing, Nothing, Nothing)
           patched == Quad("FunBegin", Nothing, Nothing, Fr!Reservation)
<1>1. /\ vals' = <<>> /\ errors' = errors /\ labels' = labels /\ Len(quads') = n + 1
      /\ Top.left \in 1 .. n /\ quads[Top.left] = open /\ quads'[Top.left] = patched
      /\ quads'[n + 1] = Quad("FunEnd", Nothing, Nothing, Nothing)
      /\ \A i \in 1 .. n : i # Top.left => quads'[i] = quads[i]
  BY FunDefEndEffect
<1>2. /\ Reads(quads'[n + 1]) = {} /\ Writes(quads'[n + 1]) = {} /\ n \in Nat /\ Len(vals') = 0
      /\ Reads(open) = {} /\ Writes(open) = {} /\ Reads(patched) = {} /\ Writes(patched) = {}
  BY <1>1, Uses, Lengths, Tuples
<1>3. LeavesBlock(open) /\ LeavesBlock(patched)
  BY DEF LeavesBlock, Quad
<1> HIDE DEF open, patched
<1>4. SUFFICES ASSUME ~errors' PROVE BlockLocal(quads', labels')
  BY <1>2 DEF LocalInv
<1>5. BlockLocal(quads, labels)
  BY <1>1, <1>4 DEF LocalInv
<1>6. SUFFICES ASSUME NEW u \in 1 .. Len(quads'), NEW t \in Reads(quads'[u]), IsTemp(t)
               PROVE  DefinedFor(quads', labels', t, u)
  BY DEF BlockLocal
<1>7. \A i \in 1 .. Len(quads') : i \in 1 .. n \/ i = n + 1
  BY <1>1, <1>2
<1>8. u \in 1 .. n /\ u \in Nat /\ u <= n + 1 /\ u # Top.left
  BY <1>1, <1>2, <1>6, <1>7
<1>9. DefinedFor(quads, labels, t, u)
  BY <1>1, <1>5, <1>6, <1>8 DEF BlockLocal
<1>10. \A i \in 1 .. n : /\ Writes(quads'[i]) = Writes(quads[i])
                         /\ LeavesBlock(quads'[i]) <=> LeavesBlock(quads[i])
  <2>1. SUFFICES ASSUME NEW i \in 1 .. n
                 PROVE  /\ Writes(quads'[i]) = Writes(quads[i])
                        /\ LeavesBlock(quads'[i]) <=> LeavesBlock(quads[i])
    OBVIOUS
  <2>2. CASE i = Top.left
    BY <1>1, <1>2, <1>3, <2>2
  <2>3. CASE i # Top.left
    BY <1>1, <2>3
  <2>4. QED
    BY <2>2, <2>3
<1>11. \A k \in 1 .. u : LabelIn(labels', k) = LabelIn(labels, k)
  BY <1>1
<1>12. QED
  BY <1>2, <1>7, <1>8, <1>9, <1>10, <1>11, DefinedStill

\* insert_return_labels labels only what follows a return.
LEMMA FinishKeepsLocal ==
    ASSUME WalkInv, LocalInv, Finish PROVE LocalInv'
<1> DEFINE n == Len(quads)
<1>1. /\ vals' = <<>> /\ errors' = errors /\ quads' = quads
      /\ \A k \in 1 .. n :
            \/ LabelIn(labels', k) = LabelIn(labels, k)
            \/ k >= 2 /\ quads[k - 1].op = "Return"
  BY FinishEffect
<1>2. n \in Nat /\ Len(vals') = 0
  BY <1>1, Lengths, Tuples
<1>3. SUFFICES ASSUME ~errors' PROVE BlockLocal(quads', labels')
  BY <1>2 DEF LocalInv
<1>4. BlockLocal(quads, labels)
  BY <1>1, <1>3 DEF LocalInv
<1>5. SUFFICES ASSUME NEW u \in 1 .. n, NEW t \in Reads(quads[u]), IsTemp(t)
               PROVE  DefinedFor(quads, labels', t, u)
  BY <1>1 DEF BlockLocal
<1>6. DefinedFor(quads, labels, t, u)
  BY <1>4, <1>5 DEF BlockLocal
<1>7. PICK d \in 1 .. u - 1 :
          /\ t \in Writes(quads[d])
          /\ \A i \in 1 .. n : t \in Writes(quads[i]) => i = d
          /\ \A k \in d + 1 .. u : LabelIn(labels, k) = Nothing
          /\ \A k \in d + 1 .. u - 1 : ~LeavesBlock(quads[k])
  BY <1>6 DEF DefinedFor
<1>8. ASSUME NEW k \in d + 1 .. u PROVE LabelIn(labels', k) = Nothing
  <2>1. k \in 1 .. n /\ k - 1 \in d .. u - 1
    BY <1>2, <1>5, <1>7
  <2>2. quads[k - 1].op # "Return"
    <3>1. CASE k - 1 = d
      BY <1>7, <3>1 DEF Writes, Plain, Arith
    <3>2. CASE k - 1 # d
      <4>1. k - 1 \in d + 1 .. u - 1
        BY <1>5, <1>7, <2>1, <3>2
      <4>2. QED
        BY <1>7, <4>1 DEF LeavesBlock
    <3>3. QED
      BY <3>1, <3>2
  <2>3. QED
    BY <1>1, <1>7, <2>1, <2>2
<1>9. QED
  BY <1>7, <1>8 DEF DefinedFor

LEMMA LocalNext ==
    ASSUME Fr!PlainIdents, WalkNames, WalkNames', LocalInv, [Next]_vars PROVE LocalInv'
<1>1. WalkInv /\ FrameInv /\ FrameInv'
  BY DEF WalkNames
<1>2. CASE \E m \in 0 .. 3 : PlainStep(m)
  BY <1>1, <1>2, PlainKeepsLocal
<1>3. CASE ControlStep
  BY <1>1, <1>3, ControlKeepsLocal
<1>4. CASE \E f \in Funs, sig \in Sigs : FunDef(f, sig)
  BY <1>1, <1>4, FunDefKeepsLocal
<1>5. CASE FunDefEnd
  BY <1>1, <1>5, FunDefEndKeepsLocal
<1>6. CASE Finish
  BY <1>1, <1>6, FinishKeepsLocal
<1>7. QED
  BY <1>1, <1>2, <1>3, <1>4, <1>5, <1>6, Steps

LEMMA LocalInit == Init => LocalInv
<1> SUFFICES ASSUME Init PROVE LocalInv
  OBVIOUS
<1> DEFINE q == Quad("Entry", Nothing, Nothing, Nothing)
           r == Quad("CallNil", Nothing, Nothing, Main)
           s == Quad("Exit", Nothing, Nothing, Nothing)
<1>1. quads = <<q, r, s>> /\ vals = <<>>
  BY DEF Init
<1>2. Reads(q) = {} /\ Reads(r) = {} /\ Reads(s) = {}
  BY Uses
<1> HIDE DEF q, r, s
<1>3. Len(quads) = 3 /\ quads[1] = q /\ quads[2] = r /\ quads[3] = s /\ Len(vals) = 0
  BY <1>1, Tuples
<1>4. \A i \in 1 .. Len(quads) : Reads(quads[i]) = {}
  <2>1. \A i \in 1 .. 3 : i = 1 \/ i = 2 \/ i = 3
    OBVIOUS
  <2>2. QED
    BY <1>2, <1>3, <2>1
<1>5. QED
  BY <1>3, <1>4 DEF LocalInv, BlockLocal

LEMMA LocalIsTempsLocal == ASSUME WalkInv, LocalInv PROVE TempsBlockLocal
<1>1. SUFFICES ASSUME ~errors, NEW u \in DOMAIN quads, NEW t \in Reads(quads[u]), IsTemp(t)
               PROVE  \E d \in 1 .. u - 1 :
                         /\ t \in Writes(quads[d])
                         /\ \A i \in DOMAIN quads : t \in Writes(quads[i]) => i = d
                         /\ \A k \in d + 1 .. u : LabelAt(k) = Nothing
                         /\ \A k \in d + 1 .. u - 1 : ~LeavesBlock(quads[k])
  BY DEF TempsBlockLocal
<1>2. DOMAIN quads = 1 .. Len(quads)
  BY Lengths
<1>3. DefinedFor(quads, labels, t, u)
  BY <1>1, <1>2 DEF LocalInv, BlockLocal
<1>4. \A k : LabelIn(labels, k) = LabelAt(k)
  BY DEF LabelIn, LabelAt
<1>5. QED
  BY <1>2, <1>3, <1>4 DEF DefinedFor

(***************************************************************************)
(* In the translation of any program that has no error, a temporary that a *)
(* quad reads was written once, before, and neither a label nor a jump     *)
(* lies between: what eliminate_dead_code and the optimizer do block by    *)
(* block never parts a temporary from its value.                           *)
(***************************************************************************)
THEOREM TempsStayInBlock == ASSUME Fr!PlainIdents PROVE Spec => []TempsBlockLocal
<1>1. WalkNames /\ WalkNames' /\ LocalInv /\ [Next]_vars => LocalInv'
  BY LocalNext
<1>2. WalkNames /\ LocalInv => TempsBlockLocal
  BY LocalIsTempsLocal DEF WalkNames
<1>3. QED
  BY LocalInit, NamesInductive, <1>1, <1>2, PTL DEF Spec

-----------------------------------------------------------------------------
(***************************************************************************)
(* Every operand has a slot.  A name is found in a function when a symbol  *)
(* that is still visible has it, or the function's table does; which of    *)
(* the two sides of ebp it is on then follows from what FrameInv says of   *)
(* tables.  The quads of the function that is being compiled are those     *)
(* behind the last FunBegin, whose label is its name.                      *)
(***************************************************************************)
Begins(Q, i) == {k \in 1 .. i : Q[k].op = "FunBegin"}
FunctionIn(Q, L, i) ==
    IF Begins(Q, i) = {} THEN Nothing
    ELSE LabelIn(L, CHOOSE k \in Begins(Q, i) : \A j \in Begins(Q, i) : j <= k)
Operands(q) == (Reads(q) \cup Writes(q)) \ {Lit, Nothing}
Found(g, t) == \/ g = cur /\ \E s \in live : s.tac = t
               \/ \E e \in EntriesOf(g) : e.key = t
Defined(g) == g \in Funs /\ g \in DOMAIN globals /\ g \in DOMAIN tables \cup {cur}

SlotsInv ==
    ~errors =>
        /\ cur # Anon =>
              /\ cur \in Funs /\ cur \in DOMAIN globals
              /\ FunctionIn(quads, labels, Len(quads)) = cur
              /\ \A j \in DOMAIN fun.params : \E e \in frame : e.key = fun.params[j]
        /\ \A i \in 1 .. Len(quads) : \A t \in Operands(quads[i]) :
              /\ Defined(FunctionIn(quads, labels, i))
              /\ Found(FunctionIn(quads, labels, i), t)
        /\ \A i \in 1 .. Len(vals) :
              vals[i].temp \notin {Lit, Nothing} => Found(cur, vals[i].temp)

\* The largest of some numbers below a bound.
LEMMA LastOf ==
    ASSUME NEW n \in Nat, NEW S \in SUBSET (1 .. n), S # {}
    PROVE  LET m == CHOOSE k \in S : \A j \in S : j <= k
           IN  m \in S /\ \A j \in S : j <= m
<1> DEFINE B == {u \in Nat : \A j \in S : j <= u}
           u == First(B)
<1>1. n \in B /\ B \in SUBSET Nat
  OBVIOUS
<1>2. u \in B /\ \A v \in B : u <= v
  BY <1>1, FirstOf
<1>3. u \in Nat /\ \A j \in S : j <= u
  BY <1>2
<1> HIDE DEF u
<1>4. u \in S
  <2>1. SUFFICES ASSUME u \notin S PROVE FALSE
    OBVIOUS
  <2>2. \A j \in S : j <= u - 1 /\ j >= 1
    BY <1>3, <2>1
  <2>3. u - 1 \in Nat
    <3>1. PICK j : j \in S
      OBVIOUS
    <3>2. j \in 1 .. n /\ j <= u
      BY <1>3, <3>1
    <3>3. QED
      BY <1>3, <3>2
  <2>4. u - 1 \in B
    BY <2>2, <2>3
  <2>5. QED
    BY <1>2, <1>3, <2>4
<1>5. \E k \in S : \A j \in S : j <= k
  BY <1>3, <1>4
<1>6. QED
  BY <1>5

LEMMA FunctionAt ==
    ASSUME NEW Q, NEW L, NEW i \in Nat
    PROVE  \/ Begins(Q, i) = {} /\ FunctionIn(Q, L, i) = Nothing
           \/ \E k \in Begins(Q, i) : /\ \A j \in Begins(Q, i) : j <= k
                                      /\ FunctionIn(Q, L, i) = LabelIn(L, k)
<1>1. CASE Begins(Q, i) = {}
  BY <1>1 DEF FunctionIn
<1>2. CASE Begins(Q, i) # {}
  <2> DEFINE k == CHOOSE k \in Begins(Q, i) : \A j \in Begins(Q, i) : j <= k
  <2>1. Begins(Q, i) \in SUBSET (1 .. i)
    BY DEF Begins
  <2>2. k \in Begins(Q, i) /\ \A j \in Begins(Q, i) : j <= k
    BY <1>2, <2>1, LastOf
  <2>3. FunctionIn(Q, L, i) = LabelIn(L, k)
    BY <1>2 DEF FunctionIn
  <2>4. QED
    BY <2>2, <2>3
<1>3. QED
  BY <1>1, <1>2

\* The function of a quad does not change as long as the quads before it stay
\* begins of functions, or not, and their labels stay.
LEMMA FunctionStays ==
    ASSUME NEW Q, NEW L, NEW Q1, NEW L1, NEW i \in Nat, NEW g, g # Nothing,
           FunctionIn(Q, L, i) = g,
           \A k \in 1 .. i : /\ Q1[k].op = "FunBegin" <=> Q[k].op = "FunBegin"
                             /\ LabelIn(L, k) # Nothing => LabelIn(L1, k) = LabelIn(L, k)
    PROVE  FunctionIn(Q1, L1, i) = g
<1>1. Begins(Q1, i) = Begins(Q, i)
  BY DEF Begins
<1>2. PICK k \in Begins(Q, i) : /\ \A j \in Begins(Q, i) : j <= k
                                /\ FunctionIn(Q, L, i) = LabelIn(L, k)
  BY FunctionAt
<1>3. LabelIn(L1, k) = g
  BY <1>2 DEF Begins
<1>4. Begins(Q1, i) # {} /\ Begins(Q1, i) \subseteq Nat
  BY <1>1, <1>2 DEF Begins
<1>5. PICK m \in Begins(Q1, i) : /\ \A j \in Begins(Q1, i) : j <= m
                                 /\ FunctionIn(Q1, L1, i) = LabelIn(L1, m)
  BY <1>4, FunctionAt
<1>6. m = k
  BY <1>1, <1>2, <1>4, <1>5
<1>7. QED
  BY <1>3, <1>5, <1>6

\* Quads that begin no function belong to the one before them.
LEMMA FunctionGoesOn ==
    ASSUME NEW Q, NEW L, NEW i \in Nat, NEW j \in Nat, i <= j,
           \A k \in i + 1 .. j : Q[k].op # "FunBegin"
    PROVE  FunctionIn(Q, L, j) = FunctionIn(Q, L, i)
<1>1. Begins(Q, j) = Begins(Q, i)
  <2>1. \A k \in 1 .. j : k \in 1 .. i \/ k \in i + 1 .. j
    OBVIOUS
  <2>2. \A k \in 1 .. i : k \in 1 .. j
    OBVIOUS
  <2>3. QED
    BY <2>1, <2>2 DEF Begins
<1>2. QED
  BY <1>1 DEF FunctionIn

LEMMA FunctionBegins ==
    ASSUME NEW Q, NEW L, NEW i \in Nat, i >= 1, Q[i].op = "FunBegin"
    PROVE  FunctionIn(Q, L, i) = LabelIn(L, i)
<1>1. i \in Begins(Q, i) /\ \A k \in Begins(Q, i) : k <= i /\ k \in Nat
  BY DEF Begins
<1>2. PICK k \in Begins(Q, i) : /\ \A j \in Begins(Q, i) : j <= k
                                /\ FunctionIn(Q, L, i) = LabelIn(L, k)
  BY <1>1, FunctionAt
<1>3. k = i
  BY <1>1, <1>2
<1>4. QED
  BY <1>2, <1>3

\* The frame a function begins with has an entry for each parameter.
LEMMA ParametersHaveEntries ==
    ASSUME NEW F, NEW ps, DOMAIN ps \subseteq Nat
    PROVE  \A j \in DOMAIN ps : \E e \in Fr!ParamEntries(F, ps) : e.key = ps[j]
<1>1. SUFFICES ASSUME NEW j \in DOMAIN ps
               PROVE  \E e \in Fr!ParamEntries(F, ps) : e.key = ps[j]
  OBVIOUS
<1>2. CASE ps[j] \in Fr!Keys(F)
  BY <1>2 DEF Fr!Keys, Fr!ParamEntries
<1>3. CASE ps[j] \notin Fr!Keys(F)
  <2> DEFINE S == {k \in DOMAIN ps : ps[k] = ps[j]}
             i == First(S)
  <2>1. j \in S /\ S \in SUBSET Nat
    OBVIOUS
  <2>2. i \in S /\ \A k \in S : i <= k
    BY <2>1, FirstOf
  <2> HIDE DEF i
  <2>3. i \in DOMAIN ps /\ ps[i] = ps[j] /\ i \in Nat
    BY <2>1, <2>2
  <2>4. \A k \in DOMAIN ps : k < i => ps[k] # ps[i]
    <3>1. SUFFICES ASSUME NEW k \in DOMAIN ps, k < i, ps[k] = ps[i] PROVE FALSE
      OBVIOUS
    <3>2. k \in S /\ k \in Nat
      BY <2>3, <3>1
    <3>3. QED
      BY <2>2, <2>3, <3>1, <3>2
  <2>5. [key |-> ps[i], off |-> i + 1] \in Fr!ParamEntries(F, ps)
    BY <1>3, <2>3, <2>4 DEF Fr!ParamEntries
  <2>6. QED
    BY <2>3, <2>5
<1>4. QED
  BY <1>2, <1>3

\* Outside of every function only an import, a definition or the end of the
\* file is translated.
LEMMA AtTopLevel ==
    ASSUME WalkInv, ctx = <<>>, [Next]_vars
    PROVE  \/ Import \/ UNCHANGED vars \/ Finish
           \/ \E f \in Funs, sig \in Sigs : FunDef(f, sig)
<1>1. Top.kind = "file" /\ ~Top.done
  BY DEF Top, Open
<1>2. ~InExpression /\ ~AtStatement /\ ~StatementEnd
  BY <1>1 DEF InExpression, AtStatement, StatementEnd
<1>3. /\ ~FunDefEnd /\ ~BodyBegin /\ ~BlockEnd /\ ~BlockBegin
      /\ ~CallArg /\ ~CallEnd /\ ~Else /\ ~IfEnd /\ ~While /\ ~WhileBody /\ ~WhileEnd
  BY <1>1, <1>2 DEF FunDefEnd, BodyBegin, BlockEnd, BlockBegin, CallArg, CallEnd, Else,
                    IfEnd, While, WhileBody, WhileEnd
<1>4. /\ \A type : ~Literal(type)
      /\ \A m : ~GetSym(m) /\ ~SetSym(m) /\ ~SetSymUndeclared(m) /\ ~SetSymParam(m)
      /\ \A op : ~Binary(op)
      /\ ~Unary
      /\ \A f : ~Call(f) /\ \A n : ~CallRejected(f, n)
  BY <1>2 DEF Literal, GetSym, SetSym, SetSymUndeclared, SetSymParam, Binary, Unary, Call,
              CallRejected
<1>5. /\ ~PrintStmt /\ ~ExprStmt /\ ~Return /\ ~If(FALSE) /\ ~If(TRUE)
      /\ \A x, type : ~DeclSym(x, type)
  BY <1>2 DEF PrintStmt, ExprStmt, Return, If, DeclSym
<1>6. QED
  BY <1>3, <1>4, <1>5 DEF Next

\* The same in the next state, for names of this one.
FoundAfter(g, t) == \/ g = cur' /\ \E s \in live' : s.tac = t
                    \/ \E e \in (IF g = cur' THEN frame' ELSE tables'[g]) : e.key = t
DefinedAfter(g) == g \in Funs /\ g \in DOMAIN globals' /\ g \in DOMAIN tables' \cup {cur'}

LEMMA SlotsAfter ==
    ASSUME ~errors' =>
              /\ cur' # Anon =>
                    /\ cur' \in Funs /\ cur' \in DOMAIN globals'
                    /\ FunctionIn(quads', labels', Len(quads')) = cur'
                    /\ \A j \in DOMAIN fun'.params :
                          \E e \in frame' : e.key = fun'.params[j]
              /\ \A i \in 1 .. Len(quads') : \A t \in Operands(quads'[i]) :
                    /\ DefinedAfter(FunctionIn(quads', labels', i))
                    /\ FoundAfter(FunctionIn(quads', labels', i), t)
              /\ \A i \in 1 .. Len(vals') :
                    vals'[i].temp \notin {Lit, Nothing} => FoundAfter(cur', vals'[i].temp)
    PROVE  SlotsInv'
BY DEF SlotsInv, FoundAfter, DefinedAfter, Found, Defined, EntriesOf

\* Names that are found stay found as long as the function goes on.
LEMMA FoundStill ==
    ASSUME SameFrameNames
    PROVE  /\ \A h, t : Found(h, t) => FoundAfter(h, t)
           /\ \A h : Defined(h) => DefinedAfter(h)
BY DEF SameFrameNames, Found, Defined, EntriesOf, FoundAfter, DefinedAfter

LEMMA PlainKeepsSlots ==
    ASSUME WalkNames, FP!Resolvable', SlotsInv, ctx # <<>>,
           NEW m \in 0 .. 3, PlainStep(m)
    PROVE  SlotsInv'
<1> DEFINE n == Len(quads)
<1>1. WalkInv /\ FrameInv /\ NamesInv
  BY DEF WalkNames
<1>2. /\ n \in Nat /\ Len(quads') = n + m /\ labels' = labels
      /\ \A i \in 1 .. n : quads'[i] = quads[i]
      /\ NewWrites(m) /\ NewReads(m) /\ NewVals(m) /\ SameFrameNames
      /\ \A k \in 1 .. m : quads'[n + k].op # "FunBegin"
  BY <1>1, Lengths DEF PlainStep, Appends
<1>3. SUFFICES ASSUME ~errors'
               PROVE  /\ cur' # Anon =>
                            /\ cur' \in Funs /\ cur' \in DOMAIN globals'
                            /\ FunctionIn(quads', labels', n + m) = cur'
                            /\ \A j \in DOMAIN fun'.params :
                                  \E e \in frame' : e.key = fun'.params[j]
                      /\ \A i \in 1 .. n + m : \A t \in Operands(quads'[i]) :
                            /\ DefinedAfter(FunctionIn(quads', labels', i))
                            /\ FoundAfter(FunctionIn(quads', labels', i), t)
                      /\ \A i \in 1 .. Len(vals') :
                            vals'[i].temp \notin {Lit, Nothing} =>
                                FoundAfter(cur', vals'[i].temp)
  BY <1>2, SlotsAfter
<1>4. ~errors
  BY <1>3 DEF PlainStep
<1>5. /\ cur # Anon /\ cur' = cur /\ cur \in Funs /\ cur \in DOMAIN globals
      /\ globals' = globals /\ fun' = fun /\ frame \subseteq frame'
      /\ FunctionIn(quads, labels, n) = cur
      /\ \A j \in DOMAIN fun.params : \E e \in frame : e.key = fun.params[j]
  BY <1>1, <1>2, <1>4, Lengths DEF Compiling, SlotsInv, SameFrameNames
<1>6. /\ \A h, t : Found(h, t) => FoundAfter(h, t)
      /\ \A h : Defined(h) => DefinedAfter(h)
  BY <1>2, FoundStill
<1>7. ASSUME NEW i \in 0 .. n, FunctionIn(quads, labels, i) \in Funs
      PROVE  FunctionIn(quads', labels', i) = FunctionIn(quads, labels, i)
  <2> DEFINE h == FunctionIn(quads, labels, i)
  <2>1. h # Nothing
    BY <1>7, NothingAssumption
  <2>2. \A k \in 1 .. i : quads'[k] = quads[k]
    BY <1>2
  <2>3. h = FunctionIn(quads, labels, i) /\ i \in Nat
    OBVIOUS
  <2> HIDE DEF h
  <2>4. FunctionIn(quads', labels', i) = h
    BY <1>2, <2>1, <2>2, <2>3, FunctionStays
  <2>5. QED
    BY <2>4 DEF h
<1>8. FunctionIn(quads', labels', n) = cur
  <2>1. n \in 0 .. n
    BY <1>2
  <2>2. QED
    BY <1>5, <1>7, <2>1
<1>9. ASSUME NEW v \in n .. n + m PROVE FunctionIn(quads', labels', v) = cur
  <2>1. \A k \in n + 1 .. v : quads'[k].op # "FunBegin"
    <3>1. SUFFICES ASSUME NEW k \in n + 1 .. v PROVE quads'[k].op # "FunBegin"
      OBVIOUS
    <3>2. k - n \in 1 .. m /\ k = n + (k - n)
      BY <1>2
    <3>3. QED
      BY <1>2, <3>2
  <2>2. n \in Nat /\ v \in Nat /\ n <= v
    BY <1>2
  <2> HIDE DEF n
  <2>3. FunctionIn(quads', labels', v) = FunctionIn(quads', labels', n)
    BY <2>1, <2>2, FunctionGoesOn
  <2>4. QED
    BY <1>8, <2>3
\* what waits, and what the step makes
<1>10. \A i \in 1 .. Len(vals) :
          vals[i].temp \notin {Lit, Nothing} => FoundAfter(cur, vals[i].temp)
  BY <1>4, <1>6 DEF SlotsInv
<1>11. \A s \in live : FoundAfter(cur, s.tac)
  BY <1>6 DEF Found
<1>12. ASSUME NEW k \in 1 .. m, NEW t \in Writes(quads'[n + k]) PROVE FoundAfter(cur, t)
  <2>1. CASE t \in named'
    BY <1>5, <2>1 DEF FP!Resolvable, FoundAfter
  <2>2. CASE \E s \in live : s.tac = t
    BY <1>11, <2>2
  <2>3. QED
    BY <1>2, <2>1, <2>2 DEF NewWrites
<1>13. ASSUME NEW i \in 1 .. n + m, NEW t \in Operands(quads'[i])
       PROVE  /\ DefinedAfter(FunctionIn(quads', labels', i))
              /\ FoundAfter(FunctionIn(quads', labels', i), t)
  <2>1. CASE i \in 1 .. n
    <3> DEFINE h == FunctionIn(quads, labels, i)
    <3>1. Defined(h) /\ Found(h, t)
      BY <1>2, <1>4, <1>13, <2>1 DEF SlotsInv
    <3>2. FunctionIn(quads', labels', i) = h
      BY <1>7, <2>1, <3>1 DEF Defined
    <3>3. QED
      BY <1>6, <3>1, <3>2
  <2>2. ASSUME NEW k \in 1 .. m, i = n + k
        PROVE  /\ DefinedAfter(FunctionIn(quads', labels', i))
               /\ FoundAfter(FunctionIn(quads', labels', i), t)
    <3>1. i \in n .. n + m
      BY <1>2, <2>2
    <3>2. FunctionIn(quads', labels', i) = cur
      BY <1>9, <3>1
    <3>3. DefinedAfter(cur)
      BY <1>5 DEF DefinedAfter
    <3>4. t \in Reads(quads'[n + k]) \/ t \in Writes(quads'[n + k])
      BY <1>13, <2>2 DEF Operands
    <3>5. FoundAfter(cur, t)
      <4>1. CASE t \in Writes(quads'[n + k])
        BY <1>12, <4>1
      <4>2. CASE \E j \in 1 .. Len(vals) : t = vals[j].temp
        BY <1>10, <1>13, <4>2 DEF Operands
      <4>3. CASE \E d \in 1 .. k - 1 : t \in Writes(quads'[n + d])
        <5>1. PICK d \in 1 .. k - 1 : t \in Writes(quads'[n + d])
          BY <4>3
        <5>2. d \in 1 .. m
          BY <5>1
        <5>3. QED
          BY <1>12, <5>1, <5>2
      <4>4. t # Lit
        BY <1>13 DEF Operands
      <4>5. QED
        BY <1>2, <3>4, <4>1, <4>2, <4>3, <4>4 DEF NewReads
    <3>6. QED
      BY <3>2, <3>3, <3>5
  <2>3. QED
    BY <1>1, <1>2, <2>1, <2>2, OldOrNew, ZenonT(60) DEF PlainStep
<1>14. ASSUME NEW i \in 1 .. Len(vals'), vals'[i].temp \notin {Lit, Nothing}
       PROVE  FoundAfter(cur, vals'[i].temp)
  <2> DEFINE t == vals'[i].temp
  <2>1. CASE i <= Len(vals) /\ vals'[i] = vals[i]
    <3>1. i \in 1 .. Len(vals)
      BY <1>1, <2>1, Lengths
    <3>2. QED
      BY <1>10, <1>14, <2>1, <3>1
  <2>2. CASE \E j \in DOMAIN fun.params : t = fun.params[j]
    <3>1. \E e \in frame' : e.key = t
      BY <1>5, <2>2
    <3>2. QED
      BY <1>5, <3>1 DEF FoundAfter
  <2>3. CASE \E s \in live : t = s.tac
    BY <1>11, <2>3
  <2>4. CASE \E k \in 1 .. m : t \in Writes(quads'[n + k])
    BY <1>12, <2>4
  <2>5. QED
    BY <1>2, <1>3, <1>14, <2>1, <2>2, <2>3, <2>4 DEF NewVals
<1>15. cur' \in Funs /\ FunctionIn(quads', labels', n + m) = cur'
  <2>1. n + m \in n .. n + m
    BY <1>2
  <2>2. QED
    BY <1>5, <1>9, <2>1
<1>16. QED
  BY <1>5, <1>13, <1>14, <1>15

\* Quads and operands of a function that does not change.
LEMMA OldOperandsKept ==
    ASSUME SlotsInv, ~errors, SameFrameNames, Len(quads) \in Nat,
           \A k \in 1 .. Len(quads) :
              /\ quads'[k].op = "FunBegin" <=> quads[k].op = "FunBegin"
              /\ LabelIn(labels, k) # Nothing => LabelIn(labels', k) = LabelIn(labels, k),
           NEW i \in 1 .. Len(quads), NEW t \in Operands(quads[i])
    PROVE  /\ DefinedAfter(FunctionIn(quads', labels', i))
           /\ FoundAfter(FunctionIn(quads', labels', i), t)
<1> DEFINE h == FunctionIn(quads, labels, i)
<1>1. Defined(h) /\ Found(h, t)
  BY DEF SlotsInv
<1>2. h # Nothing
  BY <1>1, NothingAssumption DEF Defined
<1>3. DefinedAfter(h) /\ FoundAfter(h, t)
  BY <1>1, FoundStill
<1>4. h = FunctionIn(quads, labels, i) /\ i \in Nat /\ \A k \in 1 .. i : k \in 1 .. Len(quads)
  OBVIOUS
<1> HIDE DEF h
<1>5. FunctionIn(quads', labels', i) = h
  BY <1>2, <1>4, FunctionStays
<1>6. QED
  BY <1>3, <1>5

LEMMA ControlKeepsSlots ==
    ASSUME WalkInv, SlotsInv, ctx # <<>>, ControlStep
    PROVE  SlotsInv'
<1> DEFINE n == Len(quads)
<1>1. /\ vals' = <<>> /\ (errors => errors') /\ Len(vals') = 0 /\ n \in Nat
      /\ fun' = fun /\ globals' = globals
      /\ \A k \in 1 .. n : LabelIn(labels', k) = LabelIn(labels, k)
      /\ cur' = cur /\ tables' = tables /\ frame' = frame /\ live' = live
  BY Lengths, Tuples DEF ControlStep, frameVars
<1>2. SameFrameNames
  BY <1>1 DEF SameFrameNames
<1>3. /\ \A i \in 1 .. n : quads'[i] = quads[i]
      /\ \/ Len(quads') = n
         \/ /\ Len(quads') = n + 1
            /\ quads'[n + 1].op # "FunBegin"
            /\ Writes(quads'[n + 1]) = {}
            /\ \A t \in Reads(quads'[n + 1]) : \E i \in 1 .. Len(vals) : t = vals[i].temp
  BY DEF ControlStep
<1>4. SUFFICES ASSUME ~errors'
               PROVE  /\ cur' # Anon =>
                            /\ cur' \in Funs /\ cur' \in DOMAIN globals'
                            /\ FunctionIn(quads', labels', Len(quads')) = cur'
                            /\ \A j \in DOMAIN fun'.params :
                                  \E e \in frame' : e.key = fun'.params[j]
                      /\ \A i \in 1 .. Len(quads') : \A t \in Operands(quads'[i]) :
                            /\ DefinedAfter(FunctionIn(quads', labels', i))
                            /\ FoundAfter(FunctionIn(quads', labels', i), t)
                      /\ \A i \in 1 .. Len(vals') :
                            vals'[i].temp \notin {Lit, Nothing} =>
                                FoundAfter(cur', vals'[i].temp)
  BY SlotsAfter
<1>5. ~errors
  BY <1>1, <1>4
<1>6. /\ cur # Anon /\ cur \in Funs /\ cur \in DOMAIN globals
      /\ FunctionIn(quads, labels, n) = cur
      /\ \A j \in DOMAIN fun.params : \E e \in frame : e.key = fun.params[j]
  BY <1>5, Lengths DEF Compiling, SlotsInv
<1>7. /\ \A h, t : Found(h, t) => FoundAfter(h, t)
      /\ DefinedAfter(cur)
  BY <1>1, <1>2, <1>6, FoundStill DEF DefinedAfter
<1>8. FunctionIn(quads', labels', n) = cur
  <2>1. cur # Nothing /\ FunctionIn(quads, labels, n) = cur /\ n \in Nat
    BY <1>1, <1>6, NothingAssumption
  <2>2. \A k \in 1 .. n : /\ quads'[k].op = "FunBegin" <=> quads[k].op = "FunBegin"
                          /\ LabelIn(labels, k) # Nothing =>
                                LabelIn(labels', k) = LabelIn(labels, k)
    BY <1>1, <1>3
  <2> HIDE DEF n
  <2>3. QED
    BY <2>1, <2>2, FunctionStays
<1>9. FunctionIn(quads', labels', Len(quads')) = cur
  <2>1. CASE Len(quads') = n
    BY <1>8, <2>1
  <2>2. CASE Len(quads') = n + 1 /\ quads'[n + 1].op # "FunBegin"
    <3>1. \A k \in n + 1 .. n + 1 : quads'[k].op # "FunBegin"
      BY <1>1, <2>2
    <3>2. n <= n + 1 /\ n + 1 \in Nat
      BY <1>1
    <3> HIDE DEF n
    <3>3. QED
      BY <1>1, <1>8, <2>2, <3>1, <3>2, FunctionGoesOn
  <2>3. QED
    BY <1>3, <2>1, <2>2
<1>10. ASSUME NEW i \in 1 .. Len(quads'), NEW t \in Operands(quads'[i])
       PROVE  /\ DefinedAfter(FunctionIn(quads', labels', i))
              /\ FoundAfter(FunctionIn(quads', labels', i), t)
  <2>1. CASE i \in 1 .. n
    BY <1>1, <1>2, <1>3, <1>5, <1>10, <2>1, OldOperandsKept
  <2>2. CASE Len(quads') = n + 1 /\ i = n + 1
    <3>1. \E j \in 1 .. Len(vals) : t = vals[j].temp
      BY <1>1, <1>3, <1>10, <2>2 DEF Operands
    <3>2. Found(cur, t)
      BY <1>5, <1>10, <3>1 DEF SlotsInv, Operands
    <3>3. QED
      BY <1>7, <1>9, <2>2, <3>2
  <2>3. QED
    BY <1>1, <1>3, <2>1, <2>2
<1>11. QED
  BY <1>1, <1>6, <1>9, <1>10

LEMMA QuietKeepsSlots ==
    ASSUME SlotsInv, Import \/ UNCHANGED vars PROVE SlotsInv'
<1>1. UNCHANGED <<frameVars, quads, labels, vals, fun, globals>> /\ (errors => errors')
  BY ImportEffect
<1>2. QED
  BY <1>1 DEF SlotsInv, Defined, Found, EntriesOf, frameVars

\* Labels behind a return leave every function the name it had.
LEMMA FinishKeepsSlots ==
    ASSUME WalkInv, SlotsInv, Finish PROVE SlotsInv'
<1>1. /\ vals' = <<>> /\ ctx = <<>> /\ quads' = quads /\ errors' = errors
      /\ UNCHANGED frameVars /\ globals' = globals
      /\ \A k \in 1 .. Len(quads) :
            \/ LabelIn(labels', k) = LabelIn(labels, k)
            \/ LabelIn(labels, k) = Nothing
  BY FinishEffect
<1>2. /\ Len(quads) \in Nat /\ Len(vals') = 0 /\ fun' = fun
      /\ cur' = cur /\ tables' = tables /\ frame' = frame /\ live' = live
  BY <1>1, Lengths, Tuples DEF Finish, frameVars
<1>3. cur = Anon /\ SameFrameNames
  BY <1>1, <1>2 DEF SameFrameNames, WalkInv, Compiling
<1>4. SUFFICES ASSUME ~errors'
               PROVE  \A i \in 1 .. Len(quads') : \A t \in Operands(quads'[i]) :
                         /\ DefinedAfter(FunctionIn(quads', labels', i))
                         /\ FoundAfter(FunctionIn(quads', labels', i), t)
  BY <1>2, <1>3, SlotsAfter
<1>5. \A k \in 1 .. Len(quads) :
         /\ quads'[k].op = "FunBegin" <=> quads[k].op = "FunBegin"
         /\ LabelIn(labels, k) # Nothing => LabelIn(labels', k) = LabelIn(labels, k)
  BY <1>1
<1>6. QED
  BY <1>1, <1>2, <1>3, <1>4, <1>5, OldOperandsKept

LEMMA SlotsInit == Init => SlotsInv
<1> SUFFICES ASSUME Init PROVE SlotsInv
  OBVIOUS
<1> DEFINE q == Quad("Entry", Nothing, Nothing, Nothing)
           r == Quad("CallNil", Nothing, Nothing, Main)
           s == Quad("Exit", Nothing, Nothing, Nothing)
<1>1. quads = <<q, r, s>> /\ vals = <<>> /\ cur = Anon
  BY DEF Init, Fr!Init
<1>2. /\ Reads(q) = {} /\ Reads(r) = {} /\ Reads(s) = {}
      /\ Writes(q) = {} /\ Writes(r) = {} /\ Writes(s) = {}
  BY Uses
<1> HIDE DEF q, r, s
<1>3. Len(quads) = 3 /\ quads[1] = q /\ quads[2] = r /\ quads[3] = s /\ Len(vals) = 0
  BY <1>1, Tuples
<1>4. \A i \in 1 .. Len(quads) : Operands(quads[i]) = {}
  <2>1. \A i \in 1 .. 3 : i = 1 \/ i = 2 \/ i = 3
    OBVIOUS
  <2>2. QED
    BY <1>2, <1>3, <2>1 DEF Operands
<1>5. QED
  BY <1>1, <1>3, <1>4 DEF SlotsInv

\* A function begins with a table that has its parameters; the quads of the
\* others are not in it.
LEMMA FunDefKeepsSlots ==
    ASSUME WalkInv, FrameInv, SlotsInv, NEW f \in Funs, NEW sig \in Sigs, FunDef(f, sig)
    PROVE  SlotsInv'
<1> DEFINE n == Len(quads)
<1>1. /\ vals' = <<>> /\ ctx = <<>> /\ fun' = sig
      /\ errors' = (errors \/ f \in DOMAIN globals)
      /\ DOMAIN globals' = DOMAIN globals \cup {f}
      /\ Len(quads') = n + 1
      /\ \A i \in 1 .. n : quads'[i] = quads[i]
      /\ quads'[n + 1] = Quad("FunBegin", Nothing, Nothing, Nothing)
      /\ LabelIn(labels', n + 1) = f
      /\ \A k \in 1 .. n : LabelIn(labels', k) = LabelIn(labels, k)
      /\ Fr!BeginFun(f, sig.params)
  BY FunDefEffect
<1>2. n \in Nat /\ Len(vals') = 0 /\ quads'[n + 1].op = "FunBegin" /\ Operands(quads'[n + 1]) = {}
  <2>1. n \in Nat /\ Len(vals') = 0 /\ Operands(quads'[n + 1]) = {}
    BY <1>1, Lengths, Tuples, Uses DEF Operands
  <2>2. quads'[n + 1].op = "FunBegin"
    BY <1>1 DEF Quad
  <2>3. QED
    BY <2>1, <2>2
<1>3. cur = Anon /\ depth = 0
  BY <1>1 DEF WalkInv, Compiling, FrameInv
<1>4. live = {}
  <2>1. \A s \in live : s.level \in 1 .. depth
    BY DEF FrameInv
  <2>2. QED
    BY <1>3, <2>1
<1>5. /\ cur' = f /\ live' = {} /\ tables' = tables
      /\ frame' = Fr!ParamEntries(IF f \in DOMAIN tables THEN tables[f] ELSE {}, sig.params)
  BY <1>1, <1>4 DEF Fr!BeginFun
<1>6. SUFFICES ASSUME ~errors'
               PROVE  /\ cur' # Anon =>
                            /\ cur' \in Funs /\ cur' \in DOMAIN globals'
                            /\ FunctionIn(quads', labels', Len(quads')) = cur'
                            /\ \A j \in DOMAIN fun'.params :
                                  \E e \in frame' : e.key = fun'.params[j]
                      /\ \A i \in 1 .. Len(quads') : \A t \in Operands(quads'[i]) :
                            /\ DefinedAfter(FunctionIn(quads', labels', i))
                            /\ FoundAfter(FunctionIn(quads', labels', i), t)
                      /\ \A i \in 1 .. Len(vals') :
                            vals'[i].temp \notin {Lit, Nothing} =>
                                FoundAfter(cur', vals'[i].temp)
  BY SlotsAfter
<1>7. ~errors /\ f \notin DOMAIN globals
  BY <1>1, <1>6
<1>8. FunctionIn(quads', labels', n + 1) = f
  <2>1. n + 1 \in Nat /\ n + 1 >= 1
    BY <1>2
  <2>2. QED
    BY <1>1, <1>2, <2>1, FunctionBegins
<1>9. \A j \in DOMAIN sig.params : \E e \in frame' : e.key = sig.params[j]
  <2>1. DOMAIN sig.params \subseteq Nat
    BY SigsAssumption, LenProperties
  <2>2. QED
    BY <1>5, <2>1, ParametersHaveEntries
<1>10. ASSUME NEW i \in 1 .. Len(quads'), NEW t \in Operands(quads'[i])
       PROVE  /\ DefinedAfter(FunctionIn(quads', labels', i))
              /\ FoundAfter(FunctionIn(quads', labels', i), t)
  <2>1. i \in 1 .. n /\ t \in Operands(quads[i])
    <3>1. i \in 1 .. n \/ i = n + 1
      BY <1>1, <1>2, <1>10
    <3>2. QED
      BY <1>1, <1>2, <1>10, <3>1
  <2> DEFINE h == FunctionIn(quads, labels, i)
  <2>2. Defined(h) /\ Found(h, t)
    BY <1>7, <2>1 DEF SlotsInv
  <2>3. h \in Funs /\ h \in DOMAIN globals /\ h # cur /\ h # f /\ h \in DOMAIN tables
    BY <1>3, <1>7, <2>2, FrameAssumption DEF Defined
  <2>4. \E e \in tables[h] : e.key = t
    BY <2>2, <2>3 DEF Found, EntriesOf
  <2>5. DefinedAfter(h) /\ FoundAfter(h, t)
    BY <1>1, <1>5, <2>3, <2>4 DEF DefinedAfter, FoundAfter
  <2>6. h = FunctionIn(quads, labels, i) /\ i \in Nat
    OBVIOUS
  <2>7. \A k \in 1 .. i : /\ quads'[k].op = "FunBegin" <=> quads[k].op = "FunBegin"
                          /\ LabelIn(labels, k) # Nothing =>
                                LabelIn(labels', k) = LabelIn(labels, k)
    BY <1>1, <1>2, <2>1
  <2>8. h # Nothing
    BY <2>3, NothingAssumption
  <2> HIDE DEF h
  <2>9. FunctionIn(quads', labels', i) = h
    BY <2>6, <2>7, <2>8, FunctionStays
  <2>10. QED
    BY <2>5, <2>9
<1>11. QED
  BY <1>1, <1>2, <1>5, <1>8, <1>9, <1>10

\* A function ends with its table stored under its name, and every symbol in
\* it: no scope is open.
LEMMA FunDefEndKeepsSlots ==
    ASSUME WalkInv, FrameInv, SlotsInv, FunDefEnd PROVE SlotsInv'
<1> DEFINE n == Len(quads)
           open == Quad("FunBegin", Nothing, Nothing, Nothing)
           patched == Quad("FunBegin", Nothing, Nothing, Fr!Reservation)
<1>1. /\ vals' = <<>> /\ errors' = errors /\ labels' = labels /\ globals' = globals
      /\ Len(ctx') = 0
      /\ Top.left \in 1 .. n /\ quads[Top.left] = open
      /\ Len(quads') = n + 1
      /\ quads'[n + 1] = Quad("FunEnd", Nothing, Nothing, Nothing)
      /\ quads'[Top.left] = patched
      /\ \A i \in 1 .. n : i # Top.left => quads'[i] = quads[i]
      /\ Fr!EndFun
  BY FunDefEndEffect
<1>2. /\ Operands(quads'[n + 1]) = {} /\ n \in Nat /\ Len(vals') = 0
      /\ Operands(patched) = {} /\ open.op = "FunBegin" /\ patched.op = "FunBegin"
  <2>1. open.op = "FunBegin" /\ patched.op = "FunBegin"
    BY DEF Quad
  <2>2. Operands(quads'[n + 1]) = {} /\ n \in Nat /\ Len(vals') = 0 /\ Operands(patched) = {}
    BY <1>1, Uses, Lengths, Tuples DEF Operands
  <2>3. QED
    BY <2>1, <2>2
<1> HIDE DEF open, patched
<1>3. /\ cur # Anon /\ cur' = Anon /\ depth = 0 /\ frame' = frame
      /\ tables' = [h \in DOMAIN tables \cup {cur} |-> IF h = cur THEN frame ELSE tables[h]]
  BY <1>1 DEF Fr!EndFun, Fr!inFun
<1>4. live = {}
  <2>1. \A s \in live : s.level \in 1 .. depth
    BY DEF FrameInv
  <2>2. QED
    BY <1>3, <2>1
<1>5. SUFFICES ASSUME ~errors'
               PROVE  \A i \in 1 .. Len(quads') : \A t \in Operands(quads'[i]) :
                         /\ DefinedAfter(FunctionIn(quads', labels', i))
                         /\ FoundAfter(FunctionIn(quads', labels', i), t)
  BY <1>2, <1>3, SlotsAfter
<1>6. ~errors
  BY <1>1, <1>5
<1>7. SUFFICES ASSUME NEW i \in 1 .. Len(quads'), NEW t \in Operands(quads'[i])
               PROVE  /\ DefinedAfter(FunctionIn(quads', labels', i))
                      /\ FoundAfter(FunctionIn(quads', labels', i), t)
  OBVIOUS
<1>8. i \in 1 .. n /\ t \in Operands(quads[i])
  <2>1. i \in 1 .. n \/ i = n + 1
    BY <1>1, <1>2, <1>7
  <2>2. i \in 1 .. n /\ i # Top.left
    BY <1>1, <1>2, <1>7, <2>1
  <2>3. QED
    BY <1>1, <1>7, <2>2
<1> DEFINE h == FunctionIn(quads, labels, i)
<1>9. Defined(h) /\ Found(h, t)
  BY <1>6, <1>8 DEF SlotsInv
<1>10. /\ h \in Funs /\ h \in DOMAIN globals /\ h \in DOMAIN tables \cup {cur} /\ h # Anon
       /\ \E e \in (IF h = cur THEN frame ELSE tables[h]) : e.key = t
  BY <1>4, <1>9, FrameAssumption DEF Defined, Found, EntriesOf
<1>11. h = FunctionIn(quads, labels, i) /\ i \in Nat /\ h # Nothing
  BY <1>10, NothingAssumption
<1> HIDE DEF h
<1>12. DefinedAfter(h) /\ FoundAfter(h, t)
  BY <1>1, <1>3, <1>10 DEF DefinedAfter, FoundAfter
<1>13. \A k \in 1 .. i : /\ quads'[k].op = "FunBegin" <=> quads[k].op = "FunBegin"
                         /\ LabelIn(labels, k) # Nothing =>
                                LabelIn(labels', k) = LabelIn(labels, k)
  <2>1. \A k \in 1 .. i : k \in 1 .. n
    BY <1>2, <1>8
  <2>2. QED
    BY <1>1, <1>2, <2>1
<1>14. FunctionIn(quads', labels', i) = h
  BY <1>11, <1>13, FunctionStays
<1>15. QED
  BY <1>12, <1>14

LEMMA SlotsNext ==
    ASSUME WalkNames, FP!Resolvable', SlotsInv, [Next]_vars PROVE SlotsInv'
<1>1. WalkInv /\ FrameInv
  BY DEF WalkNames
<1>2. CASE ctx = <<>>
  <2>1. CASE Import \/ UNCHANGED vars
    BY <2>1, QuietKeepsSlots
  <2>2. CASE Finish
    BY <1>1, <2>2, FinishKeepsSlots
  <2>3. CASE \E f \in Funs, sig \in Sigs : FunDef(f, sig)
    BY <1>1, <2>3, FunDefKeepsSlots
  <2>4. QED
    BY <1>1, <1>2, <2>1, <2>2, <2>3, AtTopLevel
<1>3. CASE ctx # <<>>
  <2>1. CASE \E m \in 0 .. 3 : PlainStep(m)
    BY <1>3, <2>1, PlainKeepsSlots
  <2>2. CASE ControlStep
    BY <1>1, <1>3, <2>2, ControlKeepsSlots
  <2>3. CASE FunDefEnd
    BY <1>1, <2>3, FunDefEndKeepsSlots
  <2>4. CASE Finish
    BY <1>1, <2>4, FinishKeepsSlots
  <2>5. CASE \E f \in Funs, sig \in Sigs : FunDef(f, sig)
    BY <1>1, <2>5, FunDefKeepsSlots
  <2>6. QED
    BY <1>1, <2>1, <2>2, <2>3, <2>4, <2>5, Steps
<1>4. QED
  BY <1>2, <1>3

\* A name that add_local made is not spelled like a variable.
LEMMA MadeIsNoIdent ==
    ASSUME Fr!PlainIdents, FrameInv, NEW t, Made(t) PROVE t \notin Idents
<1>1. t \in Nat \X Fr!Names /\ t[1] < temps /\ temps \in 0 .. MaxTemps
  BY DEF Made, FrameInv
<1>2. t = <<t[1], t[2]>> /\ t[1] \in 0 .. MaxTemps /\ t[2] \in Fr!Names
  BY <1>1, FrameAssumption
<1>3. t \in Fr!TacNames
  BY <1>2 DEF Fr!TacNames
<1>4. QED
  BY <1>3 DEF Fr!PlainIdents

LEMMA SlotsAreOperandsSlots ==
    ASSUME Fr!PlainIdents, WalkNames, SlotsInv PROVE OperandsHaveSlots
<1>1. SUFFICES ASSUME ~errors, NEW i \in DOMAIN quads,
                      NEW t \in (Reads(quads[i]) \cup Writes(quads[i])) \ {Lit, Nothing}
               PROVE  \/ Function(i) = cur /\ \E s \in live : s.tac = t
                      \/ \E e \in EntriesOf(Function(i)) :
                             e.key = t /\ (e.off < 0 <=> t \notin Idents)
  BY DEF OperandsHaveSlots
<1>2. i \in 1 .. Len(quads) /\ WalkInv /\ FrameInv
  BY Lengths DEF WalkNames
<1>3. Function(i) = FunctionIn(quads, labels, i)
  BY DEF Function, FunctionIn, Begins, LabelAt, LabelIn
<1> DEFINE h == Function(i)
<1>4. Defined(h) /\ Found(h, t)
  BY <1>1, <1>2, <1>3 DEF SlotsInv, Operands
<1> HIDE DEF h
<1>5. ASSUME NEW e \in EntriesOf(h) PROVE e.off < 0 <=> e.key \notin Idents
  <2>1. IF e.off < 0 THEN Made(e.key) ELSE e.key \in Idents
    <3>1. CASE h = cur
      BY <1>2, <1>5, <3>1 DEF EntriesOf, FrameInv
    <3>2. CASE h # cur
      BY <1>2, <1>4, <1>5, <3>2 DEF EntriesOf, FrameInv, Defined
    <3>3. QED
      BY <3>1, <3>2
  <2>2. QED
    BY <1>2, <2>1, MadeIsNoIdent
<1>6. \/ h = cur /\ \E s \in live : s.tac = t
      \/ \E e \in EntriesOf(h) : e.key = t /\ (e.off < 0 <=> t \notin Idents)
  BY <1>4, <1>5 DEF Found
<1>7. QED
  BY <1>6 DEF h

(***************************************************************************)
(* In the translation of any program that has no error, every operand of   *)
(* every quad is a literal or has its entry in the table of the function   *)
(* the quad belongs to, on the right side of ebp: symbol_offset, whose     *)
(* result the code generator does not test, always finds it.               *)
(***************************************************************************)
THEOREM OperandsFound == ASSUME Fr!PlainIdents PROVE Spec => []OperandsHaveSlots
<1>1. Fr!PlainIdents => FP!PlainIdents
  BY DEF Fr!PlainIdents, FP!PlainIdents, Fr!TacNames, FP!TacNames, Fr!Names, FP!Names
<1>2. FP!Spec => []FP!Resolvable
  BY <1>1, FP!NamesResolve, FrameAssumption
<1>3. WalkNames /\ FP!Resolvable' /\ SlotsInv /\ [Next]_vars => SlotsInv'
  BY SlotsNext
<1>4. WalkNames /\ SlotsInv => OperandsHaveSlots
  BY SlotsAreOperandsSlots
<1>5. QED
  BY SlotsInit, NamesInductive, SameFrame, <1>2, <1>3, <1>4, PTL DEF Spec

-----------------------------------------------------------------------------
(***************************************************************************)
(* The reservation arrives in the code.  A function is defined once in a   *)
(* program without errors, so its table has only its own locals, and the   *)
(* one FunBegin that still has no reservation is that of the function that *)
(* is being compiled.                                                      *)
(***************************************************************************)
Fits(F, n) == \A e \in F : e.off < 0 => -e.off <= n
Prologues(Q) == {i \in 1 .. Len(Q) : Q[i].op = "FunBegin"}
Patched(i) ==
    LET g == LabelIn(labels, i)
    IN  /\ g \in Funs
        /\ g = cur => quads[i].opd2 = Nothing
        /\ g # cur => g \in DOMAIN tables /\ quads[i].opd2 \in Nat /\ Fits(tables[g], quads[i].opd2)

ReserveInv ==
    ~errors =>
        /\ DOMAIN tables \subseteq DOMAIN globals
        /\ cur # Anon => /\ cur \in DOMAIN globals /\ cur \notin DOMAIN tables
                         /\ \A e \in frame : e.off < 0 => e.key[1] >= start
        /\ \A i \in Prologues(quads) : Patched(i)
        /\ \A i, j \in Prologues(quads) :
              quads[i].opd2 = Nothing /\ quads[j].opd2 = Nothing => i = j

\* Inside of a function only its own symbols are flushed into its table.
LEMMA FlushedAreOwn ==
    ASSUME FP!LayoutInv, [Next]_vars, cur # Anon, cur' = cur
    PROVE  start' = start /\ \A e \in frame' : e \in frame \/ e.key[1] >= start
<1>1. Fr!Next \/ UNCHANGED Fr!vars
  BY StepDrivesFrame
<1>2. \A s \in live : s.tac[1] >= start
  <2>1. \A s \in live : s.tac[1] \in start .. temps - 1
    BY DEF FP!LayoutInv, FP!LiveInv
  <2>2. start \in Int /\ temps \in Int
    BY FrameAssumption DEF FP!LayoutInv, FP!Counters
  <2>3. QED
    BY <2>1, <2>2
<1>3. CASE Fr!EndScope
  BY <1>2, <1>3 DEF Fr!EndScope, Fr!Flush
<1>4. CASE ~Fr!EndScope
  BY <1>1, <1>4 DEF Fr!Next, Fr!vars, Fr!BeginFun, Fr!EndFun, Fr!BeginScope, Fr!inFun,
                    Fr!AddLocal, Fr!AddLocalAborts, Fr!AddTemp, Fr!AddThreeTemps
<1>5. QED
  BY <1>3, <1>4

\* A step that begins and ends no function leaves the prologues alone.
LEMMA InsideKeepsReserve ==
    ASSUME WalkInv, FP!LayoutInv, ReserveInv, [Next]_vars, errors => errors',
           cur' = cur, tables' = tables, globals' = globals,
           Len(quads') \in Nat, Len(quads) <= Len(quads'),
           \A i \in 1 .. Len(quads) : quads'[i] = quads[i],
           \A i \in Len(quads) + 1 .. Len(quads') : quads'[i].op # "FunBegin",
           \A i \in 1 .. Len(quads) : LabelIn(labels, i) # Nothing =>
                                         LabelIn(labels', i) = LabelIn(labels, i)
    PROVE  ReserveInv'
<1>1. SUFFICES ASSUME ~errors'
               PROVE  /\ cur' # Anon => \A e \in frame' : e.off < 0 => e.key[1] >= start'
                      /\ \A i \in Prologues(quads') : Patched(i)'
                      /\ \A i, j \in Prologues(quads') :
                            quads'[i].opd2 = Nothing /\ quads'[j].opd2 = Nothing => i = j
  BY DEF ReserveInv
<1>2. Len(quads) \in Nat /\ ~errors
  BY <1>1, Lengths
<1>3. Prologues(quads') = Prologues(quads)
  <2>1. \A i \in 1 .. Len(quads') : i \in 1 .. Len(quads) \/ i \in Len(quads) + 1 .. Len(quads')
    BY <1>2
  <2>2. 1 .. Len(quads) \subseteq 1 .. Len(quads')
    BY <1>2
  <2>3. QED
    BY <2>1, <2>2 DEF Prologues
<1>4. ASSUME NEW i \in Prologues(quads) PROVE quads'[i] = quads[i] /\ Patched(i)'
  <2>1. i \in 1 .. Len(quads) /\ Patched(i)
    BY <1>2 DEF ReserveInv, Prologues
  <2>2. LabelIn(labels', i) = LabelIn(labels, i)
    BY <2>1, NothingAssumption DEF Patched
  <2>3. QED
    BY <2>1, <2>2 DEF Patched
<1>5. ASSUME cur' # Anon, NEW e \in frame', e.off < 0 PROVE e.key[1] >= start'
  <2>1. start' = start /\ (e \in frame \/ e.key[1] >= start)
    BY <1>5, FlushedAreOwn
  <2>2. QED
    BY <1>2, <1>5, <2>1 DEF ReserveInv
<1>6. QED
  BY <1>2, <1>3, <1>4, <1>5 DEF ReserveInv

\* A function that is defined for the first time begins with an empty table.
LEMMA FunDefKeepsReserve ==
    ASSUME WalkInv, ReserveInv, NEW f \in Funs, NEW sig \in Sigs, FunDef(f, sig)
    PROVE  ReserveInv'
<1> DEFINE n == Len(quads)
<1>1. /\ ctx = <<>>
      /\ errors' = (errors \/ f \in DOMAIN globals)
      /\ DOMAIN globals' = DOMAIN globals \cup {f}
      /\ Len(quads') = n + 1
      /\ \A i \in 1 .. n : quads'[i] = quads[i]
      /\ quads'[n + 1] = Quad("FunBegin", Nothing, Nothing, Nothing)
      /\ LabelIn(labels', n + 1) = f
      /\ \A k \in 1 .. n : LabelIn(labels', k) = LabelIn(labels, k)
      /\ Fr!BeginFun(f, sig.params)
  BY FunDefEffect
<1>2. n \in Nat /\ cur = Anon /\ f # Anon
  BY <1>1, Lengths, FrameAssumption DEF Compiling
<1>3. /\ cur' = f /\ tables' = tables
      /\ frame' = Fr!ParamEntries(IF f \in DOMAIN tables THEN tables[f] ELSE {}, sig.params)
  BY <1>1 DEF Fr!BeginFun
<1>4. SUFFICES ASSUME ~errors' PROVE ReserveInv'
  BY DEF ReserveInv
<1>5. ~errors /\ f \notin DOMAIN globals /\ f \notin DOMAIN tables
      /\ DOMAIN tables \subseteq DOMAIN globals
  BY <1>1, <1>4 DEF ReserveInv
<1>6. ASSUME NEW e \in frame' PROVE ~(e.off < 0)
  <2>1. PICK i \in DOMAIN sig.params : e = [key |-> sig.params[i], off |-> i + 1]
    BY <1>3, <1>5, <1>6 DEF Fr!ParamEntries
  <2>2. i \in Nat
    BY SigsAssumption, LenProperties
  <2>3. QED
    BY <2>1, <2>2
<1>7. Prologues(quads') = Prologues(quads) \cup {n + 1}
      /\ quads'[n + 1].opd2 = Nothing
  <2>1. quads'[n + 1].op = "FunBegin" /\ quads'[n + 1].opd2 = Nothing
    BY <1>1 DEF Quad
  <2>2. \A i \in 1 .. n + 1 : i \in 1 .. n \/ i = n + 1
    BY <1>2
  <2>3. 1 .. n \subseteq 1 .. n + 1 /\ n + 1 \in 1 .. n + 1
    BY <1>2
  <2>4. QED
    BY <1>1, <2>1, <2>2, <2>3 DEF Prologues
<1>8. ASSUME NEW i \in Prologues(quads)
      PROVE  Patched(i)' /\ quads'[i].opd2 # Nothing
  <2>1. i \in 1 .. n /\ Patched(i)
    BY <1>5 DEF ReserveInv, Prologues
  <2>2. /\ LabelIn(labels', i) = LabelIn(labels, i) /\ quads'[i] = quads[i]
        /\ LabelIn(labels, i) # cur
    BY <1>1, <1>2, <2>1, FrameAssumption DEF Patched
  <2>3. LabelIn(labels, i) # f
    BY <1>5, <2>1, <2>2 DEF Patched
  <2>4. QED
    BY <1>3, <2>1, <2>2, <2>3, NothingAssumption DEF Patched
<1>9. PICK k : k = n + 1
  OBVIOUS
<1>10. Patched(k)'
  BY <1>1, <1>3, <1>7, <1>9 DEF Patched
<1> HIDE DEF n
<1>11. /\ \A e \in frame' : e.off < 0 => e.key[1] >= start'
       /\ DOMAIN tables' \subseteq DOMAIN globals'
       /\ cur' \in DOMAIN globals' /\ cur' \notin DOMAIN tables'
  BY <1>1, <1>3, <1>5, <1>6
<1>12. \A i \in Prologues(quads') : Patched(i)'
  <2>1. SUFFICES ASSUME NEW i \in Prologues(quads') PROVE Patched(i)'
    OBVIOUS
  <2>2. CASE i \in Prologues(quads)
    BY <1>8, <2>2
  <2>3. CASE i = k
    BY <1>10, <2>3
  <2>4. QED
    BY <1>7, <1>9, <2>1, <2>2, <2>3
<1>13. \A i, j \in Prologues(quads') :
          quads'[i].opd2 = Nothing /\ quads'[j].opd2 = Nothing => i = j
  BY <1>7, <1>8
<1>14. QED
  BY <1>4, <1>11, <1>12, <1>13 DEF ReserveInv

\* The prologue that is patched at the end is that of the function, and what
\* its table has is what was handed out since it began.
LEMMA FunDefEndKeepsReserve ==
    ASSUME WalkInv, FP!LayoutInv, ReserveInv, FunDefEnd PROVE ReserveInv'
<1> DEFINE n == Len(quads)
           p == Top.left
<1>1. /\ errors' = errors /\ labels' = labels /\ globals' = globals
      /\ p \in 1 .. n /\ quads[p] = Quad("FunBegin", Nothing, Nothing, Nothing)
      /\ Len(quads') = n + 1
      /\ quads'[n + 1] = Quad("FunEnd", Nothing, Nothing, Nothing)
      /\ quads'[p] = Quad("FunBegin", Nothing, Nothing, Fr!Reservation)
      /\ \A i \in 1 .. n : i # p => quads'[i] = quads[i]
      /\ Fr!EndFun
  BY FunDefEndEffect
<1> HIDE DEF p
<1>2. /\ cur # Anon /\ cur' = Anon
      /\ tables' = [h \in DOMAIN tables \cup {cur} |-> IF h = cur THEN frame ELSE tables[h]]
  BY <1>1 DEF Fr!EndFun, Fr!inFun
<1>3. SUFFICES ASSUME ~errors' PROVE ReserveInv'
  BY DEF ReserveInv
<1>4. /\ n \in Nat /\ ~errors /\ DOMAIN tables \subseteq DOMAIN globals
      /\ cur \in DOMAIN globals /\ cur \notin DOMAIN tables
      /\ \A e \in frame : e.off < 0 => e.key[1] >= start
      /\ \A i \in Prologues(quads) : Patched(i)
      /\ \A i, j \in Prologues(quads) :
            quads[i].opd2 = Nothing /\ quads[j].opd2 = Nothing => i = j
  BY <1>1, <1>2, <1>3, Lengths DEF ReserveInv
<1>5. Fr!Reservation \in Nat /\ Fr!Reservation # Nothing /\ Fits(frame, Fr!Reservation)
  <2>1. temps \in Nat /\ start \in 0 .. temps
    BY FrameAssumption DEF FP!LayoutInv, FP!Counters
  <2>2. \A e \in frame : e.off < 0 /\ e.key[1] >= start => -e.off <= temps - start
    BY DEF FP!LayoutInv, FP!EntryInv
  <2>3. Fr!Reservation = temps - start
    BY DEF Fr!Reservation
  <2>4. Fr!Reservation \in Nat
    BY <2>1, <2>3
  <2>5. Fits(frame, Fr!Reservation)
    BY <1>4, <2>2, <2>3 DEF Fits
  <2>6. QED
    BY <2>4, <2>5, NothingAssumption
<1>6. /\ quads[p].op = "FunBegin" /\ quads[p].opd2 = Nothing
      /\ quads'[p].op = "FunBegin" /\ quads'[p].opd2 = Fr!Reservation
      /\ quads'[n + 1].op # "FunBegin"
  BY <1>1 DEF Quad
<1>7. Prologues(quads') = Prologues(quads) /\ p \in Prologues(quads)
  <2>1. \A i \in 1 .. n + 1 : i \in 1 .. n \/ i = n + 1
    BY <1>4
  <2>2. 1 .. n \subseteq 1 .. n + 1
    BY <1>4
  <2>3. \A i \in 1 .. n : quads'[i].op = "FunBegin" <=> quads[i].op = "FunBegin"
    BY <1>1, <1>6
  <2>4. QED
    BY <1>1, <1>6, <2>1, <2>2, <2>3 DEF Prologues
<1>8. ASSUME NEW i \in Prologues(quads) PROVE Patched(i)' /\ quads'[i].opd2 # Nothing
  <2> DEFINE g == LabelIn(labels, i)
  <2>1. /\ i \in 1 .. n /\ g \in Funs /\ g # cur' /\ g = LabelIn(labels', i)
        /\ g = cur => quads[i].opd2 = Nothing
        /\ g # cur => /\ g \in DOMAIN tables /\ quads[i].opd2 \in Nat
                      /\ Fits(tables[g], quads[i].opd2)
    BY <1>1, <1>2, <1>4, FrameAssumption DEF Prologues, Patched
  <2> HIDE DEF g
  <2>2. CASE g = cur
    <3>1. i = p
      BY <1>4, <1>6, <1>7, <2>1, <2>2
    <3>2. tables'[g] = frame /\ g \in DOMAIN tables'
      BY <1>2, <2>2
    <3>3. QED
      BY <1>5, <1>6, <2>1, <3>1, <3>2 DEF Patched
  <2>3. CASE g # cur
    <3>1. i # p
      BY <1>6, <2>1, <2>3, NothingAssumption
    <3>2. tables'[g] = tables[g] /\ g \in DOMAIN tables' /\ quads'[i] = quads[i]
      BY <1>1, <1>2, <2>1, <2>3, <3>1
    <3>3. QED
      BY <2>1, <2>3, <3>2, NothingAssumption DEF Patched
  <2>4. QED
    BY <2>2, <2>3
<1>9. DOMAIN tables' \subseteq DOMAIN globals'
  BY <1>1, <1>2, <1>4
<1>10. QED
  BY <1>2, <1>7, <1>8, <1>9 DEF ReserveInv

LEMMA ReserveNext ==
    ASSUME WalkInv, FrameInv, FP!LayoutInv, ReserveInv, [Next]_vars PROVE ReserveInv'
<1>1. Len(quads) \in Nat
  BY Lengths
<1>2. ASSUME NEW m \in 0 .. 3, PlainStep(m) PROVE ReserveInv'
  <2>1. /\ Appends(m) /\ (errors => errors') /\ SameFrameNames
        /\ \A k \in 1 .. m : quads'[Len(quads) + k].op # "FunBegin"
    BY <1>2 DEF PlainStep
  <2>2. \A i \in Len(quads) + 1 .. Len(quads') : quads'[i].op # "FunBegin"
    <3>1. SUFFICES ASSUME NEW i \in Len(quads) + 1 .. Len(quads')
                   PROVE  quads'[i].op # "FunBegin"
      OBVIOUS
    <3>2. i - Len(quads) \in 1 .. m /\ i = Len(quads) + (i - Len(quads))
      BY <1>1, <2>1 DEF Appends
    <3>3. QED
      BY <2>1, <3>2
  <2>3. QED
    BY <1>1, <2>1, <2>2, InsideKeepsReserve DEF Appends, SameFrameNames
<1>3. CASE ControlStep
  <2>1. /\ UNCHANGED <<frameVars, globals>> /\ (errors => errors')
        /\ \A k \in 1 .. Len(quads) : LabelIn(labels', k) = LabelIn(labels, k)
        /\ \/ quads' = quads
           \/ /\ Len(quads') = Len(quads) + 1
              /\ \A i \in 1 .. Len(quads) : quads'[i] = quads[i]
              /\ quads'[Len(quads) + 1].op # "FunBegin"
    BY <1>3 DEF ControlStep
  <2>2. /\ cur' = cur /\ tables' = tables
        /\ Len(quads') \in Nat /\ Len(quads) <= Len(quads')
        /\ \A i \in 1 .. Len(quads) : quads'[i] = quads[i]
    BY <1>1, <2>1 DEF frameVars
  <2>3. \A i \in Len(quads) + 1 .. Len(quads') : quads'[i].op # "FunBegin"
    BY <1>1, <2>1
  <2>4. QED
    BY <2>1, <2>2, <2>3, InsideKeepsReserve
<1>4. CASE Finish
  <2>1. /\ quads' = quads /\ errors' = errors /\ UNCHANGED frameVars /\ globals' = globals
        /\ \A k \in 1 .. Len(quads) : \/ LabelIn(labels', k) = LabelIn(labels, k)
                                      \/ LabelIn(labels, k) = Nothing
    BY <1>4, FinishEffect
  <2>2. cur' = cur /\ tables' = tables
    BY <2>1 DEF frameVars
  <2>3. \A i \in Len(quads) + 1 .. Len(quads') : quads'[i].op # "FunBegin"
    BY <1>1, <2>1
  <2>4. QED
    BY <1>1, <2>1, <2>2, <2>3, InsideKeepsReserve
<1>5. QED
  BY <1>2, <1>3, <1>4, Steps, FunDefKeepsReserve, FunDefEndKeepsReserve

LEMMA ReserveInit == Init => ReserveInv
<1> SUFFICES ASSUME Init PROVE ReserveInv
  OBVIOUS
<1> DEFINE q == Quad("Entry", Nothing, Nothing, Nothing)
           r == Quad("CallNil", Nothing, Nothing, Main)
           s == Quad("Exit", Nothing, Nothing, Nothing)
<1>1. quads = <<q, r, s>> /\ cur = Anon /\ DOMAIN tables = {}
  BY DEF Init, Fr!Init
<1>2. q.op # "FunBegin" /\ r.op # "FunBegin" /\ s.op # "FunBegin"
  BY DEF Quad
<1> HIDE DEF q, r, s
<1>3. Len(quads) = 3 /\ quads[1] = q /\ quads[2] = r /\ quads[3] = s
  BY <1>1, Tuples
<1>4. Prologues(quads) = {}
  <2>1. \A i \in 1 .. 3 : i = 1 \/ i = 2 \/ i = 3
    OBVIOUS
  <2>2. QED
    BY <1>2, <1>3, <2>1 DEF Prologues
<1>5. QED
  BY <1>1, <1>4 DEF ReserveInv

(***************************************************************************)
(* In the translation of any program that has no error, the FunBegin of    *)
(* every finished function reserves the words of all locals in its table,  *)
(* whatever scopes, temporaries and calls its body has.                    *)
(***************************************************************************)
THEOREM PrologueReserves == Spec => []ReservationInCode
<1>1. FP!Spec => []FP!LayoutInv
  BY FP!LayoutInductive, FrameAssumption
<1>2. WalkInv /\ FrameInv /\ FP!LayoutInv /\ ReserveInv /\ [Next]_vars => ReserveInv'
  BY ReserveNext
<1>3. WalkInv /\ ReserveInv => ReservationInCode
  <2>1. SUFFICES ASSUME WalkInv, ReserveInv, ~errors, NEW i \in DOMAIN quads,
                        quads[i].op = "FunBegin", LabelAt(i) # cur,
                        NEW e \in tables[LabelAt(i)], e.off < 0
                 PROVE  -e.off <= quads[i].opd2
    BY DEF ReservationInCode
  <2>2. i \in Prologues(quads)
    BY <2>1, Lengths DEF Prologues
  <2>3. LabelAt(i) = LabelIn(labels, i) /\ Patched(i)
    BY <2>1, <2>2 DEF LabelAt, LabelIn, ReserveInv
  <2>4. QED
    BY <2>1, <2>3 DEF Patched, Fits
<1>4. QED
  BY ReserveInit, WalkInductive, FrameInductive, SameFrame, <1>1, <1>2, <1>3, PTL DEF Spec

-----------------------------------------------------------------------------
(***************************************************************************)
(* The stack is level.  What PushArg quads have put on the stack and       *)
(* PopArgs quads have not yet taken off are the arguments of the calls     *)
(* that are open: those of a call whose loop has left arguments to go are  *)
(* its last ones.  No call is open where a label or a jump is emitted.     *)
(***************************************************************************)
PushesIn(Q, n) == {i \in 1 .. n : Q[i].op = "PushArg"}
PopsIn(Q, n) == UNION {{i} \X (1 .. Q[i].opd2) : i \in {j \in 1 .. n : Q[j].op = "PopArgs"}}
LevelIn(Q, n) == Cardinality(PushesIn(Q, n)) = Cardinality(PopsIn(Q, n))

Arguments(c) == IF c.kind = "call" THEN c.left + 1 .. Len(c.sig.ptypes) ELSE {}
OnStack == {a \in (1 .. Len(ctx)) \X Nat : a[2] \in Arguments(ctx[a[1]])}
CallsCount == \A i \in 1 .. Len(ctx) :
                 ctx[i].kind = "call" => /\ Len(ctx[i].sig.ptypes) \in Nat
                                         /\ ctx[i].left <= Len(ctx[i].sig.ptypes)
Marked(Q, L, i) == (i <= Len(Q) /\ LeavesBlock(Q[i])) \/ LabelIn(L, i) # Nothing

StackInv ==
    /\ CallsCount /\ IsFiniteSet(OnStack)
    /\ IsFiniteSet(PopsIn(quads, Len(quads)))
    /\ Cardinality(PushesIn(quads, Len(quads))) =
           Cardinality(PopsIn(quads, Len(quads))) + Cardinality(OnStack)
    /\ \A i \in 1 .. Len(quads) + 1 : Marked(quads, labels, i) => LevelIn(quads, i - 1)

LEMMA PushesFinite ==
    ASSUME NEW Q, NEW n \in Nat
    PROVE  IsFiniteSet(PushesIn(Q, n)) /\ Cardinality(PushesIn(Q, n)) \in Nat
<1>1. IsFiniteSet(1 .. n)
  BY FS_Interval
<1>2. PushesIn(Q, n) \in SUBSET (1 .. n)
  BY DEF PushesIn
<1>3. QED
  BY <1>1, <1>2, FS_Subset, FS_CardinalityType

\* The counts depend on the quads that push or pop only.
LEMMA CountsStay ==
    ASSUME NEW Q, NEW Q1, NEW n,
           \A i \in 1 .. n : /\ Q1[i].op = "PushArg" <=> Q[i].op = "PushArg"
                             /\ Q1[i].op = "PopArgs" <=> Q[i].op = "PopArgs"
                             /\ Q[i].op = "PopArgs" => Q1[i].opd2 = Q[i].opd2
    PROVE  PushesIn(Q1, n) = PushesIn(Q, n) /\ PopsIn(Q1, n) = PopsIn(Q, n)
<1>1. PushesIn(Q1, n) = PushesIn(Q, n)
  BY DEF PushesIn
<1>2. {j \in 1 .. n : Q1[j].op = "PopArgs"} = {j \in 1 .. n : Q[j].op = "PopArgs"}
  OBVIOUS
<1>3. \A j \in {k \in 1 .. n : Q[k].op = "PopArgs"} : Q1[j].opd2 = Q[j].opd2
  OBVIOUS
<1>4. PopsIn(Q1, n) = PopsIn(Q, n)
  BY <1>2, <1>3 DEF PopsIn
<1>5. QED
  BY <1>1, <1>4

LEMMA CountsSkip ==
    ASSUME NEW Q, NEW n \in Nat, NEW v \in Nat, n <= v,
           \A i \in n + 1 .. v : Q[i].op \notin {"PushArg", "PopArgs"}
    PROVE  PushesIn(Q, v) = PushesIn(Q, n) /\ PopsIn(Q, v) = PopsIn(Q, n)
<1>1. /\ \A i \in 1 .. v : i \in 1 .. n \/ i \in n + 1 .. v
      /\ \A i \in 1 .. n : i \in 1 .. v
  OBVIOUS
<1>2. {j \in 1 .. v : Q[j].op = "PopArgs"} = {j \in 1 .. n : Q[j].op = "PopArgs"}
  BY <1>1
<1>3. PushesIn(Q, v) = PushesIn(Q, n)
  BY <1>1 DEF PushesIn
<1>4. QED
  BY <1>2, <1>3 DEF PopsIn

LEMMA CountPush ==
    ASSUME NEW Q, NEW n \in Nat, Q[n + 1].op = "PushArg"
    PROVE  /\ PopsIn(Q, n + 1) = PopsIn(Q, n)
           /\ Cardinality(PushesIn(Q, n + 1)) = Cardinality(PushesIn(Q, n)) + 1
<1>1. \A i \in 1 .. n + 1 : i \in 1 .. n \/ i = n + 1
  OBVIOUS
<1>2. n + 1 \in 1 .. n + 1 /\ n + 1 \notin 1 .. n /\ \A i \in 1 .. n : i \in 1 .. n + 1
  OBVIOUS
<1>3. PushesIn(Q, n + 1) = PushesIn(Q, n) \cup {n + 1} /\ n + 1 \notin PushesIn(Q, n)
  BY <1>1, <1>2 DEF PushesIn
<1>4. {j \in 1 .. n + 1 : Q[j].op = "PopArgs"} = {j \in 1 .. n : Q[j].op = "PopArgs"}
  BY <1>1, <1>2
<1>5. PopsIn(Q, n + 1) = PopsIn(Q, n)
  BY <1>4 DEF PopsIn
<1>6. QED
  BY <1>3, <1>5, PushesFinite, FS_AddElement

LEMMA CountPop ==
    ASSUME NEW Q, NEW n \in Nat, NEW p \in Nat, Q[n + 1].op = "PopArgs",
           Q[n + 1].opd2 = p, IsFiniteSet(PopsIn(Q, n))
    PROVE  /\ PushesIn(Q, n + 1) = PushesIn(Q, n)
           /\ IsFiniteSet(PopsIn(Q, n + 1))
           /\ Cardinality(PopsIn(Q, n + 1)) = Cardinality(PopsIn(Q, n)) + p
<1> DEFINE new == {n + 1} \X (1 .. p)
           pops == {j \in 1 .. n : Q[j].op = "PopArgs"}
<1>1. \A i \in 1 .. n + 1 : i \in 1 .. n \/ i = n + 1
  OBVIOUS
<1>2. n + 1 \in 1 .. n + 1 /\ n + 1 \notin 1 .. n /\ \A i \in 1 .. n : i \in 1 .. n + 1
  OBVIOUS
<1>3. PushesIn(Q, n + 1) = PushesIn(Q, n)
  BY <1>1, <1>2 DEF PushesIn
<1>4. {j \in 1 .. n + 1 : Q[j].op = "PopArgs"} = pops \cup {n + 1}
  BY <1>1, <1>2
<1>5. PopsIn(Q, n + 1) = PopsIn(Q, n) \cup new
  BY <1>4 DEF PopsIn
<1>6. PopsIn(Q, n) \cap new = {}
  BY <1>2 DEF PopsIn
<1>7. IsFiniteSet(new) /\ Cardinality(new) = p
  <2>1. IsFiniteSet({n + 1}) /\ Cardinality({n + 1}) = 1
    BY FS_Singleton
  <2>2. IsFiniteSet(1 .. p) /\ Cardinality(1 .. p) = p
    BY FS_Interval, SMTT(40)
  <2>3. IsFiniteSet(new) /\ Cardinality(new) = Cardinality({n + 1}) * Cardinality(1 .. p)
    BY <2>1, <2>2, FS_Product
  <2>4. QED
    BY <2>1, <2>2, <2>3
<1> HIDE DEF new
<1>8. /\ IsFiniteSet(PopsIn(Q, n) \cup new)
      /\ Cardinality(PopsIn(Q, n) \cup new) =
            Cardinality(PopsIn(Q, n)) + Cardinality(new) - Cardinality(PopsIn(Q, n) \cap new)
  BY <1>7, FS_Union
<1>9. Cardinality(PopsIn(Q, n) \cap new) = 0 /\ Cardinality(PopsIn(Q, n)) \in Nat
  BY <1>6, FS_EmptySet, FS_CardinalityType
<1>10. Cardinality(PopsIn(Q, n) \cup new) = Cardinality(PopsIn(Q, n)) + p
  BY <1>7, <1>8, <1>9
<1>11. QED
  BY <1>3, <1>5, <1>8, <1>10

LEMMA SignatureCounts == \A s \in Signatures : Len(s.ptypes) \in Nat
<1>1. \A s \in Sigs : Len(s.ptypes) \in Nat
  BY SigsAssumption, FunctionIsSeq, LenProperties
<1>2. Len(NoFun.ptypes) \in Nat
  <2>1. NoFun.ptypes = <<>>
    BY DEF NoFun
  <2>2. QED
    BY <2>1, Tuples
<1>3. \A h \in DOMAIN Imported : Len(Imported[h].ptypes) \in Nat
  BY ImportedAssumption, LenProperties
<1>4. QED
  BY <1>1, <1>2, <1>3 DEF Signatures

\* No call is open unless one is on top.
LEMMA NoCallOpen ==
    ASSUME WalkInv, Top.kind # "call" PROVE OnStack = {}
<1> DEFINE S == {i \in 1 .. Len(ctx) : ctx[i].kind = "call"}
           m == CHOOSE k \in S : \A j \in S : j <= k
<1>1. SUFFICES ASSUME OnStack # {} PROVE FALSE
  OBVIOUS
<1>2. Nesting /\ Len(ctx) \in Nat
  BY Lengths, TopFacts
<1>3. S # {}
  BY <1>1 DEF OnStack, Arguments
<1>4. m \in S /\ \A j \in S : j <= m
  BY <1>2, <1>3, LastOf
<1> HIDE DEF m
<1>5. m \in 1 .. Len(ctx) /\ ctx[m].kind = "call"
  BY <1>4
<1>6. ctx # <<>>
  <2>1. Len(ctx) # 0
    BY <1>2, <1>5
  <2>2. QED
    BY <2>1, Tuples
<1>7. Top = ctx[Len(ctx)]
  BY <1>2, <1>6, TopFacts
<1>8. m # Len(ctx)
  BY <1>5, <1>7
<1>9. m + 1 \in 2 .. Len(ctx) /\ m + 1 - 1 = m
  BY <1>2, <1>5, <1>8
<1>10. ctx[m + 1].kind = "call"
  BY <1>2, <1>5, <1>9 DEF Nesting
<1>11. m + 1 \in S
  BY <1>9, <1>10
<1>12. QED
  BY <1>2, <1>4, <1>5, <1>11

\* Constructs other than calls, and a call that has just begun, have no
\* argument on the stack.
LEMMA SameOnStack ==
    ASSUME CallsCount, Len(ctx) \in Nat, Len(ctx') \in Nat,
           NEW k \in Nat, k <= Len(ctx), k <= Len(ctx'),
           \A i \in 1 .. k : /\ ctx'[i].kind = ctx[i].kind
                             /\ ctx'[i].left = ctx[i].left /\ ctx'[i].sig = ctx[i].sig,
           \A i \in k + 1 .. Len(ctx) : ctx[i].kind # "call",
           \A i \in k + 1 .. Len(ctx') :
              ctx'[i].kind = "call" => /\ Len(ctx'[i].sig.ptypes) \in Nat
                                       /\ ctx'[i].left = Len(ctx'[i].sig.ptypes)
    PROVE  OnStack' = OnStack /\ CallsCount'
<1>1. /\ \A i \in 1 .. Len(ctx) : i \in 1 .. k \/ i \in k + 1 .. Len(ctx)
      /\ \A i \in 1 .. Len(ctx') : i \in 1 .. k \/ i \in k + 1 .. Len(ctx')
      /\ \A i \in 1 .. k : i \in 1 .. Len(ctx) /\ i \in 1 .. Len(ctx')
  OBVIOUS
<1>2. CallsCount'
  BY <1>1 DEF CallsCount
<1>3. /\ \A i \in 1 .. k : Arguments(ctx'[i]) = Arguments(ctx[i])
      /\ \A i \in k + 1 .. Len(ctx) : Arguments(ctx[i]) = {}
      /\ \A i \in k + 1 .. Len(ctx') : Arguments(ctx'[i]) = {}
  BY DEF Arguments
<1>4. ASSUME NEW i, NEW v
      PROVE  /\ i \in 1 .. Len(ctx') /\ v \in Arguments(ctx'[i])
             <=> /\ i \in 1 .. Len(ctx) /\ v \in Arguments(ctx[i])
  BY <1>1, <1>3
<1>5. OnStack' = {a \in (1 .. Len(ctx')) \X Nat : a[2] \in Arguments(ctx'[a[1]])}
  BY DEF OnStack, Arguments
<1>6. OnStack' = OnStack
  BY <1>4, <1>5 DEF OnStack
<1>7. QED
  BY <1>2, <1>6

\* The levels that are known, after a step.
LEMMA LevelsKept ==
    ASSUME WalkInv, StackInv, Len(quads) <= Len(quads'), Len(quads') \in Nat,
           \A i \in 1 .. Len(quads) :
              /\ quads'[i].op = "PushArg" <=> quads[i].op = "PushArg"
              /\ quads'[i].op = "PopArgs" <=> quads[i].op = "PopArgs"
              /\ quads[i].op = "PopArgs" => quads'[i].opd2 = quads[i].opd2
    PROVE  /\ \A v \in 0 .. Len(quads) : LevelIn(quads, v) => LevelIn(quads', v)
           /\ PushesIn(quads', Len(quads)) = PushesIn(quads, Len(quads))
           /\ PopsIn(quads', Len(quads)) = PopsIn(quads, Len(quads))
           /\ \A i \in 1 .. Len(quads) + 1 :
                 Marked(quads, labels, i) => LevelIn(quads', i - 1)
<1>1. Len(quads) \in Nat
  BY Lengths
<1>2. ASSUME NEW v \in 0 .. Len(quads)
      PROVE  PushesIn(quads', v) = PushesIn(quads, v) /\ PopsIn(quads', v) = PopsIn(quads, v)
  <2>1. \A i \in 1 .. v : i \in 1 .. Len(quads)
    BY <1>1
  <2>2. QED
    BY <2>1, CountsStay
<1>3. \A v \in 0 .. Len(quads) : LevelIn(quads, v) => LevelIn(quads', v)
  BY <1>2 DEF LevelIn
<1>4. \A i \in 1 .. Len(quads) + 1 : i - 1 \in 0 .. Len(quads)
  BY <1>1
<1>5. \A i \in 1 .. Len(quads) + 1 : Marked(quads, labels, i) => LevelIn(quads, i - 1)
  BY DEF StackInv
<1>6. Len(quads) \in 0 .. Len(quads)
  BY <1>1
<1>7. QED
  BY <1>2, <1>3, <1>4, <1>5, <1>6

\* Steps that push and pop nothing: what they mark lies where no call is open,
\* was marked before, or follows a return.
LEMMA NeutralKeepsStack ==
    ASSUME WalkInv, StackInv, CallsCount', OnStack' = OnStack,
           Len(quads') \in Nat, Len(quads) <= Len(quads'),
           \A i \in 1 .. Len(quads) :
              /\ quads'[i].op = "PushArg" <=> quads[i].op = "PushArg"
              /\ quads'[i].op = "PopArgs" <=> quads[i].op = "PopArgs"
              /\ quads[i].op = "PopArgs" => quads'[i].opd2 = quads[i].opd2,
           \A i \in Len(quads) + 1 .. Len(quads') :
              quads'[i].op \notin {"PushArg", "PopArgs"},
           \A i \in 1 .. Len(quads') + 1 :
              Marked(quads', labels', i) =>
                  \/ i <= Len(quads) + 1 /\ Marked(quads, labels, i)
                  \/ i > Len(quads) /\ OnStack = {}
                  \/ i >= 2 /\ i <= Len(quads) /\ quads[i - 1].op = "Return"
    PROVE  StackInv'
<1> DEFINE n == Len(quads)
           v == Len(quads')
<1>1. n \in Nat /\ v \in Nat /\ n <= v
  BY Lengths
<1>2. /\ \A u \in 0 .. n : LevelIn(quads, u) => LevelIn(quads', u)
      /\ PushesIn(quads', n) = PushesIn(quads, n)
      /\ PopsIn(quads', n) = PopsIn(quads, n)
      /\ \A i \in 1 .. n + 1 : Marked(quads, labels, i) => LevelIn(quads', i - 1)
  BY LevelsKept
<1>3. ASSUME NEW u \in n .. v
      PROVE  PushesIn(quads', u) = PushesIn(quads, n) /\ PopsIn(quads', u) = PopsIn(quads, n)
  <2>1. u \in Nat /\ n <= u /\ \A i \in n + 1 .. u : i \in n + 1 .. v
    BY <1>1
  <2>2. \A i \in n + 1 .. u : quads'[i].op \notin {"PushArg", "PopArgs"}
    BY <2>1
  <2> HIDE DEF n
  <2>3. PushesIn(quads', u) = PushesIn(quads', n) /\ PopsIn(quads', u) = PopsIn(quads', n)
    BY <1>1, <2>1, <2>2, CountsSkip
  <2>4. QED
    BY <1>2, <2>3
<1>4. /\ IsFiniteSet(OnStack) /\ IsFiniteSet(PopsIn(quads, n))
      /\ Cardinality(PushesIn(quads, n)) = Cardinality(PopsIn(quads, n)) + Cardinality(OnStack)
  BY DEF StackInv
<1>5. ASSUME OnStack = {}, NEW u \in n .. v PROVE LevelIn(quads', u)
  <2>1. Cardinality(OnStack) = 0
    BY <1>5, FS_EmptySet
  <2>2. Cardinality(PopsIn(quads, n)) \in Nat
    BY <1>4, FS_CardinalityType
  <2>3. Cardinality(PushesIn(quads, n)) = Cardinality(PopsIn(quads, n))
    BY <1>4, <2>1, <2>2
  <2>4. QED
    BY <1>3, <1>5, <2>3 DEF LevelIn
<1>6. ASSUME NEW i \in 1 .. v + 1, Marked(quads', labels', i) PROVE LevelIn(quads', i - 1)
  <2>1. CASE i <= n + 1 /\ Marked(quads, labels, i)
    <3>1. i \in 1 .. n + 1
      BY <1>1, <2>1
    <3>2. QED
      BY <1>2, <2>1, <3>1
  <2>2. CASE i > n /\ OnStack = {}
    <3>1. i - 1 \in n .. v
      BY <1>1, <2>2
    <3>2. QED
      BY <1>5, <2>2, <3>1
  <2>3. CASE i >= 2 /\ i <= n /\ quads[i - 1].op = "Return"
    <3> DEFINE j == i - 1
    <3>1. j \in 1 .. n + 1 /\ j \in 1 .. n /\ j <= n /\ j - 1 \in Nat /\ j \in Nat /\ j - 1 <= j
          /\ j - 1 + 1 = j
      BY <1>1, <2>3
    <3>2. Marked(quads, labels, j)
      BY <2>3, <3>1 DEF Marked, LeavesBlock
    <3>3. LevelIn(quads', j - 1)
      BY <1>2, <3>1, <3>2
    <3>4. quads'[j].op \notin {"PushArg", "PopArgs"}
      BY <2>3, <3>1
    <3>5. \A k \in j - 1 + 1 .. j : k = j
      BY <3>1
    <3>6. \A k \in j - 1 + 1 .. j : quads'[k].op \notin {"PushArg", "PopArgs"}
      BY <3>4, <3>5
    <3> HIDE DEF j
    <3>7. /\ PushesIn(quads', j) = PushesIn(quads', j - 1)
          /\ PopsIn(quads', j) = PopsIn(quads', j - 1)
      BY <3>1, <3>6, CountsSkip
    <3>8. LevelIn(quads', j)
      BY <3>3, <3>7 DEF LevelIn
    <3>9. QED
      BY <3>8 DEF j
  <2>4. QED
    BY <1>6, <2>1, <2>2, <2>3
<1>7. v \in n .. v
  BY <1>1
<1>8. PushesIn(quads', v) = PushesIn(quads, n) /\ PopsIn(quads', v) = PopsIn(quads, n)
  BY <1>3, <1>7
<1>9. OnStack' = OnStack
  OBVIOUS
<1>10. QED
  BY <1>4, <1>6, <1>8, <1>9 DEF StackInv, LevelIn, Marked, PushesIn, PopsIn

\* A label lies on a quad, or on the next one.
LEMMA LabelsBehind ==
    ASSUME WalkInv, NEW i, LabelIn(labels, i) # Nothing
    PROVE  i \in 1 .. Len(quads) + 1
<1>1. /\ Len(labels) \in Nat /\ Len(quads) \in Nat /\ Len(labels) <= Len(quads) + 1
      /\ DOMAIN labels = 1 .. Len(labels)
  BY Lengths
<1>2. i \in 1 .. Len(labels)
  BY <1>1 DEF LabelIn
<1>3. QED
  BY <1>1, <1>2

LEMMA AppendKeepsStack ==
    ASSUME WalkInv, StackInv, CallsCount', OnStack' = OnStack, NEW m \in 0 .. 3, Appends(m),
           \A k \in 1 .. m :
              /\ quads'[Len(quads) + k].op \notin {"PushArg", "PopArgs"}
              /\ LeavesBlock(quads'[Len(quads) + k]) => OnStack = {}
    PROVE  StackInv'
<1> DEFINE n == Len(quads)
<1>1. /\ n \in Nat /\ Len(quads') = n + m /\ \A i \in 1 .. n : quads'[i] = quads[i]
      /\ labels' = labels
  BY Lengths DEF Appends
<1>2. ASSUME NEW i \in n + 1 .. n + m
      PROVE  /\ quads'[i].op \notin {"PushArg", "PopArgs"}
             /\ LeavesBlock(quads'[i]) => OnStack = {}
  <2>1. i - n \in 1 .. m /\ i = n + (i - n)
    BY <1>1
  <2>2. QED
    BY <2>1
<1>3. ASSUME NEW i \in 1 .. n + m + 1, Marked(quads', labels', i)
      PROVE  \/ i <= n + 1 /\ Marked(quads, labels, i)
             \/ i > n /\ OnStack = {}
  <2>1. CASE LabelIn(labels, i) # Nothing
    <3>1. i \in 1 .. n + 1
      BY <2>1, LabelsBehind
    <3>2. QED
      BY <1>1, <2>1, <3>1 DEF Marked
  <2>2. CASE i <= n + m /\ LeavesBlock(quads'[i])
    <3>1. CASE i \in 1 .. n
      BY <1>1, <2>2, <3>1 DEF Marked
    <3>2. CASE i \in n + 1 .. n + m
      BY <1>1, <1>2, <2>2, <3>2
    <3>3. QED
      BY <1>1, <1>3, <2>2, <3>1, <3>2
  <2>3. QED
    BY <1>1, <1>3, <2>1, <2>2 DEF Marked
<1>4. n + m \in Nat /\ n <= n + m
  BY <1>1
<1>5. QED
  BY <1>1, <1>2, <1>3, <1>4, NeutralKeepsStack

\* A jump, and the label behind it.
LEMMA JumpKeepsStack ==
    ASSUME WalkInv, WalkInv', StackInv, CallsCount', OnStack' = OnStack, OnStack = {},
           NEW q, NEW l, Jumps(q, l), q.op \notin {"PushArg", "PopArgs"}
    PROVE  StackInv'
<1> DEFINE n == Len(quads)
<1>1. /\ n \in Nat /\ Len(quads') = n + 1 /\ \A i \in 1 .. n : quads'[i] = quads[i]
      /\ quads'[n + 1] = q
      /\ \A k \in 1 .. n + 1 : LabelIn(labels', k) = LabelIn(labels, k)
  BY Lengths DEF Jumps
<1>2. \A i \in n + 1 .. n + 1 : quads'[i].op \notin {"PushArg", "PopArgs"}
  BY <1>1
<1>3. ASSUME NEW i \in 1 .. n + 2, Marked(quads', labels', i)
      PROVE  \/ i <= n + 1 /\ Marked(quads, labels, i)
             \/ i > n /\ OnStack = {}
  <2>1. CASE i \in 1 .. n
    BY <1>1, <1>3, <2>1 DEF Marked
  <2>2. CASE i > n
    BY <2>2
  <2>3. QED
    BY <1>1, <2>1, <2>2
<1>4. n + 1 \in Nat /\ n <= n + 1 /\ n + 1 + 1 = n + 2
  BY <1>1
<1>5. QED
  BY <1>1, <1>2, <1>3, <1>4, NeutralKeepsStack

\* The nodes that open and close nothing.
LEMMA LevelSteps ==
    ASSUME WalkInv, StackInv,
           \/ Import \/ UNCHANGED vars \/ ExprStmt \/ Unary \/ Return
           \/ \E type : Literal(type)
           \/ \E m \in Idents : \/ GetSym(m) \/ SetSym(m)
                                \/ SetSymUndeclared(m) \/ SetSymParam(m)
           \/ \E op \in BinOps : Binary(op)
           \/ \E f \in Funs, n \in 0 .. MaxParams : CallRejected(f, n)
           \/ \E x \in Idents : \E type : DeclSym(x, type)
    PROVE  StackInv'
<1> DEFINE n == Len(quads)
           Quiet(m) == \A k \in 1 .. m :
                          /\ quads'[n + k].op \notin {"PushArg", "PopArgs"}
                          /\ LeavesBlock(quads'[n + k]) => OnStack = {}
<1>1. ctx' = ctx
  BY DEF Import, vars, ExprStmt, Unary, Return, Literal, GetSym, SetSym, SetSymUndeclared,
         SetSymParam, Binary, CallRejected, DeclSym
<1>2. OnStack' = OnStack /\ CallsCount'
  BY <1>1 DEF OnStack, CallsCount, StackInv, Arguments
<1>3. SUFFICES \E m \in 0 .. 3 : Appends(m) /\ Quiet(m)
  BY <1>2, AppendKeepsStack
<1>4. Quiet(0) /\ 0 \in 0 .. 3 /\ 1 \in 0 .. 3 /\ 3 \in 0 .. 3
  OBVIOUS
<1>5. \A q : /\ Appends(1) /\ quads'[n + 1] = q /\ q.op \notin {"PushArg", "PopArgs"}
             /\ LeavesBlock(q) => OnStack = {}
             => Quiet(1)
  <2>1. \A k \in 1 .. 1 : k = 1
    OBVIOUS
  <2>2. QED
    BY <2>1
<1>6. \A t, a, b : \A op \in Plain \cup {"Assign"} :
          /\ ~LeavesBlock(Quad(op, t, a, b))
          /\ Quad(op, t, a, b).op \notin {"PushArg", "PopArgs"}
  BY DEF LeavesBlock, Quad, Plain, Arith
<1>7. \A op, l, r : Computes(op, l, r) => Appends(1) /\ Quiet(1)
  BY <1>5, <1>6 DEF Computes
<1>8. \A l, r : Composes(l, r) => Appends(3) /\ Quiet(3)
  <2>1. {"Less", "EqualEqual", "Or"} \subseteq Plain
    BY DEF Plain, Arith
  <2>2. SUFFICES ASSUME NEW l, NEW r, Composes(l, r)
                 PROVE  /\ Appends(3)
                        /\ \A k \in 1 .. 3 : /\ quads'[n + k].op \notin {"PushArg", "PopArgs"}
                                             /\ ~LeavesBlock(quads'[n + k])
    OBVIOUS
  <2>3. \A k \in {1, 2, 3} : \E op \in Plain : \E t, a, b : quads'[n + k] = Quad(op, t, a, b)
    BY <2>1, <2>2 DEF Composes
  <2>4. \A k \in 1 .. 3 : k \in {1, 2, 3}
    OBVIOUS
  <2>5. QED
    BY <1>6, <2>2, <2>3, <2>4 DEF Composes
<1> HIDE DEF Quiet
<1>9. CASE UNCHANGED <<quads, labels>>
  BY <1>4, <1>9, NoQuads
<1>10. CASE \/ Import \/ UNCHANGED vars \/ ExprStmt \/ \E type : Literal(type)
            \/ \E m \in Idents : GetSym(m) \/ SetSymUndeclared(m) \/ SetSymParam(m)
            \/ \E f \in Funs, v \in 0 .. MaxParams : CallRejected(f, v)
  <2>1. UNCHANGED <<quads, labels>>
    BY <1>10 DEF Import, vars, ExprStmt, Literal, GetSym, SetSymUndeclared, SetSymParam,
                 CallRejected
  <2>2. QED
    BY <1>9, <2>1
<1>11. ASSUME NEW m \in Idents, SetSym(m) PROVE \E v \in 0 .. 3 : Appends(v) /\ Quiet(v)
  BY <1>4, <1>5, <1>6, <1>11, SetSymEffect
<1>12. ASSUME NEW op \in BinOps, Binary(op) PROVE \E v \in 0 .. 3 : Appends(v) /\ Quiet(v)
  BY <1>4, <1>7, <1>8, <1>12, BinaryEffect
<1>13. CASE Unary
  BY <1>4, <1>7, <1>8, <1>13, UnaryEffect
<1>14. CASE Return
  <2> DEFINE q == Quad("Return", Nothing, Nothing, Last.temp)
  <2>1. Appends(1) /\ quads'[n + 1] = q
    BY <1>14, ReturnEffect
  <2>2. q.op \notin {"PushArg", "PopArgs"}
    BY DEF Quad
  <2>3. OnStack = {}
    BY <1>14, NoCallOpen DEF Return, StatementEnd
  <2>4. QED
    BY <1>4, <1>5, <2>1, <2>2, <2>3
<1>15. ASSUME NEW x \in Idents, NEW type, DeclSym(x, type)
       PROVE  \E v \in 0 .. 3 : Appends(v) /\ Quiet(v)
  BY <1>4, <1>5, <1>6, <1>15, DeclEffect
<1>16. QED
  BY <1>10, <1>11, <1>12, <1>13, <1>14, <1>15

\* The nodes that open or close a construct, and emit nothing there.
LEMMA OpenKeepsStack ==
    ASSUME WalkInv, WalkInv', StackInv, Appends(0), CallsCount', OnStack' = OnStack
    PROVE  StackInv'
<1>1. \A k \in 1 .. 0 : FALSE
  OBVIOUS
<1>2. 0 \in 0 .. 3
  OBVIOUS
<1>3. QED
  BY <1>1, <1>2, AppendKeepsStack

LEMMA PushedConstruct ==
    ASSUME WalkInv, WalkInv', StackInv, Len(ctx') = Len(ctx) + 1,
           \A i \in 1 .. Len(ctx) : ctx'[i] = ctx[i],
           ctx'[Len(ctx')].kind = "call" =>
              ctx'[Len(ctx')].left = Len(ctx'[Len(ctx')].sig.ptypes)
    PROVE  OnStack' = OnStack /\ CallsCount'
<1> DEFINE k == Len(ctx)
<1>1. Nesting /\ k \in Nat /\ Len(ctx') \in Nat /\ k <= k /\ k <= Len(ctx')
  BY Lengths, TopFacts
<1>2. \A i \in k + 1 .. Len(ctx') : i = k + 1 /\ i = Len(ctx') /\ i \in 1 .. Len(ctx')
  BY <1>1
<1>3. ctx' \in Seq(Opens)
  BY DEF WalkInv, Nesting, Opens, Kinds, Signatures
<1>4. \A i \in 1 .. Len(ctx') : ctx'[i] \in Opens
  BY <1>3, LenProperties
<1>5. \A i \in k + 1 .. Len(ctx') : Len(ctx'[i].sig.ptypes) \in Nat
  BY <1>2, <1>4, SignatureCounts DEF Opens
<1>6. \A i \in k + 1 .. Len(ctx) : FALSE
  BY <1>1
<1>7. CallsCount
  BY DEF StackInv
<1> HIDE DEF k
<1>8. \A i \in 1 .. k : /\ ctx'[i].kind = ctx[i].kind
                        /\ ctx'[i].left = ctx[i].left /\ ctx'[i].sig = ctx[i].sig
  BY DEF k
<1>9. k <= Len(ctx)
  BY <1>1 DEF k
<1>10. QED
  BY <1>1, <1>2, <1>5, <1>6, <1>7, <1>8, <1>9, SameOnStack

LEMMA ClosedConstruct ==
    ASSUME WalkInv, WalkInv', StackInv, Len(ctx) >= 2, ctx[Len(ctx)].kind # "call",
           Len(ctx') = Len(ctx) - 1,
           \A i \in 1 .. Len(ctx) - 1 : /\ ctx'[i].kind = ctx[i].kind
                                        /\ ctx'[i].left = ctx[i].left
                                        /\ ctx'[i].sig = ctx[i].sig
    PROVE  OnStack' = OnStack /\ CallsCount'
<1> DEFINE k == Len(ctx) - 1
<1>1. Nesting /\ Len(ctx) \in Nat /\ Len(ctx') \in Nat
  BY Lengths, TopFacts
<1>2. k \in Nat /\ k <= Len(ctx) /\ k <= Len(ctx')
  BY <1>1
<1>3. \A i \in k + 1 .. Len(ctx) : i = Len(ctx)
  BY <1>1
<1>4. \A i \in k + 1 .. Len(ctx') : FALSE
  BY <1>1
<1>5. \A i \in k + 1 .. Len(ctx) : ctx[i].kind # "call"
  BY <1>3
<1>6. CallsCount
  BY DEF StackInv
<1> HIDE DEF k
<1>7. \A i \in 1 .. k : /\ ctx'[i].kind = ctx[i].kind
                        /\ ctx'[i].left = ctx[i].left /\ ctx'[i].sig = ctx[i].sig
  BY DEF k
<1>8. QED
  BY <1>1, <1>2, <1>4, <1>5, <1>6, <1>7, SameOnStack

LEMMA SwappedConstruct ==
    ASSUME WalkInv, WalkInv', StackInv, Len(ctx) >= 2, Len(ctx') = Len(ctx),
           ctx[Len(ctx)].kind # "call", ctx'[Len(ctx)].kind # "call",
           \A i \in 1 .. Len(ctx) - 1 : ctx'[i] = ctx[i]
    PROVE  OnStack' = OnStack /\ CallsCount'
<1> DEFINE k == Len(ctx) - 1
<1>1. Nesting /\ Len(ctx) \in Nat /\ Len(ctx') \in Nat
  BY Lengths, TopFacts
<1>2. k \in Nat /\ k <= Len(ctx) /\ k <= Len(ctx')
  BY <1>1
<1>3. \A i \in k + 1 .. Len(ctx) : i = Len(ctx)
  BY <1>1
<1>4. \A i \in k + 1 .. Len(ctx) : ctx[i].kind # "call" /\ ctx'[i].kind # "call"
  BY <1>3
<1>5. CallsCount
  BY DEF StackInv
<1> HIDE DEF k
<1>6. \A i \in 1 .. k : /\ ctx'[i].kind = ctx[i].kind
                        /\ ctx'[i].left = ctx[i].left /\ ctx'[i].sig = ctx[i].sig
  BY DEF k
<1>7. QED
  BY <1>1, <1>2, <1>4, <1>5, <1>6, SameOnStack

LEMMA NestingSteps ==
    ASSUME WalkInv, StackInv,
           BodyBegin \/ BlockBegin \/ BlockEnd \/ \E f \in Funs : Call(f)
    PROVE  StackInv'
<1>1. CASE BodyBegin \/ BlockBegin
  <2>1. /\ WalkInv' /\ Appends(0) /\ Top'.kind = "block" /\ Len(ctx') = Len(ctx) + 1
        /\ \A i \in 1 .. Len(ctx) : ctx'[i] = ctx[i]
    BY <1>1, BlockEffect
  <2>2. ctx' = Append(ctx, Open("block", Nothing, Nothing)) /\ Len(ctx) \in Nat /\ ctx \in Seq(Opens)
    BY <1>1, Lengths, TopFacts DEF BodyBegin, BlockBegin, OpenBlock, Nesting
  <2>3. ctx'[Len(ctx')].kind = "block"
    <3>1. ctx'[Len(ctx) + 1] = Open("block", Nothing, Nothing)
      BY <2>2, AppendProperties
    <3>2. QED
      BY <2>1, <3>1 DEF Open
  <2>4. OnStack' = OnStack /\ CallsCount'
    BY <2>1, <2>3, PushedConstruct
  <2>5. QED
    BY <2>1, <2>4, OpenKeepsStack
<1>2. CASE BlockEnd
  <2>1. /\ WalkInv' /\ Appends(0) /\ Len(ctx) >= 2 /\ Len(ctx') = Len(ctx) - 1
        /\ \A i \in 1 .. Len(ctx) - 1 :
              /\ ctx'[i].kind = ctx[i].kind /\ ctx'[i].left = ctx[i].left
              /\ ctx'[i].sig = ctx[i].sig
    BY <1>2, BlockEndEffect
  <2>2. Top.kind = "block"
    BY <1>2 DEF BlockEnd, AtStatement
  <2>3. ctx[Len(ctx)].kind # "call"
    BY <2>2, InFunction
  <2>4. OnStack' = OnStack /\ CallsCount'
    BY <2>1, <2>3, ClosedConstruct
  <2>5. QED
    BY <2>1, <2>4, OpenKeepsStack
<1>3. ASSUME NEW f \in Funs, Call(f) PROVE StackInv'
  <2>1. /\ WalkInv' /\ Appends(0) /\ Len(ctx') = Len(ctx) + 1
        /\ \A i \in 1 .. Len(ctx) : ctx'[i] = ctx[i]
        /\ Top' = ctx'[Len(ctx')]
        /\ Top'.sig = Signature(f) /\ Top'.left = Len(Signature(f).ptypes)
    BY <1>3, CallEffect
  <2>2. ctx'[Len(ctx')].left = Len(ctx'[Len(ctx')].sig.ptypes)
    BY <2>1
  <2>3. OnStack' = OnStack /\ CallsCount'
    BY <2>1, <2>2, PushedConstruct
  <2>4. QED
    BY <2>1, <2>3, OpenKeepsStack
<1>4. QED
  BY <1>1, <1>2, <1>3

LEMMA JumpOut ==
    ASSUME WalkInv, WalkInv', StackInv, Top.kind \notin {"call", "file"},
           \/ /\ Len(ctx') = Len(ctx) + 1 /\ Top'.kind # "call"
              /\ \A i \in 1 .. Len(ctx) : ctx'[i] = ctx[i]
           \/ /\ Len(ctx') = Len(ctx) - 1 /\ Len(ctx) >= 2
              /\ \A i \in 1 .. Len(ctx) - 1 : ctx'[i] = ctx[i]
           \/ /\ Len(ctx') = Len(ctx) /\ Len(ctx) >= 2 /\ Top'.kind # "call"
              /\ \A i \in 1 .. Len(ctx) - 1 : ctx'[i] = ctx[i]
    PROVE  OnStack' = OnStack /\ CallsCount' /\ OnStack = {}
<1>1. OnStack = {}
  BY NoCallOpen
<1>2. Len(ctx) \in Nat /\ ctx[Len(ctx)].kind # "call" /\ Len(ctx) >= 1
  BY InFunction
<1>3. Len(ctx') >= 1
  BY <1>2
<1>4. Top' = ctx'[Len(ctx')]
  <2>1. ctx' # <<>>
    BY <1>3, Tuples
  <2>2. QED
    BY <2>1 DEF Top
<1>5. CASE /\ Len(ctx') = Len(ctx) + 1 /\ Top'.kind # "call"
           /\ \A i \in 1 .. Len(ctx) : ctx'[i] = ctx[i]
  BY <1>1, <1>4, <1>5, PushedConstruct
<1>6. CASE /\ Len(ctx') = Len(ctx) - 1 /\ Len(ctx) >= 2
           /\ \A i \in 1 .. Len(ctx) - 1 : ctx'[i] = ctx[i]
  BY <1>1, <1>2, <1>6, ClosedConstruct
<1>7. CASE /\ Len(ctx') = Len(ctx) /\ Len(ctx) >= 2 /\ Top'.kind # "call"
           /\ \A i \in 1 .. Len(ctx) - 1 : ctx'[i] = ctx[i]
  BY <1>1, <1>2, <1>4, <1>7, SwappedConstruct
<1>8. QED
  BY <1>5, <1>6, <1>7

LEMMA ControlKeepsStack ==
    ASSUME WalkInv, StackInv,
           \/ If(FALSE) \/ If(TRUE) \/ Else \/ IfEnd \/ While \/ WhileBody \/ WhileEnd
    PROVE  StackInv'
<1> DEFINE Moves == /\ WalkInv' /\ Top.kind \notin {"call", "file"}
                    /\ \/ /\ Len(ctx') = Len(ctx) + 1 /\ Top'.kind # "call"
                          /\ \A i \in 1 .. Len(ctx) : ctx'[i] = ctx[i]
                       \/ /\ Len(ctx') = Len(ctx) - 1 /\ Len(ctx) >= 2
                          /\ \A i \in 1 .. Len(ctx) - 1 : ctx'[i] = ctx[i]
                       \/ /\ Len(ctx') = Len(ctx) /\ Len(ctx) >= 2 /\ Top'.kind # "call"
                          /\ \A i \in 1 .. Len(ctx) - 1 : ctx'[i] = ctx[i]
           Jump == \E k \in {"Goto", "CondGoto"} : \E t, a, b, l : Jumps(Quad(k, t, a, b), l)
<1>1. ASSUME Moves PROVE OnStack' = OnStack /\ CallsCount' /\ OnStack = {}
  BY <1>1, JumpOut
<1>2. ASSUME Moves, Jump PROVE StackInv'
  <2>1. PICK k \in {"Goto", "CondGoto"} : \E t, a, b, l : Jumps(Quad(k, t, a, b), l)
    BY <1>2
  <2>2. PICK t, a, b, l : Jumps(Quad(k, t, a, b), l)
    BY <2>1
  <2>3. Quad(k, t, a, b).op \notin {"PushArg", "PopArgs"}
    BY DEF Quad
  <2>4. QED
    BY <1>1, <1>2, <2>2, <2>3, JumpKeepsStack
<1>3. ASSUME NEW hasElse \in BOOLEAN, If(hasElse) PROVE Moves /\ Jump
  BY <1>3, IfEffect
<1>4. CASE Else
  BY <1>2, <1>4, ElseEffect
<1>5. CASE IfEnd
  <2>1. /\ Top.kind \in {"then", "else"} /\ WalkInv' /\ Len(ctx') = Len(ctx) - 1 /\ Len(ctx) >= 2
        /\ \A i \in 1 .. Len(ctx) - 1 : ctx'[i] = ctx[i]
    BY <1>5, IfEndEffect
  <2>2. Moves
    BY <2>1
  <2>3. CASE Jump
    BY <1>2, <2>2, <2>3
  <2>4. CASE /\ quads' = quads
             /\ \A k \in 1 .. Len(quads) : LabelIn(labels', k) = LabelIn(labels, k)
    <3>1. OnStack' = OnStack /\ CallsCount' /\ OnStack = {}
      BY <1>1, <2>2
    <3>2. Len(quads) \in Nat /\ Len(quads') = Len(quads)
      BY <2>4, Lengths
    <3>3. ASSUME NEW i \in 1 .. Len(quads) + 1, Marked(quads', labels', i)
          PROVE  (i <= Len(quads) + 1 /\ Marked(quads, labels, i))
                 \/ (i > Len(quads) /\ OnStack = {})
      BY <2>4, <3>1, <3>2, <3>3 DEF Marked
    <3>4. \A i \in Len(quads) + 1 .. Len(quads) : FALSE
      BY <3>2
    <3>5. QED
      BY <2>4, <3>1, <3>2, <3>3, <3>4, NeutralKeepsStack
  <2>5. QED
    BY <1>5, <2>3, <2>4, IfEndEffect
<1>6. CASE While
  BY <1>2, <1>6, WhileEffect
<1>7. CASE WhileBody
  BY <1>2, <1>7, WhileBodyEffect
<1>8. CASE WhileEnd
  BY <1>2, <1>8, WhileEndEffect
<1>9. QED
  BY <1>2, <1>3, <1>4, <1>5, <1>6, <1>7, <1>8

\* Quads that leave no block mark no place.
LEMMA MarksOfAppend ==
    ASSUME WalkInv, NEW m \in 0 .. 3, Appends(m),
           \A k \in 1 .. m : ~LeavesBlock(quads'[Len(quads) + k])
    PROVE  \A i \in 1 .. Len(quads') + 1 :
              Marked(quads', labels', i) =>
                  i \in 1 .. Len(quads) + 1 /\ Marked(quads, labels, i)
<1> DEFINE n == Len(quads)
<1>1. /\ n \in Nat /\ Len(quads') = n + m /\ \A i \in 1 .. n : quads'[i] = quads[i]
      /\ labels' = labels
  BY Lengths DEF Appends
<1>2. SUFFICES ASSUME NEW i \in 1 .. n + m + 1, Marked(quads', labels', i)
               PROVE  i \in 1 .. n + 1 /\ Marked(quads, labels, i)
  BY <1>1
<1>3. CASE LabelIn(labels, i) # Nothing
  BY <1>3, LabelsBehind DEF Marked
<1>4. CASE i <= n + m /\ LeavesBlock(quads'[i])
  <2>1. CASE i \in 1 .. n
    BY <1>1, <1>4, <2>1 DEF Marked
  <2>2. CASE i > n
    <3>1. i - n \in 1 .. m /\ i = n + (i - n)
      BY <1>1, <1>4, <2>2
    <3>2. QED
      BY <1>4, <3>1
  <2>3. QED
    BY <1>1, <1>2, <2>1, <2>2
<1>5. QED
  BY <1>1, <1>2, <1>3, <1>4 DEF Marked

\* An argument is pushed: the one before those that are on the stack.
LEMMA CallArgKeepsStack ==
    ASSUME WalkInv, StackInv, CallArg PROVE StackInv'
<1> DEFINE n == Len(quads)
           d == Len(ctx)
           a == <<d, Top.left>>
<1>1. /\ WalkInv' /\ Appends(1)
      /\ quads'[n + 1] = Quad("PushArg", Nothing, Nothing, Last.temp)
      /\ Len(ctx') = d /\ d >= 2 /\ \A i \in 1 .. d - 1 : ctx'[i] = ctx[i]
      /\ Top.kind = "call" /\ Top = ctx[d] /\ Top.left > 0
      /\ ctx'[d].kind = "call" /\ ctx'[d].sig = ctx[d].sig
      /\ ctx'[d].left = Top.left - 1
  BY CallArgEffect
<1>2. /\ n \in Nat /\ d \in Nat /\ d \in 1 .. d /\ Len(quads') = n + 1
      /\ \A i \in 1 .. n : quads'[i] = quads[i]
      /\ Top.left \in Nat
  <2>1. Nesting /\ Top \in Opens
    BY <1>1, Lengths, InFunction
  <2>2. QED
    BY <1>1, <2>1, Lengths, TopFacts DEF Opens, Appends
<1>3. /\ CallsCount /\ IsFiniteSet(OnStack) /\ IsFiniteSet(PopsIn(quads, n))
      /\ Cardinality(PushesIn(quads, n)) = Cardinality(PopsIn(quads, n)) + Cardinality(OnStack)
  BY DEF StackInv
<1>4. Len(ctx[d].sig.ptypes) \in Nat /\ Top.left <= Len(ctx[d].sig.ptypes)
  BY <1>1, <1>2, <1>3 DEF CallsCount
<1>5. \A i \in 1 .. d : i \in 1 .. d - 1 \/ i = d
  BY <1>2
<1>6. CallsCount'
  <2>1. SUFFICES ASSUME NEW i \in 1 .. d, ctx'[i].kind = "call"
                 PROVE  /\ Len(ctx'[i].sig.ptypes) \in Nat
                        /\ ctx'[i].left <= Len(ctx'[i].sig.ptypes)
    BY <1>1 DEF CallsCount
  <2>2. CASE i \in 1 .. d - 1
    BY <1>1, <1>3, <2>1, <2>2 DEF CallsCount
  <2>3. CASE i = d
    BY <1>1, <1>2, <1>4, <2>3
  <2>4. QED
    BY <1>5, <2>2, <2>3
<1>7. /\ \A i \in 1 .. d - 1 : Arguments(ctx'[i]) = Arguments(ctx[i])
      /\ Arguments(ctx[d]) = Top.left + 1 .. Len(ctx[d].sig.ptypes)
      /\ Arguments(ctx'[d]) = Top.left .. Len(ctx[d].sig.ptypes)
  BY <1>1, <1>2 DEF Arguments
<1>8. Arguments(ctx'[d]) = Arguments(ctx[d]) \cup {Top.left} /\ Top.left \notin Arguments(ctx[d])
  BY <1>2, <1>4, <1>7
<1>9. OnStack' = {b \in (1 .. d) \X Nat : b[2] \in Arguments(ctx'[b[1]])}
  BY <1>1 DEF OnStack, Arguments
<1>10. OnStack' = OnStack \cup {a} /\ a \notin OnStack
  <2>1. a \notin OnStack
    BY <1>8 DEF OnStack
  <2>2. a \in OnStack'
    BY <1>2, <1>8, <1>9
  <2>3. \A b \in OnStack : b \in OnStack'
    <3>1. SUFFICES ASSUME NEW i \in 1 .. d, NEW v \in Nat, v \in Arguments(ctx[i])
                   PROVE  v \in Arguments(ctx'[i])
      BY <1>9 DEF OnStack
    <3>2. QED
      BY <1>5, <1>7, <1>8, <3>1
  <2>4. \A b \in OnStack' : b \in OnStack \/ b = a
    <3>1. SUFFICES ASSUME NEW i \in 1 .. d, NEW v \in Nat, v \in Arguments(ctx'[i])
                   PROVE  v \in Arguments(ctx[i]) \/ (i = d /\ v = Top.left)
      BY <1>9 DEF OnStack
    <3>2. QED
      BY <1>5, <1>7, <1>8, <3>1
  <2>5. QED
    BY <2>1, <2>2, <2>3, <2>4
<1> HIDE DEF a
<1>11. IsFiniteSet(OnStack') /\ Cardinality(OnStack') = Cardinality(OnStack) + 1
  BY <1>3, <1>10, FS_AddElement
<1>12. /\ PushesIn(quads', n) = PushesIn(quads, n) /\ PopsIn(quads', n) = PopsIn(quads, n)
       /\ \A i \in 1 .. n + 1 : Marked(quads, labels, i) => LevelIn(quads', i - 1)
  BY <1>2, LevelsKept
<1>13. quads'[n + 1].op = "PushArg" /\ ~LeavesBlock(quads'[n + 1])
  BY <1>1 DEF Quad, LeavesBlock
<1>14. /\ PopsIn(quads', n + 1) = PopsIn(quads, n)
       /\ Cardinality(PushesIn(quads', n + 1)) = Cardinality(PushesIn(quads, n)) + 1
  <2>1. n \in Nat
    BY <1>2
  <2> HIDE DEF n
  <2>2. QED
    BY <1>12, <1>13, <2>1, CountPush
<1>15. Cardinality(PushesIn(quads', n + 1)) =
           Cardinality(PopsIn(quads', n + 1)) + Cardinality(OnStack')
  <2>1. Cardinality(PopsIn(quads, n)) \in Nat /\ Cardinality(OnStack) \in Nat
    BY <1>3, FS_CardinalityType
  <2>2. QED
    BY <1>3, <1>11, <1>14, <2>1
<1>16. \A i \in 1 .. Len(quads') + 1 : Marked(quads', labels', i) => LevelIn(quads', i - 1)
  <2>1. \A k \in 1 .. 1 : ~LeavesBlock(quads'[n + k])
    <3>1. \A k \in 1 .. 1 : k = 1
      OBVIOUS
    <3>2. QED
      BY <1>13, <3>1
  <2>2. 1 \in 0 .. 3
    OBVIOUS
  <2>3. QED
    BY <1>1, <1>12, <2>1, <2>2, MarksOfAppend
<1>17. QED
  BY <1>2, <1>3, <1>6, <1>11, <1>14, <1>15, <1>16
     DEF StackInv, LevelIn, Marked, PushesIn, PopsIn

\* A call takes its own arguments off, all of them.
LEMMA CallEndKeepsStack ==
    ASSUME WalkInv, StackInv, CallEnd PROVE StackInv'
<1> DEFINE n == Len(quads)
           d == Len(ctx)
           p == Len(ctx[d].sig.ptypes)
           taken == {d} \X (1 .. p)
<1>1. /\ WalkInv' /\ Appends(2)
      /\ quads'[n + 2] = PopArgs(p)
      /\ \E op \in {"CallResult", "CallNil"} : \E t, a, b : quads'[n + 1] = Quad(op, t, a, b)
      /\ Len(ctx') = d - 1 /\ d >= 2 /\ \A i \in 1 .. d - 1 : ctx'[i] = ctx[i]
      /\ ctx[d].kind = "call" /\ ctx[d].left = 0
  BY CallEndEffect
<1>2. /\ n \in Nat /\ d \in Nat /\ d \in 1 .. d /\ Len(quads') = n + 2
      /\ \A i \in 1 .. n : quads'[i] = quads[i]
  BY <1>1, Lengths, TopFacts DEF Appends
<1>3. /\ CallsCount /\ IsFiniteSet(OnStack) /\ IsFiniteSet(PopsIn(quads, n))
      /\ Cardinality(PushesIn(quads, n)) = Cardinality(PopsIn(quads, n)) + Cardinality(OnStack)
  BY DEF StackInv
<1>4. p \in Nat
  BY <1>1, <1>2, <1>3 DEF CallsCount
<1> HIDE DEF p
<1>5. \A i \in 1 .. d : i \in 1 .. d - 1 \/ i = d
  BY <1>2
<1>6. \A i \in 1 .. d - 1 : i \in 1 .. d /\ i # d
  BY <1>2
<1>7. CallsCount'
  BY <1>1, <1>3, <1>6 DEF CallsCount
<1>8. /\ \A i \in 1 .. d - 1 : Arguments(ctx'[i]) = Arguments(ctx[i])
      /\ Arguments(ctx[d]) = 1 .. p
  BY <1>1 DEF Arguments, p
<1>9. OnStack' = {b \in (1 .. d - 1) \X Nat : b[2] \in Arguments(ctx'[b[1]])}
  BY <1>1 DEF OnStack, Arguments
<1>10. OnStack = OnStack' \cup taken /\ OnStack' \cap taken = {}
  <2>1. OnStack' \cap taken = {}
    BY <1>6, <1>9
  <2>2. \A b \in OnStack' : b \in OnStack
    BY <1>6, <1>8, <1>9 DEF OnStack
  <2>3. \A b \in taken : b \in OnStack
    <3>1. SUFFICES ASSUME NEW v \in 1 .. p PROVE <<d, v>> \in OnStack
      OBVIOUS
    <3>2. v \in Nat /\ v \in Arguments(ctx[d])
      BY <1>8, <3>1
    <3>3. QED
      BY <1>2, <3>2 DEF OnStack
  <2>4. \A b \in OnStack : b \in OnStack' \/ b \in taken
    <3>1. SUFFICES ASSUME NEW i \in 1 .. d, NEW v \in Nat, v \in Arguments(ctx[i])
                   PROVE  (i \in 1 .. d - 1 /\ v \in Arguments(ctx'[i])) \/ (i = d /\ v \in 1 .. p)
      BY <1>9 DEF OnStack
    <3>2. QED
      BY <1>5, <1>8, <3>1
  <2>5. QED
    BY <2>1, <2>2, <2>3, <2>4
<1>11. IsFiniteSet(taken) /\ Cardinality(taken) = p
  <2>1. IsFiniteSet({d}) /\ Cardinality({d}) = 1
    BY FS_Singleton
  <2>2. IsFiniteSet(1 .. p) /\ Cardinality(1 .. p) = p
    BY <1>4, FS_Interval
  <2>3. IsFiniteSet(taken) /\ Cardinality(taken) = Cardinality({d}) * Cardinality(1 .. p)
    BY <2>1, <2>2, FS_Product
  <2>4. QED
    BY <1>4, <2>1, <2>2, <2>3
<1> HIDE DEF taken
<1>12. IsFiniteSet(OnStack') /\ Cardinality(OnStack) = Cardinality(OnStack') + p
  <2>1. OnStack' \in SUBSET OnStack
    BY <1>10
  <2>2. IsFiniteSet(OnStack') /\ Cardinality(OnStack') \in Nat
    BY <1>3, <2>1, FS_Subset, FS_CardinalityType
  <2>3. Cardinality(OnStack' \cup taken) =
            Cardinality(OnStack') + Cardinality(taken) - Cardinality(OnStack' \cap taken)
    BY <1>11, <2>2, FS_Union
  <2>4. Cardinality(OnStack' \cap taken) = 0
    BY <1>10, FS_EmptySet
  <2>5. Cardinality(OnStack) =
            Cardinality(OnStack') + Cardinality(taken) - Cardinality(OnStack' \cap taken)
    BY <1>10, <2>3
  <2>6. QED
    BY <1>4, <1>11, <2>2, <2>4, <2>5
<1>13. /\ PushesIn(quads', n) = PushesIn(quads, n) /\ PopsIn(quads', n) = PopsIn(quads, n)
       /\ \A i \in 1 .. n + 1 : Marked(quads, labels, i) => LevelIn(quads', i - 1)
  BY <1>2, LevelsKept
<1>14. /\ quads'[n + 1].op \notin {"PushArg", "PopArgs"} /\ ~LeavesBlock(quads'[n + 1])
       /\ quads'[n + 2].op = "PopArgs" /\ quads'[n + 2].opd2 = p
       /\ ~LeavesBlock(quads'[n + 2])
  BY <1>1 DEF Quad, LeavesBlock, PopArgs
<1>15. PushesIn(quads', n + 1) = PushesIn(quads, n) /\ PopsIn(quads', n + 1) = PopsIn(quads, n)
  <2>1. \A i \in n + 1 .. n + 1 : quads'[i].op \notin {"PushArg", "PopArgs"}
    BY <1>2, <1>14
  <2>2. n \in Nat /\ n + 1 \in Nat /\ n <= n + 1
    BY <1>2
  <2> HIDE DEF n
  <2>3. QED
    BY <1>13, <2>1, <2>2, CountsSkip
<1>16. /\ PushesIn(quads', n + 2) = PushesIn(quads, n) /\ IsFiniteSet(PopsIn(quads', n + 2))
       /\ Cardinality(PopsIn(quads', n + 2)) = Cardinality(PopsIn(quads, n)) + p
  <2> DEFINE v == n + 1
  <2>1. v \in Nat /\ v + 1 = n + 2 /\ quads'[v + 1].op = "PopArgs" /\ quads'[v + 1].opd2 = p
    BY <1>2, <1>14
  <2>2. IsFiniteSet(PopsIn(quads', v)) /\ PopsIn(quads', v) = PopsIn(quads, n)
        /\ PushesIn(quads', v) = PushesIn(quads, n)
    BY <1>3, <1>15
  <2> HIDE DEF v
  <2>3. /\ PushesIn(quads', v + 1) = PushesIn(quads', v) /\ IsFiniteSet(PopsIn(quads', v + 1))
        /\ Cardinality(PopsIn(quads', v + 1)) = Cardinality(PopsIn(quads', v)) + p
    BY <1>4, <2>1, <2>2, CountPop
  <2>4. QED
    BY <2>1, <2>2, <2>3
<1>17. Cardinality(PushesIn(quads', n + 2)) =
           Cardinality(PopsIn(quads', n + 2)) + Cardinality(OnStack')
  <2>1. Cardinality(PopsIn(quads, n)) \in Nat /\ Cardinality(OnStack') \in Nat
    BY <1>3, <1>12, FS_CardinalityType
  <2>2. QED
    BY <1>3, <1>4, <1>12, <1>16, <2>1
<1>18. \A i \in 1 .. Len(quads') + 1 : Marked(quads', labels', i) => LevelIn(quads', i - 1)
  <2>1. \A k \in 1 .. 2 : ~LeavesBlock(quads'[n + k])
    <3>1. \A k \in 1 .. 2 : k = 1 \/ k = 2
      OBVIOUS
    <3>2. QED
      BY <1>14, <3>1
  <2>2. 2 \in 0 .. 3
    OBVIOUS
  <2>3. QED
    BY <1>1, <1>13, <2>1, <2>2, MarksOfAppend
<1>19. QED
  BY <1>2, <1>7, <1>12, <1>16, <1>17, <1>18
     DEF StackInv, LevelIn, Marked, PushesIn, PopsIn

\* A print statement pushes its argument and takes it off.
LEMMA PrintKeepsStack ==
    ASSUME WalkInv, StackInv, PrintStmt PROVE StackInv'
<1> DEFINE n == Len(quads)
<1>1. /\ WalkInv' /\ ctx' = ctx /\ labels' = labels
      /\ quads'[n + 1] = Quad("PushArg", Nothing, Nothing, Last.temp)
  BY PrintEffect
<1>2. PICK m \in {2, 3} :
         /\ Appends(m) /\ quads'[n + m] = PopArgs(1)
         /\ m = 3 => \E f : quads'[n + 2] = Quad("CallNil", Nothing, Nothing, f)
  BY PrintEffect
<1>3. /\ n \in Nat /\ Len(quads') = n + m /\ n + m \in Nat
      /\ \A i \in 1 .. n : quads'[i] = quads[i]
  BY <1>2, Lengths DEF Appends
<1>4. /\ CallsCount /\ IsFiniteSet(OnStack) /\ IsFiniteSet(PopsIn(quads, n))
      /\ Cardinality(PushesIn(quads, n)) = Cardinality(PopsIn(quads, n)) + Cardinality(OnStack)
  BY DEF StackInv
<1>5. OnStack' = OnStack /\ CallsCount'
  BY <1>1, <1>4 DEF OnStack, CallsCount, Arguments
<1>6. /\ PushesIn(quads', n) = PushesIn(quads, n) /\ PopsIn(quads', n) = PopsIn(quads, n)
      /\ \A i \in 1 .. n + 1 : Marked(quads, labels, i) => LevelIn(quads', i - 1)
  BY <1>3, LevelsKept
<1>7. /\ quads'[n + 1].op = "PushArg" /\ ~LeavesBlock(quads'[n + 1])
      /\ quads'[n + m].op = "PopArgs" /\ quads'[n + m].opd2 = 1 /\ ~LeavesBlock(quads'[n + m])
      /\ m = 3 => /\ quads'[n + 2].op \notin {"PushArg", "PopArgs"}
                  /\ ~LeavesBlock(quads'[n + 2])
  <2>1. quads'[n + 1].op = "PushArg" /\ quads'[n + m].op = "PopArgs" /\ quads'[n + m].opd2 = 1
    BY <1>1, <1>2 DEF Quad, PopArgs
  <2>2. m = 3 => quads'[n + 2].op = "CallNil"
    <3>1. \A g : Quad("CallNil", Nothing, Nothing, g).op = "CallNil"
      BY DEF Quad
    <3>2. QED
      BY <1>2, <3>1
  <2>3. QED
    BY <2>1, <2>2 DEF LeavesBlock
<1>8. /\ PopsIn(quads', n + 1) = PopsIn(quads, n)
      /\ Cardinality(PushesIn(quads', n + 1)) = Cardinality(PushesIn(quads, n)) + 1
  <2>1. n \in Nat
    BY <1>3
  <2> HIDE DEF n
  <2>2. QED
    BY <1>6, <1>7, <2>1, CountPush
<1> DEFINE v == n + m - 1
<1>9. PushesIn(quads', v) = PushesIn(quads', n + 1) /\ PopsIn(quads', v) = PopsIn(quads', n + 1)
  <2> DEFINE u == n + 1
  <2>1. \A i \in u + 1 .. v : m = 3 /\ i = n + 2
    BY <1>2, <1>3
  <2>2. \A i \in u + 1 .. v : quads'[i].op \notin {"PushArg", "PopArgs"}
    BY <1>7, <2>1
  <2>3. u \in Nat /\ v \in Nat /\ u <= v
    BY <1>2, <1>3
  <2> HIDE DEF u, v
  <2>4. PushesIn(quads', v) = PushesIn(quads', u) /\ PopsIn(quads', v) = PopsIn(quads', u)
    BY <2>2, <2>3, CountsSkip
  <2>5. QED
    BY <2>4 DEF u
<1>10. v \in Nat /\ v + 1 = n + m
  BY <1>2, <1>3
<1> HIDE DEF v
<1>11. /\ PushesIn(quads', n + m) = PushesIn(quads', v) /\ IsFiniteSet(PopsIn(quads', n + m))
       /\ Cardinality(PopsIn(quads', n + m)) = Cardinality(PopsIn(quads, n)) + 1
  <2>1. quads'[v + 1].op = "PopArgs" /\ quads'[v + 1].opd2 = 1 /\ IsFiniteSet(PopsIn(quads', v))
    BY <1>4, <1>7, <1>8, <1>9, <1>10
  <2>2. 1 \in Nat
    OBVIOUS
  <2>3. /\ PushesIn(quads', v + 1) = PushesIn(quads', v) /\ IsFiniteSet(PopsIn(quads', v + 1))
        /\ Cardinality(PopsIn(quads', v + 1)) = Cardinality(PopsIn(quads', v)) + 1
    BY <1>10, <2>1, <2>2, CountPop
  <2>4. QED
    BY <1>8, <1>9, <1>10, <2>3
<1>12. Cardinality(PushesIn(quads', n + m)) =
           Cardinality(PopsIn(quads', n + m)) + Cardinality(OnStack')
  <2>1. Cardinality(PopsIn(quads, n)) \in Nat /\ Cardinality(OnStack) \in Nat
    BY <1>4, FS_CardinalityType
  <2>2. Cardinality(PushesIn(quads', n + m)) = Cardinality(PushesIn(quads, n)) + 1
    BY <1>8, <1>9, <1>11
  <2>3. QED
    BY <1>4, <1>5, <1>11, <2>1, <2>2
<1>13. \A i \in 1 .. Len(quads') + 1 : Marked(quads', labels', i) => LevelIn(quads', i - 1)
  <2>1. \A k \in 1 .. m : ~LeavesBlock(quads'[n + k])
    <3>1. \A k \in 1 .. m : k = 1 \/ k = m \/ (k = 2 /\ m = 3)
      BY <1>2
    <3>2. QED
      BY <1>7, <3>1
  <2>2. m \in 0 .. 3
    BY <1>2
  <2>3. QED
    BY <1>2, <1>6, <2>1, <2>2, MarksOfAppend
<1>14. QED
  BY <1>3, <1>4, <1>5, <1>11, <1>12, <1>13
     DEF StackInv, LevelIn, Marked, PushesIn, PopsIn

\* At most a function is open where functions begin and end.
LEMMA NoConstructAfter ==
    ASSUME WalkInv', Len(ctx') \in {0, 1} PROVE OnStack' = {} /\ CallsCount'
<1>1. \A k \in {0, 1} : \A i \in 1 .. k : i = 1
  OBVIOUS
<1>2. \A i \in 1 .. Len(ctx') : i = 1 /\ (ctx'[i].kind = "fun" <=> i = 1)
  BY <1>1 DEF WalkInv, Nesting
<1>3. \A i \in 1 .. Len(ctx') : ctx'[i].kind # "call"
  BY <1>1, <1>2
<1>4. CallsCount'
  BY <1>3 DEF CallsCount
<1>5. OnStack' = {a \in (1 .. Len(ctx')) \X Nat : a[2] \in Arguments(ctx'[a[1]])}
  BY DEF OnStack, Arguments
<1>6. \A i \in 1 .. Len(ctx') : Arguments(ctx'[i]) = {}
  BY <1>3 DEF Arguments
<1>7. QED
  BY <1>4, <1>5, <1>6

\* Functions begin and end, and the file ends, where no call is open.
LEMMA FunDefKeepsStack ==
    ASSUME WalkInv, StackInv, NEW f \in Funs, NEW sig \in Sigs, FunDef(f, sig)
    PROVE  StackInv'
<1> DEFINE n == Len(quads)
<1>1. /\ WalkInv' /\ ctx = <<>> /\ Len(ctx') = 1
      /\ Len(quads') = n + 1 /\ \A i \in 1 .. n : quads'[i] = quads[i]
      /\ quads'[n + 1] = Quad("FunBegin", Nothing, Nothing, Nothing)
      /\ \A k \in 1 .. n : LabelIn(labels', k) = LabelIn(labels, k)
  BY FunDefEffect
<1>2. OnStack = {} /\ n \in Nat
  <2>1. Top.kind # "call"
    BY <1>1 DEF Top, Open
  <2>2. QED
    BY <2>1, NoCallOpen, Lengths
<1>3. OnStack' = OnStack /\ CallsCount'
  BY <1>1, <1>2, NoConstructAfter
<1>4. \A i \in n + 1 .. n + 1 : quads'[i].op \notin {"PushArg", "PopArgs"}
  BY <1>1, <1>2 DEF Quad
<1>5. ASSUME NEW i \in 1 .. n + 2, Marked(quads', labels', i)
      PROVE  (i <= n + 1 /\ Marked(quads, labels, i)) \/ (i > n /\ OnStack = {})
  <2>1. CASE i \in 1 .. n
    BY <1>1, <1>5, <2>1 DEF Marked
  <2>2. CASE i > n
    BY <1>2, <2>2
  <2>3. QED
    BY <1>2, <2>1, <2>2
<1>6. n + 1 \in Nat /\ n <= n + 1 /\ n + 1 + 1 = n + 2
  BY <1>2
<1>7. QED
  BY <1>1, <1>3, <1>4, <1>5, <1>6, NeutralKeepsStack

LEMMA FunDefEndKeepsStack ==
    ASSUME WalkInv, StackInv, FunDefEnd PROVE StackInv'
<1> DEFINE n == Len(quads)
           open == Quad("FunBegin", Nothing, Nothing, Nothing)
           patched == Quad("FunBegin", Nothing, Nothing, Fr!Reservation)
<1>1. /\ WalkInv' /\ Len(ctx') = 0 /\ labels' = labels
      /\ Top.left \in 1 .. n /\ quads[Top.left] = open /\ quads'[Top.left] = patched
      /\ Len(quads') = n + 1
      /\ quads'[n + 1] = Quad("FunEnd", Nothing, Nothing, Nothing)
      /\ \A i \in 1 .. n : i # Top.left => quads'[i] = quads[i]
  BY FunDefEndEffect
<1>2. open.op = "FunBegin" /\ patched.op = "FunBegin" /\ LeavesBlock(open)
  BY DEF Quad, LeavesBlock
<1> HIDE DEF open, patched
<1>3. OnStack = {} /\ n \in Nat
  <2>1. Top.kind # "call"
    BY DEF FunDefEnd
  <2>2. QED
    BY <2>1, NoCallOpen, Lengths
<1>4. OnStack' = OnStack /\ CallsCount'
  BY <1>1, <1>3, NoConstructAfter
<1>5. \A i \in n + 1 .. n + 1 : quads'[i].op \notin {"PushArg", "PopArgs"}
  BY <1>1, <1>3 DEF Quad
<1>6. \A i \in 1 .. n : /\ quads'[i].op = "PushArg" <=> quads[i].op = "PushArg"
                        /\ quads'[i].op = "PopArgs" <=> quads[i].op = "PopArgs"
                        /\ quads[i].op = "PopArgs" => quads'[i].opd2 = quads[i].opd2
                        /\ LeavesBlock(quads'[i]) => LeavesBlock(quads[i])
  <2>1. SUFFICES ASSUME NEW i \in 1 .. n
                 PROVE  /\ quads'[i].op = "PushArg" <=> quads[i].op = "PushArg"
                        /\ quads'[i].op = "PopArgs" <=> quads[i].op = "PopArgs"
                        /\ quads[i].op = "PopArgs" => quads'[i].opd2 = quads[i].opd2
                        /\ LeavesBlock(quads'[i]) => LeavesBlock(quads[i])
    OBVIOUS
  <2>2. CASE i = Top.left
    BY <1>1, <1>2, <2>2
  <2>3. CASE i # Top.left
    BY <1>1, <2>3
  <2>4. QED
    BY <2>2, <2>3
<1>7. ASSUME NEW i \in 1 .. n + 2, Marked(quads', labels', i)
      PROVE  (i <= n + 1 /\ Marked(quads, labels, i)) \/ (i > n /\ OnStack = {})
  <2>1. CASE i \in 1 .. n
    BY <1>1, <1>6, <1>7, <2>1 DEF Marked
  <2>2. CASE i > n
    BY <1>3, <2>2
  <2>3. QED
    BY <1>3, <2>1, <2>2
<1>8. n + 1 \in Nat /\ n <= n + 1 /\ n + 1 + 1 = n + 2
  BY <1>3
<1>9. QED
  BY <1>1, <1>4, <1>5, <1>6, <1>7, <1>8, NeutralKeepsStack

LEMMA FinishKeepsStack ==
    ASSUME WalkInv, StackInv, Finish PROVE StackInv'
<1> DEFINE n == Len(quads)
<1>1. /\ WalkInv' /\ ctx = <<>> /\ ctx' = <<>> /\ quads' = quads
      /\ \A k \in 1 .. n :
            \/ LabelIn(labels', k) = LabelIn(labels, k)
            \/ k >= 2 /\ quads[k - 1].op = "Return"
  BY FinishEffect
<1>2. OnStack = {} /\ n \in Nat
  <2>1. Top.kind # "call"
    BY <1>1 DEF Top, Open
  <2>2. QED
    BY <2>1, NoCallOpen, Lengths
<1>3. OnStack' = OnStack /\ CallsCount'
  BY <1>1 DEF OnStack, CallsCount, StackInv, Arguments
<1>4. \A i \in n + 1 .. n : FALSE
  BY <1>2
<1>5. ASSUME NEW i \in 1 .. n + 1, Marked(quads', labels', i)
      PROVE  \/ i <= n + 1 /\ Marked(quads, labels, i)
             \/ i > n /\ OnStack = {}
             \/ i >= 2 /\ i <= n /\ quads[i - 1].op = "Return"
  <2>1. CASE i \in 1 .. n
    BY <1>1, <1>5, <2>1 DEF Marked
  <2>2. CASE i > n
    BY <1>2, <2>2
  <2>3. QED
    BY <1>2, <2>1, <2>2
<1>6. QED
  BY <1>1, <1>2, <1>3, <1>4, <1>5, NeutralKeepsStack

LEMMA StackInit == Init => StackInv
<1> SUFFICES ASSUME Init PROVE StackInv
  OBVIOUS
<1> DEFINE q == Quad("Entry", Nothing, Nothing, Nothing)
           r == Quad("CallNil", Nothing, Nothing, Main)
           s == Quad("Exit", Nothing, Nothing, Nothing)
<1>1. quads = <<q, r, s>> /\ ctx = <<>>
  BY DEF Init
<1>2. /\ q.op \notin {"PushArg", "PopArgs"} /\ r.op \notin {"PushArg", "PopArgs"}
      /\ s.op \notin {"PushArg", "PopArgs"}
  BY DEF Quad
<1> HIDE DEF q, r, s
<1>3. Len(quads) = 3 /\ quads[1] = q /\ quads[2] = r /\ quads[3] = s /\ Len(ctx) = 0
  BY <1>1, Tuples
<1>4. \A i \in 1 .. 3 : quads[i].op \notin {"PushArg", "PopArgs"}
  <2>1. \A i \in 1 .. 3 : i = 1 \/ i = 2 \/ i = 3
    OBVIOUS
  <2>2. QED
    BY <1>2, <1>3, <2>1
<1>5. \A v \in 0 .. 3 : PushesIn(quads, v) = {} /\ PopsIn(quads, v) = {}
  <2>1. SUFFICES ASSUME NEW v \in 0 .. 3 PROVE PushesIn(quads, v) = {} /\ PopsIn(quads, v) = {}
    OBVIOUS
  <2>2. \A i \in 1 .. v : i \in 1 .. 3
    OBVIOUS
  <2>3. {j \in 1 .. v : quads[j].op = "PopArgs"} = {}
    BY <1>4, <2>2
  <2>4. QED
    BY <1>4, <2>2, <2>3 DEF PushesIn, PopsIn
<1>6. OnStack = {} /\ CallsCount
  BY <1>3 DEF OnStack, CallsCount
<1>7. IsFiniteSet({}) /\ Cardinality({}) = 0
  BY FS_EmptySet
<1>8. \A v \in 0 .. 3 : LevelIn(quads, v)
  BY <1>5 DEF LevelIn
<1>9. \A i \in 1 .. Len(quads) + 1 : i - 1 \in 0 .. 3
  BY <1>3
<1>10. Len(quads) \in 0 .. 3
  BY <1>3
<1>11. \A i \in 1 .. Len(quads) + 1 : LevelIn(quads, i - 1)
  BY <1>8, <1>9
<1>12. PushesIn(quads, Len(quads)) = {} /\ PopsIn(quads, Len(quads)) = {}
  BY <1>5, <1>10
<1>13. QED
  BY <1>6, <1>7, <1>11, <1>12 DEF StackInv

LEMMA StackNext == WalkInv /\ StackInv /\ [Next]_vars => StackInv'
<1> SUFFICES ASSUME WalkInv, StackInv, [Next]_vars PROVE StackInv'
  OBVIOUS
<1>1. CASE \/ Import \/ UNCHANGED vars \/ ExprStmt \/ Unary \/ Return
           \/ \E type : Literal(type)
           \/ \E m \in Idents : \/ GetSym(m) \/ SetSym(m)
                                \/ SetSymUndeclared(m) \/ SetSymParam(m)
           \/ \E op \in BinOps : Binary(op)
           \/ \E f \in Funs, n \in 0 .. MaxParams : CallRejected(f, n)
           \/ \E x \in Idents : \E type : DeclSym(x, type)
  BY <1>1, LevelSteps
<1>2. CASE BodyBegin \/ BlockBegin \/ BlockEnd \/ \E f \in Funs : Call(f)
  BY <1>2, NestingSteps
<1>3. CASE If(FALSE) \/ If(TRUE) \/ Else \/ IfEnd \/ While \/ WhileBody \/ WhileEnd
  BY <1>3, ControlKeepsStack
<1>4. CASE CallArg
  BY <1>4, CallArgKeepsStack
<1>5. CASE CallEnd
  BY <1>5, CallEndKeepsStack
<1>6. CASE PrintStmt
  BY <1>6, PrintKeepsStack
<1>7. CASE \E f \in Funs, sig \in Sigs : FunDef(f, sig)
  BY <1>7, FunDefKeepsStack
<1>8. CASE FunDefEnd
  BY <1>8, FunDefEndKeepsStack
<1>9. CASE Finish
  BY <1>9, FinishKeepsStack
<1>10. QED
  BY <1>1, <1>2, <1>3, <1>4, <1>5, <1>6, <1>7, <1>8, <1>9 DEF Next

LEMMA StackIsStackLevel == ASSUME WalkInv, StackInv PROVE StackLevel
<1>1. SUFFICES ASSUME NEW i \in DOMAIN quads, LeavesBlock(quads[i]) \/ LabelAt(i) # Nothing
               PROVE  Level(i - 1)
  BY DEF StackLevel
<1>2. i \in 1 .. Len(quads) /\ Len(quads) \in Nat
  BY <1>1, Lengths
<1>3. Marked(quads, labels, i) /\ i \in 1 .. Len(quads) + 1
  BY <1>1, <1>2 DEF Marked, LabelIn, LabelAt
<1>4. LevelIn(quads, i - 1)
  BY <1>3 DEF StackInv
<1>5. Pushed(i - 1) = Cardinality(PushesIn(quads, i - 1))
  BY DEF Pushed, PushesIn
<1>6. PoppedBy(i - 1) = Cardinality(PopsIn(quads, i - 1))
  BY DEF PoppedBy, PopsAt, PopsIn
<1>7. QED
  BY <1>4, <1>5, <1>6 DEF Level, LevelIn

(***************************************************************************)
(* In the translation of any program, with or without errors, no argument  *)
(* is on the machine stack at a label, a jump, a return or the first and   *)
(* last quad of a function, however deep calls are nested in arguments:    *)
(* every path through a function leaves esp where it was.                  *)
(***************************************************************************)
THEOREM StackIsLevel == Spec => []StackLevel
<1>1. WalkInv /\ StackInv => StackLevel
  BY StackIsStackLevel
<1>2. QED
  BY StackInit, StackNext, WalkInductive, <1>1, PTL DEF Spec

-----------------------------------------------------------------------------
(***************************************************************************)
(* Labels and jumps: a label is carried by one quad, and code that is run  *)
(* into at a label is the target of a jump without which it is not         *)
(* reached.                                                                *)
(***************************************************************************)

-----------------------------------------------------------------------------
(***************************************************************************)
(* A label is Start, the name of a function or a number that was given     *)
(* out; it is carried by one quad, unless a function was declared twice;   *)
(* and of the numbers only those given out are jumped to.                  *)
(***************************************************************************)
JumpTargets(q) ==
    CASE q.op = "Goto" -> {q.opd2}
      [] q.op = "CondGoto" -> {q.opd1, q.opd2}
      [] q.op \in {"CallNil", "CallResult"} -> {q.opd2}
      [] OTHER -> {}

Fields == {"op", "target", "opd1", "opd2"}

Carried ==
    \A j \in 1 .. Len(quads) + 1 :
        LET l == LabelIn(labels, j)
        IN  /\ l \in {Nothing, Start} \cup Funs \cup 0 .. lcount - 1
            /\ l \in Funs => l \in DOMAIN globals
CarriedOnce ==
    \A i, j \in 1 .. Len(quads) + 1 :
        LabelIn(labels, i) = LabelIn(labels, j) /\ LabelIn(labels, i) # Nothing
            => i = j \/ errors
Defining ==
    \A g \in DOMAIN globals :
        g \in Funs /\ \E j \in 1 .. Len(quads) : LabelIn(labels, j) = g
Entry ==
    /\ 3 <= Len(quads) /\ LabelIn(labels, 1) = Start /\ LabelIn(labels, 2) = Nothing
    /\ quads[1].op = "Entry" /\ quads[2].op = "CallNil" /\ quads[2].opd2 = Main
GivenOut ==
    \A k \in 1 .. Len(quads) :
        /\ \A t \in JumpTargets(quads[k]) : t \in Nat => t < lcount
        /\ quads[k].op = "CondGoto" =>
              /\ quads[k].opd1 \in Nat /\ quads[k].opd2 \in Nat
              /\ DOMAIN quads[k] = Fields
TextInv == Carried /\ CarriedOnce /\ Defining /\ Entry /\ GivenOut

(***************************************************************************)
(* The labels of the open constructs: each belongs to one construct, and   *)
(* those that a construct has still to place are on no quad.               *)
(***************************************************************************)
LabelsOf(c) == {c.l1, c.l2} \ {Nothing}
ToPlace(c) == CASE c.kind \in {"then", "else"} -> LabelsOf(c)
                [] c.kind = "body" -> {c.l2}
                [] OTHER -> {}
Labelled(c) ==
    /\ LabelsOf(c) \subseteq 0 .. lcount - 1
    /\ c.kind \in {"then", "else", "cond", "body"} => c.l1 \in Nat
    /\ c.kind = "body" => c.l2 \in Nat
    /\ c.kind \in {"then", "body"} => c.l1 # c.l2
    /\ \A j \in 1 .. Len(quads) + 1 : LabelIn(labels, j) \notin ToPlace(c)
ConstructsInv ==
    /\ \A i \in 1 .. Len(ctx) : Labelled(ctx[i])
    /\ \A i, j \in 1 .. Len(ctx) : i # j => LabelsOf(ctx[i]) \cap LabelsOf(ctx[j]) = {}
    /\ ctx = <<>> => quads[Len(quads)].op \in {"FunEnd", "Exit"}

(***************************************************************************)
(* Control runs into a label only at the end of an if without else.  The   *)
(* quads between its conditional jump and that label are a region that is  *)
(* entered through the conditional jump only: a label inside is jumped to  *)
(* from the region alone, and no open construct can still jump there.      *)
(***************************************************************************)
Leaves(q) == q.op \in {"Goto", "CondGoto", "Return", "Exit", "FunEnd"}
RunsInto(e) == LabelIn(labels, e) # Nothing /\ ~Leaves(quads[e - 1])
JumpsFrom(l, c, d) == \A k \in 1 .. Len(quads) : l \in JumpTargets(quads[k]) => k \in c .. d
OpenFor(c, l) == quads[c].op = "CondGoto" /\ quads[c].opd1 = l
Region(c, e, n) ==
    \A j \in c + 1 .. e - 1 :
        LabelIn(labels, j) # Nothing =>
            /\ LabelIn(labels, j) \in Nat
            /\ JumpsFrom(LabelIn(labels, j), c, e - 1)
            /\ \A i \in 1 .. n : LabelIn(labels, j) \notin LabelsOf(ctx[i])
RegionsInv ==
    \A e \in 2 .. Len(quads) + 1 : RunsInto(e) =>
        \E c \in 1 .. e - 1 : OpenFor(c, LabelIn(labels, e)) /\ Region(c, e, Len(ctx))

\* An if without else that is still open: its region goes on to the end.
OpenInv ==
    \A n \in 1 .. Len(ctx) : ctx[n].kind = "then" /\ ctx[n].l2 = Nothing =>
        \E c \in 1 .. Len(quads) :
            /\ OpenFor(c, ctx[n].l1) /\ Region(c, Len(quads) + 2, n - 1)
            /\ \A i \in n .. Len(ctx) : \A l \in LabelsOf(ctx[i]) :
                  JumpsFrom(l, c, Len(quads) + 1)

EndInv == finished => ctx = <<>> /\ Len(labels) = Len(quads)

JumpInv == PlainFuns /\ TextInv /\ ConstructsInv /\ RegionsInv /\ OpenInv

-----------------------------------------------------------------------------
(* Expressions and plain statements *)

\* A step that adds neither a label nor a jump, and opens or closes
\* constructs that have none.
SameConstruct(c, d) == c.kind = d.kind /\ c.l1 = d.l1 /\ c.l2 = d.l2
Bare(c) == c.kind \in {"fun", "block", "call"} /\ LabelsOf(c) = {}
Straight ==
    /\ Len(quads) <= Len(quads') /\ Len(quads') \in Nat
    /\ \A k \in 1 .. Len(quads) :
          quads'[k] = quads[k] \/ (quads[k].op = "FunBegin" /\ quads'[k].op = "FunBegin")
    /\ \A k \in Len(quads) + 1 .. Len(quads') :
          quads'[k].op # "CondGoto" /\ JumpTargets(quads'[k]) \cap Nat = {}
    /\ UNCHANGED <<labels, lcount, globals>> /\ (errors => errors')
    /\ Len(ctx') \in Nat
    /\ \A i \in 1 .. Len(ctx') :
          (i <= Len(ctx) /\ SameConstruct(ctx'[i], ctx[i])) \/ Bare(ctx'[i])
    /\ ctx' = <<>> => quads'[Len(quads')].op \in {"FunEnd", "Exit"}

LEMMA NoLabelBehind ==
    ASSUME WalkInv, NEW j, LabelIn(labels, j) # Nothing
    PROVE  j \in 1 .. Len(quads) + 1
<1>1. j \in 1 .. Len(labels)
  BY Lengths DEF LabelIn
<1>2. QED
  BY <1>1, Lengths

LEMMA SameTargets ==
    ASSUME NEW q, NEW r, r = q \/ (q.op = "FunBegin" /\ r.op = "FunBegin")
    PROVE  JumpTargets(r) = JumpTargets(q) /\ r.op = q.op
BY DEF JumpTargets

LEMMA SameLabels ==
    ASSUME NEW c, NEW d, SameConstruct(c, d)
    PROVE  LabelsOf(c) = LabelsOf(d) /\ ToPlace(c) = ToPlace(d)
BY DEF SameConstruct, LabelsOf, ToPlace

LEMMA BareLabels ==
    ASSUME NEW c, Bare(c)
    PROVE  LabelsOf(c) = {} /\ ToPlace(c) = {} /\ c.kind \notin {"then", "else", "cond", "body"}
BY DEF Bare, ToPlace

LEMMA StraightKeepsText ==
    ASSUME WalkInv, JumpInv, Straight PROVE TextInv'
<1>1. /\ Len(quads) \in Nat /\ Len(quads') \in Nat /\ Len(quads) <= Len(quads')
      /\ labels' = labels /\ lcount' = lcount /\ globals' = globals /\ (errors => errors')
      /\ 3 <= Len(quads)
  BY Lengths DEF Straight, JumpInv, TextInv, Entry
<1>2. \A j \in 1 .. Len(quads') + 1 :
          j \in 1 .. Len(quads) + 1 \/ LabelIn(labels, j) = Nothing
  BY NoLabelBehind
<1>3. Carried'
  BY <1>1, <1>2, NothingAssumption DEF Carried, JumpInv, TextInv
<1>4. CarriedOnce'
  BY <1>1, <1>2, NoLabelBehind DEF CarriedOnce, JumpInv, TextInv
<1>5. Defining'
  BY <1>1 DEF Defining, JumpInv, TextInv
<1>6. \A k \in 1 .. Len(quads) : /\ JumpTargets(quads'[k]) = JumpTargets(quads[k])
                                 /\ quads'[k].op = quads[k].op
  BY SameTargets DEF Straight
<1>7. Entry'
  <2>1. 1 \in 1 .. Len(quads) /\ 2 \in 1 .. Len(quads)
    BY <1>1
  <2>2. quads'[1].op = "Entry" /\ quads'[2] = quads[2]
    BY <1>6, <2>1 DEF Straight, JumpInv, TextInv, Entry
  <2>3. QED
    BY <1>1, <2>2 DEF JumpInv, TextInv, Entry
<1>8. GivenOut'
  <2>1. SUFFICES ASSUME NEW k \in 1 .. Len(quads')
                 PROVE  /\ \A t \in JumpTargets(quads'[k]) : t \in Nat => t < lcount
                        /\ quads'[k].op = "CondGoto" =>
                              /\ quads'[k].opd1 \in Nat /\ quads'[k].opd2 \in Nat
                              /\ DOMAIN quads'[k] = Fields
    BY <1>1 DEF GivenOut
  <2>2. CASE k \in 1 .. Len(quads)
    BY <1>6, <2>2 DEF Straight, GivenOut, JumpInv, TextInv
  <2>3. CASE k \notin 1 .. Len(quads)
    BY <1>1, <2>3 DEF Straight
  <2>4. QED
    BY <2>2, <2>3
<1>9. QED
  BY <1>3, <1>4, <1>5, <1>7, <1>8 DEF TextInv

LEMMA StraightFacts ==
    ASSUME WalkInv, JumpInv, Straight
    PROVE  /\ Len(quads) \in Nat /\ Len(quads') \in Nat /\ Len(quads) <= Len(quads')
           /\ labels' = labels /\ lcount' = lcount /\ lcount \in Nat
           /\ Len(ctx) \in Nat /\ Len(ctx') \in Nat
           /\ \A j : LabelIn(labels, j) # Nothing => j \in 1 .. Len(quads) + 1
           /\ \A k \in 1 .. Len(quads) : /\ JumpTargets(quads'[k]) = JumpTargets(quads[k])
                                         /\ quads'[k].op = quads[k].op
                                         /\ quads[k].op = "CondGoto" => quads'[k] = quads[k]
           /\ \A l \in Nat : \A c, d : JumpsFrom(l, c, d) => JumpsFrom(l, c, d)'
<1>1. /\ Len(quads) \in Nat /\ Len(quads') \in Nat /\ Len(quads) <= Len(quads')
      /\ labels' = labels /\ lcount' = lcount /\ lcount \in Nat
      /\ Len(ctx) \in Nat /\ Len(ctx') \in Nat
  BY Lengths, TopFacts DEF Straight
<1>2. \A j : LabelIn(labels, j) # Nothing => j \in 1 .. Len(quads) + 1
  BY NoLabelBehind
<1>3. \A k \in 1 .. Len(quads) : /\ JumpTargets(quads'[k]) = JumpTargets(quads[k])
                                 /\ quads'[k].op = quads[k].op
                                 /\ quads[k].op = "CondGoto" => quads'[k] = quads[k]
  BY SameTargets DEF Straight
<1>4. ASSUME NEW l \in Nat, NEW c, NEW d, JumpsFrom(l, c, d)
      PROVE  JumpsFrom(l, c, d)'
  <2>1. \A k \in 1 .. Len(quads') :
            k \in 1 .. Len(quads) \/ JumpTargets(quads'[k]) \cap Nat = {}
    BY <1>1 DEF Straight
  <2>2. QED
    BY <1>3, <1>4, <2>1 DEF JumpsFrom
<1>5. QED
  BY <1>1, <1>2, <1>3, <1>4

LEMMA StraightLabels ==
    ASSUME WalkInv, JumpInv, Straight, NEW i \in 1 .. Len(ctx')
    PROVE  \/ /\ i \in 1 .. Len(ctx)
              /\ ctx'[i].kind = ctx[i].kind /\ ctx'[i].l1 = ctx[i].l1
              /\ ctx'[i].l2 = ctx[i].l2
              /\ LabelsOf(ctx'[i]) = LabelsOf(ctx[i]) /\ ToPlace(ctx'[i]) = ToPlace(ctx[i])
           \/ /\ LabelsOf(ctx'[i]) = {} /\ ToPlace(ctx'[i]) = {}
              /\ ctx'[i].kind \notin {"then", "else", "cond", "body"}
<1>1. CASE i <= Len(ctx) /\ SameConstruct(ctx'[i], ctx[i])
  <2>1. i \in 1 .. Len(ctx)
    BY <1>1, StraightFacts
  <2>2. QED
    BY <1>1, <2>1, SameLabels DEF SameConstruct
<1>2. CASE Bare(ctx'[i])
  BY <1>2, BareLabels
<1>3. QED
  BY <1>1, <1>2 DEF Straight

LEMMA StraightKeepsRegion ==
    ASSUME WalkInv, JumpInv, Straight, NEW c \in Nat, NEW e \in Nat, NEW d \in Nat,
           NEW n \in Nat, NEW m \in Nat, m <= Len(ctx'),
           Region(c, e, n), m <= n \/ n = Len(ctx),
           d = e \/ (e = Len(quads) + 2 /\ d = Len(quads') + 2)
    PROVE  Region(c, d, m)'
<1>1. SUFFICES ASSUME NEW j \in c + 1 .. d - 1, LabelIn(labels, j) # Nothing
               PROVE  /\ LabelIn(labels, j) \in Nat
                      /\ JumpsFrom(LabelIn(labels, j), c, d - 1)'
                      /\ \A i \in 1 .. m : LabelIn(labels, j) \notin LabelsOf(ctx'[i])
  BY StraightFacts DEF Region
<1>2. j \in 1 .. Len(quads) + 1 /\ j \in c + 1 .. e - 1 /\ e <= d
  BY <1>1, StraightFacts, SMTT(40)
<1>3. /\ LabelIn(labels, j) \in Nat /\ JumpsFrom(LabelIn(labels, j), c, e - 1)
      /\ \A i \in 1 .. n : LabelIn(labels, j) \notin LabelsOf(ctx[i])
  BY <1>1, <1>2 DEF Region
<1>4. JumpsFrom(LabelIn(labels, j), c, e - 1)'
  <2>1. JumpsFrom(LabelIn(labels, j), c, e - 1)'
            <=> \A k \in 1 .. Len(quads') :
                    LabelIn(labels, j) \in JumpTargets(quads'[k]) => k \in c .. e - 1
    BY StraightFacts DEF JumpsFrom
  <2>2. QED
    BY <1>3, StraightFacts
<1>5. JumpsFrom(LabelIn(labels, j), c, d - 1)'
  BY <1>2, <1>4 DEF JumpsFrom
<1>6. ASSUME NEW i \in 1 .. m PROVE LabelIn(labels, j) \notin LabelsOf(ctx'[i])
  <2>1. i \in 1 .. Len(ctx')
    BY StraightFacts
  <2>2. CASE LabelsOf(ctx'[i]) = {}
    BY <2>2
  <2>3. CASE i \in 1 .. Len(ctx) /\ LabelsOf(ctx'[i]) = LabelsOf(ctx[i])
    <3>1. i \in 1 .. n
      BY <2>3
    <3>2. QED
      BY <1>3, <2>3, <3>1
  <2>4. QED
    BY <2>1, <2>2, <2>3, StraightLabels
<1>7. QED
  BY <1>3, <1>5, <1>6

LEMMA StraightKeepsShape ==
    ASSUME WalkInv, JumpInv, Straight PROVE JumpInv'
<1>1. /\ Len(quads) \in Nat /\ Len(quads') \in Nat /\ Len(quads) <= Len(quads')
      /\ labels' = labels /\ lcount' = lcount /\ Len(ctx) \in Nat /\ Len(ctx') \in Nat
      /\ \A j : LabelIn(labels, j) # Nothing => j \in 1 .. Len(quads) + 1
  BY StraightFacts
<1>2. \A l, j : l \in Nat /\ LabelIn(labels, j) = l => j \in 1 .. Len(quads) + 1
  BY <1>1, NothingAssumption
<1>3. ConstructsInv'
  <2>1. ASSUME NEW i \in 1 .. Len(ctx') PROVE Labelled(ctx[i])'
    <3>1. CASE /\ LabelsOf(ctx'[i]) = {} /\ ToPlace(ctx'[i]) = {}
               /\ ctx'[i].kind \notin {"then", "else", "cond", "body"}
      BY <3>1 DEF Labelled
    <3>2. CASE /\ i \in 1 .. Len(ctx)
               /\ ctx'[i].kind = ctx[i].kind /\ ctx'[i].l1 = ctx[i].l1
               /\ ctx'[i].l2 = ctx[i].l2
               /\ LabelsOf(ctx'[i]) = LabelsOf(ctx[i]) /\ ToPlace(ctx'[i]) = ToPlace(ctx[i])
      <4>1. Labelled(ctx[i])
        BY <3>2 DEF JumpInv, ConstructsInv
      <4>2. ToPlace(ctx[i]) \subseteq Nat
        BY <4>1 DEF Labelled, ToPlace
      <4>3. \A j \in 1 .. Len(quads') + 1 : LabelIn(labels, j) \notin ToPlace(ctx[i])
        BY <1>2, <4>1, <4>2 DEF Labelled
      <4>4. QED
        BY <1>1, <3>2, <4>1, <4>3 DEF Labelled
    <3>3. QED
      BY <3>1, <3>2, StraightLabels
  <2>2. ASSUME NEW i \in 1 .. Len(ctx'), NEW j \in 1 .. Len(ctx'), i # j
        PROVE  LabelsOf(ctx'[i]) \cap LabelsOf(ctx'[j]) = {}
    BY <2>2, StraightLabels DEF JumpInv, ConstructsInv
  <2>3. ctx' = <<>> => quads'[Len(quads')].op \in {"FunEnd", "Exit"}
    BY DEF Straight
  <2>4. QED
    BY <2>1, <2>2, <2>3 DEF ConstructsInv
<1>4. RegionsInv'
  <2>1. SUFFICES ASSUME NEW e \in 2 .. Len(quads') + 1, RunsInto(e)'
                 PROVE  \E c \in 1 .. e - 1 :
                            /\ OpenFor(c, LabelIn(labels, e))'
                            /\ Region(c, e, Len(ctx))'
    BY <1>1 DEF RegionsInv
  <2>2. LabelIn(labels, e) # Nothing /\ e \in 2 .. Len(quads) + 1
    BY <1>1, <2>1 DEF RunsInto
  <2>3. RunsInto(e)
    <3>1. e - 1 \in 1 .. Len(quads)
      BY <2>2
    <3>2. quads'[e - 1].op = quads[e - 1].op
      BY <3>1, StraightFacts
    <3>3. QED
      BY <2>1, <2>2, <3>2 DEF RunsInto, Leaves
  <2>4. PICK c \in 1 .. e - 1 : OpenFor(c, LabelIn(labels, e)) /\ Region(c, e, Len(ctx))
    BY <2>2, <2>3 DEF JumpInv, RegionsInv
  <2>5. c \in 1 .. Len(quads) /\ c \in Nat /\ e \in Nat
    BY <2>2, <1>1
  <2>6. OpenFor(c, LabelIn(labels, e))'
    BY <1>1, <2>4, <2>5, StraightFacts DEF OpenFor
  <2>7. Region(c, e, Len(ctx))'
    <3>1. PICK n \in Nat, m \in Nat : n = Len(ctx) /\ m = Len(ctx')
      BY <1>1
    <3>2. Region(c, e, n) /\ m <= Len(ctx')
      BY <2>4, <3>1
    <3>3. Region(c, e, m)'
      BY <2>5, <3>1, <3>2, StraightKeepsRegion
    <3>4. QED
      BY <3>1, <3>3 DEF Region
  <2>8. QED
    BY <2>6, <2>7
<1>5. OpenInv'
  <2>1. SUFFICES ASSUME NEW n \in 1 .. Len(ctx'), ctx'[n].kind = "then", ctx'[n].l2 = Nothing
                 PROVE  \E c \in 1 .. Len(quads') :
                           /\ OpenFor(c, ctx[n].l1)' /\ Region(c, Len(quads) + 2, n - 1)'
                           /\ \A i \in n .. Len(ctx') : \A l \in LabelsOf(ctx'[i]) :
                                 JumpsFrom(l, c, Len(quads) + 1)'
    BY <1>1 DEF OpenInv
  <2>2. /\ n \in 1 .. Len(ctx) /\ ctx[n].kind = "then" /\ ctx[n].l2 = Nothing
        /\ ctx'[n].l1 = ctx[n].l1
    BY <2>1, StraightLabels
  <2>3. PICK c \in 1 .. Len(quads) :
            /\ OpenFor(c, ctx[n].l1) /\ Region(c, Len(quads) + 2, n - 1)
            /\ \A i \in n .. Len(ctx) : \A l \in LabelsOf(ctx[i]) :
                  JumpsFrom(l, c, Len(quads) + 1)
    BY <2>2 DEF JumpInv, OpenInv
  <2>4. c \in 1 .. Len(quads') /\ c \in Nat /\ n - 1 \in Nat /\ n - 1 <= Len(ctx')
    BY <1>1, <2>1
  <2>5. OpenFor(c, ctx[n].l1)'
    BY <2>2, <2>3, StraightFacts DEF OpenFor
  <2>6. Region(c, Len(quads) + 2, n - 1)'
    <3>1. PICK e \in Nat, d \in Nat, m \in Nat :
              e = Len(quads) + 2 /\ d = Len(quads') + 2 /\ m = n - 1
      BY <1>1, <2>4
    <3>2. Region(c, e, m) /\ m <= Len(ctx') /\ m <= m
      BY <2>3, <2>4, <3>1
    <3>3. Region(c, d, m)'
      BY <2>4, <3>1, <3>2, StraightKeepsRegion
    <3>4. QED
      BY <3>1, <3>3 DEF Region
  <2>7. ASSUME NEW i \in n .. Len(ctx'), NEW l \in LabelsOf(ctx'[i])
        PROVE  JumpsFrom(l, c, Len(quads) + 1)'
    <3>1. i \in 1 .. Len(ctx') /\ LabelsOf(ctx'[i]) # {}
      BY <2>1, <2>7
    <3>2. i \in n .. Len(ctx) /\ LabelsOf(ctx'[i]) = LabelsOf(ctx[i])
      <4>1. i \in 1 .. Len(ctx) /\ LabelsOf(ctx'[i]) = LabelsOf(ctx[i])
        BY <3>1, StraightLabels
      <4>2. QED
        BY <2>1, <2>7, <4>1
    <3>3. l \in Nat
      BY <2>2, <2>7, <3>2 DEF JumpInv, ConstructsInv, Labelled
    <3>4. \A k \in 1 .. Len(quads) : l \in JumpTargets(quads[k]) => k \in c .. Len(quads) + 1
      BY <2>3, <2>7, <3>2 DEF JumpsFrom
    <3>5. \A k \in 1 .. Len(quads') :
              k \in 1 .. Len(quads) \/ JumpTargets(quads'[k]) \cap Nat = {}
      BY <1>1 DEF Straight
    <3>6. QED
      BY <1>1, <3>3, <3>4, <3>5, StraightFacts DEF JumpsFrom
  <2>8. QED
    BY <2>4, <2>5, <2>6, <2>7
<1>6. QED
  BY <1>3, <1>4, <1>5, StraightKeepsText DEF JumpInv

-----------------------------------------------------------------------------
(* Control structures *)

\* A step that emits a jump q with the label l behind it, keeps the first n
\* constructs and may open one more.  The labels it uses are new, or those of
\* the constructs it closes.
Fresh == lcount .. lcount' - 1
Usable(n) == Fresh \cup UNION {LabelsOf(ctx[i]) : i \in n + 1 .. Len(ctx)}
Placeable(n) == Fresh \cup UNION {ToPlace(ctx[i]) : i \in n + 1 .. Len(ctx)}
Opened(o, q, l, n) ==
    /\ LabelsOf(o) \subseteq Usable(n) /\ ToPlace(o) \subseteq Placeable(n) \ {l}
    /\ o.kind \in {"then", "else", "cond", "body"} => o.l1 \in Nat
    /\ o.kind = "body" => o.l2 \in Nat
    /\ o.kind \in {"then", "body"} => o.l1 # o.l2
    /\ o.kind = "then" /\ o.l2 = Nothing =>
          q.op = "CondGoto" /\ q.opd1 = o.l1 /\ l \in Fresh /\ o.l1 \in Fresh
Branches(q, l, n) ==
    /\ Jumps(q, l) /\ globals' = globals /\ (errors => errors')
    /\ lcount' \in Nat /\ lcount <= lcount'
    /\ q.op \in {"Goto", "CondGoto"} /\ DOMAIN q = Fields /\ JumpTargets(q) \subseteq Usable(n)
    /\ l \in Placeable(n)
    /\ n \in 1 .. Len(ctx) /\ Len(ctx') \in {n, n + 1}
    /\ \A i \in 1 .. n : ctx'[i] = ctx[i]
    /\ Len(ctx') = n + 1 => Opened(ctx'[n + 1], q, l, n)

LEMMA PlaceIsLabel ==
    ASSUME NEW c, Labelled(c)
    PROVE  ToPlace(c) \subseteq LabelsOf(c)
<1>1. c.kind = "body" => c.l2 # Nothing
  BY NothingAssumption DEF Labelled
<1>2. QED
  BY <1>1 DEF ToPlace, LabelsOf

LEMMA JumpLabels ==
    ASSUME WalkInv, JumpInv, NEW q, NEW l, NEW n \in Nat, Branches(q, l, n)
    PROVE  /\ Usable(n) \subseteq 0 .. lcount' - 1 /\ Placeable(n) \subseteq Usable(n)
           /\ Fresh \subseteq Nat
           /\ \A i \in 1 .. n : Usable(n) \cap LabelsOf(ctx[i]) = {}
           /\ \A j \in 1 .. Len(quads) + 1 : LabelIn(labels, j) \notin Placeable(n)
           /\ \A j \in 1 .. Len(quads) + 1 :
                  LabelIn(labels, j) # Nothing
                  /\ (\A i \in 1 .. Len(ctx) : LabelIn(labels, j) \notin LabelsOf(ctx[i]))
                     => LabelIn(labels, j) \notin Usable(n)
           /\ \A k \in 1 .. Len(quads) : JumpTargets(quads[k]) \cap Fresh = {}
<1>1. /\ lcount \in Nat /\ lcount' \in Nat /\ lcount <= lcount' /\ Len(ctx) \in Nat
      /\ n \in 1 .. Len(ctx)
  BY Lengths, TopFacts DEF Branches
<1>2. \A i \in 1 .. Len(ctx) : /\ Labelled(ctx[i]) /\ ToPlace(ctx[i]) \subseteq LabelsOf(ctx[i])
                               /\ LabelsOf(ctx[i]) \subseteq 0 .. lcount - 1
  BY PlaceIsLabel DEF JumpInv, ConstructsInv, Labelled
<1>3. \A i \in n + 1 .. Len(ctx) : i \in 1 .. Len(ctx)
  BY <1>1
<1>4. Usable(n) \subseteq 0 .. lcount' - 1 /\ Fresh \subseteq Nat
  BY <1>1, <1>2, <1>3 DEF Usable, Fresh
<1>5. Placeable(n) \subseteq Usable(n)
  BY <1>2, <1>3 DEF Usable, Placeable
<1>6. ASSUME NEW i \in 1 .. n PROVE Usable(n) \cap LabelsOf(ctx[i]) = {}
  <2>1. i \in 1 .. Len(ctx) /\ LabelsOf(ctx[i]) \subseteq 0 .. lcount - 1
    BY <1>1, <1>2
  <2>2. Fresh \cap LabelsOf(ctx[i]) = {}
    BY <1>1, <2>1 DEF Fresh
  <2>3. \A j \in n + 1 .. Len(ctx) : LabelsOf(ctx[j]) \cap LabelsOf(ctx[i]) = {}
    <3>1. \A j \in n + 1 .. Len(ctx) : j # i
      BY <1>1
    <3>2. QED
      BY <1>3, <2>1, <3>1 DEF JumpInv, ConstructsInv
  <2>4. QED
    BY <2>2, <2>3 DEF Usable
<1>7. \A j \in 1 .. Len(quads) + 1 : LabelIn(labels, j) \notin Fresh
  <2>1. SUFFICES ASSUME NEW j \in 1 .. Len(quads) + 1, LabelIn(labels, j) \in Fresh
                 PROVE  FALSE
    OBVIOUS
  <2>2. LabelIn(labels, j) \in {Nothing, Start} \cup Funs \cup 0 .. lcount - 1
    BY DEF JumpInv, TextInv, Carried
  <2>3. LabelIn(labels, j) \in Nat
    BY <1>4, <2>1
  <2>4. LabelIn(labels, j) \in 0 .. lcount - 1
    BY <2>2, <2>3, NothingAssumption, LabelsAssumption DEF JumpInv, PlainFuns
  <2>5. QED
    BY <1>1, <2>1, <2>4 DEF Fresh
<1>8. \A j \in 1 .. Len(quads) + 1 : LabelIn(labels, j) \notin Placeable(n)
  BY <1>2, <1>3, <1>7 DEF Placeable, Labelled
<1>9. ASSUME NEW j \in 1 .. Len(quads) + 1,
             \A i \in 1 .. Len(ctx) : LabelIn(labels, j) \notin LabelsOf(ctx[i])
      PROVE  LabelIn(labels, j) \notin Usable(n)
  BY <1>3, <1>7, <1>9 DEF Usable
<1>10. ASSUME NEW k \in 1 .. Len(quads), NEW t \in JumpTargets(quads[k])
       PROVE  t \notin Fresh
  <2>1. t \in Nat => t < lcount
    BY DEF JumpInv, TextInv, GivenOut
  <2>2. QED
    BY <1>1, <1>4, <2>1 DEF Fresh
<1>11. QED
  BY <1>4, <1>5, <1>6, <1>8, <1>9, <1>10

LEMMA BranchFacts ==
    ASSUME WalkInv, JumpInv, NEW q, NEW l, NEW n \in Nat, Branches(q, l, n)
    PROVE  /\ Len(quads) \in Nat /\ Len(quads') = Len(quads) + 1 /\ 3 <= Len(quads)
           /\ \A k \in 1 .. Len(quads) : quads'[k] = quads[k]
           /\ quads'[Len(quads) + 1] = q
           /\ LabelIn(labels', Len(quads) + 2) = l /\ l \in 0 .. lcount' - 1
           /\ \A k \in 1 .. Len(quads) + 1 : LabelIn(labels', k) = LabelIn(labels, k)
           /\ lcount \in Nat /\ lcount' \in Nat /\ lcount <= lcount'
           /\ Len(ctx) \in Nat /\ n \in 1 .. Len(ctx)
BY Lengths, TopFacts, JumpLabels DEF Branches, Jumps, JumpInv, TextInv, Entry

LEMMA BranchKeepsText ==
    ASSUME WalkInv, JumpInv, NEW q, NEW l, NEW n \in Nat, Branches(q, l, n)
    PROVE  TextInv'
<1>1. /\ Len(quads) \in Nat /\ Len(quads') = Len(quads) + 1 /\ 3 <= Len(quads)
      /\ \A k \in 1 .. Len(quads) : quads'[k] = quads[k]
      /\ quads'[Len(quads) + 1] = q
      /\ LabelIn(labels', Len(quads) + 2) = l /\ l \in 0 .. lcount' - 1
      /\ \A k \in 1 .. Len(quads) + 1 : LabelIn(labels', k) = LabelIn(labels, k)
      /\ lcount \in Nat /\ lcount' \in Nat /\ lcount <= lcount'
      /\ Len(ctx) \in Nat /\ n \in 1 .. Len(ctx)
  BY BranchFacts
<1>2. globals' = globals /\ (errors => errors')
  BY DEF Branches
<1>3. \A j \in 1 .. Len(quads') + 1 : j \in 1 .. Len(quads) + 1 \/ j = Len(quads) + 2
  BY <1>1
<1>4. Carried'
  <2>1. SUFFICES ASSUME NEW j \in 1 .. Len(quads') + 1
                 PROVE  /\ LabelIn(labels', j) \in {Nothing, Start} \cup Funs \cup 0 .. lcount' - 1
                        /\ LabelIn(labels', j) \in Funs => LabelIn(labels', j) \in DOMAIN globals
    BY <1>2 DEF Carried
  <2>2. CASE j \in 1 .. Len(quads) + 1
    <3>1. /\ LabelIn(labels, j) \in {Nothing, Start} \cup Funs \cup 0 .. lcount - 1
          /\ LabelIn(labels, j) \in Funs => LabelIn(labels, j) \in DOMAIN globals
      BY <2>2 DEF JumpInv, TextInv, Carried
    <3>2. QED
      BY <1>1, <2>2, <3>1
  <2>3. CASE j = Len(quads) + 2
    <3>1. l \in Nat /\ l \notin Funs
      BY <1>1 DEF JumpInv, PlainFuns
    <3>2. QED
      BY <1>1, <2>3, <3>1
  <2>4. QED
    BY <1>3, <2>2, <2>3
<1>5. CarriedOnce'
  <2>1. \A j \in 1 .. Len(quads) + 1 : LabelIn(labels, j) # l
    BY JumpLabels DEF Branches
  <2>2. SUFFICES ASSUME NEW i \in 1 .. Len(quads') + 1, NEW j \in 1 .. Len(quads') + 1,
                        LabelIn(labels', i) = LabelIn(labels', j), LabelIn(labels', i) # Nothing
                 PROVE  i = j \/ errors'
    BY DEF CarriedOnce
  <2>3. CASE i \in 1 .. Len(quads) + 1 /\ j \in 1 .. Len(quads) + 1
    BY <1>1, <1>2, <2>2, <2>3 DEF JumpInv, TextInv, CarriedOnce
  <2>4. QED
    BY <1>1, <1>3, <2>1, <2>2, <2>3
<1>6. Defining'
  <2>1. SUFFICES ASSUME NEW g \in DOMAIN globals
                 PROVE  g \in Funs /\ \E j \in 1 .. Len(quads') : LabelIn(labels', j) = g
    BY <1>2 DEF Defining
  <2>2. PICK j \in 1 .. Len(quads) : LabelIn(labels, j) = g
    BY DEF JumpInv, TextInv, Defining
  <2>3. j \in 1 .. Len(quads') /\ LabelIn(labels', j) = g
    BY <1>1, <2>2
  <2>4. QED
    BY <2>3 DEF JumpInv, TextInv, Defining
<1>7. Entry'
  <2>1. 1 \in 1 .. Len(quads) /\ 2 \in 1 .. Len(quads)
    BY <1>1
  <2>2. QED
    BY <1>1, <2>1 DEF JumpInv, TextInv, Entry
<1>8. GivenOut'
  <2>1. SUFFICES ASSUME NEW k \in 1 .. Len(quads')
                 PROVE  /\ \A t \in JumpTargets(quads'[k]) : t \in Nat => t < lcount'
                        /\ quads'[k].op = "CondGoto" =>
                              /\ quads'[k].opd1 \in Nat /\ quads'[k].opd2 \in Nat
                              /\ DOMAIN quads'[k] = Fields
    BY DEF GivenOut
  <2>2. CASE k \in 1 .. Len(quads)
    BY <1>1, <2>2, SMTT(40) DEF JumpInv, TextInv, GivenOut
  <2>3. CASE k = Len(quads) + 1
    <3>1. JumpTargets(q) \subseteq 0 .. lcount' - 1
      BY JumpLabels DEF Branches
    <3>2. q.op = "CondGoto" => q.opd1 \in JumpTargets(q) /\ q.opd2 \in JumpTargets(q)
      BY DEF JumpTargets
    <3>3. QED
      BY <1>1, <2>3, <3>1, <3>2 DEF Branches
  <2>4. QED
    BY <1>1, <2>2, <2>3
<1>9. QED
  BY <1>4, <1>5, <1>6, <1>7, <1>8 DEF TextInv

LEMMA BranchKeepsConstructs ==
    ASSUME WalkInv, JumpInv, NEW q, NEW l, NEW n \in Nat, Branches(q, l, n)
    PROVE  ConstructsInv'
<1>1. /\ Len(quads) \in Nat /\ Len(quads') = Len(quads) + 1
      /\ LabelIn(labels', Len(quads) + 2) = l /\ l \in 0 .. lcount' - 1
      /\ \A k \in 1 .. Len(quads) + 1 : LabelIn(labels', k) = LabelIn(labels, k)
      /\ lcount \in Nat /\ lcount' \in Nat /\ lcount <= lcount'
      /\ Len(ctx) \in Nat /\ n \in 1 .. Len(ctx)
  BY BranchFacts
<1>2. /\ Usable(n) \subseteq 0 .. lcount' - 1 /\ Placeable(n) \subseteq Usable(n)
      /\ \A i \in 1 .. n : Usable(n) \cap LabelsOf(ctx[i]) = {}
      /\ \A j \in 1 .. Len(quads) + 1 : LabelIn(labels, j) \notin Placeable(n)
  BY JumpLabels
<1>3. /\ l \in Placeable(n) /\ Len(ctx') \in {n, n + 1} /\ \A i \in 1 .. n : ctx'[i] = ctx[i]
      /\ Len(ctx') = n + 1 => Opened(ctx'[n + 1], q, l, n)
  BY DEF Branches
<1>4. \A i \in 1 .. Len(ctx') : i \in 1 .. n \/ (i = n + 1 /\ Len(ctx') = n + 1)
  BY <1>1, <1>3
<1>5. \A j \in 1 .. Len(quads') + 1 : j \in 1 .. Len(quads) + 1 \/ j = Len(quads) + 2
  BY <1>1
<1>6. ASSUME NEW i \in 1 .. n PROVE Labelled(ctx[i])'
  <2>1. ctx'[i] = ctx[i] /\ Labelled(ctx[i]) /\ ToPlace(ctx[i]) \subseteq LabelsOf(ctx[i])
    BY <1>1, <1>3, PlaceIsLabel DEF JumpInv, ConstructsInv
  <2>2. l \notin ToPlace(ctx[i])
    BY <1>2, <1>3, <2>1
  <2>3. \A j \in 1 .. Len(quads') + 1 : LabelIn(labels', j) \notin ToPlace(ctx[i])
    BY <1>1, <1>5, <2>1, <2>2 DEF Labelled
  <2>4. LabelsOf(ctx[i]) \subseteq 0 .. lcount' - 1
    BY <1>1, <2>1 DEF Labelled
  <2>5. QED
    BY <2>1, <2>3, <2>4 DEF Labelled
<1>7. ASSUME Len(ctx') = n + 1 PROVE Labelled(ctx[n + 1])'
  <2>1. Opened(ctx'[n + 1], q, l, n)
    BY <1>3, <1>7
  <2> DEFINE o == ctx'[n + 1]
  <2> HIDE DEF o
  <2>2. Opened(o, q, l, n)
    BY <2>1 DEF o
  <2>3. \A j \in 1 .. Len(quads') + 1 : LabelIn(labels', j) \notin ToPlace(o)
    BY <1>1, <1>2, <1>5, <2>2 DEF Opened
  <2>4. LabelsOf(o) \subseteq 0 .. lcount' - 1
    BY <1>2, <2>2 DEF Opened
  <2>5. QED
    BY <2>2, <2>3, <2>4 DEF Opened, Labelled, o
<1>8. ASSUME NEW i \in 1 .. Len(ctx'), NEW j \in 1 .. Len(ctx'), i # j
      PROVE  LabelsOf(ctx'[i]) \cap LabelsOf(ctx'[j]) = {}
  <2>1. \A m \in 1 .. n : m \in 1 .. Len(ctx)
    BY <1>1
  <2>2. CASE i \in 1 .. n /\ j \in 1 .. n
    BY <1>3, <1>8, <2>1, <2>2 DEF JumpInv, ConstructsInv
  <2>3. ASSUME NEW m \in 1 .. n, Len(ctx') = n + 1
        PROVE  LabelsOf(ctx'[m]) \cap LabelsOf(ctx'[n + 1]) = {}
    <3>1. LabelsOf(ctx'[n + 1]) \subseteq Usable(n)
      BY <1>3, <2>3 DEF Opened
    <3>2. QED
      BY <1>2, <1>3, <3>1
  <2>4. QED
    BY <1>4, <1>8, <2>2, <2>3
<1>9. ctx' # <<>>
  <2>1. Len(ctx') # 0
    BY <1>1, <1>3
  <2>2. Len(<<>>) = 0
    BY Tuples
  <2>3. QED
    BY <2>1, <2>2
<1>10. QED
  <2>1. ASSUME NEW i \in 1 .. Len(ctx') PROVE Labelled(ctx[i])'
    BY <1>4, <1>6, <1>7
  <2>2. QED
    BY <1>8, <1>9, <2>1 DEF ConstructsInv

\* A label of a region stays one: the new jump does not lead there, unless it
\* is in the region, and no construct that is left open can.
LEMMA BranchKeepsRegions ==
    ASSUME WalkInv, JumpInv, NEW q, NEW l, NEW n \in Nat, Branches(q, l, n)
    PROVE  RegionsInv'
<1>1. /\ Len(quads) \in Nat /\ Len(quads') = Len(quads) + 1
      /\ \A k \in 1 .. Len(quads) : quads'[k] = quads[k]
      /\ quads'[Len(quads) + 1] = q
      /\ \A k \in 1 .. Len(quads) + 1 : LabelIn(labels', k) = LabelIn(labels, k)
      /\ Len(ctx) \in Nat /\ n \in 1 .. Len(ctx)
  BY BranchFacts
<1>2. /\ q.op \in {"Goto", "CondGoto"} /\ JumpTargets(q) \subseteq Usable(n)
      /\ Len(ctx') \in {n, n + 1} /\ \A i \in 1 .. n : ctx'[i] = ctx[i]
      /\ Len(ctx') = n + 1 => LabelsOf(ctx'[n + 1]) \subseteq Usable(n)
  BY DEF Branches, Opened
<1>3. SUFFICES ASSUME NEW e \in 2 .. Len(quads') + 1, RunsInto(e)'
               PROVE  \E c \in 1 .. e - 1 :
                          /\ OpenFor(c, LabelIn(labels, e))' /\ Region(c, e, Len(ctx))'
  BY DEF RegionsInv
<1>4. e \in 2 .. Len(quads) + 1
  <2>1. ASSUME e = Len(quads) + 2 PROVE FALSE
    <3>1. quads'[e - 1] = q
      BY <1>1, <2>1
    <3>2. QED
      BY <1>2, <1>3, <3>1 DEF RunsInto, Leaves
  <2>2. QED
    BY <1>1, <1>3, <2>1
<1>5. RunsInto(e)
  <2>1. quads'[e - 1] = quads[e - 1] /\ LabelIn(labels', e) = LabelIn(labels, e)
    BY <1>1, <1>4
  <2>2. QED
    BY <1>3, <2>1 DEF RunsInto, Leaves
<1>6. PICK c \in 1 .. e - 1 : OpenFor(c, LabelIn(labels, e)) /\ Region(c, e, Len(ctx))
  BY <1>4, <1>5 DEF JumpInv, RegionsInv
<1>7. c \in 1 .. Len(quads)
  BY <1>1, <1>4
<1>8. OpenFor(c, LabelIn(labels, e))'
  BY <1>1, <1>4, <1>6, <1>7 DEF OpenFor
<1>9. Region(c, e, Len(ctx))'
  <2>1. SUFFICES ASSUME NEW j \in c + 1 .. e - 1, LabelIn(labels, j) # Nothing
                 PROVE  /\ LabelIn(labels, j) \in Nat
                        /\ JumpsFrom(LabelIn(labels, j), c, e - 1)'
                        /\ \A i \in 1 .. Len(ctx') : LabelIn(labels, j) \notin LabelsOf(ctx'[i])
    <3>1. \A j \in c + 1 .. e - 1 : LabelIn(labels', j) = LabelIn(labels, j)
      BY <1>1, <1>4, <1>7
    <3>2. QED
      BY <2>1, <3>1 DEF Region, JumpsFrom
  <2>2. /\ LabelIn(labels, j) \in Nat /\ JumpsFrom(LabelIn(labels, j), c, e - 1)
        /\ \A i \in 1 .. Len(ctx) : LabelIn(labels, j) \notin LabelsOf(ctx[i])
    BY <1>6, <2>1 DEF Region
  <2>3. j \in 1 .. Len(quads) + 1
    BY <1>1, <1>4, <1>7
  <2>4. LabelIn(labels, j) \notin Usable(n)
    BY <2>1, <2>2, <2>3, JumpLabels
  <2>5. LabelIn(labels', j) = LabelIn(labels, j)
    BY <1>1, <2>3
  <2>6. ASSUME NEW k \in 1 .. Len(quads'), LabelIn(labels, j) \in JumpTargets(quads'[k])
        PROVE  k \in c .. e - 1
    <3>1. k # Len(quads) + 1
      BY <1>1, <1>2, <2>4, <2>6
    <3>2. k \in 1 .. Len(quads) /\ quads'[k] = quads[k]
      BY <1>1, <3>1
    <3>3. QED
      BY <2>2, <2>6, <3>2 DEF JumpsFrom
  <2>7. ASSUME NEW i \in 1 .. Len(ctx') PROVE LabelIn(labels, j) \notin LabelsOf(ctx'[i])
    <3>1. CASE i \in 1 .. n
      <4>1. i \in 1 .. Len(ctx) /\ ctx'[i] = ctx[i]
        BY <1>1, <1>2, <3>1
      <4>2. QED
        BY <2>2, <4>1
    <3>2. CASE i = n + 1 /\ Len(ctx') = n + 1
      BY <1>2, <2>4, <3>2
    <3>3. QED
      BY <1>1, <1>2, <3>1, <3>2
  <2>8. JumpsFrom(LabelIn(labels, j), c, e - 1)'
    BY <2>5, <2>6 DEF JumpsFrom
  <2>9. QED
    BY <2>2, <2>7, <2>8
<1>10. QED
  BY <1>8, <1>9

LEMMA BranchKeepsOpen ==
    ASSUME WalkInv, JumpInv, NEW q, NEW l, NEW n \in Nat, Branches(q, l, n)
    PROVE  OpenInv'
<1>1. /\ Len(quads) \in Nat /\ Len(quads') = Len(quads) + 1
      /\ \A k \in 1 .. Len(quads) : quads'[k] = quads[k]
      /\ quads'[Len(quads) + 1] = q
      /\ LabelIn(labels', Len(quads) + 2) = l /\ l \in Nat
      /\ \A k \in 1 .. Len(quads) + 1 : LabelIn(labels', k) = LabelIn(labels, k)
      /\ Len(ctx) \in Nat /\ n \in 1 .. Len(ctx) /\ lcount \in Nat
  BY BranchFacts
<1>2. /\ JumpTargets(q) \subseteq Usable(n) /\ l \in Placeable(n)
      /\ Len(ctx') \in {n, n + 1} /\ \A i \in 1 .. n : ctx'[i] = ctx[i]
      /\ Len(ctx') = n + 1 => Opened(ctx'[n + 1], q, l, n)
  BY DEF Branches
<1>3. /\ Usable(n) \subseteq 0 .. lcount' - 1 /\ Placeable(n) \subseteq Usable(n)
      /\ Fresh \subseteq Nat
      /\ \A i \in 1 .. n : Usable(n) \cap LabelsOf(ctx[i]) = {}
      /\ \A k \in 1 .. Len(quads) : JumpTargets(quads[k]) \cap Fresh = {}
  BY JumpLabels
<1>4. SUFFICES ASSUME NEW m \in 1 .. Len(ctx'), ctx'[m].kind = "then", ctx'[m].l2 = Nothing
               PROVE  \E c \in 1 .. Len(quads') :
                         /\ quads'[c].op = "CondGoto" /\ quads'[c].opd1 = ctx'[m].l1
                         /\ \A j \in c + 1 .. Len(quads') + 1 : LabelIn(labels', j) # Nothing =>
                               /\ LabelIn(labels', j) \in Nat
                               /\ \A k \in 1 .. Len(quads') :
                                     LabelIn(labels', j) \in JumpTargets(quads'[k]) =>
                                         k \in c .. Len(quads') + 1
                               /\ \A i \in 1 .. m - 1 : LabelIn(labels', j) \notin LabelsOf(ctx'[i])
                         /\ \A i \in m .. Len(ctx') : \A x \in LabelsOf(ctx'[i]) :
                               \A k \in 1 .. Len(quads') :
                                  x \in JumpTargets(quads'[k]) => k \in c .. Len(quads') + 1
  <2>1. (Len(quads') + 2) - 1 = Len(quads') + 1
    BY <1>1
  <2>2. QED
    BY <1>4, <2>1 DEF OpenInv, OpenFor, Region, JumpsFrom
<1>5. ASSUME NEW c \in 1 .. Len(quads'), NEW x \in Fresh, NEW k \in 1 .. Len(quads'),
             x \in JumpTargets(quads'[k])
      PROVE  k \in c .. Len(quads') + 1
  <2>1. k \notin 1 .. Len(quads)
    BY <1>1, <1>3, <1>5
  <2>2. k = Len(quads')
    BY <1>1, <2>1
  <2>3. QED
    BY <1>1, <2>2
<1>6. CASE m = n + 1
  <2>1. Opened(ctx'[n + 1], q, l, n) /\ Len(ctx') = n + 1
    BY <1>1, <1>2, <1>4, <1>6
  <2>2. q.op = "CondGoto" /\ q.opd1 = ctx'[m].l1 /\ l \in Fresh /\ ctx'[m].l1 \in Fresh
    BY <1>4, <1>6, <2>1 DEF Opened
  <2>3. LabelsOf(ctx'[m]) = {ctx'[m].l1}
    BY <1>3, <1>4, <2>2, NothingAssumption DEF LabelsOf
  <2>4. Len(quads') \in 1 .. Len(quads') /\ quads'[Len(quads')] = q
    BY <1>1
  <2>5. \A j \in Len(quads') + 1 .. Len(quads') + 1 : LabelIn(labels', j) = l
    BY <1>1
  <2>6. \A i \in 1 .. m - 1 : l \notin LabelsOf(ctx'[i])
    BY <1>1, <1>2, <1>3, <1>6
  <2>7. \A i \in m .. Len(ctx') : i = m
    BY <1>1, <1>6, <2>1
  <2> DEFINE c == Len(quads')
  <2>8. c \in 1 .. Len(quads') /\ quads'[c].op = "CondGoto" /\ quads'[c].opd1 = ctx'[m].l1
    BY <2>2, <2>4
  <2>9. \A j \in c + 1 .. Len(quads') + 1 : LabelIn(labels', j) # Nothing =>
            /\ LabelIn(labels', j) \in Nat
            /\ \A k \in 1 .. Len(quads') :
                  LabelIn(labels', j) \in JumpTargets(quads'[k]) => k \in c .. Len(quads') + 1
            /\ \A i \in 1 .. m - 1 : LabelIn(labels', j) \notin LabelsOf(ctx'[i])
    BY <1>1, <1>5, <2>2, <2>4, <2>5, <2>6
  <2>10. \A i \in m .. Len(ctx') : \A x \in LabelsOf(ctx'[i]) : \A k \in 1 .. Len(quads') :
             x \in JumpTargets(quads'[k]) => k \in c .. Len(quads') + 1
    BY <1>5, <2>2, <2>3, <2>4, <2>7
  <2> HIDE DEF c
  <2>11. QED
    BY <2>8, <2>9, <2>10
<1>7. CASE m \in 1 .. n
  <2>1. m \in 1 .. Len(ctx) /\ ctx'[m] = ctx[m]
    BY <1>1, <1>2, <1>7
  <2>2. PICK c \in 1 .. Len(quads) :
            /\ OpenFor(c, ctx[m].l1) /\ Region(c, Len(quads) + 2, m - 1)
            /\ \A i \in m .. Len(ctx) : \A x \in LabelsOf(ctx[i]) :
                  JumpsFrom(x, c, Len(quads) + 1)
    BY <1>4, <2>1 DEF JumpInv, OpenInv
  <2>3. c \in 1 .. Len(quads') /\ quads'[c] = quads[c]
    BY <1>1
  <2>4. ASSUME NEW x \in Usable(n), NEW k \in 1 .. Len(quads'), x \in JumpTargets(quads'[k])
        PROVE  k \in c .. Len(quads') + 1
    <3>1. CASE x \in Fresh
      BY <1>5, <2>3, <2>4, <3>1
    <3>2. CASE x \notin Fresh
      <4>1. PICK i \in n + 1 .. Len(ctx) : x \in LabelsOf(ctx[i])
        BY <2>4, <3>2 DEF Usable
      <4>2. i \in m .. Len(ctx)
        BY <1>7, <4>1
      <4>3. JumpsFrom(x, c, Len(quads) + 1)
        BY <2>2, <4>1, <4>2
      <4>4. CASE k \in 1 .. Len(quads)
        BY <1>1, <2>4, <4>3, <4>4, SMTT(40) DEF JumpsFrom
      <4>5. CASE k = Len(quads) + 1
        BY <1>1, <4>5
      <4>6. QED
        BY <1>1, <4>4, <4>5
    <3>3. QED
      BY <3>1, <3>2
  <2>5. ASSUME NEW j \in c + 1 .. Len(quads') + 1, LabelIn(labels', j) # Nothing
        PROVE  /\ LabelIn(labels', j) \in Nat
               /\ \A k \in 1 .. Len(quads') :
                     LabelIn(labels', j) \in JumpTargets(quads'[k]) => k \in c .. Len(quads') + 1
               /\ \A i \in 1 .. m - 1 : LabelIn(labels', j) \notin LabelsOf(ctx'[i])
    <3>1. \A i \in 1 .. m - 1 : i \in 1 .. n /\ ctx'[i] = ctx[i]
      BY <1>2, <1>7
    <3>2. CASE j \in 1 .. Len(quads) + 1
      <4>1. /\ LabelIn(labels, j) \in Nat /\ JumpsFrom(LabelIn(labels, j), c, Len(quads) + 1)
            /\ \A i \in 1 .. m - 1 : LabelIn(labels, j) \notin LabelsOf(ctx[i])
        <5>1. j \in c + 1 .. (Len(quads) + 2) - 1 /\ LabelIn(labels, j) # Nothing
          BY <1>1, <2>5, <3>2
        <5>2. (Len(quads) + 2) - 1 = Len(quads) + 1
          BY <1>1
        <5>3. QED
          BY <2>2, <5>1, <5>2 DEF Region
      <4>2. LabelIn(labels', j) = LabelIn(labels, j)
        BY <1>1, <3>2
      <4>3. ASSUME NEW k \in 1 .. Len(quads'), LabelIn(labels, j) \in JumpTargets(quads'[k])
            PROVE  k \in c .. Len(quads') + 1
        <5>1. CASE k \in 1 .. Len(quads)
          BY <1>1, <4>1, <4>3, <5>1 DEF JumpsFrom
        <5>2. CASE k = Len(quads) + 1
          BY <1>1, <5>2
        <5>3. QED
          BY <1>1, <5>1, <5>2
      <4>4. QED
        BY <3>1, <4>1, <4>2, <4>3
    <3>3. CASE j = Len(quads) + 2
      <4>1. LabelIn(labels', j) = l /\ l \in Usable(n)
        BY <1>1, <1>2, <1>3, <3>3
      <4>2. QED
        BY <1>1, <1>3, <2>4, <3>1, <4>1
    <3>4. QED
      BY <1>1, <3>2, <3>3, SMTT(40)
  <2>6. ASSUME NEW i \in m .. Len(ctx'), NEW x \in LabelsOf(ctx'[i]),
               NEW k \in 1 .. Len(quads'), x \in JumpTargets(quads'[k])
        PROVE  k \in c .. Len(quads') + 1
    <3>1. CASE i = n + 1 /\ Len(ctx') = n + 1
      <4>1. x \in Usable(n)
        BY <1>2, <2>6, <3>1 DEF Opened
      <4>2. QED
        BY <2>4, <2>6, <4>1
    <3>2. CASE i \in 1 .. n
      <4>1. ctx'[i] = ctx[i] /\ i \in m .. Len(ctx)
        BY <1>1, <1>2, <1>7, <2>6, <3>2
      <4>2. JumpsFrom(x, c, Len(quads) + 1)
        BY <2>2, <2>6, <4>1
      <4>3. CASE k \in 1 .. Len(quads)
        BY <1>1, <2>6, <4>2, <4>3 DEF JumpsFrom
      <4>4. CASE k = Len(quads) + 1
        BY <1>1, <4>4
      <4>5. QED
        BY <1>1, <4>3, <4>4
    <3>3. QED
      BY <1>1, <1>2, <1>7, <2>6, <3>1, <3>2
  <2>7. c \in 1 .. Len(quads') /\ quads'[c].op = "CondGoto" /\ quads'[c].opd1 = ctx'[m].l1
    BY <2>1, <2>2, <2>3 DEF OpenFor
  <2>8. \A j \in c + 1 .. Len(quads') + 1 : LabelIn(labels', j) # Nothing =>
            /\ LabelIn(labels', j) \in Nat
            /\ \A k \in 1 .. Len(quads') :
                  LabelIn(labels', j) \in JumpTargets(quads'[k]) => k \in c .. Len(quads') + 1
            /\ \A i \in 1 .. m - 1 : LabelIn(labels', j) \notin LabelsOf(ctx'[i])
    BY <2>5
  <2>9. \A i \in m .. Len(ctx') : \A x \in LabelsOf(ctx'[i]) : \A k \in 1 .. Len(quads') :
            x \in JumpTargets(quads'[k]) => k \in c .. Len(quads') + 1
    BY <2>6
  <2> c \in 1 .. Len(quads')
    BY <2>7
  <2> WITNESS c \in 1 .. Len(quads')
  <2>10. QED
    BY <2>7, <2>8, <2>9, Zenon
<1>8. m \in 1 .. n \/ m = n + 1
  BY <1>1, <1>2, <1>4
<1>9. QED
  BY <1>6, <1>7, <1>8, Zenon

LEMMA BranchKeepsShape ==
    ASSUME WalkInv, JumpInv, NEW q, NEW l, NEW n \in Nat, Branches(q, l, n)
    PROVE  JumpInv'
BY BranchKeepsText, BranchKeepsConstructs, BranchKeepsRegions, BranchKeepsOpen DEF JumpInv

LEMMA OpenParts ==
    ASSUME NEW kind, NEW l1, NEW l2
    PROVE  LET o == Open(kind, l1, l2)
           IN  o.kind = kind /\ o.l1 = l1 /\ o.l2 = l2
BY DEF Open

LEMMA IfKeepsShape ==
    ASSUME WalkInv, JumpInv, NEW hasElse \in BOOLEAN, If(hasElse) PROVE JumpInv'
<1> DEFINE no == IF hasElse THEN lcount + 2 ELSE lcount + 1
           second == IF hasElse THEN lcount + 2 ELSE Nothing
           q == Quad("CondGoto", Last.temp, no, lcount)
           o == Open("then", lcount + 1, second)
           n == Len(ctx)
<1>1. /\ Jumps(q, lcount) /\ (errors => errors') /\ globals' = globals
      /\ lcount' = lcount + (IF hasElse THEN 3 ELSE 2) /\ lcount \in Nat
      /\ ctx' = Append(ctx, o) /\ Top.kind = "block"
      /\ Len(ctx') = n + 1 /\ \A i \in 1 .. n : ctx'[i] = ctx[i]
  BY IfEffect, Lengths DEF If
<1>2. n \in Nat /\ n >= 1 /\ ctx'[n + 1] = o
  BY <1>1, InFunction, Lengths DEF Nesting
<1>3. /\ q.op = "CondGoto" /\ q.opd1 = no /\ q.opd2 = lcount
      /\ JumpTargets(q) = {no, lcount} /\ DOMAIN q = Fields
  BY DEF Quad, JumpTargets, Fields
<1>4. o.kind = "then" /\ o.l1 = lcount + 1 /\ o.l2 = second
  BY OpenParts
<1>5. /\ {no, lcount, lcount + 1} \subseteq Fresh /\ second \in Fresh \cup {Nothing}
      /\ lcount \in Nat /\ lcount' \in Nat /\ lcount <= lcount'
      /\ lcount # lcount + 1 /\ second # lcount + 1 /\ second # lcount
      /\ second = Nothing => no = lcount + 1
  BY <1>1, NothingAssumption DEF Fresh
<1>6. LabelsOf(o) \subseteq Fresh \ {lcount} /\ ToPlace(o) = LabelsOf(o)
  BY <1>4, <1>5 DEF LabelsOf, ToPlace
<1> HIDE DEF o, q, no, second
<1>7. Opened(o, q, lcount, n)
  BY <1>3, <1>4, <1>5, <1>6 DEF Opened, Usable, Placeable
<1>8. Branches(q, lcount, n)
  BY <1>1, <1>2, <1>3, <1>5, <1>7 DEF Branches, Usable, Placeable
<1>9. QED
  <2> HIDE DEF n
  <2>1. QED
    BY <1>2, <1>8, BranchKeepsShape

LEMMA WhileKeepsShape ==
    ASSUME WalkInv, JumpInv, While PROVE JumpInv'
<1> DEFINE q == Quad("Goto", Nothing, Nothing, lcount)
           o == Open("cond", lcount, Nothing)
           n == Len(ctx)
<1>1. /\ Jumps(q, lcount) /\ errors' = errors /\ globals' = globals
      /\ lcount' = lcount + 1 /\ lcount \in Nat
      /\ ctx' = Append(ctx, o) /\ Top.kind = "block"
      /\ Len(ctx') = n + 1 /\ \A i \in 1 .. n : ctx'[i] = ctx[i]
  BY WhileEffect, Lengths DEF While
<1>2. n \in Nat /\ n >= 1 /\ ctx'[n + 1] = o
  BY <1>1, InFunction, Lengths DEF Nesting
<1>3. q.op = "Goto" /\ JumpTargets(q) = {lcount} /\ DOMAIN q = Fields
  BY DEF Quad, JumpTargets, Fields
<1>4. o.kind = "cond" /\ o.l1 = lcount /\ o.l2 = Nothing
  BY OpenParts
<1>5. lcount \in Fresh /\ lcount' \in Nat /\ lcount <= lcount'
  BY <1>1 DEF Fresh
<1>6. LabelsOf(o) \subseteq Fresh /\ ToPlace(o) = {}
  BY <1>4, <1>5 DEF LabelsOf, ToPlace
<1> HIDE DEF o, q
<1>7. Opened(o, q, lcount, n)
  BY <1>1, <1>4, <1>6 DEF Opened, Usable
<1>8. Branches(q, lcount, n)
  BY <1>1, <1>2, <1>3, <1>5, <1>7 DEF Branches, Usable, Placeable
<1>9. QED
  <2> HIDE DEF n
  <2>1. QED
    BY <1>2, <1>8, BranchKeepsShape

\* The construct on top is closed, and its labels can be used.
LEMMA TopUsable ==
    ASSUME WalkInv, JumpInv, Top.kind \in {"then", "else", "cond", "body"}
    PROVE  LET n == Len(ctx) - 1
           IN  /\ n \in Nat /\ n >= 1 /\ n + 1 = Len(ctx) /\ Top = ctx[n + 1]
               /\ Usable(n) = Fresh \cup LabelsOf(Top)
               /\ Placeable(n) = Fresh \cup ToPlace(Top)
               /\ Top.l1 \in LabelsOf(Top) /\ Labelled(Top)
<1>1. Len(ctx) \in Nat /\ Len(ctx) >= 2 /\ Top = ctx[Len(ctx)]
  BY InFunction
<1>2. \A i \in (Len(ctx) - 1) + 1 .. Len(ctx) : ctx[i] = Top
  BY <1>1
<1>3. Len(ctx) \in (Len(ctx) - 1) + 1 .. Len(ctx)
  BY <1>1
<1>4. Labelled(Top)
  BY <1>1 DEF JumpInv, ConstructsInv
<1>5. Top.l1 \in LabelsOf(Top)
  BY <1>4, NothingAssumption DEF Labelled, LabelsOf
<1>6. Usable(Len(ctx) - 1) = Fresh \cup LabelsOf(Top)
  BY <1>2, <1>3 DEF Usable
<1>7. Placeable(Len(ctx) - 1) = Fresh \cup ToPlace(Top)
  BY <1>2, <1>3 DEF Placeable
<1>8. QED
  BY <1>1, <1>4, <1>5, <1>6, <1>7

LEMMA WhileBodyKeepsShape ==
    ASSUME WalkInv, JumpInv, WhileBody PROVE JumpInv'
<1> DEFINE end == lcount + 1
           q == Quad("CondGoto", Last.temp, end, lcount)
           o == Open("body", Top.l1, end)
           n == Len(ctx) - 1
<1>1. /\ Jumps(q, lcount) /\ (errors => errors') /\ globals' = globals
      /\ lcount' = lcount + 2 /\ lcount \in Nat /\ Top.kind = "cond"
      /\ Len(ctx') = Len(ctx) /\ Top' = o
      /\ \A i \in 1 .. n : ctx'[i] = ctx[i]
  BY WhileBodyEffect, Lengths DEF WhileBody
<1>2. /\ n \in Nat /\ n >= 1 /\ n + 1 = Len(ctx) /\ Usable(n) = Fresh \cup LabelsOf(Top)
      /\ Placeable(n) = Fresh \cup ToPlace(Top)
      /\ Top.l1 \in LabelsOf(Top) /\ Labelled(Top) /\ Top.l1 \in 0 .. lcount - 1
  BY <1>1, TopUsable DEF Labelled
<1>3. ctx'[n + 1] = o
  <2>1. ctx' # <<>> /\ Nesting'
    BY <1>1, <1>2, Tuples, WhileBodyEffect DEF WalkInv
  <2>2. QED
    BY <1>1, <1>2, <2>1 DEF Top
<1>4. q.op = "CondGoto" /\ JumpTargets(q) = {end, lcount} /\ DOMAIN q = Fields
  BY DEF Quad, JumpTargets, Fields
<1>5. o.kind = "body" /\ o.l1 = Top.l1 /\ o.l2 = end
  BY OpenParts
<1>6. /\ {end, lcount} \subseteq Fresh /\ end \in Nat /\ lcount' \in Nat /\ lcount <= lcount'
      /\ Top.l1 # end /\ end # lcount /\ Top.l1 \in Nat
  BY <1>1, <1>2 DEF Fresh
<1>7. LabelsOf(o) \subseteq Usable(n) /\ ToPlace(o) = {end}
  BY <1>2, <1>5, <1>6 DEF LabelsOf, ToPlace
<1> HIDE DEF o, q, end
<1>8. Opened(o, q, lcount, n)
  BY <1>2, <1>5, <1>6, <1>7 DEF Opened
<1>9. Branches(q, lcount, n)
  BY <1>1, <1>2, <1>3, <1>4, <1>6, <1>8 DEF Branches
<1>10. QED
  <2> HIDE DEF n
  <2>1. QED
    BY <1>2, <1>9, BranchKeepsShape

LEMMA ElseKeepsShape ==
    ASSUME WalkInv, JumpInv, Else PROVE JumpInv'
<1> DEFINE q == Quad("Goto", Nothing, Nothing, Top.l1)
           o == Open("else", Top.l1, Nothing)
           n == Len(ctx) - 1
<1>1. /\ Jumps(q, Top.l2) /\ errors' = errors /\ globals' = globals
      /\ lcount' = lcount /\ lcount \in Nat /\ Top.kind = "then" /\ Top.l2 # Nothing
      /\ Len(ctx') = Len(ctx) /\ Top' = o
      /\ \A i \in 1 .. n : ctx'[i] = ctx[i]
  BY ElseEffect, Lengths DEF Else
<1>2. /\ n \in Nat /\ n >= 1 /\ n + 1 = Len(ctx) /\ Usable(n) = Fresh \cup LabelsOf(Top)
      /\ Placeable(n) = Fresh \cup ToPlace(Top)
      /\ Top.l1 \in LabelsOf(Top) /\ Labelled(Top) /\ Top.l1 \in 0 .. lcount - 1
  BY <1>1, TopUsable DEF Labelled
<1>3. ctx'[n + 1] = o
  <2>1. ctx' # <<>> /\ Nesting'
    BY <1>1, <1>2, Tuples, ElseEffect DEF WalkInv
  <2>2. QED
    BY <1>1, <1>2, <2>1 DEF Top
<1>4. q.op = "Goto" /\ JumpTargets(q) = {Top.l1} /\ DOMAIN q = Fields
  BY DEF Quad, JumpTargets, Fields
<1>5. o.kind = "else" /\ o.l1 = Top.l1 /\ o.l2 = Nothing
  BY OpenParts
<1>6. ToPlace(Top) = LabelsOf(Top) /\ Top.l2 \in ToPlace(Top) /\ Top.l1 # Top.l2 /\ Top.l1 \in Nat
  BY <1>1, <1>2 DEF ToPlace, LabelsOf, Labelled
<1>7. LabelsOf(o) = {Top.l1} /\ ToPlace(o) = {Top.l1}
  BY <1>5, <1>6, NothingAssumption DEF LabelsOf, ToPlace
<1> HIDE DEF o, q
<1>8. Opened(o, q, Top.l2, n)
  BY <1>2, <1>5, <1>6, <1>7 DEF Opened
<1>9. Branches(q, Top.l2, n)
  BY <1>1, <1>2, <1>3, <1>4, <1>6, <1>8 DEF Branches
<1>10. QED
  <2> DEFINE l == Top.l2
  <2>0. Branches(q, l, n)
    BY <1>9
  <2> HIDE DEF n, l
  <2>1. QED
    BY <1>2, <2>0, BranchKeepsShape

LEMMA WhileEndKeepsShape ==
    ASSUME WalkInv, JumpInv, WhileEnd PROVE JumpInv'
<1> DEFINE q == Quad("Goto", Nothing, Nothing, Top.l1)
           n == Len(ctx) - 1
<1>1. /\ Jumps(q, Top.l2) /\ errors' = errors /\ globals' = globals
      /\ lcount' = lcount /\ lcount \in Nat /\ Top.kind = "body"
      /\ Len(ctx') = n /\ \A i \in 1 .. n : ctx'[i] = ctx[i]
  BY WhileEndEffect, Lengths DEF WhileEnd
<1>2. /\ n \in Nat /\ n >= 1 /\ n + 1 = Len(ctx) /\ Usable(n) = Fresh \cup LabelsOf(Top)
      /\ Placeable(n) = Fresh \cup ToPlace(Top)
      /\ Top.l1 \in LabelsOf(Top)
  BY <1>1, TopUsable
<1>3. q.op = "Goto" /\ JumpTargets(q) = {Top.l1} /\ DOMAIN q = Fields
  BY DEF Quad, JumpTargets, Fields
<1>4. Top.l2 \in ToPlace(Top)
  BY <1>1 DEF ToPlace
<1> HIDE DEF q
<1>5. Branches(q, Top.l2, n)
  BY <1>1, <1>2, <1>3, <1>4 DEF Branches
<1>6. QED
  <2> DEFINE l == Top.l2
  <2>0. Branches(q, l, n)
    BY <1>5
  <2> HIDE DEF n, l
  <2>1. QED
    BY <1>2, <2>0, BranchKeepsShape

\* The end of an if: with an else block a jump to the label behind it, without
\* one the label that closes the region.
LEMMA IfEndKeepsShape ==
    ASSUME WalkInv, JumpInv, IfEnd PROVE JumpInv'
<1> DEFINE q == Quad("Goto", Nothing, Nothing, Top.l1)
           n == Len(ctx) - 1
<1>1. /\ errors' = errors /\ globals' = globals /\ lcount' = lcount
      /\ Len(ctx') = n /\ \A i \in 1 .. n : ctx'[i] = ctx[i]
      /\ \/ /\ Top.kind = "then" /\ Top.l2 = Nothing /\ quads' = quads
            /\ LabelIn(labels', Len(quads) + 1) = Top.l1
            /\ \A k \in 1 .. Len(quads) : LabelIn(labels', k) = LabelIn(labels, k)
         \/ Top.kind = "else" /\ Jumps(q, Top.l1)
  BY IfEndEffect DEF IfEnd
<1>2. /\ n \in Nat /\ n >= 1 /\ n + 1 = Len(ctx) /\ Usable(n) = Fresh \cup LabelsOf(Top)
      /\ Placeable(n) = Fresh \cup ToPlace(Top) /\ Top = ctx[n + 1]
      /\ Top.l1 \in LabelsOf(Top) /\ Labelled(Top) /\ ToPlace(Top) = LabelsOf(Top)
      /\ lcount \in Nat /\ Top.l1 \in 0 .. lcount - 1
  BY <1>1, TopUsable, Lengths DEF ToPlace, Labelled
<1>3. CASE Top.kind = "else" /\ Jumps(q, Top.l1)
  <2>1. q.op = "Goto" /\ JumpTargets(q) = {Top.l1} /\ DOMAIN q = Fields
    BY DEF Quad, JumpTargets, Fields
  <2> HIDE DEF q
  <2>2. Branches(q, Top.l1, n)
    BY <1>1, <1>2, <1>3, <2>1 DEF Branches
  <2>3. QED
    <3> DEFINE l == Top.l1
    <3>0. Branches(q, l, n)
      BY <2>2
    <3> HIDE DEF n, l
    <3>1. QED
      BY <1>2, <3>0, BranchKeepsShape
<1>4. CASE /\ Top.kind = "then" /\ Top.l2 = Nothing /\ quads' = quads
           /\ LabelIn(labels', Len(quads) + 1) = Top.l1
           /\ \A k \in 1 .. Len(quads) : LabelIn(labels', k) = LabelIn(labels, k)
  <2>1. /\ Len(quads) \in Nat /\ 3 <= Len(quads) /\ Top.l1 \in Nat
        /\ \A j \in 1 .. Len(quads') + 1 : j \in 1 .. Len(quads) \/ j = Len(quads) + 1
        /\ \A j \in 1 .. Len(quads) : j \in 1 .. Len(quads) + 1
        /\ \A j \in 1 .. Len(quads) + 1 : LabelIn(labels, j) # Top.l1
    BY <1>2, <1>4, Lengths DEF JumpInv, TextInv, Entry, Labelled
  <2>2. Carried'
    <3>1. Top.l1 \notin Funs
      BY <2>1 DEF JumpInv, PlainFuns
    <3>2. QED
      BY <1>1, <1>2, <1>4, <2>1, <3>1 DEF JumpInv, TextInv, Carried
  <2>3. CarriedOnce'
    BY <1>1, <1>4, <2>1 DEF JumpInv, TextInv, CarriedOnce
  <2>4. Defining' /\ Entry' /\ GivenOut'
    <3>1. Defining'
      BY <1>1, <1>4 DEF JumpInv, TextInv, Defining
    <3>2. Entry'
      <4>1. 1 \in 1 .. Len(quads) /\ 2 \in 1 .. Len(quads)
        BY <2>1
      <4>2. QED
        BY <1>1, <1>4, <4>1 DEF JumpInv, TextInv, Entry
    <3>3. GivenOut'
      BY <1>1, <1>4 DEF JumpInv, TextInv, GivenOut
    <3>4. QED
      BY <3>1, <3>2, <3>3
  <2>5. ConstructsInv'
    <3>1. ASSUME NEW i \in 1 .. n
          PROVE  /\ Labelled(ctx[i])' /\ ctx'[i] = ctx[i] /\ i \in 1 .. Len(ctx)
                 /\ Top.l1 \notin LabelsOf(ctx[i])
      <4>1. i \in 1 .. Len(ctx) /\ n + 1 \in 1 .. Len(ctx) /\ i # n + 1 /\ ctx'[i] = ctx[i]
        BY <1>1, <1>2, SMTT(40)
      <4>2. Top.l1 \notin LabelsOf(ctx[i])
        BY <1>2, <4>1 DEF JumpInv, ConstructsInv
      <4>3. Labelled(ctx[i])
        BY <4>1 DEF JumpInv, ConstructsInv
      <4>4. Top.l1 \notin ToPlace(ctx[i])
        BY <4>2, <4>3, PlaceIsLabel
      <4>5. Labelled(ctx[i])'
        BY <1>1, <1>4, <2>1, <4>1, <4>3, <4>4 DEF Labelled
      <4>6. QED
        BY <4>1, <4>2, <4>5
    <3>2. ctx' # <<>>
      BY <1>1, <1>2, Tuples
    <3>3. QED
      BY <1>1, <3>1, <3>2 DEF JumpInv, ConstructsInv
  <2>6. PICK c \in 1 .. Len(quads) :
            /\ OpenFor(c, Top.l1) /\ Region(c, Len(quads) + 2, n)
            /\ \A i \in n + 1 .. Len(ctx) : \A l \in LabelsOf(ctx[i]) :
                  JumpsFrom(l, c, Len(quads) + 1)
    <3>1. n + 1 \in 1 .. Len(ctx) /\ (n + 1) - 1 = n
      BY <1>2
    <3>2. QED
      BY <1>2, <1>4, <3>1 DEF JumpInv, OpenInv
  <2>7. RegionsInv'
    <3>1. SUFFICES ASSUME NEW e \in 2 .. Len(quads) + 1, RunsInto(e)'
                   PROVE  \E d \in 1 .. e - 1 :
                             /\ OpenFor(d, LabelIn(labels, e))' /\ Region(d, e, Len(ctx))'
      BY <1>4 DEF RegionsInv
    <3>2. CASE e \in 2 .. Len(quads)
      <4>1. RunsInto(e) /\ LabelIn(labels', e) = LabelIn(labels, e)
        BY <1>4, <3>1, <3>2 DEF RunsInto, Leaves
      <4>2. PICK d \in 1 .. e - 1 : OpenFor(d, LabelIn(labels, e)) /\ Region(d, e, Len(ctx))
        BY <3>1, <4>1 DEF JumpInv, RegionsInv
      <4>3. OpenFor(d, LabelIn(labels, e))'
        BY <1>4, <4>1, <4>2 DEF OpenFor
      <4>4. \A j \in d + 1 .. e - 1 : LabelIn(labels', j) = LabelIn(labels, j)
        BY <1>4, <2>1, <3>2
      <4>5. Region(d, e, Len(ctx))'
        BY <1>1, <1>2, <1>4, <4>2, <4>4 DEF Region, JumpsFrom
      <4>6. QED
        BY <4>3, <4>5
    <3>3. CASE e = Len(quads) + 1
      <4>1. c \in 1 .. e - 1 /\ OpenFor(c, LabelIn(labels, e))'
        BY <1>4, <2>1, <2>6, <3>3 DEF OpenFor
      <4>2. ASSUME NEW j \in c + 1 .. e - 1, LabelIn(labels', j) # Nothing
            PROVE  /\ LabelIn(labels', j) \in Nat
                   /\ \A k \in 1 .. Len(quads) :
                         LabelIn(labels', j) \in JumpTargets(quads[k]) => k \in c .. e - 1
                   /\ \A i \in 1 .. n : LabelIn(labels', j) \notin LabelsOf(ctx[i])
        <5>1. /\ j \in c + 1 .. (Len(quads) + 2) - 1 /\ j \in 1 .. Len(quads)
              /\ LabelIn(labels', j) = LabelIn(labels, j)
          BY <1>4, <2>1, <3>3, <4>2
        <5>2. /\ LabelIn(labels, j) \in Nat
              /\ JumpsFrom(LabelIn(labels, j), c, (Len(quads) + 2) - 1)
              /\ \A i \in 1 .. n : LabelIn(labels, j) \notin LabelsOf(ctx[i])
          BY <2>6, <4>2, <5>1 DEF Region
        <5>3. QED
          BY <2>1, <3>3, <5>1, <5>2 DEF JumpsFrom
      <4>3. Region(c, e, Len(ctx))'
        BY <1>1, <1>4, <4>2 DEF Region, JumpsFrom
      <4>4. QED
        BY <4>1, <4>3
    <3>4. QED
      BY <2>1, <3>1, <3>2, <3>3
  <2>8. OpenInv'
    <3>1. SUFFICES ASSUME NEW m \in 1 .. n, ctx[m].kind = "then", ctx[m].l2 = Nothing
                   PROVE  \E d \in 1 .. Len(quads) :
                             /\ OpenFor(d, ctx[m].l1)' /\ Region(d, Len(quads) + 2, m - 1)'
                             /\ \A i \in m .. Len(ctx') : \A l \in LabelsOf(ctx[i]) :
                                   JumpsFrom(l, d, Len(quads) + 1)'
      <4>1. \A m \in 1 .. n : ctx'[m] = ctx[m]
        BY <1>1
      <4>2. \A m \in 1 .. n : \A i \in m .. n : ctx'[i] = ctx[i]
        BY <1>1, <1>2
      <4>3. QED
        BY <1>1, <1>4, <3>1, <4>1, <4>2 DEF OpenInv
    <3>2. m \in 1 .. Len(ctx) /\ ctx'[m] = ctx[m]
      BY <1>1, <1>2
    <3>3. PICK d \in 1 .. Len(quads) :
              /\ OpenFor(d, ctx[m].l1) /\ Region(d, Len(quads) + 2, m - 1)
              /\ \A i \in m .. Len(ctx) : \A l \in LabelsOf(ctx[i]) :
                    JumpsFrom(l, d, Len(quads) + 1)
      BY <3>1, <3>2 DEF JumpInv, OpenInv
    <3>4. OpenFor(d, ctx[m].l1)'
      BY <1>4, <3>2, <3>3 DEF OpenFor
    <3>5. \A i \in m .. Len(ctx') : \A l \in LabelsOf(ctx[i]) :
              JumpsFrom(l, d, Len(quads) + 1)'
      <4>1. \A i \in m .. n : i \in m .. Len(ctx)
        BY <1>2
      <4>2. QED
        BY <1>1, <1>4, <3>3, <4>1 DEF JumpsFrom
    <3>6. Region(d, Len(quads) + 2, m - 1)'
      <4>1. SUFFICES ASSUME NEW j \in d + 1 .. Len(quads) + 1, LabelIn(labels', j) # Nothing
                     PROVE  /\ LabelIn(labels', j) \in Nat
                            /\ \A k \in 1 .. Len(quads) :
                                  LabelIn(labels', j) \in JumpTargets(quads[k]) =>
                                      k \in d .. Len(quads) + 1
                            /\ \A i \in 1 .. m - 1 : LabelIn(labels', j) \notin LabelsOf(ctx[i])
        <5>1. (Len(quads) + 2) - 1 = Len(quads) + 1 /\ \A i \in 1 .. m - 1 : ctx'[i] = ctx[i]
          BY <1>1, <2>1, <3>2
        <5>2. QED
          BY <1>4, <4>1, <5>1 DEF Region, JumpsFrom
      <4>2. CASE j \in 1 .. Len(quads)
        <5>1. j \in d + 1 .. (Len(quads) + 2) - 1 /\ LabelIn(labels', j) = LabelIn(labels, j)
          BY <1>4, <2>1, <4>1, <4>2
        <5>2. /\ LabelIn(labels, j) \in Nat
              /\ JumpsFrom(LabelIn(labels, j), d, (Len(quads) + 2) - 1)
              /\ \A i \in 1 .. m - 1 : LabelIn(labels, j) \notin LabelsOf(ctx[i])
          BY <3>3, <4>1, <5>1 DEF Region
        <5>3. QED
          BY <2>1, <5>1, <5>2 DEF JumpsFrom
      <4>3. CASE j = Len(quads) + 1
        <5>1. n + 1 \in m .. Len(ctx) /\ Top.l1 \in LabelsOf(ctx[n + 1])
          BY <1>2
        <5>2. JumpsFrom(Top.l1, d, Len(quads) + 1)
          BY <3>3, <5>1
        <5>3. \A i \in 1 .. m - 1 : i \in 1 .. Len(ctx) /\ n + 1 \in 1 .. Len(ctx) /\ i # n + 1
          BY <1>2, SMTT(40)
        <5>4. \A i \in 1 .. m - 1 : Top.l1 \notin LabelsOf(ctx[i])
          BY <1>2, <5>3 DEF JumpInv, ConstructsInv
        <5>5. QED
          BY <1>4, <2>1, <4>3, <5>2, <5>4 DEF JumpsFrom
      <4>4. QED
        BY <2>1, <4>2, <4>3
    <3>7. QED
      BY <3>3, <3>4, <3>5, <3>6
  <2>9. QED
    BY <2>2, <2>3, <2>4, <2>5, <2>7, <2>8 DEF JumpInv, TextInv
<1>5. QED
  BY <1>1, <1>3, <1>4

-----------------------------------------------------------------------------
(* Functions, and the end of the walk *)

LEMMA NoConstructs ==
    ASSUME WalkInv, JumpInv, ctx = <<>>
    PROVE  Len(ctx) = 0 /\ quads[Len(quads)].op \in {"FunEnd", "Exit"}
BY Tuples DEF JumpInv, ConstructsInv

LEMMA FunDefKeepsShape ==
    ASSUME WalkInv, JumpInv, NEW f \in Funs, NEW sig \in Sigs, FunDef(f, sig) PROVE JumpInv'
<1>1. /\ ctx = <<>> /\ Len(ctx') = 1 /\ lcount' = lcount /\ lcount \in Nat
      /\ errors' = (errors \/ f \in DOMAIN globals)
      /\ DOMAIN globals' = DOMAIN globals \cup {f}
      /\ Len(quads) \in Nat /\ 3 <= Len(quads) /\ Len(quads') = Len(quads) + 1
      /\ \A i \in 1 .. Len(quads) : quads'[i] = quads[i]
      /\ quads'[Len(quads) + 1] = Quad("FunBegin", Nothing, Nothing, Nothing)
      /\ Len(labels') = Len(quads) + 1 /\ LabelIn(labels', Len(quads) + 1) = f
      /\ \A k \in 1 .. Len(quads) : LabelIn(labels', k) = LabelIn(labels, k)
      /\ WalkInv'
  BY FunDefEffect, Lengths DEF FunDef, JumpInv, TextInv, Entry
<1>2. LabelIn(labels', Len(quads) + 2) = Nothing
  <2>1. DOMAIN labels' = 1 .. Len(labels')
    BY <1>1 DEF WalkInv, QuadsAreSeq, IsSeq
  <2>2. QED
    BY <1>1, <2>1 DEF LabelIn
<1>3. \A j \in 1 .. Len(quads') + 1 :
          j \in 1 .. Len(quads) \/ j = Len(quads) + 1 \/ j = Len(quads) + 2
  BY <1>1
<1>4. /\ JumpTargets(quads'[Len(quads) + 1]) = {} /\ quads'[Len(quads) + 1].op = "FunBegin"
      /\ Len(ctx) = 0 /\ quads[Len(quads)].op \in {"FunEnd", "Exit"}
      /\ \A j \in 1 .. Len(quads) : j \in 1 .. Len(quads) + 1
  BY <1>1, NoConstructs DEF Quad, JumpTargets
<1>5. /\ ctx'[1].kind = "fun" /\ ctx'[1].l1 = Nothing /\ ctx'[1].l2 = Nothing /\ ctx' # <<>>
  <2> DEFINE o == Open("fun", Nothing, Nothing)
             e == [o EXCEPT !.left = Len(quads) + 1]
  <2>1. ctx' = <<e>>
    BY DEF FunDef
  <2>2. o.kind = "fun" /\ o.l1 = Nothing /\ o.l2 = Nothing
    BY OpenParts
  <2>3. e.kind = o.kind /\ e.l1 = o.l1 /\ e.l2 = o.l2
    BY DEF Open
  <2> HIDE DEF e, o
  <2>4. QED
    BY <1>1, <2>1, <2>2, <2>3, Tuples
<1>6. \A i \in 1 .. Len(ctx') : i = 1 /\ LabelsOf(ctx'[i]) = {} /\ ToPlace(ctx'[i]) = {}
  BY <1>1, <1>5 DEF LabelsOf, ToPlace
<1>7. Carried'
  <2>1. ASSUME NEW j \in 1 .. Len(quads)
        PROVE  /\ LabelIn(labels', j) \in {Nothing, Start} \cup Funs \cup 0 .. lcount' - 1
               /\ LabelIn(labels', j) \in Funs => LabelIn(labels', j) \in DOMAIN globals'
    BY <1>1, <1>4 DEF JumpInv, TextInv, Carried
  <2>2. QED
    BY <1>1, <1>2, <1>3, <2>1, NothingAssumption DEF Carried
<1>8. CarriedOnce'
  <2>1. ASSUME NEW j \in 1 .. Len(quads), LabelIn(labels', j) = f PROVE errors'
    <3>1. f \in DOMAIN globals
      BY <1>1, <1>4, <2>1 DEF JumpInv, TextInv, Carried
    <3>2. QED
      BY <1>1, <3>1
  <2>2. ASSUME NEW i \in 1 .. Len(quads), NEW j \in 1 .. Len(quads),
               LabelIn(labels', i) = LabelIn(labels', j), LabelIn(labels', i) # Nothing
        PROVE  i = j \/ errors'
    BY <1>1, <1>4, <2>2 DEF JumpInv, TextInv, CarriedOnce
  <2>3. QED
    BY <1>1, <1>2, <1>3, <2>1, <2>2 DEF CarriedOnce
<1>9. Defining'
  <2>1. Len(quads) + 1 \in 1 .. Len(quads') /\ \A j \in 1 .. Len(quads) : j \in 1 .. Len(quads')
    BY <1>1
  <2>2. QED
    BY <1>1, <2>1 DEF JumpInv, TextInv, Defining
<1>10. Entry'
  <2>1. 1 \in 1 .. Len(quads) /\ 2 \in 1 .. Len(quads)
    BY <1>1
  <2>2. QED
    BY <1>1, <2>1 DEF JumpInv, TextInv, Entry
<1>11. GivenOut'
  <2>1. \A k \in 1 .. Len(quads') : k \in 1 .. Len(quads) \/ k = Len(quads) + 1
    BY <1>1
  <2>2. QED
    BY <1>1, <1>4, <2>1 DEF JumpInv, TextInv, GivenOut
<1>12. ConstructsInv'
  <2>1. \A i \in 1 .. Len(ctx') : Labelled(ctx[i])'
    BY <1>5, <1>6 DEF Labelled
  <2>2. QED
    BY <1>5, <1>6, <2>1 DEF ConstructsInv
<1>13. RegionsInv'
  <2>1. SUFFICES ASSUME NEW e \in 2 .. Len(quads') + 1, RunsInto(e)'
                 PROVE  \E c \in 1 .. e - 1 :
                           /\ OpenFor(c, LabelIn(labels, e))' /\ Region(c, e, Len(ctx))'
    BY DEF RegionsInv
  <2>2. e # Len(quads) + 2
    BY <1>2, <2>1 DEF RunsInto
  <2>3. e # Len(quads) + 1
    <3>1. ASSUME e = Len(quads) + 1 PROVE FALSE
      <4>1. quads'[e - 1] = quads[Len(quads)]
        BY <1>1, <3>1
      <4>2. QED
        BY <1>4, <2>1, <4>1 DEF RunsInto, Leaves
    <3>2. QED
      BY <3>1
  <2>4. e \in 2 .. Len(quads)
    BY <1>1, <2>2, <2>3
  <2>5. RunsInto(e) /\ LabelIn(labels', e) = LabelIn(labels, e)
    <3>1. quads'[e - 1] = quads[e - 1] /\ LabelIn(labels', e) = LabelIn(labels, e)
      BY <1>1, <2>4
    <3>2. QED
      BY <2>1, <3>1 DEF RunsInto, Leaves
  <2>6. PICK c \in 1 .. e - 1 : OpenFor(c, LabelIn(labels, e)) /\ Region(c, e, Len(ctx))
    BY <1>1, <2>4, <2>5 DEF JumpInv, RegionsInv
  <2>7. OpenFor(c, LabelIn(labels, e))'
    BY <1>1, <2>4, <2>5, <2>6 DEF OpenFor
  <2>8. \A j \in c + 1 .. e - 1 : LabelIn(labels', j) = LabelIn(labels, j)
    BY <1>1, <2>4
  <2>9. \A k \in 1 .. Len(quads') : \A l :
            l \in JumpTargets(quads'[k]) => k \in 1 .. Len(quads) /\ l \in JumpTargets(quads[k])
    BY <1>1, <1>4
  <2>10. Region(c, e, Len(ctx))'
    BY <1>6, <2>6, <2>8, <2>9 DEF Region, JumpsFrom
  <2>11. QED
    BY <2>7, <2>10
<1>14. OpenInv'
  BY <1>5, <1>6 DEF OpenInv
<1>15. QED
  BY <1>7, <1>8, <1>9, <1>10, <1>11, <1>12, <1>13, <1>14 DEF JumpInv, TextInv

\* The elements of a finite set of positions, counted from 0.
Rank(P, i) == Cardinality({j \in P : j < i})

LEMMA Ranks ==
    ASSUME NEW P \in SUBSET Nat, IsFiniteSet(P)
    PROVE  /\ Cardinality(P) \in Nat
           /\ \A i \in P : Rank(P, i) \in 0 .. Cardinality(P) - 1
           /\ \A i, k \in P : Rank(P, i) = Rank(P, k) => i = k
<1>1. ASSUME NEW i \in P, NEW S \in SUBSET P, \A j \in P : j <= i => j \in S
      PROVE  Rank(P, i) \in Nat /\ Rank(P, i) < Cardinality(S) /\ Cardinality(S) \in Nat
  <2> DEFINE B == {j \in P : j < i}
             C == B \cup {i}
  <2>1. IsFiniteSet(S) /\ IsFiniteSet(B) /\ C \subseteq S /\ i \notin B
    <3>1. IsFiniteSet(S)
      BY FS_Subset
    <3>2. B \subseteq P /\ i \notin B
      OBVIOUS
    <3>3. i \in S /\ B \subseteq S
      <4>1. \A j \in P : j \in Nat
        OBVIOUS
      <4>2. i <= i /\ \A j \in P : j < i => j <= i
        BY <4>1
      <4>3. QED
        BY <1>1, <4>2
    <3> HIDE DEF B
    <3>4. C \subseteq S
      BY <3>3
    <3>5. IsFiniteSet(B)
      BY <3>2, FS_Subset
    <3>6. QED
      BY <3>1, <3>2, <3>4, <3>5
  <2> HIDE DEF B
  <2>2. Cardinality(C) = Cardinality(B) + 1 /\ IsFiniteSet(C)
    BY <2>1, FS_AddElement
  <2>3. Cardinality(C) <= Cardinality(S) /\ Cardinality(B) \in Nat /\ Cardinality(S) \in Nat
    <3> HIDE DEF C
    <3>1. QED
      BY <2>1, FS_Subset, FS_CardinalityType
  <2> HIDE DEF C
  <2>4. Rank(P, i) = Cardinality(B)
    BY DEF Rank, B
  <2>5. QED
    BY <2>2, <2>3, <2>4
<1>2. \A i \in P : Rank(P, i) \in 0 .. Cardinality(P) - 1
  <2>1. ASSUME NEW i \in P PROVE Rank(P, i) \in 0 .. Cardinality(P) - 1
    <3>1. Rank(P, i) \in Nat /\ Rank(P, i) < Cardinality(P) /\ Cardinality(P) \in Nat
      BY <1>1
    <3>2. QED
      BY <3>1
  <2>2. QED
    BY <2>1
<1>3. ASSUME NEW i \in P, NEW k \in P, i < k PROVE Rank(P, i) # Rank(P, k)
  <2> DEFINE S == {j \in P : j < k}
  <2>1. S \in SUBSET P /\ \A j \in P : j <= i => j \in S
    BY <1>3
  <2> HIDE DEF S
  <2>2. Rank(P, i) \in Nat /\ Rank(P, i) < Cardinality(S) /\ Cardinality(S) \in Nat
    BY <1>1, <2>1
  <2>3. Rank(P, k) = Cardinality(S)
    BY DEF Rank, S
  <2>4. QED
    BY <2>2, <2>3
<1>4. ASSUME NEW i \in P, NEW k \in P, Rank(P, i) = Rank(P, k) PROVE i = k
  <2>1. ~(i < k) /\ ~(k < i)
    BY <1>3, <1>4
  <2>2. QED
    BY <2>1
<1>5. QED
  BY <1>2, <1>4, FS_CardinalityType

\* insert_return_labels, place by place: new labels, each on one place.
LEMMA FinishLabels ==
    ASSUME WalkInv, Finish
    PROVE  \E P \in SUBSET (2 .. Len(quads)) :
              /\ lcount' \in Nat /\ lcount <= lcount'
              /\ \A k \in P : /\ quads[k - 1].op = "Return" /\ LabelIn(labels, k) = Nothing
                              /\ LabelIn(labels', k) \in lcount .. lcount' - 1
              /\ \A i, k \in P : LabelIn(labels', i) = LabelIn(labels', k) => i = k
              /\ \A k \in 1 .. Len(quads) : k \notin P => LabelIn(labels', k) = LabelIn(labels, k)
              /\ LabelIn(labels', Len(quads) + 1) = Nothing
              /\ Len(labels') = Len(quads)
<1> DEFINE L == Resized(labels, Len(quads))
           P == AfterReturn(quads, L)
<1>1. /\ labels' = InsertReturnLabels(quads, L, lcount)
      /\ lcount' = lcount + Cardinality(P)
  BY DEF Finish
<1>2. L = [i \in 1 .. Len(quads) |-> L[i]]
  BY DEF Resized
<1>3. Len(L) = Len(quads) /\ DOMAIN L = 1 .. Len(quads)
  BY <1>2, Lengths, FunctionIsSeq
<1>4. \A k \in 1 .. Len(quads) : L[k] = LabelIn(labels, k)
  BY Lengths DEF Resized, LabelIn
<1>5. P = {k \in 2 .. Len(quads) : /\ quads[k - 1].op = "Return"
                                   /\ quads[k].op # "FunEnd" /\ L[k] = Nothing}
  BY DEF AfterReturn
<1>6. /\ P \in SUBSET Nat /\ IsFiniteSet(P) /\ P \in SUBSET (2 .. Len(quads))
      /\ Len(quads) \in Nat /\ lcount \in Nat
      /\ \A k \in P : k \in 1 .. Len(quads) /\ quads[k - 1].op = "Return" /\ L[k] = Nothing
  <2>1. IsFiniteSet(2 .. Len(quads)) /\ Len(quads) \in Nat /\ lcount \in Nat
    BY Lengths, FS_Interval
  <2>2. P \subseteq 2 .. Len(quads)
    BY <1>5
  <2>3. \A k \in P : k \in 1 .. Len(quads) /\ quads[k - 1].op = "Return" /\ L[k] = Nothing
    BY <1>5, <2>1
  <2>4. 2 .. Len(quads) \subseteq Nat
    BY <2>1
  <2> HIDE DEF P
  <2>5. IsFiniteSet(P)
    BY <2>1, <2>2, FS_Subset
  <2>6. QED
    BY <2>1, <2>2, <2>3, <2>4, <2>5
<1> HIDE DEF L
<1>7. labels' = [i \in 1 .. Len(quads) |-> IF i \in P THEN lcount + Rank(P, i) ELSE L[i]]
  BY <1>1, <1>3 DEF InsertReturnLabels, Rank
<1> HIDE DEF P
<1>8. Len(labels') = Len(quads) /\ DOMAIN labels' = 1 .. Len(quads)
  <2>1. labels' = [i \in 1 .. Len(quads) |-> labels'[i]]
    BY <1>7
  <2>2. QED
    BY <1>7, <2>1, Lengths, FunctionIsSeq
<1>9. \A k \in 1 .. Len(quads) :
          LabelIn(labels', k) = IF k \in P THEN lcount + Rank(P, k) ELSE L[k]
  BY <1>7, <1>8 DEF LabelIn
<1>10. /\ Cardinality(P) \in Nat
       /\ \A i \in P : Rank(P, i) \in 0 .. Cardinality(P) - 1
       /\ \A i, k \in P : Rank(P, i) = Rank(P, k) => i = k
  BY <1>6, Ranks
<1>11. lcount' \in Nat /\ lcount <= lcount'
  BY <1>1, <1>6, <1>10
<1>12. ASSUME NEW k \in P
       PROVE  /\ quads[k - 1].op = "Return" /\ LabelIn(labels, k) = Nothing
              /\ LabelIn(labels', k) \in lcount .. lcount' - 1
              /\ LabelIn(labels', k) = lcount + Rank(P, k)
  <2>1. k \in 1 .. Len(quads) /\ quads[k - 1].op = "Return" /\ L[k] = Nothing
    BY <1>6
  <2>2. LabelIn(labels', k) = lcount + Rank(P, k) /\ LabelIn(labels, k) = Nothing
    BY <1>4, <1>9, <2>1
  <2>3. Rank(P, k) \in 0 .. Cardinality(P) - 1
    BY <1>10
  <2>4. QED
    BY <1>1, <1>6, <1>10, <2>1, <2>2, <2>3
<1>13. ASSUME NEW i \in P, NEW k \in P, LabelIn(labels', i) = LabelIn(labels', k)
       PROVE  i = k
  <2>1. lcount + Rank(P, i) = lcount + Rank(P, k)
    BY <1>12, <1>13
  <2>2. Rank(P, i) \in Int /\ Rank(P, k) \in Int
    BY <1>10
  <2>3. QED
    BY <1>6, <1>10, <2>1, <2>2
<1>14. \A k \in 1 .. Len(quads) : k \notin P => LabelIn(labels', k) = LabelIn(labels, k)
  BY <1>4, <1>9
<1>15. LabelIn(labels', Len(quads) + 1) = Nothing
  BY <1>6, <1>8 DEF LabelIn
<1>16. QED
  BY <1>6, <1>8, <1>11, <1>12, <1>13, <1>14, <1>15

LEMMA FinishKeepsShape ==
    ASSUME WalkInv, JumpInv, Finish PROVE JumpInv' /\ EndInv'
<1>1. PICK P \in SUBSET (2 .. Len(quads)) :
              /\ lcount' \in Nat /\ lcount <= lcount'
              /\ \A k \in P : /\ quads[k - 1].op = "Return" /\ LabelIn(labels, k) = Nothing
                              /\ LabelIn(labels', k) \in lcount .. lcount' - 1
              /\ \A i, k \in P : LabelIn(labels', i) = LabelIn(labels', k) => i = k
              /\ \A k \in 1 .. Len(quads) : k \notin P => LabelIn(labels', k) = LabelIn(labels, k)
              /\ LabelIn(labels', Len(quads) + 1) = Nothing
              /\ Len(labels') = Len(quads)
  BY FinishLabels
<1>2. /\ ctx = <<>> /\ Len(ctx) = 0 /\ UNCHANGED <<quads, ctx, globals, errors>>
      /\ Len(quads) \in Nat /\ 3 <= Len(quads) /\ lcount \in Nat
  BY Tuples, Lengths DEF Finish, JumpInv, TextInv, Entry
<1>3. \A k \in P : k \in 1 .. Len(quads)
  BY <1>2
<1>4. \A j \in 1 .. Len(quads') + 1 : j \in P \/ j \in 1 .. Len(quads) \ P \/ j = Len(quads) + 1
  BY <1>2
<1>5. \A j \in 1 .. Len(quads) \ P :
          LabelIn(labels', j) = LabelIn(labels, j) /\ j \in 1 .. Len(quads) + 1
  BY <1>1, <1>2
<1>6. \A j \in P : LabelIn(labels', j) \in Nat /\ LabelIn(labels', j) \notin Funs
  <2>1. \A j \in P : LabelIn(labels', j) \in Nat
    BY <1>1, <1>2
  <2>2. QED
    BY <2>1 DEF JumpInv, PlainFuns
<1>7. Carried'
  <2>1. SUFFICES ASSUME NEW j \in 1 .. Len(quads') + 1
                 PROVE  /\ LabelIn(labels', j) \in {Nothing, Start} \cup Funs \cup 0 .. lcount' - 1
                        /\ LabelIn(labels', j) \in Funs => LabelIn(labels', j) \in DOMAIN globals
    BY <1>2 DEF Carried
  <2>2. CASE j \in P
    BY <1>1, <1>2, <1>6, <2>2
  <2>3. CASE j \in 1 .. Len(quads) \ P
    <3>1. /\ LabelIn(labels, j) \in {Nothing, Start} \cup Funs \cup 0 .. lcount - 1
          /\ LabelIn(labels, j) \in Funs => LabelIn(labels, j) \in DOMAIN globals
      BY <1>5, <2>3 DEF JumpInv, TextInv, Carried
    <3>2. QED
      BY <1>1, <1>2, <1>5, <2>3, <3>1
  <2>4. CASE j = Len(quads) + 1
    BY <1>1, <2>4, NothingAssumption
  <2>5. QED
    BY <1>4, <2>2, <2>3, <2>4
<1>8. CarriedOnce'
  <2>1. ASSUME NEW i \in P, NEW j \in 1 .. Len(quads) \ P PROVE LabelIn(labels', i) # LabelIn(labels', j)
    <3>1. LabelIn(labels, j) \in {Nothing, Start} \cup Funs \cup 0 .. lcount - 1
      BY <1>5 DEF JumpInv, TextInv, Carried
    <3>2. ASSUME LabelIn(labels, j) = LabelIn(labels', i) PROVE FALSE
      <4>1. LabelIn(labels, j) \in Nat /\ LabelIn(labels, j) \in lcount .. lcount' - 1
        BY <1>1, <1>6, <3>2
      <4>2. LabelIn(labels, j) \in 0 .. lcount - 1
        BY <3>1, <4>1, NothingAssumption, LabelsAssumption DEF JumpInv, PlainFuns
      <4>3. QED
        BY <1>2, <4>1, <4>2
    <3>3. QED
      BY <1>5, <3>2
  <2>2. ASSUME NEW i \in 1 .. Len(quads) \ P, NEW j \in 1 .. Len(quads) \ P,
               LabelIn(labels', i) = LabelIn(labels', j), LabelIn(labels', i) # Nothing
        PROVE  i = j \/ errors'
    BY <1>2, <1>5, <2>2 DEF JumpInv, TextInv, CarriedOnce
  <2>3. QED
    BY <1>1, <1>4, <2>1, <2>2 DEF CarriedOnce
<1>9. Defining'
  <2>1. SUFFICES ASSUME NEW g \in DOMAIN globals
                 PROVE  g \in Funs /\ \E j \in 1 .. Len(quads) : LabelIn(labels', j) = g
    BY <1>2 DEF Defining
  <2>2. PICK j \in 1 .. Len(quads) : LabelIn(labels, j) = g /\ g \in Funs
    BY DEF JumpInv, TextInv, Defining
  <2>3. j \notin P
    BY <1>1, <2>2, NothingAssumption
  <2>4. QED
    BY <1>1, <2>2, <2>3
<1>10. Entry'
  <2>1. 1 \in 1 .. Len(quads) /\ 2 \in 1 .. Len(quads) /\ 1 \notin P
    BY <1>2
  <2>2. 2 \notin P
    <3>1. ASSUME 2 \in P PROVE FALSE
      <4>1. quads[2 - 1].op = "Return"
        BY <1>1, <3>1
      <4>2. quads[1].op = "Entry"
        BY DEF JumpInv, TextInv, Entry
      <4>3. QED
        BY <4>1, <4>2
    <3>2. QED
      BY <3>1
  <2>3. QED
    BY <1>1, <1>2, <2>1, <2>2 DEF JumpInv, TextInv, Entry
<1>11. GivenOut'
  <2>1. \A t : t \in Nat /\ t < lcount => t < lcount'
    BY <1>1, <1>2
  <2>2. QED
    BY <1>2, <2>1 DEF JumpInv, TextInv, GivenOut
<1>12. ConstructsInv'
  BY <1>2 DEF JumpInv, ConstructsInv
<1>13. RegionsInv'
  <2>1. SUFFICES ASSUME NEW e \in 2 .. Len(quads) + 1, RunsInto(e)'
                 PROVE  \E c \in 1 .. e - 1 :
                           /\ OpenFor(c, LabelIn(labels, e))' /\ Region(c, e, Len(ctx))'
    BY <1>2 DEF RegionsInv
  <2>2. e \in 1 .. Len(quads) \ P /\ e \in 2 .. Len(quads)
    <3>1. e # Len(quads) + 1
      BY <1>1, <2>1 DEF RunsInto
    <3>2. e \notin P
      <4>1. ASSUME e \in P PROVE FALSE
        <5>1. quads[e - 1].op = "Return"
          BY <1>1, <4>1
        <5>2. QED
          BY <1>2, <2>1, <5>1 DEF RunsInto, Leaves
      <4>2. QED
        BY <4>1
    <3>3. QED
      BY <1>2, <2>1, <3>1, <3>2
  <2>3. RunsInto(e) /\ LabelIn(labels', e) = LabelIn(labels, e)
    BY <1>2, <1>5, <2>1, <2>2 DEF RunsInto, Leaves
  <2>4. PICK c \in 1 .. e - 1 : OpenFor(c, LabelIn(labels, e)) /\ Region(c, e, Len(ctx))
    BY <2>1, <2>3 DEF JumpInv, RegionsInv
  <2>5. OpenFor(c, LabelIn(labels, e))'
    BY <1>2, <2>3, <2>4 DEF OpenFor
  <2>6. ASSUME NEW j \in c + 1 .. e - 1, LabelIn(labels', j) # Nothing
        PROVE  /\ LabelIn(labels', j) \in Nat
               /\ \A k \in 1 .. Len(quads) :
                     LabelIn(labels', j) \in JumpTargets(quads[k]) => k \in c .. e - 1
    <3>1. j \in 1 .. Len(quads)
      BY <1>2, <2>2
    <3>2. CASE j \in P
      <4>1. LabelIn(labels', j) \in Nat /\ LabelIn(labels', j) >= lcount
        BY <1>1, <1>2, <3>2
      <4>2. \A k \in 1 .. Len(quads) : LabelIn(labels', j) \notin JumpTargets(quads[k])
        BY <1>2, <4>1 DEF JumpInv, TextInv, GivenOut
      <4>3. QED
        BY <4>1, <4>2
    <3>3. CASE j \notin P
      <4>1. LabelIn(labels', j) = LabelIn(labels, j)
        BY <1>1, <3>1, <3>3
      <4>2. LabelIn(labels, j) \in Nat /\ JumpsFrom(LabelIn(labels, j), c, e - 1)
        BY <2>4, <2>6, <4>1 DEF Region
      <4>3. QED
        BY <4>1, <4>2 DEF JumpsFrom
    <3>4. QED
      BY <3>2, <3>3
  <2>7. Region(c, e, Len(ctx))'
    BY <1>2, <2>6 DEF Region, JumpsFrom
  <2>8. QED
    BY <2>5, <2>7
<1>14. OpenInv'
  BY <1>2 DEF OpenInv
<1>15. EndInv'
  BY <1>1, <1>2 DEF EndInv
<1>16. QED
  BY <1>7, <1>8, <1>9, <1>10, <1>11, <1>12, <1>13, <1>14, <1>15 DEF JumpInv, TextInv

-----------------------------------------------------------------------------
(* The steps of the walk *)

Quiet(q) == q.op # "CondGoto" /\ JumpTargets(q) \cap Nat = {}

LEMMA QuietQuads ==
    /\ \A op, t, a, b : op \notin {"Goto", "CondGoto", "CallNil", "CallResult"}
                            => Quiet(Quad(op, t, a, b))
    /\ \A t, f : f \notin Nat => /\ Quiet(Quad("CallNil", t, Nothing, f))
                                 /\ Quiet(Quad("CallResult", t, Nothing, f))
BY DEF Quiet, Quad, JumpTargets

LEMMA PlainQuads ==
    /\ Plain \cap {"Goto", "CondGoto", "CallNil", "CallResult"} = {}
    /\ \A n : Quiet(PopArgs(n))
    /\ \A op \in Plain \cup {"Less", "EqualEqual", "Or", "Assign", "PushArg", "Return"} :
           \A t, a, b : Quiet(Quad(op, t, a, b))
<1>1. Plain \cap {"Goto", "CondGoto", "CallNil", "CallResult"} = {}
  BY DEF Plain, Arith
<1>2. \A n : Quiet(PopArgs(n))
  BY QuietQuads DEF PopArgs
<1>3. \A op \in Plain \cup {"Less", "EqualEqual", "Or", "Assign", "PushArg", "Return"} :
          \A t, a, b : Quiet(Quad(op, t, a, b))
  BY <1>1, QuietQuads
<1>4. QED
  BY <1>1, <1>2, <1>3

SameConstructs(m) ==
    /\ Len(ctx') \in Nat /\ m \in 0 .. Len(ctx)
    /\ \A i \in 1 .. Len(ctx') : (i <= m /\ SameConstruct(ctx'[i], ctx[i])) \/ Bare(ctx'[i])

LEMMA AppendsIsStraight ==
    ASSUME WalkInv, JumpInv, NEW n, Appends(n), UNCHANGED <<lcount, globals>>, errors => errors',
           NEW m, SameConstructs(m), ctx' # <<>> \/ (ctx' = ctx /\ quads' = quads),
           \A k \in Len(quads) + 1 .. Len(quads) + n : Quiet(quads'[k])
    PROVE  JumpInv'
<1>1. Len(quads) \in Nat /\ Len(ctx) \in Nat
  BY Lengths, TopFacts
<1>2. \A i \in 1 .. Len(ctx') :
          (i <= Len(ctx) /\ SameConstruct(ctx'[i], ctx[i])) \/ Bare(ctx'[i])
  BY <1>1 DEF SameConstructs
<1>3. ctx' = <<>> => quads'[Len(quads')].op \in {"FunEnd", "Exit"}
  BY DEF JumpInv, ConstructsInv
<1>4. Straight
  BY <1>1, <1>2, <1>3 DEF Straight, Appends, Quiet, SameConstructs
<1>5. QED
  BY <1>4, StraightKeepsShape

LEMMA SameContext ==
    ASSUME WalkInv, ctx' = ctx PROVE SameConstructs(Len(ctx))
BY TopFacts, Lengths DEF SameConstructs, SameConstruct

LEMMA InFunctionStep ==
    ASSUME WalkInv, InExpression \/ AtStatement \/ StatementEnd \/ CallArg \/ CallEnd
    PROVE  ctx # <<>>
BY InFunction DEF InExpression, AtStatement, StatementEnd, CallArg, CallEnd

LEMMA ExpressionKeepsShape ==
    ASSUME WalkInv, JumpInv, ctx # <<>>, ctx' = ctx, NEW n, Appends(n),
           UNCHANGED <<lcount, globals>>, errors => errors',
           \A k \in Len(quads) + 1 .. Len(quads) + n : Quiet(quads'[k])
    PROVE  JumpInv'
BY SameContext, AppendsIsStraight

LEMMA LeavesKeepShape ==
    ASSUME WalkInv, JumpInv,
           \/ \E type : Literal(type)
           \/ \E m \in Idents : GetSym(m) \/ SetSymUndeclared(m)
           \/ \E f \in Funs, count \in 0 .. MaxParams : CallRejected(f, count)
           \/ ExprStmt
    PROVE  JumpInv'
<1>1. ctx # <<>> /\ ctx' = ctx /\ UNCHANGED <<quads, labels, lcount, globals>> /\ (errors => errors')
  <2>1. CASE \E type : Literal(type)
    BY <2>1, InFunctionStep DEF Literal
  <2>2. ASSUME NEW m \in Idents, GetSym(m) PROVE <1>1
    <3>1. InExpression /\ UNCHANGED <<quads, labels, lcount, ctx, globals>>
      BY <2>2 DEF GetSym
    <3>2. errors => errors'
      BY <2>2 DEF GetSym, Fail
    <3>3. QED
      BY <3>1, <3>2, InFunctionStep
  <2>3. ASSUME NEW m \in Idents, SetSymUndeclared(m) PROVE <1>1
    BY <2>3, InFunctionStep DEF SetSymUndeclared
  <2>4. ASSUME NEW f \in Funs, NEW count \in 0 .. MaxParams, CallRejected(f, count) PROVE <1>1
    BY <2>4, InFunctionStep DEF CallRejected
  <2>5. CASE ExprStmt
    BY <2>5, InFunctionStep DEF ExprStmt
  <2>6. QED
    BY <2>1, <2>2, <2>3, <2>4, <2>5
<1>2. Appends(0) /\ \A k \in Len(quads) + 1 .. Len(quads) + 0 : Quiet(quads'[k])
  BY <1>1, NoQuads, Lengths
<1>3. QED
  BY <1>1, <1>2, ExpressionKeepsShape

LEMMA SetSymKeepsShape ==
    ASSUME WalkInv, JumpInv, NEW m \in Idents, SetSym(m) PROVE JumpInv'
<1>1. /\ ctx # <<>> /\ ctx' = ctx /\ UNCHANGED <<lcount, globals>> /\ (errors => errors')
  BY InFunctionStep DEF SetSym
<1>2. CASE /\ Appends(1)
           /\ \E s : quads'[Len(quads) + 1] = Quad("Assign", s.tac, Last.temp, Nothing)
  <2>1. Quiet(quads'[Len(quads) + 1])
    BY <1>2, PlainQuads
  <2>2. \A k \in Len(quads) + 1 .. Len(quads) + 1 : Quiet(quads'[k])
    BY <2>1, Lengths
  <2>3. QED
    BY <1>1, <1>2, <2>2, ExpressionKeepsShape
<1>3. CASE Appends(0)
  BY <1>1, <1>3, ExpressionKeepsShape, Lengths
<1>4. QED
  BY <1>2, <1>3, SetSymEffect

LEMMA ComputesQuiet ==
    ASSUME WalkInv, JumpInv, ctx # <<>>, ctx' = ctx, UNCHANGED <<lcount, globals>>,
           errors => errors',
           \E s, a, b : Computes(s, a, b) \/ Composes(a, b)
    PROVE  JumpInv'
<1>1. ASSUME NEW s, NEW a, NEW b, Computes(s, a, b) PROVE JumpInv'
  <2>1. Quiet(quads'[Len(quads) + 1]) /\ Appends(1)
    BY <1>1, PlainQuads DEF Computes
  <2>2. \A k \in Len(quads) + 1 .. Len(quads) + 1 : Quiet(quads'[k])
    BY <2>1, Lengths
  <2>3. QED
    BY <2>1, <2>2, ExpressionKeepsShape
<1>2. ASSUME NEW a, NEW b, Composes(a, b) PROVE JumpInv'
  <2>1. /\ Quiet(quads'[Len(quads) + 1]) /\ Quiet(quads'[Len(quads) + 2])
        /\ Quiet(quads'[Len(quads) + 3]) /\ Appends(3)
    <3>1. /\ Appends(3)
          /\ \E c, d : quads'[Len(quads) + 1] = Quad("Less", Temp(1), c, d)
          /\ \E t \in {"Less", "EqualEqual"} : \E c, d : quads'[Len(quads) + 2] = Quad(t, Temp(2), c, d)
          /\ quads'[Len(quads) + 3] = Quad("Or", Temp(0), Temp(1), Temp(2))
      BY <1>2 DEF Composes
    <3>2. PICK t \in {"Less", "EqualEqual"} :
              \E c, d : quads'[Len(quads) + 2] = Quad(t, Temp(2), c, d)
      BY <3>1
    <3>3. \A c, d : Quiet(Quad("Less", Temp(1), c, d)) /\ Quiet(Quad(t, Temp(2), c, d))
      BY PlainQuads
    <3>4. Quiet(Quad("Or", Temp(0), Temp(1), Temp(2)))
      BY PlainQuads
    <3>5. QED
      BY <3>1, <3>2, <3>3, <3>4
  <2>2. \A k \in Len(quads) + 1 .. Len(quads) + 3 :
            k = Len(quads) + 1 \/ k = Len(quads) + 2 \/ k = Len(quads) + 3
    BY Lengths
  <2>3. \A k \in Len(quads) + 1 .. Len(quads) + 3 : Quiet(quads'[k])
    BY <2>1, <2>2
  <2>4. QED
    BY <2>1, <2>3, ExpressionKeepsShape
<1>3. QED
  BY <1>1, <1>2

LEMMA OperatorsKeepShape ==
    ASSUME WalkInv, JumpInv, (\E op \in BinOps : Binary(op)) \/ Unary PROVE JumpInv'
<1>1. ctx # <<>> /\ ctx' = ctx /\ UNCHANGED <<lcount, globals>> /\ (errors => errors')
  <2>1. ASSUME NEW op \in BinOps, Binary(op) PROVE <1>1
    <3>1. InExpression /\ UNCHANGED <<lcount, ctx, globals>>
      BY <2>1 DEF Binary
    <3>2. errors => errors'
      BY <2>1 DEF Binary, Fail
    <3>3. QED
      BY <3>1, <3>2, InFunctionStep
  <2>2. CASE Unary
    <3>1. InExpression /\ UNCHANGED <<lcount, ctx, globals>>
      BY <2>2 DEF Unary
    <3>2. errors => errors'
      BY <2>2 DEF Unary
    <3>3. QED
      BY <3>1, <3>2, InFunctionStep
  <2>3. QED
    BY <2>1, <2>2
<1>2. CASE \E op \in BinOps : Binary(op)
  <2>1. \E s, a, b : Computes(s, a, b) \/ Composes(a, b)
    BY <1>2, BinaryEffect
  <2>2. QED
    BY <1>1, <2>1, ComputesQuiet
<1>3. CASE Unary
  <2>1. (\E s, a, b : Computes(s, a, b) \/ Composes(a, b)) \/ Appends(0)
    BY <1>3, UnaryEffect
  <2>2. CASE Appends(0)
    BY <1>1, <2>2, ExpressionKeepsShape, Lengths
  <2>3. QED
    BY <1>1, <2>1, <2>2, ComputesQuiet
<1>4. QED
  BY <1>2, <1>3

LEMMA CallKeepsShape ==
    ASSUME WalkInv, JumpInv, NEW f \in Funs, Call(f) PROVE JumpInv'
<1> DEFINE e == [Open("call", Nothing, Nothing) EXCEPT
                    !.callee = f, !.sig = Signature(f),
                    !.left = Len(Signature(f).ptypes), !.base = Len(vals)]
<1>1. /\ ctx' = Append(ctx, e)
      /\ UNCHANGED <<quads, labels, lcount, globals, errors>>
  BY DEF Call
<1>2. Bare(e)
  BY DEF Bare, LabelsOf, Open
<1> HIDE DEF e
<1>3. ctx \in Seq(Opens) /\ Len(ctx) \in Nat
  BY Lengths, TopFacts DEF Nesting
<1>4. Len(ctx') = Len(ctx) + 1 /\ ctx'[Len(ctx) + 1] = e /\ ctx' # <<>>
      /\ \A i \in 1 .. Len(ctx) : ctx'[i] = ctx[i]
  <2>1. Len(ctx') = Len(ctx) + 1 /\ \A i \in 1 .. Len(ctx) : ctx'[i] = ctx[i]
    BY CallEffect
  <2>2. Len(ctx') # 0
    BY <2>1, <1>3
  <2>3. ctx' # <<>>
    BY <2>2, EmptySeq
  <2>4. ctx'[Len(ctx) + 1] = e
    BY <1>1, <1>3
  <2>5. QED
    BY <2>1, <2>3, <2>4
<1>5. SameConstructs(Len(ctx))
  BY <1>2, <1>3, <1>4 DEF SameConstructs, SameConstruct
<1>6. Appends(0)
  BY CallEffect
<1>7. QED
  BY <1>1, <1>3, <1>4, <1>5, <1>6, AppendsIsStraight, Lengths

LEMMA CallArgKeepsShape ==
    ASSUME WalkInv, JumpInv, CallArg PROVE JumpInv'
<1>1. /\ Appends(1) /\ Quiet(quads'[Len(quads) + 1])
  BY CallArgEffect, PlainQuads, ZenonT(60)
<1>2. /\ ctx' = [ctx EXCEPT ![Len(ctx)].left = @ - 1]
      /\ UNCHANGED <<lcount, globals>> /\ (errors => errors')
  BY DEF CallArg, Fail
<1>3. ctx \in Seq(Opens) /\ Len(ctx) \in Nat
  BY Lengths, TopFacts DEF Nesting
<1>4. Len(ctx') = Len(ctx) /\ Len(ctx) >= 2
      /\ \A i \in 1 .. Len(ctx) : SameConstruct(ctx'[i], ctx[i])
  <2>1. Len(ctx') = Len(ctx) /\ Len(ctx) >= 2
    BY CallArgEffect
  <2>2. ASSUME NEW i \in 1 .. Len(ctx) PROVE SameConstruct(ctx'[i], ctx[i])
    <3>1. ctx[i] \in Opens /\ ctx[Len(ctx)] \in Opens
      BY <1>3, <2>1
    <3>2. QED
      BY <1>2, <1>3, <3>1 DEF SameConstruct, Opens
  <2>3. QED
    BY <2>1, <2>2
<1>5. SameConstructs(Len(ctx)) /\ ctx' # <<>>
  <2>1. Len(ctx') # 0
    BY <1>4
  <2>2. ctx' # <<>>
    BY <2>1, EmptySeq
  <2>3. QED
    BY <2>2, <1>3, <1>4 DEF SameConstructs
<1>6. \A k \in Len(quads) + 1 .. Len(quads) + 1 : Quiet(quads'[k])
  BY <1>1, Lengths
<1>7. QED
  BY <1>1, <1>2, <1>3, <1>5, <1>6, AppendsIsStraight

LEMMA CallEndKeepsShape ==
    ASSUME WalkInv, JumpInv, CallEnd PROVE JumpInv'
<1>1. Top \in Opens /\ Top.callee \notin Nat
  <2>1. Top \in Opens
    BY CallEndEffect
  <2>2. Top.callee \in Funs \cup {Nothing}
    BY <2>1 DEF Opens
  <2>3. QED
    BY <2>1, <2>2, NothingAssumption DEF JumpInv, PlainFuns
<1>2. /\ Appends(2) /\ Quiet(quads'[Len(quads) + 1]) /\ Quiet(quads'[Len(quads) + 2])
  <2>1. Appends(2) /\ quads'[Len(quads) + 2] = PopArgs(Len(Top.sig.ptypes))
    BY CallEndEffect
  <2>2. \/ quads'[Len(quads) + 1] = Quad("CallResult", Temp(0), Nothing, Top.callee)
        \/ quads'[Len(quads) + 1] = Quad("CallNil", Nothing, Nothing, Top.callee)
    BY CallEndEffect
  <2>3. QED
    BY <1>1, <2>1, <2>2, PlainQuads, QuietQuads
<1>3. UNCHANGED <<lcount, globals, errors>>
  BY DEF CallEnd
<1>4. Len(ctx) \in Nat /\ Len(ctx) >= 2 /\ Len(ctx') = Len(ctx) - 1
      /\ \A i \in 1 .. Len(ctx) - 1 : ctx'[i] = ctx[i]
  BY CallEndEffect, TopFacts, Lengths
<1>5. SameConstructs(Len(ctx)) /\ ctx' # <<>>
  <2>1. Len(ctx') # 0
    BY <1>4
  <2>2. ctx' # <<>>
    BY <2>1, EmptySeq
  <2>3. QED
    BY <2>2, <1>4 DEF SameConstructs, SameConstruct
<1>6. \A k \in Len(quads) + 1 .. Len(quads) + 2 : Quiet(quads'[k])
  <2>1. \A k \in Len(quads) + 1 .. Len(quads) + 2 : k = Len(quads) + 1 \/ k = Len(quads) + 2
    BY Lengths
  <2>2. QED
    BY <1>2, <2>1
<1>7. QED
  BY <1>2, <1>3, <1>4, <1>5, <1>6, AppendsIsStraight

LEMMA StatementsKeepShape ==
    ASSUME WalkInv, JumpInv,
           \/ PrintStmt \/ Return
           \/ \E x \in Idents : \E type : DeclSym(x, type)
    PROVE  JumpInv'
<1>1. CASE PrintStmt
  <2>1. ctx # <<>> /\ ctx' = ctx /\ UNCHANGED <<lcount, globals, errors>> /\ QuadsAreSeq
        /\ labels' = labels
    BY <1>1, InFunctionStep, Lengths DEF PrintStmt
  <2> DEFINE push == Quad("PushArg", Nothing, Nothing, Last.temp)
             call(f) == Quad("CallNil", Nothing, Nothing, f)
  <2>2. /\ Quiet(push) /\ Quiet(PopArgs(1))
        /\ \A f \in {PrintInt, PrintBool} : Quiet(call(f))
    BY PlainQuads, QuietQuads, LabelsAssumption
  <2>3. \/ Emit(<<push, PopArgs(1)>>)
        \/ \E f \in {PrintInt, PrintBool} : Emit(<<push, call(f), PopArgs(1)>>)
    BY <1>1, <2>1, EmitsPrint
  <2> HIDE DEF push, call
  <2>4. CASE Emit(<<push, PopArgs(1)>>)
    <3>1. /\ Appends(2)
          /\ quads'[Len(quads) + 1] = push /\ quads'[Len(quads) + 2] = PopArgs(1)
      BY <2>1, <2>4, TwoQuads
    <3>2. \A k \in Len(quads) + 1 .. Len(quads) + 2 : k = Len(quads) + 1 \/ k = Len(quads) + 2
      BY Lengths
    <3>3. \A k \in Len(quads) + 1 .. Len(quads) + 2 : Quiet(quads'[k])
      BY <2>2, <3>1, <3>2
    <3>4. QED
      BY <2>1, <3>1, <3>3, ExpressionKeepsShape
  <2>5. ASSUME NEW f \in {PrintInt, PrintBool}, Emit(<<push, call(f), PopArgs(1)>>)
        PROVE  JumpInv'
    <3>1. /\ Appends(3)
          /\ quads'[Len(quads) + 1] = push /\ quads'[Len(quads) + 2] = call(f)
          /\ quads'[Len(quads) + 3] = PopArgs(1)
      BY <2>1, <2>5, ThreeQuads
    <3>2. \A k \in Len(quads) + 1 .. Len(quads) + 3 :
              k = Len(quads) + 1 \/ k = Len(quads) + 2 \/ k = Len(quads) + 3
      BY Lengths
    <3>3. \A k \in Len(quads) + 1 .. Len(quads) + 3 : Quiet(quads'[k])
      BY <2>2, <3>1, <3>2
    <3>4. QED
      BY <2>1, <3>1, <3>3, ExpressionKeepsShape
  <2>6. QED
    BY <2>3, <2>4, <2>5
<1>2. CASE Return
  <2>1. ctx # <<>> /\ ctx' = ctx /\ UNCHANGED <<lcount, globals>> /\ (errors => errors')
    BY <1>2, InFunctionStep, ReturnEffect DEF Return
  <2>2. Appends(1) /\ Quiet(quads'[Len(quads) + 1])
    BY <1>2, ReturnEffect, PlainQuads
  <2>3. \A k \in Len(quads) + 1 .. Len(quads) + 1 : Quiet(quads'[k])
    BY <2>2, Lengths
  <2>4. QED
    BY <2>1, <2>2, <2>3, ExpressionKeepsShape
<1>3. ASSUME NEW x \in Idents, NEW type, DeclSym(x, type) PROVE JumpInv'
  <2>1. ctx # <<>> /\ ctx' = ctx /\ UNCHANGED <<lcount, globals>>
    BY <1>3, InFunctionStep DEF DeclSym
  <2>2. errors => errors'
    BY <1>3, DeclEffect
  <2>3. \/ Appends(1) /\ quads'[Len(quads) + 1] =
               Quad("Assign", Fr!TacName(temps, x), Last.temp, Nothing)
        \/ Appends(0)
    BY <1>3, DeclEffect
  <2>4. CASE Appends(1) /\ Quiet(quads'[Len(quads) + 1])
    <3>1. \A k \in Len(quads) + 1 .. Len(quads) + 1 : Quiet(quads'[k])
      BY <2>4, Lengths
    <3>2. QED
      BY <2>1, <2>2, <2>4, <3>1, ExpressionKeepsShape
  <2>5. CASE Appends(0)
    BY <2>1, <2>2, <2>5, ExpressionKeepsShape, Lengths
  <2>6. QED
    BY <2>3, <2>4, <2>5, PlainQuads
<1>4. QED
  BY <1>1, <1>2, <1>3

LEMMA BlocksKeepShape ==
    ASSUME WalkInv, JumpInv, BodyBegin \/ BlockBegin \/ BlockEnd PROVE JumpInv'
<1>1. /\ ctx \in Seq(Opens) /\ Len(ctx) \in Nat
      /\ UNCHANGED <<quads, labels, lcount, globals, errors>>
  BY Lengths, TopFacts DEF Nesting, BodyBegin, BlockBegin, BlockEnd, OpenBlock
<1>2. Appends(0)
  BY BlockEffect, BlockEndEffect
<1>3. CASE BodyBegin \/ BlockBegin
  <2> DEFINE e == Open("block", Nothing, Nothing)
  <2>1. Bare(e)
    BY DEF Bare, LabelsOf, Open
  <2>2. ctx' = Append(ctx, e)
    BY <1>3 DEF BodyBegin, BlockBegin, OpenBlock
  <2> HIDE DEF e
  <2>3. Len(ctx') = Len(ctx) + 1 /\ ctx'[Len(ctx) + 1] = e
        /\ \A i \in 1 .. Len(ctx) : ctx'[i] = ctx[i]
    BY <1>1, <2>2
  <2>4. ctx' # <<>>
    <3>1. Len(ctx') # 0
      BY <1>1, <2>3
    <3>2. QED
      BY <3>1, EmptySeq
  <2>5. SameConstructs(Len(ctx))
    BY <1>1, <2>1, <2>3 DEF SameConstructs, SameConstruct
  <2>6. QED
    BY <1>1, <1>2, <2>4, <2>5, AppendsIsStraight, Lengths
<1>4. CASE BlockEnd
  <2>1. /\ ctx # <<>> /\ Top.kind = "block"
        /\ ctx' = [i \in 1 .. Len(ctx) - 1 |->
                      [ctx[i] EXCEPT !.done = @ \/ i = Len(ctx) - 1]]
    BY <1>4, InFunction DEF BlockEnd, AtStatement
  <2>2. /\ ctx' # <<>> /\ Len(ctx') = Len(ctx) - 1 /\ Len(ctx) >= 2
        /\ \A i \in 1 .. Len(ctx) - 1 : SameConstruct(ctx'[i], ctx[i])
    BY <2>1, Lengths, CloseBlock DEF SameConstruct
  <2>3. SameConstructs(Len(ctx) - 1)
    BY <1>1, <2>2 DEF SameConstructs
  <2>4. QED
    BY <1>1, <1>2, <2>2, <2>3, AppendsIsStraight, Lengths
<1>5. QED
  BY <1>3, <1>4

LEMMA FunDefEndKeepsShape ==
    ASSUME WalkInv, JumpInv, FunDefEnd PROVE JumpInv'
<1>1. UNCHANGED <<labels, lcount, globals, errors>> /\ ctx' = <<>> /\ Len(ctx') = 0
  BY FunDefEndEffect DEF FunDefEnd
<1>2. /\ Len(quads) \in Nat /\ Len(quads') = Len(quads) + 1
      /\ quads'[Len(quads) + 1] = Quad("FunEnd", Nothing, Nothing, Nothing)
      /\ \A k \in 1 .. Len(quads) :
            quads'[k] = quads[k] \/ (quads[k].op = "FunBegin" /\ quads'[k].op = "FunBegin")
  <2>1. quads[Top.left].op = "FunBegin" /\ quads'[Top.left].op = "FunBegin"
    BY FunDefEndEffect DEF Quad
  <2>2. QED
    BY <2>1, FunDefEndEffect, Lengths
<1>3. Quiet(quads'[Len(quads) + 1]) /\ quads'[Len(quads')].op = "FunEnd"
  BY <1>2, QuietQuads DEF Quad
<1>4. \A k \in Len(quads) + 1 .. Len(quads') : k = Len(quads) + 1
  BY <1>2
<1>5. Straight
  BY <1>1, <1>2, <1>3, <1>4 DEF Straight, Quiet
<1>6. QED
  BY <1>5, StraightKeepsShape

LEMMA SameShape ==
    ASSUME UNCHANGED <<quads, labels, lcount, ctx, globals>>, errors => errors', JumpInv
    PROVE  JumpInv'
<1>1. UNCHANGED <<quads, labels, lcount, ctx, globals>> /\ (errors => errors')
  OBVIOUS
<1>2. TextInv'
  BY <1>1 DEF JumpInv, TextInv, Carried, CarriedOnce, Defining, Entry, GivenOut
<1>3. ConstructsInv'
  BY <1>1 DEF JumpInv, ConstructsInv, Labelled
<1>4. RegionsInv'
  BY <1>1 DEF JumpInv, RegionsInv, RunsInto, OpenFor, Region, JumpsFrom
<1>5. OpenInv'
  BY <1>1 DEF JumpInv, OpenInv, OpenFor, Region, JumpsFrom
<1>6. QED
  BY <1>2, <1>3, <1>4, <1>5 DEF JumpInv

LEMMA JumpNext == WalkInv /\ JumpInv /\ [Next]_vars => JumpInv'
<1> SUFFICES ASSUME WalkInv, JumpInv, [Next]_vars PROVE JumpInv'
  OBVIOUS
<1>1. CASE Import \/ (\E m \in Idents : SetSymParam(m)) \/ UNCHANGED vars
  <2>1. UNCHANGED <<quads, labels, lcount, ctx, globals>> /\ (errors => errors')
    <3>1. CASE \E m \in Idents : SetSymParam(m)
      BY <3>1 DEF SetSymParam
    <3>2. QED
      BY <1>1, <3>1, ImportEffect
  <2>2. QED
    BY <2>1, SameShape
<1>2. CASE \/ ExprStmt
           \/ \E type : Literal(type)
           \/ \E m \in Idents : GetSym(m) \/ SetSymUndeclared(m)
           \/ \E f \in Funs, count \in 0 .. MaxParams : CallRejected(f, count)
  BY <1>2, LeavesKeepShape
<1>3. ASSUME NEW m \in Idents, SetSym(m) PROVE JumpInv'
  BY <1>3, SetSymKeepsShape
<1>4. CASE Unary \/ \E op \in BinOps : Binary(op)
  BY <1>4, OperatorsKeepShape
<1>5. ASSUME NEW f \in Funs, Call(f) PROVE JumpInv'
  BY <1>5, CallKeepsShape
<1>6. CASE CallArg
  BY <1>6, CallArgKeepsShape
<1>7. CASE CallEnd
  BY <1>7, CallEndKeepsShape
<1>8. CASE PrintStmt \/ Return \/ \E x \in Idents : \E type : DeclSym(x, type)
  BY <1>8, StatementsKeepShape
<1>9. CASE BodyBegin \/ BlockBegin \/ BlockEnd
  BY <1>9, BlocksKeepShape
<1>10. CASE If(FALSE) \/ If(TRUE)
  BY <1>10, IfKeepsShape
<1>11. CASE Else
  BY <1>11, ElseKeepsShape
<1>12. CASE IfEnd
  BY <1>12, IfEndKeepsShape
<1>13. CASE While
  BY <1>13, WhileKeepsShape
<1>14. CASE WhileBody
  BY <1>14, WhileBodyKeepsShape
<1>15. CASE WhileEnd
  BY <1>15, WhileEndKeepsShape
<1>16. ASSUME NEW f \in Funs, NEW sig \in Sigs, FunDef(f, sig) PROVE JumpInv'
  BY <1>16, FunDefKeepsShape
<1>17. CASE FunDefEnd
  BY <1>17, FunDefEndKeepsShape
<1>18. CASE Finish
  BY <1>18, FinishKeepsShape
<1>19. QED
  BY <1>1, <1>2, <1>3, <1>4, <1>5, <1>6, <1>7, <1>8, <1>9, <1>10, <1>11, <1>12, <1>13,
     <1>14, <1>15, <1>16, <1>17, <1>18 DEF Next

LEMMA JumpInit == Init /\ PlainFuns => JumpInv /\ EndInv
<1> SUFFICES ASSUME Init, PlainFuns PROVE JumpInv /\ EndInv
  OBVIOUS
<1> DEFINE q == Quad("Entry", Nothing, Nothing, Nothing)
           r == Quad("CallNil", Nothing, Nothing, Main)
           s == Quad("Exit", Nothing, Nothing, Nothing)
<1>1. /\ quads = <<q, r, s>> /\ labels = <<Start>> /\ ctx = <<>> /\ lcount = 0
      /\ globals = <<>> /\ finished = FALSE
  BY DEF Init
<1>2. /\ q.op = "Entry" /\ r.op = "CallNil" /\ r.opd2 = Main /\ s.op = "Exit"
      /\ JumpTargets(q) = {} /\ JumpTargets(r) = {Main} /\ JumpTargets(s) = {}
  BY DEF Quad, JumpTargets
<1> HIDE DEF q, r, s
<1>3. Len(quads) = 3 /\ quads[1] = q /\ quads[2] = r /\ quads[3] = s /\ Len(ctx) = 0
  BY <1>1, Tuples
<1>4. LabelIn(labels, 1) = Start /\ \A j \in 2 .. 4 : LabelIn(labels, j) = Nothing
  <2>1. Len(labels) = 1 /\ labels[1] = Start
    BY <1>1
  <2>2. QED
    BY <2>1 DEF LabelIn
<1>5. \A j \in 1 .. 4 : j = 1 \/ j \in 2 .. 4
  OBVIOUS
<1>6. \A k \in 1 .. 3 : k = 1 \/ k = 2 \/ k = 3
  OBVIOUS
<1>7. Start # Nothing /\ Start \notin Funs /\ Main \notin Nat
  BY LabelsAssumption DEF PlainFuns
<1>8. Carried
  <2>1. ASSUME NEW j \in 1 .. 4
        PROVE  LabelIn(labels, j) \in {Nothing, Start} /\ LabelIn(labels, j) \notin Funs
    BY <1>4, <1>5, <1>7, NothingAssumption
  <2>2. QED
    BY <1>3, <2>1 DEF Carried
<1>9. CarriedOnce
  BY <1>3, <1>4, <1>5, <1>7 DEF CarriedOnce
<1>10. Defining
  BY <1>1 DEF Defining
<1>11. Entry
  BY <1>2, <1>3, <1>4 DEF Entry
<1>12. GivenOut
  BY <1>2, <1>3, <1>6, <1>7 DEF GivenOut
<1>13. ConstructsInv
  BY <1>2, <1>3 DEF ConstructsInv
<1>14. RegionsInv
  BY <1>3, <1>4 DEF RegionsInv, RunsInto
<1>15. OpenInv
  BY <1>3 DEF OpenInv
<1>16. QED
  BY <1>1, <1>8, <1>9, <1>10, <1>11, <1>12, <1>13, <1>14, <1>15
     DEF JumpInv, TextInv, EndInv

LEMMA EndNext == WalkInv /\ JumpInv /\ EndInv /\ [Next]_vars => EndInv'
<1> SUFFICES ASSUME WalkInv, JumpInv, EndInv, [Next]_vars PROVE EndInv'
  OBVIOUS
<1>1. CASE Finish
  BY <1>1, FinishKeepsShape
<1>2. CASE Next /\ ~Finish
  <2>1. ~finished /\ finished' = finished
    BY <1>2 DEF Next, Running, Import, FunDef, FunDefEnd, BodyBegin, BlockBegin, OpenBlock,
       BlockEnd, AtStatement, InExpression, StatementEnd, Literal, GetSym, SetSym,
       SetSymUndeclared, SetSymParam, Binary, Unary, Call, CallRejected, CallArg, CallEnd,
       PrintStmt, ExprStmt, Return, DeclSym, If, Else, IfEnd, While, WhileBody, WhileEnd
  <2>2. QED
    BY <2>1, SMTT(40) DEF EndInv
<1>3. CASE UNCHANGED vars
  <2>1. UNCHANGED <<finished, ctx, labels, quads>>
    BY <1>3 DEF vars
  <2>2. QED
    BY <2>1 DEF EndInv
<1>4. QED
  BY <1>1, <1>2, <1>3

LEMMA JumpInductive ==
    ASSUME PlainFuns PROVE Spec => [](WalkInv /\ JumpInv /\ EndInv)
BY JumpInit, JumpNext, EndNext, InitWalk, WalkNext, PTL DEF Spec

=============================================================================
