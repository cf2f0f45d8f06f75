------------------------------- MODULE TacGen -------------------------------
(***************************************************************************)
(* The translation of a parsed file into quads: Semant::generate_ir and    *)
(* the emit_ir method of every node (tmdAst.hpp, semant.cpp).              *)
(*                                                                         *)
(* emit_ir walks the tree in post-order, so a behaviour of this module is  *)
(* the walk of some program: an expression node takes the results of its   *)
(* operands from the end of vals (the C++ locals left_result, r, ...) and  *)
(* appends its own; a statement takes the last one.  A node that works     *)
(* before or between its children has an entry on ctx while it is open.    *)
(* Errors do not stop the walk: they are recorded in errors (ems).         *)
(*                                                                         *)
(* A Mutant_* operator is a faulty variant of the definition after it that *)
(* no specification uses; PROJECT.json says which property it breaks.      *)
(***************************************************************************)
EXTENDS Integers, Sequences, FiniteSets

CONSTANTS
    Idents, Anon, MaxTemps, MaxDepth, MaxParams,   \* see Frame
    PrefixOf,    \* the pairs <<m, p>> such that m is a proper prefix of p
    Funs,        \* names of functions the program may define or call
    Imported,    \* the functions of an importable file, with signatures
    Sigs,        \* the signatures [params, ptypes, rtype] of definitions
    Nodes,       \* the kinds of nodes a program uses
    BinOps,      \* its binary operators
    Lit,         \* the operand of a literal
    Nothing,     \* the empty string
    Main, Start, PrintInt, PrintBool,  \* main, _start, _print_int, _print_bool
    MaxQuads,    \* bound: quads in one file
    MaxPending,  \* bound: operands waiting for their operator
    MaxOpen      \* bound: open constructs

Types == {"int", "bool", "nil"}
NodeKinds == {"import", "unary", "call", "print", "exprstmt", "return", "decl",
              "if", "ifelse", "while", "block", "nil"}
Arith == {"Plus", "Minus", "Star", "Slash"}
Plain == Arith \cup {"Less", "EqualEqual", "And", "Or"}
Composite == {"LessEqual", "GreaterEqual", "NotEqual"}

ASSUME FrameAssumption == /\ Anon \notin Idents \cup Funs
                          /\ MaxTemps \in Nat /\ MaxDepth \in Nat /\ MaxParams \in Nat
ASSUME NodesAssumption == Nodes \subseteq NodeKinds
ASSUME BinOpsAssumption == BinOps \subseteq Plain \cup Composite \cup {"Greater"}
ASSUME SigsAssumption ==
    \A s \in Sigs : /\ s.params \in Seq(Idents)
                    /\ s.ptypes \in [1 .. Len(s.params) -> Types]
                    /\ Len(s.params) <= MaxParams
                    /\ s.rtype \in Types
ASSUME ImportedAssumption ==
    \A h \in DOMAIN Imported : Imported[h].ptypes \in Seq(Types)
\* the empty string is no label, and neither it nor a number is a name
ASSUME NothingAssumption == Nothing \notin Nat \cup Funs
ASSUME OperandsAssumption ==
    {Lit, Nothing} \cap ((0 .. MaxTemps) \X (Idents \cup {Anon})) = {}
\* a label made from s_label_counter, _L0, _L1, ..., is here its number
ASSUME LabelsAssumption ==
    /\ Start \notin Nat \cup {Main, Nothing} /\ Main # Nothing
    /\ {Main, PrintInt, PrintBool} \cap Nat = {}

VARIABLES
    cur, depth, live, frame, tables, temps, start, named, reserved, aborted,
    quads,       \* m_quads
    labels,      \* m_tac_labels
    lcount,      \* TacQuad::s_label_counter
    vals,        \* the EmitTacResults of operands not used yet
    ctx,         \* the open constructs
    fun,         \* m_compiling_fun: the signature in force
    types,       \* the type of each declared variable, by its quad name
    globals,     \* m_globals: signatures of the functions defined so far
    imported,    \* an import statement was translated
    errors,      \* ems.has_errors()
    crashed,     \* the compiler read outside a vector
    finished     \* generate_ir returned

frameVars == <<cur, depth, live, frame, tables, temps, start, named, reserved,
               aborted>>
vars == <<frameVars, quads, labels, lcount, vals, ctx, fun, types, globals,
          imported, errors, crashed, finished>>

Fr == INSTANCE Frame

NoFun == [params |-> <<>>, ptypes |-> <<>>, rtype |-> "nil"]

Quad(op, target, opd1, opd2) ==
    [op |-> op, target |-> target, opd1 |-> opd1, opd2 |-> opd2]
Result(temp, type) == [temp |-> temp, type |-> type]
NilResult == Result(Nothing, "nil")

\* One open construct: a block, a function, the parts of an if or a while, or
\* a call whose arguments are being evaluated.
Open(kind, l1, l2) ==
    [kind |-> kind, l1 |-> l1, l2 |-> l2, done |-> FALSE,
     sig |-> NoFun, callee |-> Nothing, left |-> 0, base |-> 0]
Top == IF ctx = <<>> THEN Open("file", Nothing, Nothing) ELSE ctx[Len(ctx)]
Popped == SubSeq(ctx, 1, Len(ctx) - 1)

Running == ~aborted /\ ~crashed /\ ~finished

\* add_tac_label when m_quads has n elements: resize(n, "") and push_back
Mutant_LabelOneEarly(L, n, l) ==
    [i \in 1 .. n |-> IF i = n THEN l ELSE IF i <= Len(L) THEN L[i] ELSE Nothing]
WithLabel(L, n, l) ==
    [i \in 1 .. n + 1 |-> IF i = n + 1 THEN l
                          ELSE IF i <= Len(L) THEN L[i] ELSE Nothing]

Emit(qs) == /\ Len(quads) + Len(qs) <= MaxQuads
            /\ quads' = quads \o qs
Fail(bad) == errors' = (errors \/ bad)

Pending == Len(vals) - Top.base
AtStatement == Running /\ Top.kind = "block" /\ vals = <<>>
InExpression == /\ Running
                /\ Top.kind \in {"block", "cond", "call"}
                /\ Top.kind = "call" => Top.left > 0
Last == vals[Len(vals)]
Replace(n, r) == vals' = Append(SubSeq(vals, 1, Len(vals) - n), r)

-----------------------------------------------------------------------------
\* generate_ir before the walk
Init ==
    /\ Fr!Init
    /\ quads = <<Quad("Entry", Nothing, Nothing, Nothing),
                 Quad("CallNil", Nothing, Nothing, Main),
                 Quad("Exit", Nothing, Nothing, Nothing)>>
    /\ labels = <<Start>>
    /\ lcount = 0
    /\ vals = <<>> /\ ctx = <<>>
    /\ fun = NoFun
    /\ types = <<>> /\ globals = <<>>
    /\ imported = FALSE /\ errors = FALSE /\ crashed = FALSE /\ finished = FALSE

\* AstImport, on its own or in a block: a Semant of its own reads the file,
\* whose errors are reported; what is known of a faulty file is left open
Import ==
    /\ Running /\ (ctx = <<>> \/ AtStatement)
    /\ \/ imported' = TRUE /\ UNCHANGED errors
       \/ imported' \in {imported, TRUE} /\ errors' = TRUE
    /\ UNCHANGED <<frameVars, quads, labels, lcount, vals, ctx, fun, types,
                   globals, crashed, finished>>

\* AstFunDef up to its body: a second definition is an error, compiled on
\* into the frame of the first
FunDef(f, sig) ==
    /\ Running /\ ctx = <<>>
    /\ Fr!BeginFun(f, sig.params)
    /\ globals' = IF f \in DOMAIN globals THEN globals
                  ELSE [g \in DOMAIN globals \cup {f} |->
                           IF g = f THEN sig ELSE globals[g]]
    /\ Fail(f \in DOMAIN globals)
    /\ labels' = WithLabel(labels, Len(quads), f)
    /\ Emit(<<Quad("FunBegin", Nothing, Nothing, Nothing)>>)
    /\ fun' = sig
    /\ ctx' = <<[Open("fun", Nothing, Nothing) EXCEPT !.left = Len(quads) + 1]>>
    /\ UNCHANGED <<lcount, vals, types, imported, crashed, finished>>

\* AstFunDef after its body: FunBegin is patched with the reservation
FunDefEnd ==
    /\ Running /\ Top.kind = "fun" /\ Top.done
    /\ Fr!EndFun
    /\ Len(quads) < MaxQuads
    /\ quads' = Append([quads EXCEPT ![Top.left].opd2 = Fr!Reservation],
                       Quad("FunEnd", Nothing, Nothing, Nothing))
    /\ ctx' = <<>>
    /\ fun' = NoFun
    /\ UNCHANGED <<labels, lcount, vals, types, globals, imported, errors,
                   crashed, finished>>

\* AstBlock before its statements, as a statement of its own and as the body
\* of the construct on top
OpenBlock ==
    /\ Len(ctx) < MaxOpen
    /\ Fr!BeginScope
    /\ ctx' = Append(ctx, Open("block", Nothing, Nothing))
    /\ UNCHANGED <<quads, labels, lcount, vals, fun, types, globals, imported,
                   errors, crashed, finished>>
BlockBegin == AtStatement /\ OpenBlock
BodyBegin ==
    /\ Running
    /\ Top.kind \in {"fun", "then", "else", "body"} /\ ~Top.done
    /\ OpenBlock

BlockEnd ==
    /\ AtStatement
    /\ Fr!EndScope
    /\ ctx' = [i \in 1 .. Len(ctx) - 1 |->
                  [ctx[i] EXCEPT !.done = @ \/ i = Len(ctx) - 1]]
    /\ UNCHANGED <<quads, labels, lcount, vals, fun, types, globals, imported,
                   errors, crashed, finished>>

\* generate_ir after the walk: labels behind every return that has code after
\* it, so that this code is a block of its own
AfterReturn(Q, L) ==
    {i \in 2 .. Len(Q) : /\ Q[i - 1].op = "Return"
                         /\ Q[i].op # "FunEnd"
                         /\ L[i] = Nothing}
Resized(L, n) == [i \in 1 .. n |-> IF i <= Len(L) THEN L[i] ELSE Nothing]
InsertReturnLabels(Q, L, c) ==
    LET P == AfterReturn(Q, L)
    IN  [i \in 1 .. Len(L) |->
            IF i \in P THEN c + Cardinality({j \in P : j < i}) ELSE L[i]]

Finish ==
    /\ Running /\ ctx = <<>>
    /\ LET L == Resized(labels, Len(quads))
       IN  /\ labels' = InsertReturnLabels(quads, L, lcount)
           /\ lcount' = lcount + Cardinality(AfterReturn(quads, L))
    /\ finished' = TRUE
    /\ UNCHANGED <<frameVars, quads, vals, ctx, fun, types, globals, imported,
                   errors, crashed>>

-----------------------------------------------------------------------------
(* Expressions *)

\* AstLiteral
Literal(type) ==
    /\ InExpression
    /\ Len(vals) < MaxPending
    /\ vals' = Append(vals, Result(Lit, type))
    /\ UNCHANGED <<frameVars, quads, labels, lcount, ctx, fun, types, globals,
                   imported, errors, crashed, finished>>

\* strncmp(p, m, len(m)) = 0: the first parameter that m is a prefix of
Matches(m) == {i \in DOMAIN fun.params :
                  fun.params[i] = m \/ <<m, fun.params[i]>> \in PrefixOf}
First(S) == CHOOSE i \in S : \A j \in S : i <= j

\* AstGetSym
GetSym(m) ==
    /\ InExpression
    /\ Len(vals) < MaxPending
    /\ LET syms == Fr!Lookup(live, m)
       IN  IF Matches(m) # {}
           THEN LET i == First(Matches(m))
                IN  /\ vals' = Append(vals, Result(fun.params[i], fun.ptypes[i]))
                    /\ UNCHANGED errors
           ELSE /\ vals' = Append(vals,
                             IF syms = {} THEN NilResult
                             ELSE LET s == CHOOSE s \in syms : TRUE
                                  IN  Result(s.tac, types[s.tac]))
                /\ Fail(syms = {})
    /\ UNCHANGED <<frameVars, quads, labels, lcount, ctx, fun, types, globals,
                   imported, crashed, finished>>

\* AstSetSym of a local variable.  The code finds the symbol before it
\* translates the value, which only makes temporaries: it is the same symbol
\* here unless the program spells a name like one of them (see PlainIdents).
SetSym(m) ==
    /\ InExpression /\ Pending >= 1
    /\ Matches(m) = {}
    /\ \E s \in Fr!Lookup(live, m) :
          IF types[s.tac] = Last.type
          THEN /\ Emit(<<Quad("Assign", s.tac, Last.temp, Nothing)>>)
               /\ Replace(1, Result(s.tac, Last.type))
               /\ UNCHANGED errors
          ELSE /\ Replace(1, NilResult)
               /\ errors' = TRUE
               /\ UNCHANGED quads
    /\ UNCHANGED <<frameVars, labels, lcount, ctx, fun, types, globals,
                   imported, crashed, finished>>

\* AstSetSym of an undeclared name: its value is not even translated
SetSymUndeclared(m) ==
    /\ InExpression
    /\ Len(vals) < MaxPending
    /\ Matches(m) = {} /\ Fr!Lookup(live, m) = {}
    /\ vals' = Append(vals, NilResult)
    /\ errors' = TRUE
    /\ UNCHANGED <<frameVars, quads, labels, lcount, ctx, fun, types, globals,
                   imported, crashed, finished>>

\* AstSetSym of a formal parameter: sym->m_type is the type of the parameter,
\* whose m_ptypes is empty, and m_ptypes[arg_offset] reads outside it
SetSymParam(m) ==
    /\ InExpression /\ Pending >= 1
    /\ Matches(m) # {}
    /\ crashed' = TRUE
    /\ UNCHANGED <<frameVars, quads, labels, lcount, vals, ctx, fun, types,
                   globals, imported, errors, finished>>

Mutant_CounterStands(i) == Fr!TacName(i, Anon)
Mutant_SharedTemp(i) == Fr!TacName(temps, Anon)
Temp(i) == Fr!TacName(temps + i, Anon)

BinQuads(op, l, r) ==
    CASE op \in Plain -> <<Quad(op, Temp(0), l, r)>>
      [] op = "Greater" -> <<Quad("Less", Temp(0), r, l)>>
      [] op = "LessEqual" -> <<Quad("Less", Temp(1), l, r),
                               Quad("EqualEqual", Temp(2), l, r),
                               Quad("Or", Temp(0), Temp(1), Temp(2))>>
      [] op = "GreaterEqual" -> <<Quad("Less", Temp(1), r, l),
                                  Quad("EqualEqual", Temp(2), l, r),
                                  Quad("Or", Temp(0), Temp(1), Temp(2))>>
      [] op = "NotEqual" -> <<Quad("Less", Temp(1), l, r),
                              Quad("Less", Temp(2), r, l),
                              Quad("Or", Temp(0), Temp(1), Temp(2))>>

\* AstBinary
Binary(op) ==
    /\ InExpression /\ Pending >= 2
    /\ LET left == vals[Len(vals) - 1]
           same == left.type = Last.type
           type == IF ~same THEN "nil" ELSE IF op \in Arith THEN "int" ELSE "bool"
       IN  /\ Emit(BinQuads(op, left.temp, Last.temp))
           /\ Replace(2, Result(Temp(0), type))
           /\ Fail(~same)
    /\ IF op \in Composite THEN Fr!AddThreeTemps ELSE Fr!AddTemp
    /\ UNCHANGED <<labels, lcount, ctx, fun, types, globals, imported, crashed,
                   finished>>

\* AstUnary: the type of the operand, not the operator, chooses the code
Unary ==
    /\ InExpression /\ Pending >= 1
    /\ Replace(1, Result(Temp(0), Last.type))
    /\ \/ /\ Last.type = "int"
          /\ Emit(<<Quad("Minus", Temp(0), Lit, Last.temp)>>)
          /\ Fr!AddTemp /\ UNCHANGED errors
       \/ /\ Last.type = "bool"
          /\ Emit(<<Quad("Less", Temp(1), Last.temp, Lit),
                    Quad("Less", Temp(2), Lit, Last.temp),
                    Quad("Or", Temp(0), Temp(1), Temp(2))>>)
          /\ Fr!AddThreeTemps /\ UNCHANGED errors
       \/ /\ Last.type = "nil"
          /\ errors' = TRUE
          /\ Fr!AddTemp /\ UNCHANGED quads
    /\ UNCHANGED <<labels, lcount, ctx, fun, types, globals, imported, crashed,
                   finished>>

\* AstCall: m_globals first, then the imported files
Known == DOMAIN globals \cup (IF imported THEN DOMAIN Imported ELSE {})
Signature(f) == IF f \in DOMAIN globals THEN globals[f] ELSE Imported[f]

Call(f) ==
    /\ InExpression
    /\ f \in Known
    /\ Len(ctx) < MaxOpen /\ Len(vals) < MaxPending
    /\ ctx' = Append(ctx, [Open("call", Nothing, Nothing) EXCEPT
                              !.callee = f, !.sig = Signature(f),
                              !.left = Len(Signature(f).ptypes),
                              !.base = Len(vals)])
    /\ UNCHANGED <<frameVars, quads, labels, lcount, vals, fun, types, globals,
                   imported, errors, crashed, finished>>

\* an unknown function or a wrong number of arguments: nothing is translated
CallRejected(f, count) ==
    /\ InExpression
    /\ f \in Known => count # Len(Signature(f).ptypes)
    /\ Len(vals) < MaxPending
    /\ vals' = Append(vals, NilResult)
    /\ errors' = TRUE
    /\ UNCHANGED <<frameVars, quads, labels, lcount, ctx, fun, types, globals,
                   imported, crashed, finished>>

\* one round of the loop over the arguments, the last one first
CallArg ==
    /\ Running /\ Top.kind = "call" /\ Top.left > 0 /\ Pending = 1
    /\ Emit(<<Quad("PushArg", Nothing, Nothing, Last.temp)>>)
    /\ Fail(Last.type # Top.sig.ptypes[Top.left])
    /\ vals' = SubSeq(vals, 1, Len(vals) - 1)
    /\ ctx' = [ctx EXCEPT ![Len(ctx)].left = @ - 1]
    /\ UNCHANGED <<frameVars, labels, lcount, fun, types, globals, imported,
                   crashed, finished>>

\* add esp, 4 * n
Mutant_PopReturnToo(n) == Quad("PopArgs", Nothing, Nothing, n + 1)
PopArgs(n) == Quad("PopArgs", Nothing, Nothing, n)

CallEnd ==
    /\ Running /\ Top.kind = "call" /\ Top.left = 0 /\ Pending = 0
    /\ LET pop == PopArgs(Len(Top.sig.ptypes))
       IN  IF Top.sig.rtype # "nil"
           THEN /\ Fr!AddTemp
                /\ Emit(<<Quad("CallResult", Temp(0), Nothing, Top.callee), pop>>)
                /\ vals' = Append(vals, Result(Temp(0), Top.sig.rtype))
           ELSE /\ UNCHANGED frameVars
                /\ Emit(<<Quad("CallNil", Nothing, Nothing, Top.callee), pop>>)
                /\ vals' = Append(vals, NilResult)
    /\ ctx' = Popped
    /\ UNCHANGED <<labels, lcount, fun, types, globals, imported, errors,
                   crashed, finished>>

-----------------------------------------------------------------------------
(* Statements *)

StatementEnd == Running /\ Top.kind = "block" /\ Len(vals) = 1 /\ vals' = <<>>

\* AstPrint: a nil argument is pushed and popped but no routine is called
PrintStmt ==
    /\ StatementEnd
    /\ Emit(<<Quad("PushArg", Nothing, Nothing, Last.temp)>>
            \o (CASE Last.type = "int" ->
                       <<Quad("CallNil", Nothing, Nothing, PrintInt)>>
                  [] Last.type = "bool" ->
                       <<Quad("CallNil", Nothing, Nothing, PrintBool)>>
                  [] OTHER -> <<>>)
            \o <<PopArgs(1)>>)
    /\ UNCHANGED <<frameVars, labels, lcount, ctx, fun, types, globals,
                   imported, errors, crashed, finished>>

\* AstExprStmt
ExprStmt ==
    /\ StatementEnd
    /\ UNCHANGED <<frameVars, quads, labels, lcount, ctx, fun, types, globals,
                   imported, errors, crashed, finished>>

\* AstDeclSym: the duplicate is reported, and then add_local is called anyway
DeclSym(x, type) ==
    /\ StatementEnd
    /\ errors' = (\/ errors \/ Matches(x) # {} \/ type # Last.type
                  \/ Fr!DefinedIn(live, depth, x))
    /\ \/ /\ Fr!AddLocal(x)
          /\ Emit(<<Quad("Assign", Fr!TacName(temps, x), Last.temp, Nothing)>>)
          /\ types' = [t \in DOMAIN types \cup {Fr!TacName(temps, x)} |->
                          IF t \in DOMAIN types THEN types[t] ELSE Last.type]
       \/ /\ Fr!AddLocalAborts(x)
          /\ UNCHANGED <<quads, types>>
    /\ UNCHANGED <<labels, lcount, ctx, fun, globals, imported, crashed, finished>>

\* AstReturn
Return ==
    /\ StatementEnd
    /\ Fail(Last.type # fun.rtype)
    /\ Emit(<<Quad("Return", Nothing, Nothing, Last.temp)>>)
    /\ UNCHANGED <<frameVars, labels, lcount, ctx, fun, types, globals,
                   imported, crashed, finished>>

\* AstIf up to its then block: true_label, end_label and, with an else
\* block, false_label
If(hasElse) ==
    /\ StatementEnd
    /\ Len(ctx) < MaxOpen
    /\ Fail(Last.type # "bool")
    /\ LET true_label == lcount
           end_label == lcount + 1
           false_label == lcount + 2
       IN  /\ Emit(<<Quad("CondGoto", Last.temp,
                          IF hasElse THEN false_label ELSE end_label,
                          true_label)>>)
           /\ labels' = WithLabel(labels, Len(quads) + 1, true_label)
           /\ lcount' = lcount + (IF hasElse THEN 3 ELSE 2)
           /\ ctx' = Append(ctx, Open("then", end_label,
                                      IF hasElse THEN false_label ELSE Nothing))
    /\ UNCHANGED <<frameVars, fun, types, globals, imported, crashed, finished>>

\* AstIf between its blocks
Else ==
    /\ Running /\ Top.kind = "then" /\ Top.done /\ Top.l2 # Nothing
    /\ Emit(<<Quad("Goto", Nothing, Nothing, Top.l1)>>)
    /\ labels' = WithLabel(labels, Len(quads) + 1, Top.l2)
    /\ ctx' = Append(Popped, Open("else", Top.l1, Nothing))
    /\ UNCHANGED <<frameVars, lcount, vals, fun, types, globals, imported,
                   errors, crashed, finished>>

\* AstIf after its blocks
IfEnd ==
    /\ Running /\ Top.done
    /\ \/ /\ Top.kind = "then" /\ Top.l2 = Nothing
          /\ UNCHANGED quads
          /\ labels' = WithLabel(labels, Len(quads), Top.l1)
       \/ /\ Top.kind = "else"
          /\ Emit(<<Quad("Goto", Nothing, Nothing, Top.l1)>>)
          /\ labels' = WithLabel(labels, Len(quads) + 1, Top.l1)
    /\ ctx' = Popped
    /\ UNCHANGED <<frameVars, lcount, vals, fun, types, globals, imported,
                   errors, crashed, finished>>

\* AstWhile before its condition
While ==
    /\ AtStatement
    /\ Len(ctx) < MaxOpen
    /\ Emit(<<Quad("Goto", Nothing, Nothing, lcount)>>)
    /\ labels' = WithLabel(labels, Len(quads) + 1, lcount)
    /\ lcount' = lcount + 1
    /\ ctx' = Append(ctx, Open("cond", lcount, Nothing))
    /\ UNCHANGED <<frameVars, vals, fun, types, globals, imported, errors,
                   crashed, finished>>

\* AstWhile between its condition and its block
WhileBody ==
    /\ Running /\ Top.kind = "cond" /\ Len(vals) = 1
    /\ Fail(Last.type # "bool")
    /\ vals' = <<>>
    /\ LET body_l == lcount
           end_l == lcount + 1
       IN  /\ Emit(<<Quad("CondGoto", Last.temp, end_l, body_l)>>)
           /\ labels' = WithLabel(labels, Len(quads) + 1, body_l)
           /\ lcount' = lcount + 2
           /\ ctx' = Append(Popped, Open("body", Top.l1, end_l))
    /\ UNCHANGED <<frameVars, fun, types, globals, imported, crashed, finished>>

\* AstWhile after its block
WhileEnd ==
    /\ Running /\ Top.kind = "body" /\ Top.done
    /\ Emit(<<Quad("Goto", Nothing, Nothing, Top.l1)>>)
    /\ labels' = WithLabel(labels, Len(quads) + 1, Top.l2)
    /\ ctx' = Popped
    /\ UNCHANGED <<frameVars, lcount, vals, fun, types, globals, imported,
                   errors, crashed, finished>>

Next ==
    \/ "import" \in Nodes /\ Import
    \/ Finish
    \/ \E f \in Funs, sig \in Sigs : FunDef(f, sig)
    \/ FunDefEnd \/ BodyBegin \/ BlockEnd
    \/ "block" \in Nodes /\ BlockBegin
    \/ \E type \in {"int", "bool"} \cup (Nodes \cap {"nil"}) : Literal(type)
    \/ \E m \in Idents : \/ GetSym(m) \/ SetSym(m)
                         \/ SetSymUndeclared(m) \/ SetSymParam(m)
    \/ \E op \in BinOps : Binary(op)
    \/ "unary" \in Nodes /\ Unary
    \/ "call" \in Nodes /\ \E f \in Funs :
            Call(f) \/ \E n \in 0 .. MaxParams : CallRejected(f, n)
    \/ CallArg \/ CallEnd
    \/ "print" \in Nodes /\ PrintStmt
    \/ "exprstmt" \in Nodes /\ ExprStmt
    \/ "return" \in Nodes /\ Return
    \/ "decl" \in Nodes /\ \E x \in Idents, type \in Types : DeclSym(x, type)
    \/ "if" \in Nodes /\ If(FALSE)
    \/ "ifelse" \in Nodes /\ If(TRUE)
    \/ Else \/ IfEnd
    \/ "while" \in Nodes /\ While
    \/ WhileBody \/ WhileEnd

Spec == Init /\ [][Next]_vars

-----------------------------------------------------------------------------
LabelAt(i) == IF i \in DOMAIN labels THEN labels[i] ELSE Nothing

\* what a quad reads
Reads(q) ==
    CASE q.op \in Plain -> {q.opd1, q.opd2}
      [] q.op = "Assign" -> {q.opd1}
      [] q.op = "CondGoto" -> {q.target}
      [] q.op \in {"PushArg", "Return"} -> {q.opd2}
      [] OTHER -> {}
Writes(q) == IF q.op \in Plain \cup {"Assign", "CallResult"} THEN {q.target} ELSE {}
IsTemp(t) == t \in Fr!TacNames /\ t[2] = Anon
IsJump(q) == q.op \in {"Goto", "CondGoto"}
LeavesBlock(q) == q.op \in {"Goto", "CondGoto", "Return", "FunBegin", "FunEnd"}

(***************************************************************************)
(* The temporary that holds a result is written once, before it is read,   *)
(* and in the same basic block: no label and no jump lies between.  The    *)
(* optimizer's passes over neighbouring quads and the block-wise removal   *)
(* of code both rely on it.                                                *)
(***************************************************************************)
TempsBlockLocal ==
    ~errors => \A u \in DOMAIN quads : \A t \in Reads(quads[u]) :
        IsTemp(t) =>
            \E d \in 1 .. u - 1 :
                /\ t \in Writes(quads[d])
                /\ \A i \in DOMAIN quads : t \in Writes(quads[i]) => i = d
                /\ \A k \in d + 1 .. u : LabelAt(k) = Nothing
                /\ \A k \in d + 1 .. u - 1 : ~LeavesBlock(quads[k])

(***************************************************************************)
(* Every operand is a literal, or has an entry in the frame the code       *)
(* generator will read for it, that of the label on the last FunBegin: a   *)
(* parameter above ebp or a local below it.  The empty operand of a nil    *)
(* result is excluded.                                                     *)
(***************************************************************************)
Function(i) ==
    LET begins == {k \in 1 .. i : quads[k].op = "FunBegin"}
    IN  IF begins = {} THEN Nothing
        ELSE LabelAt(CHOOSE k \in begins : \A j \in begins : j <= k)
EntriesOf(f) == IF f = cur THEN frame ELSE tables[f]
OperandsHaveSlots ==
    ~errors =>
        \A i \in DOMAIN quads :
            \A t \in (Reads(quads[i]) \cup Writes(quads[i])) \ {Lit, Nothing} :
                \/ Function(i) = cur /\ \E s \in live : s.tac = t
                \/ \E e \in EntriesOf(Function(i)) :
                       e.key = t /\ (e.off < 0 <=> t \notin Idents)

(***************************************************************************)
(* The machine stack is level wherever control can arrive or leave: at a   *)
(* label, a jump, a return, a function's first and last quad, no argument  *)
(* is on it.  Return and the slots below ebp depend on it (add esp, pop    *)
(* ebp), and so does the callee that finds its arguments above ebp.        *)
(***************************************************************************)
Pushed(n) == Cardinality({i \in 1 .. n : quads[i].op = "PushArg"})
PopsAt(n) == {i \in 1 .. n : quads[i].op = "PopArgs"}
PoppedBy(n) == Cardinality(UNION {{i} \X (1 .. quads[i].opd2) : i \in PopsAt(n)})
Level(n) == Pushed(n) = PoppedBy(n)
StackLevel ==
    \A i \in DOMAIN quads :
        LeavesBlock(quads[i]) \/ LabelAt(i) # Nothing => Level(i - 1)

(***************************************************************************)
(* An operand is a name, and its value is read only when its operator is   *)
(* emitted.  Until then nothing overwrites a temporary that waits; only an *)
(* assignment the program writes into the other operand, x + (x = 1), can  *)
(* change an operand, and then it is a variable or a parameter.            *)
(***************************************************************************)
PendingOperandsKept ==
    [][\A i \in DOMAIN vals \cap DOMAIN vals' :
          vals'[i] = vals[i] =>
              \A k \in Len(quads) + 1 .. Len(quads') :
                  vals[i].temp \in Writes(quads'[k]) =>
                      ~IsTemp(vals[i].temp) /\ \E m \in Idents : SetSym(m)]_vars

(***************************************************************************)
(* A label that is on an emitted quad stays there: add_tac_label cuts only *)
(* what lies behind the last quad, and insert_return_labels fills only     *)
(* free places.                                                            *)
(***************************************************************************)
LabelsStable ==
    [][\A i \in DOMAIN quads :
          LabelAt(i) # Nothing => labels'[i] = labels[i]]_vars

(***************************************************************************)
(* The prologue of every function that is finished reserves the words of   *)
(* all its locals, so that no push of a call overwrites one: FunBegin is   *)
(* emitted before the first local is known and patched through the index   *)
(* and the counter kept from there, after all scopes and temporaries.      *)
(***************************************************************************)
ReservationInCode ==
    ~errors =>
        \A i \in DOMAIN quads :
            quads[i].op = "FunBegin" /\ LabelAt(i) # cur =>
                \A e \in tables[LabelAt(i)] : e.off < 0 => -e.off <= quads[i].opd2

\* No function the program defines or calls is spelled like a label that the
\* compiler makes; the lexer lets a name begin with an underscore.
PlainFuns == Funs \cap ({Start} \cup Nat) = {}

(***************************************************************************)
(* Claims of the source that the code does not keep.                       *)
(***************************************************************************)

\* type.hpp: m_ptypes is for types with m_dtype == T_FUN_TYPE
OnlyFunctionsHaveParameterTypes == ~crashed

\* AstGetSym: "symbol is formal parameter"
FormalParameterIsNamed ==
    [][\A m \in Idents : GetSym(m) =>
          LET t == vals'[Len(vals')].temp IN t \in Idents => t = m]_vars

\* Every jump of a translated file has its label on some quad.
JumpsHaveTargets ==
    finished => \A i \in DOMAIN quads :
                    IsJump(quads[i]) =>
                        \A l \in {quads[i].opd2} \cup
                                  (IF quads[i].op = "CondGoto" THEN {quads[i].opd1} ELSE {}) :
                            \E j \in DOMAIN quads : labels[j] = l

=============================================================================
