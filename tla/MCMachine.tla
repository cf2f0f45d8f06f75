----------------------------- MODULE MCMachine -----------------------------
(***************************************************************************)
(* TLC instance of Machine: small programs, as AstFunDef and the statement *)
(* nodes translate them, and every operation of the assembler with every   *)
(* kind of operand.                                                        *)
(***************************************************************************)
EXTENDS Machine

CONSTANTS Main, F, G, L0, L1, L2,   \* labels
          x, y, t, u,                \* operands
          Many                       \* 31 more

ManySeq == FoldSet(LAMBDA v, s : Append(s, v), <<>>, Many)
MCNames == {x, y, t, u} \cup Many

Lab(l, q) == [label |-> l, quad |-> q]
Do(op, target, a, b) == Lab(Nothing, Quad(op, target, a, b))
Call(target, f) == IF target = Nothing THEN Do("CallNil", Nothing, Nothing, f)
                   ELSE Do("CallResult", target, Nothing, f)
Push(a) == Do("PushArg", Nothing, Nothing, a)
Pop(n) == Do("PopArgs", Nothing, Nothing, Slot4 * n)
Ret(a) == Do("Return", Nothing, Nothing, a)
Goto(l) == Do("Goto", Nothing, Nothing, l)
Test(v, no, yes) == Do("CondGoto", v, no, yes)
LabelHere(l) == Lab(l, Quad("EmptyQuad", Nothing, Nothing, Nothing))

\* params and locals are sequences of names: see Frame for the offsets
Fun(f, params, locals, body) ==
    [f |-> f, params |-> params,
     frame |-> [v \in Range(params) \cup Range(locals) |->
                   IF v \in Range(params)
                   THEN Slot4 * ((CHOOSE i \in DOMAIN params : params[i] = v) + 1)
                   ELSE -Slot4 * (CHOOSE i \in DOMAIN locals : locals[i] = v)],
     lines |-> <<Lab(f, Quad("FunBegin", Nothing, Nothing, Slot4 * Len(locals)))>> \o body
                   \o <<Do("FunEnd", Nothing, Nothing, Nothing)>>]

Header == <<Lab(Start, Quad("Entry", Nothing, Nothing, Nothing)), Call(Nothing, Main),
            Do("Exit", Nothing, Nothing, Nothing)>>
Program(funs) ==
    LET lines == FoldLeft(LAMBDA s, g : s \o g.lines, Header, funs)
        def(f) == CHOOSE g \in Range(funs) : g.f = f
        defined == {g.f : g \in Range(funs)}
    IN  [quads |-> [i \in DOMAIN lines |-> lines[i].quad],
         labels |-> [i \in DOMAIN lines |-> lines[i].label],
         frames |-> [f \in defined |-> def(f).frame],
         params |-> [f \in defined |-> def(f).params]]

\* return a op b, of literals
Binary(op, a, b) == Program(<<Fun(Main, <<>>, <<t>>, <<Do(op, t, a, b), Ret(t)>>)>>)

\* main: return f(g(1, 2), 3);  f: return x - y;  g: y := x * y, return y + y
Nested == Program(<<
    Fun(F, <<x, y>>, <<t>>, <<Do("Minus", t, x, y), Ret(t)>>),
    Fun(G, <<x, y>>, <<t, u>>, <<Do("Star", t, x, y), Do("Assign", y, t, Nothing),
                                Do("Plus", u, y, y), Ret(u)>>),
    Fun(Main, <<>>, <<t, u>>, <<Push(3), Push(2), Push(1), Call(t, G), Pop(2), Push(t),
                               Call(u, F), Pop(2), Ret(u)>>)>>)

\* f: if (x < 2) return 1; else return x * f(x - 1);
Factorial(n) == Program(<<
    Fun(F, <<x>>, <<t, u, y>>, <<Do("Less", t, x, 2), Test(t, L0, Nothing), Ret(1), Goto(L1),
        Lab(L0, Quad("Minus", t, x, 1)), Push(t), Call(u, F), Pop(1), Do("Star", y, x, u),
        Ret(y), LabelHere(L1)>>),
    Fun(Main, <<>>, <<t>>, <<Push(n), Call(t, F), Pop(1), Ret(t)>>)>>)

\* while (0 < x) { y = y + x; x = x - 1; } return y; its jump was collapsed
Loop(n) == Program(<<
    Fun(Main, <<>>, <<x, y, t, u>>, <<Do("Assign", x, n, Nothing), Do("Assign", y, 0, Nothing),
        Lab(L0, Quad("Less", t, 0, x)), Test(t, L2, L1),
        Lab(L1, Quad("Plus", u, y, x)), Do("Assign", y, u, Nothing), Do("Minus", u, x, 1),
        Do("Assign", x, u, Nothing), Goto(L0), LabelHere(L2), Ret(y)>>)>>)

\* 32 slots and 30 parameters: the last displacements of eight bits
Wide == Program(<<
    Fun(F, SubSeq(ManySeq, 1, 30), <<t>>, <<Do("Minus", t, ManySeq[1], ManySeq[30]), Ret(t)>>),
    Fun(Main, <<>>, ManySeq \o <<t>>,
        [i \in 1 .. 31 |-> Do("Assign", ManySeq[i], i * i, Nothing)]
            \o [i \in 1 .. 30 |-> Push(ManySeq[31 - i])]
            \o <<Call(t, F), Pop(30), Do("Plus", t, t, ManySeq[31]), Ret(t)>>)>>)

\* f: return nil;  main: f(7); return 5;
NilCall == Program(<<
    Fun(F, <<x>>, <<>>, <<Ret(0)>>),
    Fun(Main, <<>>, <<>>, <<Push(7), Call(Nothing, F), Pop(1), Ret(5)>>)>>)

\* f has no return, and runs on into main
RunsOn == Program(<<
    Fun(F, <<x>>, <<t>>, <<Do("Plus", t, x, 1)>>),
    Fun(Main, <<>>, <<u>>, <<Push(1), Call(Nothing, F), Pop(1), Ret(0)>>)>>)

\* the value of a call of a nil function: returned, an argument, a condition
MissingReturn == Program(<<
    Fun(F, <<>>, <<>>, <<Ret(0)>>),
    Fun(Main, <<>>, <<>>, <<Call(Nothing, F), Pop(0), Ret(Nothing)>>)>>)
MissingArgument == Program(<<
    Fun(F, <<x>>, <<>>, <<Ret(x)>>),
    Fun(Main, <<>>, <<t>>, <<Push(Nothing), Call(t, F), Pop(1), Ret(t)>>)>>)
MissingCondition == Program(<<
    Fun(Main, <<>>, <<t>>, <<Test(Nothing, L0, Nothing), Push(Nothing), LabelHere(L0),
                            Ret(1)>>)>>)
\* two definitions of a function, in the frame of the first
Twice == Program(<<Fun(Main, <<>>, <<t>>, <<Ret(1)>>), Fun(Main, <<>>, <<t>>, <<Ret(2)>>)>>)

Values == {-7, 0, 2, 32767, -32768, -1}
MCPrograms ==
    {Binary(op, a, b) : op \in DOMAIN Operations, a \in Values, b \in Values}
        \cup {Binary(op, a, Nothing) : op \in {"Plus", "Less"}, a \in {2}}
        \cup {Factorial(n) : n \in 1 .. 4} \cup {Loop(n) : n \in 0 .. 3}
        \cup {Nested, Wide, RunsOn, MissingReturn, MissingArgument, MissingCondition, NilCall,
             Twice}

-----------------------------------------------------------------------------
Plus(a, b) == a \o Word("+") \o b
OperandForm(s, o) == [text |-> s, o |-> o]
Mem(r, n) == OperandForm(Word("[") \o Word(r) \o (IF n < 0 THEN Number(n)
                             ELSE IF n = 0 THEN <<>> ELSE Word("+") \o Number(n)) \o Word("]"),
                         Operand("mem", r, n))
Value(s, n) == OperandForm(s, Operand("imm", "", n))
\* an operand that has the form of one and no value, and one that has not
Valueless(s) == OperandForm(s, Operand("valueless", "", 0))
Malformed(s) == OperandForm(s, Operand("malformed", "", 0))
OperandForms ==
    {OperandForm(Word(r), Operand("reg32", r, 0)) : r \in Range(Reg32)}
        \cup {OperandForm(Word(r), Operand("reg8", r, 0)) : r \in Range(Reg8)}
        \cup {Mem("ebp", 4), Mem("ebp", -128), Mem("ecx", 127), Mem("ebp", 0), Mem("ebp", 128),
              Mem("esp", 4)}
        \cup {Value(Number(5), 5), Value(Number(-300), -300), Value(Number(255), 255),
              Value(Plus(Number(2), Number(3) \o Word("*") \o Number(4)), 14),
              Value(Number(9) \o Word("-") \o Number(4) \o Word("-") \o Number(2), 3),
              Value(Number(2) \o Word("*") \o Number(9) \o Word("/") \o Number(4), 4),
              Value(Word("-") \o Number(-6), 6)}
        \cup {OperandForm(Word("[") \o Word("ebp") \o Word("+") \o Number(2) \o Word("*") \o Number(4)
                              \o Word("]"), Operand("mem", "ebp", 8)),
              OperandForm(Label(L0), Operand("ref", "", L0)),
              OperandForm(Number(-6) \o Word("/") \o Number(2), Operand("unsigned", "", -3)),
              Valueless(Number(5) \o Word("/") \o Number(0)), Valueless(Word("-") \o Word("eax")),
              Valueless(Word("[") \o Word("ebp") \o Word("+") \o Word("eax") \o Word("]")),
              Valueless(Word("[") \o Word("ebp") \o Number(-5) \o Word("/") \o Number(0) \o Word("]")),
              Malformed(<<>>), Malformed(Word("mov")),
              Malformed(Word("[") \o Number(4) \o Word("]")),
              Malformed(Word("[") \o Word("ebp") \o Word(","))}

Form(op, s, l, r) == [text |-> s, op |-> op, l |-> l, r |-> r]
MCForms ==
    {Form(op, Two(op, a.text, b.text), a.o, b.o) :
         op \in TwoOperands, a \in OperandForms, b \in OperandForms}
        \cup {Form(op, One(op, a.text), a.o, None) : op \in OneOperand, a \in OperandForms}
        \cup {Form(op, Word(op), None, None) : op \in NoOperand \cup {","}}
        \cup {Form("mov", Word("mov") \o a.text \o b.text, a.o, b.o) :
                  a \in OperandForms, b \in {Mem("ebp", 4)}}
=============================================================================
