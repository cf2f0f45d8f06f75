------------------------------ MODULE Codegen ------------------------------
(***************************************************************************)
(* X86Generator::generate_asm (x86_generator.cpp): the assembly text of    *)
(* the quads whose blocks were kept, one quad per step.                    *)
(*                                                                         *)
(* The text is the sequence of its tokens, for that is all the assembler   *)
(* sees of it: a token is <<kind, value>>, where the value is that of an   *)
(* integer or the name of a label, and 0 otherwise; the keyword int is     *)
(* written intr.  A program is a record                                    *)
(*   quads, labels  in the order of the kept blocks,                       *)
(*   frames         the offsets in m_symbols of the frame of each function,*)
(*   params         the parameters of each function.                       *)
(* In quads a literal is its integer; a name of a variable, parameter or   *)
(* temporary is in Names; the empty string is Nothing.                     *)
(*                                                                         *)
(* A Mutant_* operator is a faulty variant of the definition after it that *)
(* no specification uses; PROJECT.json says which property it breaks.      *)
(***************************************************************************)
EXTENDS Integers, Sequences, TLC

CONSTANTS
    Nothing,     \* the empty string
    Names,       \* the names of operands
    Programs     \* the programs that may be generated

VARIABLES
    phase,       \* generate, parse, assemble, run, or how it ended
    prog,        \* the program
    at,          \* i in the loop over the quads
    frameName,   \* m_frame_name
    frameSize,   \* m_frame_size
    text,        \* m_buf, as tokens
    origin       \* history: the place in text where the code of a quad begins

codegenVars == <<prog, at, frameName, frameSize, text, origin>>

Quad(op, target, opd1, opd2) ==
    [op |-> op, target |-> target, opd1 |-> opd1, opd2 |-> opd2]

\* is_int holds of every string of digits, with or without a sign, and of the
\* empty one
IsInt(x) == x \notin Names

Word(w) == <<<<w, 0>>>>
Label(l) == <<<<"id", l>>>>
Number(n) == IF n < 0 THEN <<<<"-", 0>>, <<"int", -n>>>> ELSE <<<<"int", n>>>>
Mutant_NothingIsZero(x) == Number(IF x = Nothing THEN 0 ELSE x)
Literal(x) == IF x = Nothing THEN <<>> ELSE Number(x)
One(op, a) == Word(op) \o a
Two(op, a, b) == Word(op) \o a \o Word(",") \o b

\* symbol_offset, in the frame of the function that is being generated
Mutant_SymbolOffset(x) ==
    LET f == CHOOSE g \in DOMAIN prog.frames : x \in DOMAIN prog.frames[g]
    IN  prog.frames[f][x]
SymbolOffset(x) == prog.frames[frameName][x]
Slot(x) == Word("[") \o Word("ebp") \o Word("+") \o Number(SymbolOffset(x)) \o Word("]")

Fetch(dst, src) ==
    IF IsInt(src) THEN Two("mov", Word(dst), Literal(src))
                  ELSE Two("mov", Word(dst), Slot(src))
Store(dst, src) == Two("mov", Slot(dst), Word(src))

SetByte(op) == Two("cmp", Word("eax"), Word("ecx")) \o One(op, Word("al"))
                   \o Two("movzx", Word("eax"), Word("al"))
Mutant_NoSignExtension == One("idiv", Word("ecx"))
Division == Word("cdq") \o One("idiv", Word("ecx"))
Operations ==
    [Plus |-> Two("add", Word("eax"), Word("ecx")),
     Minus |-> Two("sub", Word("eax"), Word("ecx")),
     Star |-> Two("imul", Word("eax"), Word("ecx")),
     Slash |-> Division,
     Less |-> SetByte("setl"),
     EqualEqual |-> SetByte("sete"),
     And |-> Two("and", Word("eax"), Word("ecx")),
     Or |-> Two("or", Word("eax"), Word("ecx"))]

Compute(q) == Fetch("eax", q.opd1) \o Fetch("ecx", q.opd2) \o Operations[q.op]
                  \o Store(q.target, "eax")

Mutant_JumpsIfTrue(q) ==
    Fetch("eax", q.target) \o Two("cmp", Word("eax"), Number(0))
        \o (IF q.opd2 = Nothing THEN <<>> ELSE One("je", Label(q.opd2)))
        \o One("jmp", Label(q.opd1))
CondJump(q) ==
    Fetch("eax", q.target) \o Two("cmp", Word("eax"), Number(0))
        \o One("je", Label(q.opd1))
        \o (IF q.opd2 = Nothing THEN <<>> ELSE One("jmp", Label(q.opd2)))

Prologue(q) ==
    One("push", Word("ebp")) \o Two("mov", Word("ebp"), Word("esp"))
        \o Two("sub", Word("esp"), Literal(q.opd2))
Epilogue(q) ==
    Fetch("eax", q.opd2) \o Two("add", Word("esp"), Literal(frameSize))
        \o One("pop", Word("ebp")) \o Word("ret")

PushArg(q) ==
    IF IsInt(q.opd2) THEN One("push", Literal(q.opd2))
                     ELSE Fetch("eax", q.opd2) \o One("push", Word("eax"))

\* the exit system call, with eax as the status
ExitCall ==
    Two("mov", Word("ebx"), Word("eax")) \o Two("mov", Word("eax"), Number(1))
        \o One("intr", Number(128))

Code(q) ==
    CASE q.op = "CondGoto" -> CondJump(q)
      [] q.op = "Entry" -> Two("mov", Word("ebp"), Word("esp"))
      [] q.op = "Exit" -> ExitCall
      [] q.op = "FunBegin" -> Prologue(q)
      [] q.op = "PushArg" -> PushArg(q)
      [] q.op = "PopArgs" -> Two("add", Word("esp"), Literal(q.opd2))
      [] q.op = "CallNil" -> One("call", Label(q.opd2))
      [] q.op = "CallResult" -> One("call", Label(q.opd2)) \o Store(q.target, "eax")
      [] q.op = "Assign" -> Fetch("eax", q.opd1) \o Store(q.target, "eax")
      [] q.op = "Goto" -> One("jmp", Label(q.opd2))
      [] q.op = "Return" -> Epilogue(q)
      [] q.op \in DOMAIN Operations -> Compute(q)
      [] q.op \in {"FunEnd", "EmptyQuad"} -> <<>>

-----------------------------------------------------------------------------
CodegenInit ==
    /\ prog \in Programs
    /\ phase = "generate"
    /\ at = 1
    /\ frameName = Nothing /\ frameSize = Nothing
    /\ text = <<>>
    /\ origin = <<>>

\* one round of the loop in generate_asm: a label is written even for an
\* EmptyQuad, and FunEnd forgets the frame
GenerateQuad ==
    /\ phase = "generate"
    /\ at <= Len(prog.quads)
    /\ LET q == prog.quads[at]
           l == prog.labels[at]
           head == IF l = Nothing THEN <<>> ELSE Label(l) \o Word(":")
       IN  /\ frameName' = CASE q.op = "FunBegin" -> l
                             [] q.op = "FunEnd" -> Nothing
                             [] OTHER -> frameName
           /\ frameSize' = CASE q.op = "FunBegin" -> q.opd2
                             [] q.op = "FunEnd" -> Nothing
                             [] OTHER -> frameSize
           /\ text' = text \o head \o Code(q)
           /\ origin' = IF Code(q) = <<>> THEN origin
                        ELSE (Len(text) + Len(head) + 1 :> at) @@ origin
    /\ at' = at + 1
    /\ UNCHANGED <<phase, prog>>

\* write, and the assembler's lex of what was written
WriteAsm ==
    /\ phase = "generate"
    /\ at > Len(prog.quads)
    /\ phase' = "parse"
    /\ text' = Append(text, <<"eof", 0>>)
    /\ UNCHANGED <<prog, at, frameName, frameSize, origin>>

=============================================================================
