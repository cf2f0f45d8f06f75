------------------------------ MODULE Machine ------------------------------
(***************************************************************************)
(* What the bytes of Assembly do, beside what the quads they come from     *)
(* say.                                                                    *)
(*                                                                         *)
(* The processor is external: Decode and the Execute actions follow the    *)
(* Intel manual for the instructions X86Generator writes.  The quads have  *)
(* a machine of their own (source), which keeps the variables of every     *)
(* activation by name and knows no stack, no register and no address.      *)
(* When the processor comes to the code of another quad, the quad it left  *)
(* is executed by the other machine, in the same step; the invariants say  *)
(* that the two agree there.                                               *)
(*                                                                         *)
(* A run begins either with a program, or with one statement of assembly   *)
(* (a form), which is assembled and not executed.                          *)
(***************************************************************************)
EXTENDS Assembly, Bitwise

CONSTANTS
    Start,       \* the label _start, which Linker makes the entry point
    Forms,       \* statements: the text and the operands they mean
    StackTop     \* esp when the program begins

VARIABLES
    eip, regs, flags, mem,   \* the processor and its stack
    source                   \* the machine of the quads

cpuVars == <<eip, regs, flags, mem>>
vars == <<phase, codegenVars, asmVars, cpuVars, source>>

Junk == 77
Slot4 == 4

-----------------------------------------------------------------------------
(* Decoding, after the opcode tables of the Intel manual *)

Instruction(op, l, r, len) == [op |-> op, l |-> l, r |-> r, len |-> len]
Undecodable == Instruction("bad", None, None, 0)
Reg(k) == Operand("reg32", Reg32[k + 1], 0)
Byte(a) == IF a \in 0 .. Len(buf) - 1 THEN buf[a + 1] ELSE 0
Imm(a) == Operand("imm", "", Signed(FoldFunction(+, 0, [i \in 1 .. WordBytes |->
                                                          Byte(a + i - 1) * 256 ^ (i - 1)])))
SignedByte(b) == IF b > 127 THEN b - 256 ELSE b
Mod(a) == Byte(a) \div 64
Ext(a) == (Byte(a) \div 8) % 8
Rm(a) == Byte(a) % 8
\* the r/m operand; esp as a base would need another byte
RmOperand(a) ==
    CASE Mod(a) = 3 -> Reg(Rm(a))
      [] Mod(a) = 1 /\ Rm(a) # 4 -> Operand("mem", Reg32[Rm(a) + 1], SignedByte(Byte(a + 1)))
      [] OTHER -> None
Conditions == (132 :> "je") @@ (133 :> "jnz") @@ (143 :> "jg")
SetConditions == (148 :> "sete") @@ (149 :> "setne") @@ (156 :> "setl") @@ (157 :> "setge")
                     @@ (158 :> "setle") @@ (159 :> "setg")
RmReg == (1 :> "add") @@ (9 :> "or") @@ (33 :> "and") @@ (41 :> "sub") @@ (57 :> "cmp")
             @@ (137 :> "mov")
RegRm == (51 :> "xor") @@ (139 :> "mov")
EaxImm == (5 :> "add") @@ (45 :> "sub") @@ (61 :> "cmp") @@ (169 :> "test")
Group1 == (0 :> "add") @@ (5 :> "sub") @@ (7 :> "cmp")
Group3 == (3 :> "neg") @@ (6 :> "div") @@ (7 :> "idiv")
Group5 == (0 :> "inc") @@ (1 :> "dec") @@ (6 :> "push")

Escaped(a) ==
    LET b == Byte(a + 1)
    IN  CASE b \in DOMAIN Conditions ->
                Instruction(Conditions[b], Imm(a + 2), None, 2 + WordBytes)
          [] b \in DOMAIN SetConditions /\ Mod(a + 2) = 3 ->
                Instruction(SetConditions[b], Operand("reg8", Reg8[Rm(a + 2) + 1], 0), None, 3)
          [] b = 175 -> Instruction("imul", Reg(Ext(a + 2)), RmOperand(a + 2), 3)
          [] b = 182 /\ Mod(a + 2) = 3 ->
                Instruction("movzx", Reg(Ext(a + 2)), Operand("reg8", Reg8[Rm(a + 2) + 1], 0), 3)
          [] OTHER -> Undecodable

ModRmLength(a) == IF Mod(a) = 1 THEN 3 ELSE 2

Decode(a) ==
    LET b == Byte(a)
        m == a + 1
    IN  CASE b = 15 -> Escaped(a)
          [] b \in DOMAIN RmReg -> Instruction(RmReg[b], RmOperand(m), Reg(Ext(m)), ModRmLength(m))
          [] b \in DOMAIN RegRm -> Instruction(RegRm[b], Reg(Ext(m)), RmOperand(m), ModRmLength(m))
          [] b \in DOMAIN EaxImm -> Instruction(EaxImm[b], Reg(0), Imm(m), 1 + WordBytes)
          [] b = 129 /\ Mod(m) = 3 /\ Ext(m) \in DOMAIN Group1 ->
                Instruction(Group1[Ext(m)], Reg(Rm(m)), Imm(a + 2), 2 + WordBytes)
          [] b = 247 /\ Mod(m) = 3 /\ Ext(m) = 0 ->
                Instruction("test", Reg(Rm(m)), Imm(a + 2), 2 + WordBytes)
          [] b = 247 /\ Mod(m) = 3 /\ Ext(m) \in DOMAIN Group3 ->
                Instruction(Group3[Ext(m)], Reg(Rm(m)), None, 2)
          [] b = 255 /\ Mod(m) = 3 /\ Ext(m) \in DOMAIN Group5 ->
                Instruction(Group5[Ext(m)], Reg(Rm(m)), None, 2)
          [] b \in 88 .. 95 -> Instruction("pop", Reg(b - 88), None, 1)
          [] b \in 184 .. 191 -> Instruction("mov", Reg(b - 184), Imm(m), 1 + WordBytes)
          [] b = 104 -> Instruction("push", Imm(m), None, 1 + WordBytes)
          [] b = 232 -> Instruction("call", Imm(m), None, 1 + WordBytes)
          [] b = 233 -> Instruction("jmp", Imm(m), None, 1 + WordBytes)
          [] b = 205 -> Instruction("intr", Operand("imm", "", Byte(m)), None, 2)
          [] b = 153 -> Instruction("cdq", None, None, 1)
          [] b = 195 -> Instruction("ret", None, None, 1)
          [] OTHER -> Undecodable

-----------------------------------------------------------------------------
(* The machine of the quads *)

Quads == prog.quads
Entry(f) == CHOOSE i \in DOMAIN Quads : prog.labels[i] = f
Activation(f, env, ret) == [fun |-> f, env |-> env, ret |-> ret]
NoFrame == Activation(Nothing, <<>>, 0)
SourceStart == [pc |-> 1, acts |-> <<NoFrame>>, args |-> <<>>, result |-> Junk, status |-> "run"]

TopOf(s) == s.acts[Len(s.acts)]
ValueOf(s, x) == IF IsInt(x) THEN x ELSE TopOf(s).env[x]
Bound(s, x, v) == [s EXCEPT !.acts[Len(s.acts)].env = (x :> v) @@ TopOf(s).env]
Truth(b) == IF b THEN 1 ELSE 0
\* the quotient of idiv, which truncates
Quotient(a, b) == LET q == (IF a < 0 THEN -a ELSE a) \div (IF b < 0 THEN -b ELSE b)
                  IN  IF (a < 0) = (b < 0) THEN q ELSE -q
Applied(op, a, b) ==
    CASE op = "Plus" -> Signed(a + b)
      [] op = "Minus" -> Signed(a - b)
      [] op = "Star" -> Signed(a * b)
      [] op = "Slash" -> Quotient(a, b)
      [] op = "Less" -> Truth(a < b)
      [] op = "EqualEqual" -> Truth(a = b)
      [] op = "And" -> Signed(Unsigned(a) & Unsigned(b))
      [] op = "Or" -> Signed(Unsigned(a) | Unsigned(b))

\* the quad at i, past those that do nothing
RECURSIVE SkipFrom(_)
SkipFrom(i) == IF Quads[i].op = "EmptyQuad" THEN SkipFrom(i + 1) ELSE i
Goes(s, i) == LET j == SkipFrom(i)
              IN  [s EXCEPT !.pc = j,
                            !.status = IF Quads[j].op = "FunEnd" THEN "fell" ELSE s.status]
Called(s, f) ==
    LET n == Len(prog.params[f])
        arg(x) == LET i == CHOOSE j \in 1 .. n : prog.params[f][j] = x
                  IN  s.args[Len(s.args) + 1 - i]
    IN  Goes([s EXCEPT !.acts = Append(@, Activation(f, [x \in Range(prog.params[f]) |-> arg(x)],
                                                     s.pc))],
             Entry(f))
Returned(s, v) ==
    LET back == TopOf(s).ret
        below == [s EXCEPT !.acts = SubSeq(@, 1, Len(@) - 1), !.result = v]
        q == Quads[back]
    IN  Goes(IF q.op = "CallResult" THEN Bound(below, q.target, v) ELSE below, back + 1)
QuadStep(s) ==
    LET q == Quads[s.pc]
    IN  CASE q.op \in {"Entry", "FunBegin"} -> Goes(s, s.pc + 1)
          [] q.op = "Exit" -> [s EXCEPT !.status = "exit"]
          [] q.op \in {"CallNil", "CallResult"} -> Called(s, q.opd2)
          [] q.op = "PushArg" ->
                Goes([s EXCEPT !.args = Append(@, ValueOf(s, q.opd2))], s.pc + 1)
          [] q.op = "PopArgs" ->
                Goes([s EXCEPT !.args = SubSeq(@, 1, Len(@) - q.opd2 \div Slot4)], s.pc + 1)
          [] q.op = "Assign" -> Goes(Bound(s, q.target, ValueOf(s, q.opd1)), s.pc + 1)
          [] q.op = "Goto" -> Goes(s, Entry(q.opd2))
          [] q.op = "CondGoto" ->
                Goes(s, IF ValueOf(s, q.target) = 0 THEN Entry(q.opd1)
                        ELSE IF q.opd2 = Nothing THEN s.pc + 1 ELSE Entry(q.opd2))
          [] q.op = "Return" -> Returned(s, ValueOf(s, q.opd2))
          [] q.op \in DOMAIN Operations ->
                LET a == ValueOf(s, q.opd1)
                    b == ValueOf(s, q.opd2)
                IN  IF q.op = "Slash" /\ (b = 0 \/ Quotient(a, b) # Signed(Quotient(a, b)))
                    THEN [s EXCEPT !.status = "trap"]
                    ELSE Goes(Bound(s, q.target, Applied(q.op, a, b)), s.pc + 1)

-----------------------------------------------------------------------------
(* The processor *)

At(a) == IF a \in DOMAIN mem THEN mem[a] ELSE Junk
Get(o) == CASE o.kind = "imm" -> o.val
            [] o.kind = "reg32" -> regs[o.reg]
            [] o.kind = "reg8" -> Unsigned(regs[Reg32[BitPattern(Reg8, o.reg) + 1]]) % 256
            [] o.kind = "mem" -> At(regs[o.reg] + o.val)
Current == Decode(eip)
Following == eip + Current.len
SetReg(r, v) == regs' = [regs EXCEPT ![r] = v]
Compares(e) == flags' = [zero |-> Signed(e) = 0, less |-> e < 0]

Executed == {"mov", "movzx", "add", "sub", "cmp", "imul", "and", "or", "setl", "sete", "cdq",
             "idiv", "push", "pop", "call", "ret", "jmp", "je"}

ExecuteMove ==
    LET i == Current
    IN  /\ i.op \in {"mov", "movzx"}
        /\ IF i.l.kind = "mem"
           THEN mem' = (regs[i.l.reg] + i.l.val :> Get(i.r)) @@ mem /\ UNCHANGED regs
           ELSE SetReg(i.l.reg, Get(i.r)) /\ UNCHANGED mem
        /\ eip' = Following
        /\ UNCHANGED <<flags, phase>>

ExecuteArithmetic ==
    LET i == Current
        a == Get(i.l)
        b == Get(i.r)
        exact == CASE i.op = "add" -> a + b
                   [] i.op \in {"sub", "cmp"} -> a - b
                   [] i.op = "imul" -> a * b
                   [] i.op = "and" -> Signed(Unsigned(a) & Unsigned(b))
                   [] i.op = "or" -> Signed(Unsigned(a) | Unsigned(b))
    IN  /\ i.op \in {"add", "sub", "cmp", "imul", "and", "or"}
        /\ Compares(exact)
        /\ IF i.op = "cmp" THEN UNCHANGED regs ELSE SetReg(i.l.reg, Signed(exact))
        /\ eip' = Following
        /\ UNCHANGED <<mem, phase>>

\* setl and sete write the low byte of a register
ExecuteSet ==
    LET i == Current
        r == Reg32[BitPattern(Reg8, i.l.reg) + 1]
        bit == Truth(IF i.op = "setl" THEN flags.less ELSE flags.zero)
    IN  /\ i.op \in {"setl", "sete"}
        /\ SetReg(r, Signed(256 * (Unsigned(regs[r]) \div 256) + bit))
        /\ eip' = Following
        /\ UNCHANGED <<mem, flags, phase>>

\* cdq, and idiv of edx:eax, which traps when there is no quotient
ExecuteDivide ==
    LET i == Current
        d == Get(i.l)
        n == regs["edx"] * Modulus + Unsigned(regs["eax"])
        q == Quotient(n, d)
    IN  /\ i.op \in {"cdq", "idiv"}
        /\ IF i.op = "cdq"
           THEN SetReg("edx", IF regs["eax"] < 0 THEN -1 ELSE 0) /\ UNCHANGED phase
           ELSE IF d = 0 \/ q # Signed(q) THEN phase' = "trapped" /\ UNCHANGED regs
           ELSE /\ regs' = [regs EXCEPT !["eax"] = q, !["edx"] = n - q * d]
                /\ UNCHANGED phase
        /\ eip' = Following
        /\ UNCHANGED <<mem, flags>>

ExecuteStack ==
    LET i == Current
        sp == regs["esp"]
    IN  /\ i.op \in {"push", "pop"}
        /\ IF i.op = "push"
           THEN mem' = (sp - Slot4 :> Get(i.l)) @@ mem /\ SetReg("esp", sp - Slot4)
           ELSE /\ regs' = [regs EXCEPT !["esp"] = sp + Slot4, ![i.l.reg] = At(sp)]
                /\ UNCHANGED mem
        /\ eip' = Following
        /\ UNCHANGED <<flags, phase>>

ExecuteControl ==
    LET i == Current
        sp == regs["esp"]
    IN  /\ i.op \in {"call", "ret", "jmp", "je"}
        /\ CASE i.op = "call" -> /\ mem' = (sp - Slot4 :> Following) @@ mem
                                 /\ SetReg("esp", sp - Slot4)
                                 /\ eip' = Following + i.l.val
             [] i.op = "ret" -> /\ SetReg("esp", sp + Slot4)
                                /\ eip' = At(sp)
                                /\ UNCHANGED mem
             [] OTHER -> /\ eip' = IF i.op = "je" /\ ~flags.zero THEN Following
                                   ELSE Following + i.l.val
                         /\ UNCHANGED <<regs, mem>>
        /\ UNCHANGED <<flags, phase>>

\* int 0x80 with 1 in eax ends the process, with ebx as its status; any other
\* instruction is not what X86Generator writes
ExecuteSystemCall ==
    /\ Current.op \notin Executed
    /\ phase' = IF Current.op = "intr" /\ Current.l.val = 128 /\ regs["eax"] = 1
                THEN "halted" ELSE "wild"
    /\ eip' = Following
    /\ UNCHANGED <<regs, flags, mem>>

\* the quad that was left is executed by the other machine
Follow ==
    source' = IF source.status = "run" /\ (eip' \in DOMAIN begins \/ phase' # "run")
              THEN QuadStep(source) ELSE source

Execute ==
    /\ phase = "run"
    /\ source.status = "run"
    /\ \/ ExecuteMove \/ ExecuteArithmetic \/ ExecuteSet \/ ExecuteDivide \/ ExecuteStack
       \/ ExecuteControl \/ ExecuteSystemCall
    /\ Follow
    /\ UNCHANGED <<codegenVars, asmVars>>

-----------------------------------------------------------------------------
MachineInit ==
    /\ eip = 0
    /\ regs = [r \in Range(Reg32) |-> IF r = "esp" THEN StackTop ELSE Junk]
    /\ flags = [zero |-> FALSE, less |-> FALSE]
    /\ mem = <<>>
    /\ source = SourceStart

FormInit ==
    /\ \E form \in Forms :
          /\ prog = [form |-> form]
          /\ text = Append(form.text, <<"eof", 0>>)
    /\ phase = "parse"
    /\ at = 1
    /\ frameName = Nothing /\ frameSize = Nothing
    /\ origin = <<>>

Init == (CodegenInit \/ FormInit) /\ AsmInit /\ MachineInit

\* the system loads the file and jumps to _start
Load ==
    /\ phase = "linked"
    /\ "form" \notin DOMAIN prog
    /\ phase' = "run"
    /\ eip' = table[Start]
    /\ UNCHANGED <<codegenVars, asmVars, regs, flags, mem, source>>

Generate == (GenerateQuad \/ WriteAsm) /\ UNCHANGED <<asmVars, cpuVars, source>>
Assemble == AssembleNext /\ UNCHANGED <<cpuVars, source>>

\* there is something left to do; Done makes TLC report every other end as a
\* deadlock
Busy == \/ phase \in {"generate", "parse", "assemble"}
        \/ phase = "linked" /\ "form" \notin DOMAIN prog
        \/ phase = "run" /\ source.status = "run"

Done == ~Busy /\ UNCHANGED vars
Next == Generate \/ Assemble \/ Load \/ Execute \/ Done

\* the compiler and the processor go on while they can: this is WF_vars(Next),
\* with Busy in the place of ENABLED <<Next>>_vars
Progress == []<>(~Busy) \/ []<><<TRUE>>_vars

Spec == Init /\ [][Next]_vars /\ Progress

-----------------------------------------------------------------------------
(* Properties *)

AtQuad == phase = "run" /\ source.status = "run" /\ eip \in DOMAIN begins
\* a function is entered when its prologue has been executed
Entered == Len(source.acts) - Truth(Quads[source.pc].op = "FunBegin")
Bases == [k \in 1 .. Entered |->
             LET base[n \in Nat] == IF n = Entered THEN regs["ebp"] ELSE At(base[n + 1])
             IN  base[k]]
FrameSizeOf(f) == Quads[Entry(f)].opd2
CodeOf(i) == CHOOSE a \in DOMAIN begins : begins[a] = i

\* the processor is at the quad which the program executes next
ControlAgrees == begins[eip] = source.pc

\* every variable, parameter and temporary of every activation is in its slot,
\* and every activation returns to the instruction after its call
ActivationsAgree ==
    \A k \in 2 .. Entered :
        LET act == source.acts[k]
        IN  /\ \A v \in DOMAIN act.env : At(Bases[k] + prog.frames[act.fun][v]) = act.env[v]
            /\ At(Bases[k] + Slot4) = CodeOf(act.ret) + 1 + WordBytes

\* the stack holds the frames, saved registers and return addresses of the
\* entered functions and the arguments pushed so far, and no more
StackBalanced ==
    StackTop - regs["esp"] =
        Slot4 * (Len(source.args) + Truth(Entered < Len(source.acts)))
            + FoldFunction(+, 0, [k \in 2 .. Entered |->
                                     2 * Slot4 + FrameSizeOf(source.acts[k].fun)])

\* Whenever the processor comes to the code of a quad, the program is at that
\* quad, and the stack agrees with the activations, of the callers as well as
\* of the running function: labels, calls and returns lead where the quads say,
\* prologues and epilogues are balanced, and no callee, argument or temporary
\* overwrites what an outer activation still needs.
LockStep == AtQuad => ControlAgrees /\ ActivationsAgree /\ StackBalanced

\* The process ends as the quads say: with the value main returned as its
\* status, with a trap exactly at a division without a quotient, and never at
\* bytes that are no instruction.
OutcomeAgrees ==
    /\ phase = "halted" => source.status = "exit" /\ regs["ebx"] = source.result
    /\ phase = "trapped" <=> source.status = "trap"
    /\ phase # "wild"

\* The forms the assembler is known to accept and to encode as something else,
\* or not to survive: a displacement that takes more than a byte, esp as a base,
\* je to an operand that is no label, an interrupt number of more than a byte,
\* pop to something else than a register; and an expression, also that of a
\* displacement, with a negative dividend (unsigned) or with a divisor 0 or an
\* operand that is no number (valueless).
Limit(form) ==
    \/ \E o \in {form.l, form.r} :
          \/ o.kind \in {"valueless", "unsigned"}
          \/ o.kind = "mem" /\ (o.reg = "esp" \/ o.val \notin -128 .. 127)
    \/ form.op = "je" /\ form.l.kind # "ref"
    \/ form.op = "pop" /\ form.l.kind # "reg32"
    \/ form.op = "intr" /\ form.l.val \notin 0 .. 255

\* Every statement of assembly is reported as an error, or its bytes decode to
\* the operation and the operands it names, in full and with nothing after it,
\* outside the limits above.
RejectedOrDecodes ==
    "form" \in DOMAIN prog /\ ~Limit(prog.form) =>
        /\ phase # "aborted"
        /\ phase = "linked" =>
              LET i == Decode(0)
              IN  /\ i.op = prog.form.op
                  /\ i.len = Len(buf)
                  /\ prog.form.l.kind # "ref" => i.l = prog.form.l
                  /\ i.r = prog.form.r

\* A quad that lacks an operand, as that for the value of a call of a nil
\* function, never becomes an instruction: is_int holds of the empty string, so
\* X86Generator writes the operation without it, and Assembler takes what
\* follows for the operand; an error is reported for every such file.
UsedBy(q) ==
    CASE q.op = "Return" \/ q.op = "PushArg" -> {q.opd2}
      [] q.op = "Assign" -> {q.opd1}
      [] q.op = "CondGoto" -> {q.target}
      [] q.op \in DOMAIN Operations -> {q.opd1, q.opd2}
      [] OTHER -> {}
MissingOperandReported ==
    "form" \notin DOMAIN prog /\ (\E q \in Range(Quads) : Nothing \in UsedBy(q))
        => phase \in {"generate", "parse", "assemble", "rejected"}

\* The compiler ends on every file, and the program it wrote ends too (each of
\* Programs does) unless it leaves a function without a return.
Ends == <>(\/ phase \in {"rejected", "aborted", "halted", "trapped"}
           \/ phase = "linked" /\ "form" \in DOMAIN prog
           \/ source.status = "fell")
=============================================================================
