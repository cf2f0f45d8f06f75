------------------------------ MODULE Assembly ------------------------------
(***************************************************************************)
(* Assembler::parse and append_program (assembler.cpp, assembler.hpp): the *)
(* tokens of an assembly file become nodes, and each node its bytes.       *)
(*                                                                         *)
(* The nodes of an expression are used for their value only, so parsing    *)
(* gives the value.  A word has WordBytes bytes: 4 in the code.            *)
(* Labels are found and patched as Linkage says for whole files.           *)
(*                                                                         *)
(* A Mutant_* operator is a faulty variant of the definition after it that *)
(* no specification uses; PROJECT.json says which property it breaks.      *)
(***************************************************************************)
EXTENDS Codegen, SequencesExt

CONSTANTS
    Labels,      \* the names of labels
    WordBytes    \* bytes in a word: 4 in the code

VARIABLES
    current,     \* m_current
    nodes,       \* m_nodes
    errors,      \* ems.has_errors()
    next,        \* the node append_program is at
    buf,         \* the text section in m_buf
    table,       \* m_labels: the addresses of the labels defined so far
    fields,      \* m_rjmp_addr: label and place of each reference
    begins       \* history: the address where the code of a quad begins

asmVars == <<current, nodes, errors, next, buf, table, fields, begins>>

Modulus == 256 ^ WordBytes
Signed(n) == ((n + Modulus \div 2) % Modulus) - Modulus \div 2
Unsigned(n) == n % Modulus

Reg32 == <<"eax", "ecx", "edx", "ebx", "esp", "ebp", "esi", "edi">>
Reg8 == <<"al", "cl", "dl", "bl", "ah", "ch", "dh", "bh">>
BitPattern(regs, r) == (CHOOSE k \in DOMAIN regs : regs[k] = r) - 1

-----------------------------------------------------------------------------
(* Operands: kind none stands for NULL, fault for an expression whose      *)
(* evaluation hits an assertion, a null pointer or a division by zero.     *)

Operand(kind, reg, val) == [kind |-> kind, reg |-> reg, val |-> val]
None == Operand("none", "", 0)
Fault == Operand("fault", "", 0)
IsExpr(o) == o.kind \in {"imm", "fault"}
Parsed(o, k, bad) == [o |-> o, k |-> k, bad |-> bad]

\* peek_one and next_token stay on the last token, which is the end of the file
Token(k) == text[IF k > Len(text) THEN Len(text) ELSE k]
Kind(k) == Token(k)[1]

\* NodeBinary::eval, on unsigned integers
Evaluate(l, op, r) ==
    IF l.kind # "imm" \/ r.kind # "imm" \/ (op = "/" /\ r.val = 0) THEN Fault
    ELSE Operand("imm", "", CASE op = "+" -> Signed(l.val + r.val)
                              [] op = "-" -> Signed(l.val - r.val)
                              [] op = "*" -> Signed(l.val * r.val)
                              [] op = "/" -> Signed(Unsigned(l.val) \div Unsigned(r.val)))
Negated(o) == IF o.kind = "imm" THEN Operand("imm", "", Signed(-o.val)) ELSE Fault

RECURSIVE Unit(_), Unary(_), Factor(_), Term(_)

\* parse_factor and parse_term: a chain of operands, to the left
Results == [o : [kind : STRING, reg : STRING, val : Int \cup Labels],
            k : Nat, bad : BOOLEAN]
RightOperand(op, k) == IF op \in {"*", "/"} THEN Unary(k) ELSE Factor(k)
Chain(first, ops) ==
    LET rest[l \in Results] ==
            IF Kind(l.k) \notin ops THEN l
            ELSE rest[[RightOperand(Kind(l.k), l.k + 1)
                            EXCEPT !.o = Evaluate(l.o, Kind(l.k), @),
                                   !.bad = @ \/ l.bad]]
    IN  rest[first]
Factor(k) == Chain(Unary(k), {"*", "/"})
Term(k) == Chain(Factor(k), {"+", "-"})

\* [reg], [reg + expr] and [reg - expr]: only a number is a displacement, any
\* other operand counts as 0
Memory(base, r) ==
    [r EXCEPT !.o = Operand(IF @.kind = "fault" THEN "memfault" ELSE "mem", base.o.reg,
                            IF @.kind = "imm" THEN @.val ELSE 0),
              !.k = @ + 1,
              !.bad = @ \/ base.bad \/ base.o.kind # "reg32" \/ Kind(r.k) # "]"]
Unit(k) ==
    LET token == Token(k)
    IN  CASE token[1] = "int" -> Parsed(Operand("imm", "", token[2]), k + 1, FALSE)
          [] token[1] \in Range(Reg32) -> Parsed(Operand("reg32", token[1], 0), k + 1, FALSE)
          [] token[1] \in Range(Reg8) -> Parsed(Operand("reg8", token[1], 0), k + 1, FALSE)
          [] token[1] = "id" -> Parsed(Operand("ref", "", token[2]), k + 1, FALSE)
          [] token[1] = "[" ->
                LET base == Unit(k + 1)
                IN  CASE Kind(base.k) = "]" -> Memory(base, Parsed(None, base.k, FALSE))
                      [] Kind(base.k) = "+" -> Memory(base, Term(base.k + 1))
                      [] Kind(base.k) = "-" -> Memory(base, Term(base.k))
                      [] OTHER -> Parsed(None, base.k, TRUE)
          [] OTHER -> Parsed(None, k + 1, TRUE)
Unary(k) ==
    IF Kind(k) = "-" THEN [Unary(k + 1) EXCEPT !.o = Negated(@)] ELSE Unit(k)

-----------------------------------------------------------------------------
Jumps == [call |-> <<232>>, jmp |-> <<233>>, je |-> <<15, 132>>,
          jnz |-> <<15, 133>>, jg |-> <<15, 143>>]
Sets == [setl |-> 156, setg |-> 159, setle |-> 158, setge |-> 157,
         sete |-> 148, setne |-> 149]
\* opcode and the extension in the reg bits
OneRegister == [dec |-> <<255, 1>>, inc |-> <<255, 0>>, div |-> <<247, 6>>,
                idiv |-> <<247, 7>>, neg |-> <<247, 3>>, push |-> <<255, 6>>]
TwoRegisters == [add |-> 1, and |-> 33, cmp |-> 57, or |-> 9, sub |-> 41]
\* opcode for eax, opcode and extension for the other registers
Immediate == [add |-> <<5, 129, 0>>, cmp |-> <<61, 129, 7>>, sub |-> <<45, 129, 5>>,
              test |-> <<169, 247, 0>>]

TwoOperands == {"mov", "add", "sub", "imul", "xor", "cmp", "test", "movzx", "and", "or"}
OneOperand == {"pop", "push", "intr", "call"} \cup DOMAIN Jumps \cup DOMAIN Sets
                  \cup DOMAIN OneRegister
NoOperand == {"cdq", "ret"}

Node(op, l, r, k) == [op |-> op, l |-> l, r |-> r, at |-> k]

\* parse_stmt: the node, where the next statement begins, and whether an error
\* was reported
Statement(k) ==
    CASE Kind(k) = "id" /\ Kind(k + 1) = ":" ->
            [node |-> Node("label", Operand("ref", "", Token(k)[2]), None, k),
             k |-> k + 2, bad |-> FALSE]
      [] Kind(k) \in TwoOperands ->
            LET l == Term(k + 1)
                r == Term(l.k + 1)
            IN  [node |-> Node(Kind(k), l.o, r.o, k), k |-> r.k,
                 bad |-> l.bad \/ Kind(l.k) # "," \/ r.bad]
      [] Kind(k) \in OneOperand ->
            LET l == Term(k + 1)
            IN  [node |-> Node(Kind(k), l.o, None, k), k |-> l.k, bad |-> l.bad]
      [] OTHER -> [node |-> Node(Kind(k), None, None, k), k |-> k + 1,
                   bad |-> Kind(k) \notin NoOperand]

-----------------------------------------------------------------------------
Mutant_RmAndRegSwapped(reg, rm) == 3 * 64 + 8 * rm + reg
ModReg(reg, rm) == 3 * 64 + 8 * reg + rm
ModDisp8(reg, rm) == 64 + 8 * reg + rm
R(o) == BitPattern(Reg32, o.reg)
R8(o) == BitPattern(Reg8, o.reg)
LittleEndian(n) == [b \in 1 .. WordBytes |-> (Unsigned(n) \div 256 ^ (b - 1)) % 256]

IsMem(o) == o.kind \in {"mem", "memfault"}

\* the bytes of mov: a displacement is cut to eight bits
Mov(n) ==
    CASE n.l.kind = "reg32" /\ IsExpr(n.r) -> <<184 + R(n.l)>> \o LittleEndian(n.r.val)
      [] n.l.kind = "reg32" /\ n.r.kind = "reg32" -> <<137, ModReg(R(n.r), R(n.l))>>
      [] IsMem(n.l) /\ n.r.kind = "reg32" ->
            <<137, ModDisp8(R(n.r), R(n.l)), n.l.val % 256>>
      [] n.l.kind = "reg32" /\ IsMem(n.r) ->
            <<139, ModDisp8(R(n.l), R(n.r)), n.r.val % 256>>
      [] OTHER -> <<>>

WithImmediate(n) ==
    LET form == Immediate[n.op]
    IN  (IF n.l.reg = "eax" THEN <<form[1]>> ELSE <<form[2], ModReg(form[3], R(n.l))>>)
            \o LittleEndian(n.r.val)

StackOp(n) ==
    CASE n.op = "push" /\ IsExpr(n.l) -> <<104>> \o LittleEndian(n.l.val)
      [] n.op = "push" /\ n.l.kind = "reg32" -> <<255, ModReg(6, R(n.l))>>
      [] n.op = "pop" /\ n.l.kind = "reg32" -> <<88 + R(n.l)>>
      [] OTHER -> <<>>

\* a jump without its field; je takes any operand
Jump(n) ==
    IF n.op = "je" /\ IsExpr(n.l) THEN Jumps.je \o LittleEndian(n.l.val)
    ELSE IF n.op = "je" \/ n.l.kind = "ref" THEN Jumps[n.op] ELSE <<>>

\* add, and, cmp, or, sub, test
Arithmetic(n) ==
    IF n.op # "test" /\ n.r.kind = "reg32"
    THEN <<TwoRegisters[n.op], ModReg(R(n.r), R(n.l))>>
    ELSE IF n.op \in DOMAIN Immediate /\ IsExpr(n.r) THEN WithImmediate(n) ELSE <<>>

\* NodeOp::assemble without the field of a label; <<>> is an error
Encode(n) ==
    CASE n.op = "mov" -> Mov(n)
      [] n.op \in DOMAIN TwoRegisters \cup {"test"} ->
            IF n.l.kind = "reg32" THEN Arithmetic(n) ELSE <<>>
      [] n.op = "imul" /\ n.l.kind = "reg32" /\ n.r.kind = "reg32" ->
            <<15, 175, ModReg(R(n.l), R(n.r))>>
      [] n.op = "xor" /\ n.l.kind = "reg32" /\ n.r.kind = "reg32" ->
            <<51, ModReg(R(n.l), R(n.r))>>
      [] n.op = "movzx" /\ n.l.kind = "reg32" /\ n.r.kind = "reg8" ->
            <<15, 182, ModReg(R(n.l), R8(n.r))>>
      [] n.op \in {"push", "pop"} -> StackOp(n)
      [] n.op \in DOMAIN OneRegister /\ n.l.kind = "reg32" ->
            <<OneRegister[n.op][1], ModReg(OneRegister[n.op][2], R(n.l))>>
      [] n.op \in DOMAIN Sets /\ n.l.kind = "reg8" -> <<15, Sets[n.op], ModReg(0, R8(n.l))>>
      [] n.op \in DOMAIN Jumps -> Jump(n)
      [] n.op = "intr" /\ IsExpr(n.l) -> <<205, n.l.val % 256>>
      [] n.op = "cdq" -> <<153>>
      [] n.op = "ret" -> <<195>>
      [] OTHER -> <<>>

\* a null pointer is used, or the value of an expression is asked that has none:
\* only mov asks for a displacement
Faults(n) ==
    \/ n.op = "pop" /\ n.l.kind # "reg32"
    \/ "fault" \in {n.l.kind, n.r.kind} /\ Encode(n) # <<>>
    \/ n.op = "mov" /\ "memfault" \in {n.l.kind, n.r.kind} /\ Encode(n) # <<>>

-----------------------------------------------------------------------------
AsmInit ==
    /\ current = 1 /\ nodes = <<>> /\ errors = FALSE
    /\ next = 1 /\ buf = <<>> /\ fields = {} /\ begins = <<>>
    /\ table = <<>>

\* one round of the loop in parse
ParseStatement ==
    /\ phase = "parse"
    /\ Kind(current) # "eof"
    /\ LET s == Statement(current)
       IN  /\ nodes' = Append(nodes, s.node)
           /\ current' = s.k
           /\ errors' = (errors \/ s.bad)
    /\ UNCHANGED <<codegenVars, phase, next, buf, table, fields, begins>>

EndParse ==
    /\ phase = "parse"
    /\ Kind(current) = "eof"
    /\ phase' = IF errors THEN "rejected" ELSE "assemble"
    /\ UNCHANGED <<codegenVars, asmVars>>

\* NodeLabelDef::assemble: a second definition is an error
DefineLabel ==
    LET l == nodes[next].l.val
    IN  /\ nodes[next].op = "label"
        /\ table' = IF l \in DOMAIN table THEN table ELSE (l :> Len(buf)) @@ table
        /\ errors' = (errors \/ l \in DOMAIN table)
        /\ UNCHANGED <<phase, buf, fields, begins>>

\* NodeOp::assemble and NodeLabelRef::assemble, which puts the address after
\* the field into the field
EncodeNode ==
    LET n == nodes[next]
        bytes == Encode(n)
        field == Len(buf) + Len(bytes)
    IN  /\ n.op # "label"
        /\ ~Faults(n)
        /\ errors' = (errors \/ bytes = <<>>)
        /\ IF bytes # <<>> /\ n.l.kind = "ref"
           THEN /\ buf' = buf \o bytes \o LittleEndian(field + WordBytes)
                /\ fields' = fields \cup {<<n.l.val, field>>}
           ELSE /\ buf' = buf \o bytes
                /\ UNCHANGED fields
        /\ begins' = IF n.at \in DOMAIN origin THEN (Len(buf) :> origin[n.at]) @@ begins
                     ELSE begins
        /\ UNCHANGED <<phase, table>>

\* an assertion, a null pointer or a division by zero stops the assembler
AbortNode ==
    /\ nodes[next].op # "label"
    /\ Faults(nodes[next])
    /\ phase' = "aborted"
    /\ UNCHANGED <<buf, errors, table, fields, begins>>

AssembleNode ==
    /\ phase = "assemble"
    /\ next <= Len(nodes)
    /\ next' = next + 1
    /\ DefineLabel \/ EncodeNode \/ AbortNode
    /\ UNCHANGED <<codegenVars, current, nodes>>

WordAt(a) == FoldFunction(+, 0, [i \in 1 .. WordBytes |-> buf[a + i] * 256 ^ (i - 1)])

\* patch_rel_jumps: the distance from the instruction after a field to its
\* label; the fields of labels of other files are left to Linker
Distance(f) == LittleEndian(table[f[1]] - WordAt(f[2]))
Patched ==
    LET known == {f \in fields : f[1] \in DOMAIN table}
    IN  [i \in DOMAIN buf |->
            LET over == {f \in known : i - f[2] \in 1 .. WordBytes}
            IN  IF over = {} THEN buf[i] ELSE LET f == CHOOSE f \in over : TRUE
                                             IN  Distance(f)[i - f[2]]]

\* append_program is done: the object file is written only without an error
EndAssemble ==
    /\ phase = "assemble"
    /\ next > Len(nodes)
    /\ buf' = Patched
    /\ phase' = IF errors THEN "rejected" ELSE "linked"
    /\ UNCHANGED <<codegenVars, current, nodes, errors, next, table, fields, begins>>

AssembleNext == ParseStatement \/ EndParse \/ AssembleNode \/ EndAssemble

=============================================================================
