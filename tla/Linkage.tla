------------------------------ MODULE Linkage ------------------------------
(***************************************************************************)
(* From labels in assembly to addresses in the executable: the label table *)
(* of the assembler (NodeLabelRef, NodeLabelDef, patch_rel_jumps and the   *)
(* sections of generate_obj) for every .asm file in turn, and the linker   *)
(* over the object files they became (Linker::link).                       *)
(*                                                                         *)
(* Code is a number of bytes in which some words, the fields, refer to a   *)
(* label: jmp, jcc and call end in one, so that the next instruction       *)
(* begins four bytes after it.  A field is known by its address and holds  *)
(* the signed displacement its 32 bits stand for; the files are far too    *)
(* small for it to wrap.  m_labels is total here: a label that is neither  *)
(* defined nor referred to is not in the map.  The unordered maps of the   *)
(* linker are read in an order of their own, the same for all its loops.   *)
(*                                                                         *)
(* A Mutant_* operator is a faulty variant of the definition after it that *)
(* no specification uses; PROJECT.json says which property it breaks.      *)
(***************************************************************************)
EXTENDS Integers, Sequences, FiniteSets

CONSTANTS
    Files,       \* the .asm files
    Labels,      \* the labels they use
    Start,       \* the label _start
    TextOffset,  \* where the text section begins in an object file
    Lengths,     \* the lengths of code without a reference
    MaxSize      \* bound: bytes of an object file up to the end of its text

ASSUME StartAssumption == Start \in Labels
ASSUME SizesAssumption == /\ TextOffset \in Nat /\ MaxSize \in Nat
                          /\ TextOffset <= MaxSize
                          /\ Lengths \subseteq Nat \ {0}

VARIABLES
    cur,         \* the file that generate_obj works on
    size,        \* m_buf.size() of the Assembler of each file
    table,       \* its m_labels: address, defined or not, m_rjmp_addr
    field,       \* the fields in its m_buf
    objs,        \* the object files written
    errors,      \* ems.has_errors()
    phase,       \* assemble, append, entry, relocate, done
    order,       \* the objects appended so far, in the order of m_obj_bufs
    offsets,     \* m_code_offsets
    exe,         \* the fields of the executable
    length,      \* the bytes of code in it
    entry,       \* m_entry as an offset into the code
    relocated    \* how many objects apply_relocations has done

asmVars == <<cur, size, table, field, objs>>
linkVars == <<order, offsets, exe, length, entry, relocated>>
vars == <<asmVars, errors, phase, linkVars>>

NoEntry == -1
Width == 4
Undefined == [addr |-> 0, defined |-> FALSE, sites |-> {}]
Referenced(e, a) == [addr |-> e.addr, defined |-> e.defined, sites |-> e.sites \cup {a}]
DefinedAt(e, a) == [addr |-> a, defined |-> TRUE, sites |-> e.sites]
Put(f, a, v) == [b \in DOMAIN f \cup {a} |-> IF b = a THEN v ELSE f[b]]

Init ==
    /\ cur \in Files
    /\ size = [f \in Files |-> TextOffset]
    /\ table = [f \in Files |-> [l \in Labels |-> Undefined]]
    /\ field = [f \in Files |-> [a \in {} |-> 0]]
    /\ objs = <<>>
    /\ errors = FALSE
    /\ phase = "assemble"
    /\ order = <<>> /\ offsets = <<>> /\ exe = <<>>
    /\ length = 0 /\ entry = NoEntry /\ relocated = 0

-----------------------------------------------------------------------------
(* Assembler *)

Grow(n) == /\ size[cur] + n <= MaxSize
           /\ size' = [size EXCEPT ![cur] = @ + n]

\* the assemble methods of everything else
Code(n) ==
    /\ phase = "assemble"
    /\ Grow(n)
    /\ UNCHANGED <<cur, table, field, objs, errors, phase, linkVars>>

\* NodeLabelRef::assemble: until it is patched the field holds the address
\* of the next instruction
LabelRef(l) ==
    /\ phase = "assemble"
    /\ table' = [table EXCEPT ![cur][l] = Referenced(@, size[cur])]
    /\ field' = [field EXCEPT ![cur] = Put(@, size[cur], size[cur] + Width)]
    /\ Grow(Width)
    /\ UNCHANGED <<cur, objs, errors, phase, linkVars>>

\* NodeLabelDef::assemble
LabelDef(l) ==
    /\ phase = "assemble"
    /\ IF table[cur][l].defined
       THEN /\ errors' = TRUE
            /\ UNCHANGED table
       ELSE /\ table' = [table EXCEPT ![cur][l] = DefinedAt(@, size[cur])]
            /\ UNCHANGED errors
    /\ UNCHANGED <<cur, size, field, objs, phase, linkVars>>

\* patch_rel_jumps
Mutant_PatchBackwardJumps(t, w) ==
    [a \in DOMAIN w |->
        IF \E l \in Labels : t[l].defined /\ t[l].addr <= a /\ a \in t[l].sites
        THEN t[CHOOSE l \in Labels : t[l].defined /\ a \in t[l].sites].addr - w[a]
        ELSE w[a]]
PatchRelJumps(t, w) ==
    [a \in DOMAIN w |->
        IF \E l \in Labels : t[l].defined /\ a \in t[l].sites
        THEN t[CHOOSE l \in Labels : t[l].defined /\ a \in t[l].sites].addr - w[a]
        ELSE w[a]]

\* the text, symbol table and relocation sections: a label without a
\* definition is an undefined symbol, with a relocation for every field
Present(t) == {l \in Labels : t[l].defined \/ t[l].sites # {}}
Mutant_AllRelocations(t) ==
    UNION {{[offset |-> a - TextOffset, symbol |-> l] : a \in t[l].sites} : l \in Labels}
Relocations(t) ==
    UNION {{[offset |-> a - TextOffset, symbol |-> l] : a \in t[l].sites} :
              l \in {k \in Labels : ~t[k].defined}}
TextSize(n) == n - TextOffset
ObjectFile(t, w, n) ==
    [size |-> TextSize(n),
     words |-> [o \in {a - TextOffset : a \in DOMAIN w} |-> w[o + TextOffset]],
     symtab |-> [l \in Present(t) |->
                    IF t[l].defined
                    THEN [value |-> t[l].addr - TextOffset, undef |-> FALSE]
                    ELSE [value |-> 0, undef |-> TRUE]],
     rel |-> Relocations(t)]

\* the end of generate_obj: no file is written when there were errors, and
\* main returns; otherwise it goes on with the next file, or links
EndObject ==
    /\ phase = "assemble"
    /\ field' = [field EXCEPT ![cur] = PatchRelJumps(table[cur], @)]
    /\ IF errors
       THEN /\ phase' = "done"
            /\ UNCHANGED <<cur, objs>>
       ELSE /\ objs' = Put(objs, cur,
                           ObjectFile(table[cur], field'[cur], size[cur]))
            /\ IF DOMAIN objs' = Files
               THEN phase' = "append" /\ UNCHANGED cur
               ELSE phase' = phase /\ cur' \in Files \ DOMAIN objs'
    /\ UNCHANGED <<size, table, errors, linkVars>>

-----------------------------------------------------------------------------
(* Linker *)

Appended == {order[i] : i \in DOMAIN order}

\* where the next object's code goes: behind what m_buf has
Mutant_CodeOffsetZero == 0
CodeOffset == length

\* one round of append_program
AppendProgram(f) ==
    /\ phase = "append"
    /\ f \notin Appended
    /\ offsets' = Put(offsets, f, CodeOffset)
    /\ exe' = [a \in DOMAIN exe \cup {length + o : o \in DOMAIN objs[f].words} |->
                  IF a >= length THEN objs[f].words[a - length] ELSE exe[a]]
    /\ length' = length + objs[f].size
    /\ order' = Append(order, f)
    /\ phase' = IF Appended \cup {f} = Files THEN "entry" ELSE phase
    /\ UNCHANGED <<asmVars, errors, entry, relocated>>

LastOf(S) == CHOOSE i \in S : \A j \in S : j <= i
Mutant_AddressInFile(f, l) == objs[f].symtab[l].value
Address(f, l) == offsets[f] + objs[f].symtab[l].value

\* patch_program_entry: the last object whose table has the symbol decides,
\* whether it defines the symbol or not
PatchProgramEntry ==
    /\ phase = "entry"
    /\ LET having == {i \in DOMAIN order : Start \in DOMAIN objs[order[i]].symtab}
           f == order[LastOf(having)]
       IN  entry' = IF having = {} THEN entry ELSE Address(f, Start)
    /\ phase' = "relocate"
    /\ UNCHANGED <<asmVars, errors, order, offsets, exe, length, relocated>>

\* one round of apply_relocations: every definition that is found overwrites
\* the field, so the last one counts
Mutant_Mentioning(l) == {i \in DOMAIN order : l \in DOMAIN objs[order[i]].symtab}
Defining(l) == {i \in DOMAIN order : /\ l \in DOMAIN objs[order[i]].symtab
                                     /\ ~objs[order[i]].symtab[l].undef}

ApplyRelocations ==
    /\ phase = "relocate"
    /\ LET f == order[relocated + 1]
           found == {r \in objs[f].rel : Defining(r.symbol) # {}}
           At(a) == {r \in found : offsets[f] + r.offset = a}
       IN  /\ exe' = [a \in DOMAIN exe |->
                         IF At(a) = {} THEN exe[a]
                         ELSE LET r == CHOOSE r \in At(a) : TRUE
                              IN  Address(order[LastOf(Defining(r.symbol))], r.symbol)
                                    - (offsets[f] + r.offset + Width)]
           /\ errors' = (errors \/ found # objs[f].rel)
    /\ relocated' = relocated + 1
    /\ phase' = IF relocated' = Len(order) THEN "done" ELSE phase
    /\ UNCHANGED <<asmVars, order, offsets, length, entry>>

Next ==
    \/ \E n \in Lengths : Code(n)
    \/ \E l \in Labels : LabelRef(l) \/ LabelDef(l)
    \/ EndObject
    \/ \E f \in Files : AppendProgram(f)
    \/ PatchProgramEntry
    \/ ApplyRelocations

Spec == Init /\ [][Next]_vars

-----------------------------------------------------------------------------
Linked == phase = "done" /\ DOMAIN objs = Files
Entries == [addr : Nat, defined : BOOLEAN, sites : SUBSET Nat]

TypeOK ==
    /\ cur \in Files
    /\ size \in [Files -> TextOffset .. MaxSize]
    /\ table \in [Files -> [Labels -> Entries]]
    /\ \A f \in Files : /\ DOMAIN field[f] \subseteq Nat
                        /\ \A a \in DOMAIN field[f] : field[f][a] \in Int
    /\ DOMAIN objs \subseteq Files
    /\ errors \in BOOLEAN
    /\ phase \in {"assemble", "append", "entry", "relocate", "done"}
    /\ Appended \subseteq DOMAIN objs /\ DOMAIN offsets = Appended
    /\ length \in Nat /\ entry \in Nat \cup {NoEntry}
    /\ relocated \in 0 .. Len(order)

(***************************************************************************)
(* A jump within a file leads to its label in the object file, whether the *)
(* label came before or after it: what the field holds, added to the       *)
(* address of the next instruction, is the address of the label.           *)
(***************************************************************************)
LocalJumpsLand ==
    \A f \in DOMAIN objs : \A l \in Labels :
        table[f][l].defined =>
            \A a \in table[f][l].sites :
                objs[f].words[a - TextOffset] + (a - TextOffset + Width)
                    = objs[f].symtab[l].value

(***************************************************************************)
(* No reference is forgotten: each field of an object file was patched for *)
(* a label of the file, or has a relocation, never both, and the symbol of *)
(* the relocation is in the table as undefined.                            *)
(***************************************************************************)
ReferencesAccounted ==
    \A f \in DOMAIN objs : \A o \in DOMAIN objs[f].words :
        \/ /\ \E l \in Labels : /\ o + TextOffset \in table[f][l].sites
                                /\ table[f][l].defined
           /\ \A r \in objs[f].rel : r.offset # o
        \/ \E r \in objs[f].rel : /\ r.offset = o
                                  /\ o + TextOffset \in table[f][r.symbol].sites
                                  /\ objs[f].symtab[r.symbol].undef

\* The objects lie one behind the other in the executable: none overlaps
\* another, and all of them lie inside it.
CodeDisjoint ==
    \A f, g \in DOMAIN offsets :
        /\ offsets[f] + objs[f].size <= length
        /\ \/ f = g
           \/ offsets[f] + objs[f].size <= offsets[g]
           \/ offsets[g] + objs[g].size <= offsets[f]

(***************************************************************************)
(* In an executable that was linked without an error every field leads to  *)
(* a definition of its label: the one of its own file when there is one,   *)
(* else one of another file.                                               *)
(***************************************************************************)
Refs == {r \in [file : Files, label : Labels, site : 0 .. MaxSize] :
            r.site \in table[r.file][r.label].sites}
Definers(l) == {g \in Files : table[g][l].defined}
AddressIn(g, l) == offsets[g] + table[g][l].addr - TextOffset
LeadsTo(f, a) == LET p == offsets[f] + a - TextOffset IN exe[p] + p + Width
ReferencesResolved ==
    Linked /\ ~errors =>
        \A r \in Refs : \E g \in Definers(r.label) :
            /\ LeadsTo(r.file, r.site) = AddressIn(g, r.label)
            /\ r.file \in Definers(r.label) => g = r.file

\* The linker reports an error exactly when a label that is referred to is
\* defined nowhere.
UnresolvedReported ==
    Linked => (errors <=> \E r \in Refs : Definers(r.label) = {})

(***************************************************************************)
(* The program starts at a _start that some file defines, whatever the     *)
(* order of the objects.  A file that only refers to _start could come     *)
(* last and would win; no translated file does, so it is excluded here.    *)
(***************************************************************************)
EntryIsStart ==
    Linked /\ Definers(Start) # {}
      /\ (\A r \in Refs : r.label = Start => r.file \in Definers(Start)) =>
            \E g \in Definers(Start) : entry = AddressIn(g, Start)

=============================================================================
