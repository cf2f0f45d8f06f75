--------------------------- MODULE LinkageProofs ---------------------------
(***************************************************************************)
(* What the assembler leaves in an object file, and how the linker lays    *)
(* the object files out, for any number of files, labels and bytes.        *)
(*                                                                         *)
(* LocalJumpsLand and ReferencesAccounted speak of the object files alone; *)
(* AsmInv adds how they came about: while a file is assembled its fields   *)
(* are exactly the sites of its table, each with the address behind it, a  *)
(* site belongs to one label, and it lies behind what was there before.    *)
(***************************************************************************)
EXTENDS Linkage, WellFoundedInduction, TLAPS

SitesOf(f) == UNION {table[f][l].sites : l \in Labels}
Unpatched(f) == [a \in SitesOf(f) |-> a + Width]

Tables ==
    /\ cur \in Files
    /\ size \in [Files -> Nat]
    /\ table \in [Files -> [Labels -> Entries]]
    /\ field = [f \in Files |-> field[f]]
SitesInside ==
    \A f \in Files : \A l \in Labels : \A a \in table[f][l].sites : a + Width <= size[f]
SitesOwned ==
    \A f \in Files : \A k, l \in Labels : \A a \in table[f][k].sites :
        a \in table[f][l].sites => k = l
Fresh ==
    phase = "assemble" =>
        /\ cur \notin DOMAIN objs
        /\ \A f \in Files \ DOMAIN objs : field[f] = Unpatched(f)
Objects ==
    /\ DOMAIN objs \subseteq Files
    /\ \A f \in DOMAIN objs :
          objs[f] = ObjectFile(table[f], PatchRelJumps(table[f], Unpatched(f)), size[f])

AsmInv == Tables /\ SitesInside /\ SitesOwned /\ Fresh /\ Objects

LEMMA AsmInit == Init => AsmInv
<1>1. SUFFICES ASSUME Init PROVE AsmInv
  OBVIOUS
<1>2. Tables
  BY <1>1 , SizesAssumption DEF Init, Tables, Undefined, Entries
<1>3. \A f \in Files : \A l \in Labels : table[f][l].sites = {}
  BY <1>1 DEF Init, Undefined
<1>4. SitesInside /\ SitesOwned
  BY <1>3 DEF SitesInside, SitesOwned
<1>5. \A f \in Files : SitesOf(f) = {}
  BY <1>3 DEF SitesOf
<1>6. Fresh /\ Objects
  BY <1>1, <1>5 DEF Init, Fresh, Objects, Unpatched
<1>7. QED
  BY <1>2, <1>4, <1>6 DEF AsmInv

\* NodeLabelRef::assemble: the site it adds is the address behind the code, so
\* it is in no other label's list.
LEMMA LabelRefKeepsAsmInv ==
    ASSUME AsmInv, NEW n \in Labels, LabelRef(n) PROVE AsmInv'
<1> USE DEF AsmInv
<1>1. size[cur] \in Nat /\ cur \in Files
  BY DEF Tables
<1>2. /\ cur' = cur /\ objs' = objs /\ phase' = phase
      /\ size' = [size EXCEPT ![cur] = @ + Width]
      /\ field' = [field EXCEPT ![cur] = Put(@, size[cur], size[cur] + Width)]
      /\ table' = [table EXCEPT ![cur][n] = Referenced(@, size[cur])]
      /\ phase = "assemble"
  BY DEF LabelRef, Grow
<1>3. Tables'
  <2>1. table[cur] \in [Labels -> Entries]
    BY <1>1 DEF Tables
  <2> DEFINE e == Referenced(table[cur][n], size[cur])
  <2>2. e \in Entries
    BY <1>1, <2>1 DEF Entries, Referenced
  <2>3. table' = [table EXCEPT ![cur][n] = e]
    BY <1>2
  <2> HIDE DEF e
  <2>4. table' \in [Files -> [Labels -> Entries]]
    <3>1. [table[cur] EXCEPT ![n] = e] \in [Labels -> Entries]
      BY <2>1, <2>2
    <3>2. table' = [table EXCEPT ![cur] = [table[cur] EXCEPT ![n] = e]]
      BY <1>1, <2>3
    <3>3. QED
      BY <1>1, <3>1, <3>2 DEF Tables
  <2>5. size' \in [Files -> Nat]
    BY <1>1, <1>2 DEF Tables, Width
  <2>6. field' = [f \in Files |-> field'[f]]
    BY <1>1, <1>2 DEF Tables
  <2>7. QED
    BY <1>1, <1>2, <2>4, <2>5, <2>6 DEF Tables
<1>4. \A f \in Files : \A l \in Labels : \A a :
          a \in table'[f][l].sites <=>
              a \in table[f][l].sites \/ (f = cur /\ l = n /\ a = size[cur])
  BY <1>1, <1>2 DEF Tables, Referenced
<1>5. \A f \in Files : \A l \in Labels : table[f][l].sites \subseteq Nat
  BY DEF Tables, Entries
<1>6. \A f \in Files : size'[f] = IF f = cur THEN size[f] + Width ELSE size[f]
  BY <1>1, <1>2 DEF Tables
<1>7. SitesInside'
  <2>1. SUFFICES ASSUME NEW f \in Files, NEW l \in Labels,
                        NEW a \in table'[f][l].sites
                 PROVE  a + Width <= size'[f]
    BY DEF SitesInside
  <2>2. size[f] \in Nat
    BY DEF Tables
  <2>3. CASE a \in table[f][l].sites
    BY <2>2, <2>3, <1>5, <1>6 DEF SitesInside, Width
  <2>4. CASE a \notin table[f][l].sites
    BY <2>1, <2>2, <2>4, <1>4, <1>6 DEF Width
  <2>5. QED
    BY <2>3, <2>4
<1>8. \A l \in Labels : size[cur] \notin table[cur][l].sites
  BY <1>1, <1>5 DEF SitesInside, Width
<1>9. SitesOwned'
  BY <1>4, <1>8 DEF SitesOwned
<1>10. \A f \in Files : /\ f # cur => SitesOf(f)' = SitesOf(f)
                        /\ SitesOf(cur)' = SitesOf(cur) \cup {size[cur]}
  <2>1. \A f \in Files : f # cur => SitesOf(f)' = SitesOf(f)
    BY <1>4 DEF SitesOf
  <2>2. SitesOf(cur)' = SitesOf(cur) \cup {size[cur]}
    BY <1>1, <1>2, <1>4 DEF SitesOf
  <2>3. QED
    BY <2>1, <2>2
<1>11. \A f \in Files : f # cur => Unpatched(f)' = Unpatched(f)
  BY <1>10 DEF Unpatched
<1>12. cur \notin DOMAIN objs /\ field[cur] = Unpatched(cur)
  BY <1>1, <1>2 DEF Fresh
<1>13. field'[cur] = Put(Unpatched(cur), size[cur], size[cur] + Width)
  BY <1>1, <1>2, <1>12 DEF Tables
<1>14. Unpatched(cur)' = Put(Unpatched(cur), size[cur], size[cur] + Width)
  BY <1>2, <1>10, <1>1 DEF Unpatched, Put
<1>15. Fresh'
  <2>1. \A f \in Files : f # cur => field'[f] = field[f]
    BY <1>1, <1>2 DEF Tables
  <2>2. SUFFICES ASSUME NEW f \in Files \ DOMAIN objs PROVE field'[f] = Unpatched(f)'
    BY <1>2, <1>12 DEF Fresh
  <2>3. QED
    BY <2>1, <2>2, <1>2, <1>11, <1>13, <1>14 DEF Fresh
<1>16. Objects'
  <2>1. \A f \in DOMAIN objs : f \in Files /\ f # cur
    BY <1>12 DEF Objects
  <2>2. \A f \in DOMAIN objs : table'[f] = table[f] /\ size'[f] = size[f]
    BY <2>1, <1>2, <1>6 DEF Tables
  <2>3. QED
    BY <2>1, <2>2, <1>2, <1>11 DEF Objects
<1>17. QED
  BY <1>3, <1>7, <1>9, <1>15, <1>16

\* NodeLabelDef::assemble moves no field.
LEMMA LabelDefKeepsAsmInv ==
    ASSUME AsmInv, NEW n \in Labels, LabelDef(n) PROVE AsmInv'
<1> USE DEF AsmInv
<1>1. size[cur] \in Nat /\ cur \in Files
  BY DEF Tables
<1>2. /\ cur' = cur /\ objs' = objs /\ phase' = phase /\ size' = size
      /\ field' = field /\ phase = "assemble"
      /\ \/ table' = table
         \/ table' = [table EXCEPT ![cur][n] = DefinedAt(@, size[cur])]
  BY DEF LabelDef
<1>3. Tables'
  <2>1. table[cur] \in [Labels -> Entries]
    BY <1>1 DEF Tables
  <2>2. DefinedAt(table[cur][n], size[cur]) \in Entries
    BY <1>1, <2>1 DEF Entries, DefinedAt
  <2>3. table' \in [Files -> [Labels -> Entries]]
    BY <1>1, <1>2, <2>1, <2>2 DEF Tables
  <2>4. QED
    BY <1>1, <1>2, <2>3 DEF Tables
<1>4. \A f \in Files : \A l \in Labels : table'[f][l].sites = table[f][l].sites
  BY <1>1, <1>2 DEF Tables, DefinedAt
<1>5. SitesInside' /\ SitesOwned'
  BY <1>2, <1>4 DEF SitesInside, SitesOwned
<1>6. \A f \in Files : Unpatched(f)' = Unpatched(f)
  <2>1. \A f \in Files : SitesOf(f)' = SitesOf(f)
    BY <1>4 DEF SitesOf
  <2>2. QED
    BY <2>1 DEF Unpatched
<1>7. cur \notin DOMAIN objs
  BY <1>2 DEF Fresh
<1>8. Fresh'
  BY <1>2, <1>6, <1>7 DEF Fresh
<1>9. Objects'
  <2>1. \A f \in DOMAIN objs : f \in Files /\ f # cur
    BY <1>7 DEF Objects
  <2>2. \A f \in DOMAIN objs : table'[f] = table[f]
    BY <2>1, <1>2 DEF Tables
  <2>3. QED
    BY <2>1, <2>2, <1>2, <1>6 DEF Objects
<1>10. QED
  BY <1>3, <1>5, <1>8, <1>9

LEMMA CodeKeepsAsmInv ==
    ASSUME AsmInv, NEW n \in Lengths, Code(n) PROVE AsmInv'
<1> USE DEF AsmInv
<1>1. n \in Nat
  BY SizesAssumption
<1>2. /\ cur' = cur /\ objs' = objs /\ phase' = phase /\ field' = field
      /\ table' = table /\ phase = "assemble"
      /\ size' = [size EXCEPT ![cur] = @ + n]
  BY DEF Code, Grow
<1>3. Tables'
  BY <1>1, <1>2 DEF Tables
<1>4. \A f \in Files : size[f] \in Nat /\ size'[f] \in Nat /\ size[f] <= size'[f]
  BY <1>1, <1>2 DEF Tables
<1>5. \A f \in Files : \A l \in Labels : table[f][l].sites \subseteq Nat
  BY DEF Tables, Entries
<1>6. SitesInside'
  <2>1. SUFFICES ASSUME NEW f \in Files, NEW l \in Labels,
                        NEW a \in table[f][l].sites
                 PROVE  a + Width <= size'[f]
    BY <1>2 DEF SitesInside
  <2>2. a \in Nat /\ a + Width <= size[f]
    BY <1>5 DEF SitesInside
  <2>3. QED
    BY <2>2, <1>4 DEF Width
<1>7. SitesOwned'
  BY <1>2 DEF SitesOwned
<1>8. \A f \in Files : Unpatched(f)' = Unpatched(f)
  BY <1>2 DEF Unpatched, SitesOf
<1>9. Fresh'
  BY <1>2, <1>8 DEF Fresh
<1>10. Objects'
  <2>1. \A f \in DOMAIN objs : f \in Files /\ f # cur /\ size'[f] = size[f]
    BY <1>2 DEF Objects, Fresh, Tables
  <2>2. QED
    BY <2>1, <1>2, <1>8 DEF Objects
<1>11. QED
  BY <1>3, <1>6, <1>7, <1>9, <1>10

\* The end of generate_obj: the table of the file is final, and what is
\* written is the object file of that table.
LEMMA EndObjectKeepsAsmInv ==
    ASSUME AsmInv, EndObject PROVE AsmInv'
<1> USE DEF AsmInv
<1>1. /\ cur \in Files /\ cur \notin DOMAIN objs
      /\ field[cur] = Unpatched(cur)
      /\ size' = size /\ table' = table
      /\ field' = [field EXCEPT ![cur] = PatchRelJumps(table[cur], @)]
  BY DEF EndObject, Tables, Fresh
<1>2. \A f \in Files : Unpatched(f)' = Unpatched(f)
  BY <1>1 DEF Unpatched, SitesOf
<1>3. SitesInside' /\ SitesOwned'
  BY <1>1 DEF SitesInside, SitesOwned
<1>4. field' = [f \in Files |-> field'[f]] /\ \A f \in Files : f # cur => field'[f] = field[f]
  BY <1>1 DEF Tables
<1>5. field'[cur] = PatchRelJumps(table[cur], Unpatched(cur))
  BY <1>1 DEF Tables
<1>6. CASE errors
  <2>1. phase' = "done" /\ cur' = cur /\ objs' = objs
    BY <1>6 DEF EndObject
  <2>2. QED
    BY <2>1, <1>1, <1>2, <1>3, <1>4 DEF Tables, Fresh, Objects
<1>7. CASE ~errors
  <2> DEFINE obj == ObjectFile(table[cur], field'[cur], size[cur])
  <2>1. /\ objs' = Put(objs, cur, obj)
        /\ \/ phase' = "append" /\ cur' = cur
           \/ phase' = phase /\ cur' \in Files \ DOMAIN objs'
    BY <1>7 DEF EndObject
  <2>2. /\ DOMAIN objs' = DOMAIN objs \cup {cur}
        /\ objs'[cur] = obj
        /\ \A f \in DOMAIN objs : objs'[f] = objs[f]
    BY <2>1, <1>1 DEF Put
  <2>3. Tables'
    BY <2>1, <1>1, <1>4 DEF Tables
  <2>4. Fresh'
    BY <2>1, <2>2, <1>1, <1>2, <1>4 DEF Fresh, EndObject
  <2>5. Objects'
    <3>1. DOMAIN objs' \subseteq Files
      BY <2>2, <1>1 DEF Objects
    <3>2. SUFFICES ASSUME NEW f \in DOMAIN objs'
                   PROVE  objs'[f] = ObjectFile(table[f], PatchRelJumps(table[f], Unpatched(f)), size[f])
      BY <3>1, <1>1, <1>2 DEF Objects
    <3>3. CASE f = cur
      BY <3>3, <2>2, <1>5
    <3>4. CASE f # cur
      BY <3>2, <3>4, <2>2 DEF Objects
    <3>5. QED
      BY <3>3, <3>4
  <2>6. QED
    BY <2>3, <2>4, <2>5, <1>3
<1>8. QED
  BY <1>6, <1>7

LEMMA AsmNext == AsmInv /\ [Next]_vars => AsmInv'
<1>1. SUFFICES ASSUME AsmInv, [Next]_vars PROVE AsmInv'
  OBVIOUS
<1>2. ASSUME UNCHANGED <<cur, size, table, field, objs, phase>> PROVE AsmInv'
  <2>1. \A f \in Files : Unpatched(f)' = Unpatched(f)
    BY <1>2 DEF Unpatched, SitesOf
  <2>2. Tables' /\ SitesInside' /\ SitesOwned' /\ Fresh' /\ Objects'
    BY <1>1, <1>2, <2>1 DEF AsmInv, Tables, SitesInside, SitesOwned, Fresh, Objects
  <2>3. QED
    BY <2>2 DEF AsmInv
<1>3. ASSUME UNCHANGED asmVars, phase' # "assemble" PROVE AsmInv'
  BY <1>1, <1>3 DEF asmVars, AsmInv, Tables, SitesInside, SitesOwned, Fresh,
                    Objects, Unpatched, SitesOf
<1>4. ASSUME NEW n \in Lengths, Code(n) PROVE AsmInv'
  BY <1>1, <1>4, CodeKeepsAsmInv
<1>5. ASSUME NEW l \in Labels, LabelRef(l) \/ LabelDef(l) PROVE AsmInv'
  BY <1>1, <1>5, LabelRefKeepsAsmInv, LabelDefKeepsAsmInv
<1>6. CASE EndObject
  BY <1>1, <1>6, EndObjectKeepsAsmInv
<1>7. ASSUME NEW f \in Files, AppendProgram(f) PROVE AsmInv'
  <2>1. UNCHANGED asmVars /\ phase' # "assemble"
    BY <1>7 DEF AppendProgram
  <2>2. QED
    BY <2>1, <1>3
<1>8. CASE PatchProgramEntry
  <2>1. UNCHANGED asmVars /\ phase' # "assemble"
    BY <1>8 DEF PatchProgramEntry
  <2>2. QED
    BY <2>1, <1>3
<1>9. CASE ApplyRelocations
  <2>1. UNCHANGED asmVars /\ phase' # "assemble"
    BY <1>9 DEF ApplyRelocations
  <2>2. QED
    BY <2>1, <1>3
<1>10. CASE UNCHANGED vars
  BY <1>2, <1>10 DEF vars, asmVars
<1>11. QED
  BY <1>1, <1>4, <1>5, <1>6, <1>7, <1>8, <1>9, <1>10 DEF Next

LEMMA AsmInductive == Spec => []AsmInv
<1>1. QED
  BY AsmInit, AsmNext, PTL DEF Spec

\* What patch_rel_jumps leaves in a field, label by label.
LEMMA PatchedFields ==
    ASSUME AsmInv, NEW f \in DOMAIN objs, NEW l \in Labels,
           NEW a \in table[f][l].sites
    PROVE  /\ f \in Files /\ a \in Nat /\ a \in SitesOf(f)
           /\ objs[f].words[a - TextOffset] =
                 IF table[f][l].defined THEN table[f][l].addr - (a + Width)
                 ELSE a + Width
<1> DEFINE w == Unpatched(f)
           p == PatchRelJumps(table[f], w)
<1>1. f \in Files /\ objs[f] = ObjectFile(table[f], p, size[f])
  BY DEF AsmInv, Objects
<1>2. a \in Nat /\ table[f][l].addr \in Nat
  BY <1>1 DEF AsmInv, Tables, Entries
<1>3. a \in SitesOf(f)
  BY DEF SitesOf
<1>4. DOMAIN w = SitesOf(f) /\ w[a] = a + Width
  BY <1>3 DEF Unpatched
<1>5. \A k \in Labels : a \in table[f][k].sites => k = l
  BY <1>1 DEF AsmInv, SitesOwned
<1>6. DOMAIN p = SitesOf(f)
  BY <1>4 DEF PatchRelJumps
<1>7. p[a] = IF table[f][l].defined THEN table[f][l].addr - (a + Width) ELSE a + Width
  <2>1. CASE table[f][l].defined
    <3>1. (CHOOSE k \in Labels : table[f][k].defined /\ a \in table[f][k].sites) = l
      BY <1>5, <2>1
    <3>2. p[a] = table[f][l].addr - w[a]
      BY <1>3, <1>4, <2>1, <3>1 DEF PatchRelJumps
    <3>3. QED
      BY <2>1, <3>2, <1>4
  <2>2. CASE ~table[f][l].defined
    BY <1>3, <1>4, <1>5, <2>2 DEF PatchRelJumps
  <2>3. QED
    BY <2>1, <2>2
<1> HIDE DEF p, w
<1>8. objs[f].words = [o \in {b - TextOffset : b \in DOMAIN p} |-> p[o + TextOffset]]
  BY <1>1 DEF ObjectFile, Relocations, TextSize
<1>9. objs[f].words[a - TextOffset] = p[a]
  <2>1. a - TextOffset \in {b - TextOffset : b \in DOMAIN p}
    BY <1>3, <1>6
  <2>2. (a - TextOffset) + TextOffset = a
    BY <1>2, SizesAssumption
  <2>3. QED
    BY <1>8, <2>1, <2>2
<1>10. QED
  BY <1>1, <1>2, <1>3, <1>7, <1>9

LEMMA SymbolOf ==
    ASSUME AsmInv, NEW f \in DOMAIN objs, NEW l \in Labels,
           table[f][l].defined \/ table[f][l].sites # {}
    PROVE  /\ table[f][l].defined =>
                 /\ objs[f].symtab[l].value = table[f][l].addr - TextOffset
                 /\ ~objs[f].symtab[l].undef
           /\ ~table[f][l].defined => objs[f].symtab[l].undef
<1>1. objs[f] = ObjectFile(table[f], PatchRelJumps(table[f], Unpatched(f)), size[f])
  BY DEF AsmInv, Objects
<1>2. l \in Present(table[f])
  BY DEF Present
<1>3. objs[f].symtab[l] = IF table[f][l].defined
                          THEN [value |-> table[f][l].addr - TextOffset, undef |-> FALSE]
                          ELSE [value |-> 0, undef |-> TRUE]
  BY <1>1, <1>2 DEF ObjectFile, Relocations, TextSize
<1>4. QED
  BY <1>3

(***************************************************************************)
(* In every object file each jump to a label of the file leads to it,      *)
(* forwards and backwards (NodeLabelRef, NodeLabelDef, patch_rel_jumps).   *)
(***************************************************************************)
THEOREM JumpsLand == Spec => []LocalJumpsLand
<1>1. AsmInv => LocalJumpsLand
  <2>1. SUFFICES ASSUME AsmInv, NEW f \in DOMAIN objs, NEW l \in Labels,
                        table[f][l].defined, NEW a \in table[f][l].sites
                 PROVE  objs[f].words[a - TextOffset] + (a - TextOffset + Width)
                            = objs[f].symtab[l].value
    BY DEF LocalJumpsLand
  <2>2. /\ f \in Files /\ a \in Nat
        /\ objs[f].words[a - TextOffset] = table[f][l].addr - (a + Width)
    BY <2>1, PatchedFields
  <2>3. table[f][l].addr \in Nat
    BY <2>1, <2>2 DEF AsmInv, Tables, Entries
  <2>4. objs[f].symtab[l].value = table[f][l].addr - TextOffset
    BY <2>1, SymbolOf
  <2>5. QED
    BY <2>2, <2>3, <2>4, SizesAssumption DEF Width
<1>2. QED
  BY <1>1, AsmInductive, PTL

(***************************************************************************)
(* Every reference of an object file is either patched or left to the      *)
(* linker, never both and never neither (append_rel_section).              *)
(***************************************************************************)
THEOREM NoReferenceForgotten == Spec => []ReferencesAccounted
<1>1. AsmInv => ReferencesAccounted
  <2>1. SUFFICES ASSUME AsmInv, NEW f \in DOMAIN objs, NEW o \in DOMAIN objs[f].words
                 PROVE
        \/ /\ \E l \in Labels : /\ o + TextOffset \in table[f][l].sites
                                /\ table[f][l].defined
           /\ \A r \in objs[f].rel : r.offset # o
        \/ \E r \in objs[f].rel : /\ r.offset = o
                                  /\ o + TextOffset \in table[f][r.symbol].sites
                                  /\ objs[f].symtab[r.symbol].undef
    BY DEF ReferencesAccounted
  <2> DEFINE p == PatchRelJumps(table[f], Unpatched(f))
  <2>2. f \in Files /\ objs[f] = ObjectFile(table[f], p, size[f])
    BY <2>1 DEF AsmInv, Objects
  <2>3. DOMAIN p = SitesOf(f)
    BY DEF PatchRelJumps, Unpatched
  <2> HIDE DEF p
  <2>4. o \in {b - TextOffset : b \in SitesOf(f)}
    BY <2>1, <2>2, <2>3 DEF ObjectFile, Relocations, TextSize
  <2>5. \A l \in Labels : table[f][l].sites \subseteq Nat
    BY <2>1, <2>2 DEF AsmInv, Tables, Entries
  <2>6. PICK l \in Labels : \E b \in table[f][l].sites : o = b - TextOffset
    BY <2>4 DEF SitesOf
  <2>7. PICK b \in table[f][l].sites : o = b - TextOffset
    BY <2>6
  <2>8. b \in Nat /\ o + TextOffset = b
    BY <2>5, <2>7, SizesAssumption
  <2>9. objs[f].rel =
           UNION {{[offset |-> a - TextOffset, symbol |-> k] : a \in table[f][k].sites} :
                     k \in {m \in Labels : ~table[f][m].defined}}
    BY <2>2 DEF ObjectFile, Relocations, TextSize
  <2>10. CASE table[f][l].defined
    <3>1. SUFFICES ASSUME NEW r \in objs[f].rel, r.offset = o PROVE FALSE
      BY <2>8, <2>10
    <3>2. PICK k \in {m \in Labels : ~table[f][m].defined} :
             r \in {[offset |-> a - TextOffset, symbol |-> k] : a \in table[f][k].sites}
      BY <2>9, <3>1
    <3>3. PICK a \in table[f][k].sites : r = [offset |-> a - TextOffset, symbol |-> k]
      BY <3>2
    <3>4. a = b
      BY <2>5, <2>7, <3>1, <3>2, <3>3, SizesAssumption
    <3>5. QED
      BY <2>1, <2>2, <2>10, <3>2, <3>3, <3>4 DEF AsmInv, SitesOwned
  <2>11. CASE ~table[f][l].defined
    <3>1. [offset |-> b - TextOffset, symbol |-> l] \in objs[f].rel
      BY <2>7, <2>9, <2>11
    <3>2. objs[f].symtab[l].undef
      BY <2>1, <2>7, <2>11, SymbolOf
    <3>3. QED
      BY <2>7, <2>8, <3>1, <3>2
  <2>12. QED
    BY <2>10, <2>11
<1>2. QED
  BY <1>1, AsmInductive, PTL

-----------------------------------------------------------------------------
(* The layout of the executable *)

LayoutInv ==
    /\ length \in Nat
    /\ DOMAIN offsets = Appended
    /\ \A f \in DOMAIN offsets : offsets[f] \in Nat
    /\ phase = "assemble" => DOMAIN offsets = {}
    /\ phase = "append" => DOMAIN objs = Files
    /\ DOMAIN offsets \subseteq DOMAIN objs
    /\ CodeDisjoint

\* The size of an object file is a number of bytes.
SizesInv == \A f \in Files : size[f] \in Nat /\ TextOffset <= size[f]

LEMMA SizesInductive == Spec => []SizesInv
<1>1. Init => SizesInv
  BY SizesAssumption DEF Init, SizesInv
<1>2. AsmInv /\ SizesInv /\ [Next]_vars => SizesInv'
  <2>1. SUFFICES ASSUME AsmInv, SizesInv, [Next]_vars PROVE SizesInv'
    OBVIOUS
  <2>2. cur \in Files /\ size \in [Files -> Nat] /\ Lengths \subseteq Nat
    BY <2>1, SizesAssumption DEF AsmInv, Tables
  <2>3. ASSUME NEW n \in Nat, Grow(n) PROVE SizesInv'
    BY <2>1, <2>2, <2>3, SizesAssumption DEF SizesInv, Grow
  <2>4. ASSUME NEW n \in Lengths, Code(n) PROVE SizesInv'
    BY <2>2, <2>3, <2>4 DEF Code
  <2>5. ASSUME NEW l \in Labels, LabelRef(l) \/ LabelDef(l) PROVE SizesInv'
    <3>1. CASE LabelRef(l)
      BY <2>3, <3>1 DEF LabelRef, Width
    <3>2. CASE LabelDef(l)
      BY <2>1, <3>2 DEF LabelDef, SizesInv
    <3>3. QED
      BY <2>5, <3>1, <3>2
  <2>6. CASE UNCHANGED size
    BY <2>1, <2>6 DEF SizesInv
  <2>7. QED
    BY <2>1, <2>4, <2>5, <2>6
       DEF Next, EndObject, AppendProgram, PatchProgramEntry, ApplyRelocations,
           asmVars, vars
<1>3. QED
  BY <1>1, <1>2, AsmInductive, PTL DEF Spec

LEMMA ObjectSizes ==
    ASSUME AsmInv, SizesInv PROVE \A f \in DOMAIN objs : objs[f].size \in Nat
<1>1. SUFFICES ASSUME NEW f \in DOMAIN objs PROVE objs[f].size \in Nat
  OBVIOUS
<1> DEFINE p == PatchRelJumps(table[f], Unpatched(f))
<1>2. f \in Files /\ objs[f] = ObjectFile(table[f], p, size[f])
  BY DEF AsmInv, Objects
<1> HIDE DEF p
<1>3. objs[f].size = size[f] - TextOffset
  BY <1>2 DEF ObjectFile, Relocations, TextSize
<1>4. QED
  BY <1>2, <1>3, SizesAssumption DEF SizesInv

LEMMA LayoutNext ==
    ASSUME AsmInv, SizesInv, LayoutInv, [Next]_vars PROVE LayoutInv'
<1>1. /\ length \in Nat /\ DOMAIN offsets = Appended
      /\ \A f \in DOMAIN offsets : offsets[f] \in Nat
      /\ phase = "append" => DOMAIN objs = Files
      /\ phase = "assemble" => DOMAIN offsets = {}
      /\ DOMAIN offsets \subseteq DOMAIN objs
      /\ CodeDisjoint
  BY DEF LayoutInv
<1>2. \A f \in DOMAIN objs : objs[f].size \in Nat
  BY ObjectSizes
<1>3. ASSUME UNCHANGED <<offsets, length, order, objs>>,
             phase' \in {"assemble", "append"} => phase' = phase
      PROVE  LayoutInv'
  BY <1>1, <1>3 DEF LayoutInv, Appended, CodeDisjoint
<1>4. ASSUME NEW n \in Lengths, Code(n) PROVE LayoutInv'
  BY <1>3, <1>4 DEF Code, linkVars
<1>5. ASSUME NEW l \in Labels, LabelRef(l) \/ LabelDef(l) PROVE LayoutInv'
  BY <1>3, <1>5 DEF LabelRef, LabelDef, linkVars
<1>6. CASE EndObject
  <2>1. /\ DOMAIN offsets = {} /\ Appended = {}
        /\ UNCHANGED <<offsets, length, order>>
        /\ phase' = "append" => DOMAIN objs' = Files
    BY <1>1, <1>6 DEF EndObject, linkVars
  <2>2. QED
    BY <1>1, <2>1 DEF LayoutInv, Appended, CodeDisjoint
<1>7. ASSUME NEW f \in Files, AppendProgram(f) PROVE LayoutInv'
  <2>1. /\ phase = "append" /\ f \notin DOMAIN offsets /\ f \in DOMAIN objs
        /\ objs' = objs /\ order' = Append(order, f)
        /\ offsets' = Put(offsets, f, length)
        /\ length' = length + objs[f].size
        /\ phase' \in {"append", "entry"}
    BY <1>1, <1>7 DEF AppendProgram, CodeOffset, asmVars
  <2>2. /\ DOMAIN offsets' = DOMAIN offsets \cup {f}
        /\ offsets'[f] = length
        /\ \A g \in DOMAIN offsets : offsets'[g] = offsets[g]
    BY <2>1 DEF Put
  <2>3. length' \in Nat /\ length <= length' /\ objs[f].size \in Nat
    BY <1>1, <1>2, <2>1
  <2>4. Appended' = Appended \cup {f}
    BY <2>1 DEF Appended
  <2>5. \A g \in DOMAIN offsets' : offsets'[g] \in Nat /\ objs[g].size \in Nat
    BY <1>1, <1>2, <2>1, <2>2
  <2>6. \A g \in DOMAIN offsets : offsets[g] + objs[g].size <= length
    BY <1>1 DEF CodeDisjoint
  <2>7. CodeDisjoint'
    <3>1. SUFFICES ASSUME NEW g \in DOMAIN offsets', NEW h \in DOMAIN offsets'
                   PROVE  /\ offsets'[g] + objs[g].size <= length'
                          /\ \/ g = h
                             \/ offsets'[g] + objs[g].size <= offsets'[h]
                             \/ offsets'[h] + objs[h].size <= offsets'[g]
      BY <2>1 DEF CodeDisjoint
    <3>2. offsets'[g] + objs[g].size <= length'
      BY <1>1, <2>1, <2>2, <2>3, <2>5, <2>6
    <3>3. CASE g = f \/ h = f
      BY <2>2, <2>6, <3>2, <3>3
    <3>4. CASE g # f /\ h # f
      BY <1>1, <2>2, <3>2, <3>4 DEF CodeDisjoint
    <3>5. QED
      BY <3>2, <3>3, <3>4
  <2>8. QED
    BY <1>1, <2>1, <2>2, <2>3, <2>4, <2>5, <2>7 DEF LayoutInv
<1>8. CASE PatchProgramEntry
  BY <1>3, <1>8 DEF PatchProgramEntry, asmVars
<1>9. CASE ApplyRelocations
  BY <1>3, <1>9 DEF ApplyRelocations, asmVars
<1>10. CASE UNCHANGED vars
  BY <1>3, <1>10 DEF vars, asmVars, linkVars
<1>11. QED
  BY <1>4, <1>5, <1>6, <1>7, <1>8, <1>9, <1>10 DEF Next

(***************************************************************************)
(* The code of the objects never overlaps in the executable, in whatever   *)
(* order the linker's map yields them (append_program).                    *)
(***************************************************************************)
THEOREM ObjectsDisjoint == Spec => []CodeDisjoint
<1>1. Init => LayoutInv
  BY DEF Init, LayoutInv, Appended, CodeDisjoint
<1>2. AsmInv /\ SizesInv /\ LayoutInv /\ [Next]_vars => LayoutInv'
  BY LayoutNext
<1>3. LayoutInv => CodeDisjoint
  BY DEF LayoutInv
<1>4. QED
  BY <1>1, <1>2, <1>3, AsmInductive, SizesInductive, PTL DEF Spec

-----------------------------------------------------------------------------
(***************************************************************************)
(* What the linker makes of the object files: for any number of files,     *)
(* labels and bytes every field of an executable linked without an error   *)
(* leads to a definition of its label, an error is reported exactly for a  *)
(* label nobody defines, and the program starts at a _start.               *)
(*                                                                         *)
(* LinkInv strengthens the three: how far append_program and               *)
(* apply_relocations have come, which fields of the executable hold what   *)
(* they must, and which of the relocations done were not found.  A         *)
(* relocation writes to its own field only, because the objects do not     *)
(* overlap (LayoutInv) and a site belongs to one label (AsmInv).           *)
(***************************************************************************)

\* The last element of a set of positions is one of them.
LEMMA LastIsIn ==
    ASSUME NEW n \in Nat, NEW S \in SUBSET (1 .. n), S # {} PROVE LastOf(S) \in S
<1> DEFINE T == {n - i : i \in S}
<1>1. T \subseteq Nat /\ T # {}
  <2>1. \A i \in S : n - i \in Nat
    OBVIOUS
  <2>2. PICK i \in S : TRUE
    OBVIOUS
  <2>3. n - i \in T
    OBVIOUS
  <2>4. QED
    BY <2>1, <2>3
<1>2. \E x \in T : \A y \in T : ~ (<<y, x>> \in OpToRel(<, Nat))
  <2> HIDE DEF T
  <2>1. QED
    BY <1>1, NatLessThanWellFounded, WFMin
<1>3. PICK x \in T : \A y \in T : ~ (y < x)
  <2>1. PICK x \in T : \A y \in T : ~ (<<y, x>> \in OpToRel(<, Nat))
    BY <1>2
  <2>2. \A y \in T : y < x => <<y, x>> \in OpToRel(<, Nat)
    BY <1>1 DEF OpToRel
  <2>3. QED
    BY <2>1, <2>2
<1>4. PICK i \in S : x = n - i
  OBVIOUS
<1>5. \A j \in S : j <= i
  <2>1. SUFFICES ASSUME NEW j \in S PROVE j <= i
    OBVIOUS
  <2>2. n - j \in T /\ j \in Nat /\ i \in Nat
    OBVIOUS
  <2>3. ~(n - j < n - i)
    BY <1>3, <1>4, <2>2
  <2>4. QED
    BY <2>2, <2>3
<1>6. QED
  BY <1>5 DEF LastOf

-----------------------------------------------------------------------------
(* The addresses in the tables of the assembler *)

Bounds ==
    \A f \in Files :
        /\ size[f] \in Nat /\ TextOffset <= size[f] /\ size[f] <= MaxSize
        /\ \A l \in Labels :
              /\ table[f][l].defined => TextOffset <= table[f][l].addr
              /\ \A a \in table[f][l].sites : TextOffset <= a

LEMMA BoundsInductive == Spec => []Bounds
<1>1. Init => Bounds
  BY SizesAssumption DEF Init, Bounds, Undefined
<1>2. AsmInv /\ Bounds /\ [Next]_vars => Bounds'
  <2>1. SUFFICES ASSUME AsmInv, Bounds, [Next]_vars PROVE Bounds'
    OBVIOUS
  <2>2. /\ cur \in Files /\ size \in [Files -> Nat]
        /\ table \in [Files -> [Labels -> Entries]]
        /\ Lengths \subseteq Nat /\ TextOffset \in Nat /\ MaxSize \in Nat
    BY <2>1, SizesAssumption DEF AsmInv, Tables
  <2>3. ASSUME NEW n \in Nat, Grow(n)
        PROVE  \A f \in Files : /\ size'[f] \in Nat /\ TextOffset <= size'[f]
                                /\ size'[f] <= MaxSize
    BY <2>1, <2>2, <2>3 DEF Bounds, Grow
  <2>4. ASSUME NEW n \in Lengths, Code(n) PROVE Bounds'
    BY <2>1, <2>2, <2>3, <2>4 DEF Code, Bounds
  <2>5. ASSUME NEW l \in Labels, LabelRef(l) PROVE Bounds'
    <3>1. table' = [table EXCEPT ![cur][l] = Referenced(@, size[cur])]
      BY <2>5 DEF LabelRef
    <3>2. \A f \in Files : \A k \in Labels :
             /\ table'[f][k].defined = table[f][k].defined
             /\ table'[f][k].addr = table[f][k].addr
             /\ \A a \in table'[f][k].sites : a \in table[f][k].sites \/ a = size[cur]
      BY <2>2, <3>1 DEF Referenced
    <3>3. \A f \in Files : /\ size'[f] \in Nat /\ TextOffset <= size'[f]
                           /\ size'[f] <= MaxSize
      BY <2>3, <2>5 DEF LabelRef, Width
    <3>4. QED
      BY <2>1, <2>2, <3>2, <3>3 DEF Bounds
  <2>6. ASSUME NEW l \in Labels, LabelDef(l) PROVE Bounds'
    <3>1. /\ size' = size
          /\ \/ table' = table
             \/ table' = [table EXCEPT ![cur][l] = DefinedAt(@, size[cur])]
      BY <2>6 DEF LabelDef
    <3>2. \A f \in Files : \A k \in Labels :
             /\ table'[f][k].sites = table[f][k].sites
             /\ \/ /\ table'[f][k].defined = table[f][k].defined
                   /\ table'[f][k].addr = table[f][k].addr
                \/ table'[f][k].addr = size[cur]
      BY <2>2, <3>1 DEF DefinedAt
    <3>3. QED
      BY <2>1, <2>2, <3>1, <3>2 DEF Bounds
  <2>7. CASE UNCHANGED <<size, table>>
    BY <2>1, <2>7 DEF Bounds
  <2>8. QED
    BY <2>1, <2>4, <2>5, <2>6, <2>7
       DEF Next, EndObject, AppendProgram, PatchProgramEntry, ApplyRelocations,
           asmVars, vars
<1>3. QED
  BY <1>1, <1>2, AsmInductive, PTL DEF Spec

\* The fields of an object file lie inside its code, each relocation is for
\* one of them, and no field has two.
LEMMA ObjectFields ==
    ASSUME AsmInv, Bounds, NEW f \in DOMAIN objs
    PROVE  /\ f \in Files /\ objs[f].size \in Nat
           /\ DOMAIN objs[f].words = {a - TextOffset : a \in SitesOf(f)}
           /\ \A o \in DOMAIN objs[f].words : o \in Nat /\ o + Width <= objs[f].size
           /\ \A r \in objs[f].rel :
                 /\ r.offset \in DOMAIN objs[f].words
                 /\ r.symbol \in Labels /\ ~table[f][r.symbol].defined
                 /\ r.offset + TextOffset \in table[f][r.symbol].sites
           /\ \A r, s \in objs[f].rel : r.offset = s.offset => r = s
           /\ \A l \in Labels : \A a \in table[f][l].sites :
                 ~table[f][l].defined =>
                    [offset |-> a - TextOffset, symbol |-> l] \in objs[f].rel
<1> DEFINE p == PatchRelJumps(table[f], Unpatched(f))
<1>1. f \in Files /\ objs[f] = ObjectFile(table[f], p, size[f])
  BY DEF AsmInv, Objects
<1>2. DOMAIN p = SitesOf(f)
  BY DEF PatchRelJumps, Unpatched
<1> HIDE DEF p
<1>3. /\ DOMAIN objs[f].words = {a - TextOffset : a \in SitesOf(f)}
      /\ objs[f].size = size[f] - TextOffset
      /\ objs[f].rel =
           UNION {{[offset |-> a - TextOffset, symbol |-> k] : a \in table[f][k].sites} :
                     k \in {m \in Labels : ~table[f][m].defined}}
  BY <1>1, <1>2 DEF ObjectFile, Relocations, TextSize
<1>4. /\ size[f] \in Nat /\ TextOffset \in Nat /\ TextOffset <= size[f]
      /\ objs[f].size \in Nat
  BY <1>1, <1>3, SizesAssumption DEF Bounds
<1>5. \A l \in Labels : \A a \in table[f][l].sites :
         a \in Nat /\ TextOffset <= a /\ a + Width <= size[f] /\ a \in SitesOf(f)
  BY <1>1 DEF AsmInv, Tables, Entries, SitesInside, Bounds, SitesOf
<1>6. ASSUME NEW o \in DOMAIN objs[f].words PROVE o \in Nat /\ o + Width <= objs[f].size
  <2>1. PICK l \in Labels : \E a \in table[f][l].sites : o = a - TextOffset
    BY <1>3, <1>6 DEF SitesOf
  <2>2. QED
    BY <1>3, <1>4, <1>5, <2>1 DEF Width
<1>7. ASSUME NEW r \in objs[f].rel
      PROVE  /\ r.offset \in DOMAIN objs[f].words /\ r.offset \in Nat
             /\ r.symbol \in Labels /\ ~table[f][r.symbol].defined
             /\ r.offset + TextOffset \in table[f][r.symbol].sites
             /\ r = [offset |-> r.offset, symbol |-> r.symbol]
  <2>1. PICK k \in {m \in Labels : ~table[f][m].defined} :
           r \in {[offset |-> a - TextOffset, symbol |-> k] : a \in table[f][k].sites}
    BY <1>3, <1>7
  <2>2. PICK a \in table[f][k].sites : r = [offset |-> a - TextOffset, symbol |-> k]
    BY <2>1
  <2>3. /\ k \in Labels /\ ~table[f][k].defined
        /\ a \in Nat /\ TextOffset <= a /\ a \in SitesOf(f)
    BY <1>5, <2>1, <2>2
  <2>4. r.symbol = k /\ r.offset = a - TextOffset
    BY <2>2
  <2>5. r.offset \in DOMAIN objs[f].words
    BY <1>3, <2>3, <2>4
  <2>6. r.offset + TextOffset = a
    BY <1>4, <2>3, <2>4
  <2>7. QED
    BY <1>6, <2>2, <2>3, <2>4, <2>5, <2>6
<1>8. ASSUME NEW r \in objs[f].rel, NEW s \in objs[f].rel, r.offset = s.offset
      PROVE  r = s
  <2>1. r.symbol = s.symbol
    BY <1>1, <1>7, <1>8 DEF AsmInv, SitesOwned
  <2>2. QED
    BY <1>7, <1>8, <2>1
<1>9. ASSUME NEW l \in Labels, NEW a \in table[f][l].sites, ~table[f][l].defined
      PROVE  [offset |-> a - TextOffset, symbol |-> l] \in objs[f].rel
  BY <1>3, <1>9
<1>10. QED
  BY <1>1, <1>3, <1>4, <1>6, <1>7, <1>8, <1>9

-----------------------------------------------------------------------------
(* How far the linker has come *)

Progress ==
    /\ order \in Seq(Files) /\ relocated \in 0 .. Len(order)
    /\ \A i, j \in DOMAIN order : order[i] = order[j] => i = j
    /\ phase \in {"append", "entry", "relocate"} => DOMAIN objs = Files
    /\ phase \in {"entry", "relocate"} => Appended = Files
    /\ phase \in {"assemble", "append", "entry"} => relocated = 0 /\ entry = NoEntry
    /\ phase \in {"append", "entry"} => ~errors
    /\ phase = "relocate" => relocated < Len(order)
    /\ Linked => relocated = Len(order) /\ Appended = Files

Having == {i \in DOMAIN order : Start \in DOMAIN objs[order[i]].symtab}
EntrySet ==
    phase = "relocate" \/ Linked =>
        entry = IF Having = {} THEN NoEntry ELSE Address(order[LastOf(Having)], Start)

\* the fields that have no relocation are as the assembler left them
FieldsKept ==
    /\ \A a \in DOMAIN exe : a \in Nat /\ a < length
    /\ \A f \in Appended : \A o \in DOMAIN objs[f].words :
          /\ offsets[f] + o \in DOMAIN exe
          /\ (\A r \in objs[f].rel : r.offset # o) =>
                exe[offsets[f] + o] = objs[f].words[o]

Place(f, r) == offsets[f] + r.offset
Displacement(f, r) ==
    Address(order[LastOf(Defining(r.symbol))], r.symbol) - (Place(f, r) + Width)
RelocationsDone ==
    \A i \in 1 .. relocated : \A r \in objs[order[i]].rel :
        Defining(r.symbol) # {} => exe[Place(order[i], r)] = Displacement(order[i], r)
MissesReported ==
    phase = "relocate" \/ Linked =>
        (errors <=> \E i \in 1 .. relocated : \E r \in objs[order[i]].rel :
                        Defining(r.symbol) = {})

LinkInv == Progress /\ EntrySet /\ FieldsKept /\ RelocationsDone /\ MissesReported

LEMMA LinkInit == Init => LinkInv
<1>1. SUFFICES ASSUME Init PROVE LinkInv
  OBVIOUS
<1>2. /\ order = <<>> /\ exe = <<>> /\ relocated = 0 /\ phase = "assemble"
      /\ entry = NoEntry
  BY <1>1 DEF Init
<1>3. Appended = {} /\ DOMAIN exe = {} /\ DOMAIN order = {} /\ Len(order) = 0
      /\ order \in Seq(Files)
  BY <1>2 DEF Appended
<1>4. QED
  BY <1>2, <1>3 DEF LinkInv, Progress, EntrySet, FieldsKept, RelocationsDone,
                    MissesReported, Linked

\* While files are assembled the linker has nothing.
LEMMA AssemblingKeepsLinkInv ==
    ASSUME AsmInv, LinkInv, LayoutInv, phase = "assemble", UNCHANGED linkVars,
           \/ phase' = "assemble"
           \/ phase' = "append" /\ DOMAIN objs' = Files /\ ~errors'
           \/ phase' = "done" /\ objs' = objs
    PROVE  LinkInv'
<1>1. /\ UNCHANGED <<order, offsets, exe, length, entry, relocated>>
  BY DEF linkVars
<1>2. relocated = 0 /\ Appended = {} /\ Progress /\ FieldsKept
  BY DEF LinkInv, Progress, LayoutInv
<1>3. ~Linked'
  BY DEF AsmInv, Fresh, Tables, Linked
<1>4. Progress'
  BY <1>1, <1>2, <1>3 DEF Progress, Appended
<1>5. FieldsKept'
  BY <1>1, <1>2 DEF FieldsKept, Appended
<1>6. (EntrySet /\ RelocationsDone /\ MissesReported)'
  BY <1>1, <1>2, <1>3 DEF EntrySet, RelocationsDone, MissesReported
<1>7. QED
  BY <1>4, <1>5, <1>6 DEF LinkInv

\* append_program copies the fields of one more object behind the others.
LEMMA AppendKeepsLinkInv ==
    ASSUME AsmInv, Bounds, LayoutInv, LinkInv, NEW f \in Files, AppendProgram(f)
    PROVE  LinkInv'
<1>1. /\ phase = "append" /\ f \notin Appended
      /\ objs' = objs /\ order' = Append(order, f)
      /\ offsets' = Put(offsets, f, length)
      /\ exe' = [a \in DOMAIN exe \cup {length + o : o \in DOMAIN objs[f].words} |->
                   IF a >= length THEN objs[f].words[a - length] ELSE exe[a]]
      /\ length' = length + objs[f].size
      /\ phase' = IF Appended \cup {f} = Files THEN "entry" ELSE phase
      /\ entry' = entry /\ relocated' = relocated /\ errors' = errors
  BY DEF AppendProgram, CodeOffset, asmVars
<1>2. /\ order \in Seq(Files) /\ relocated = 0 /\ entry = NoEntry /\ ~errors
      /\ DOMAIN objs = Files /\ length \in Nat /\ DOMAIN offsets = Appended
      /\ \A i, j \in DOMAIN order : order[i] = order[j] => i = j
      /\ \A g \in Appended : offsets[g] \in Nat
  BY <1>1 DEF LinkInv, Progress, LayoutInv
<1>3. /\ order' \in Seq(Files) /\ Len(order') = Len(order) + 1
      /\ Appended' = Appended \cup {f}
      /\ \A i, j \in DOMAIN order' : order'[i] = order'[j] => i = j
  BY <1>1, <1>2 DEF Appended
<1>4. Progress'
  BY <1>1, <1>2, <1>3 DEF Progress, Linked
<1>5. (EntrySet /\ RelocationsDone /\ MissesReported)'
  BY <1>1, <1>2 DEF EntrySet, RelocationsDone, MissesReported, Linked
<1>6. /\ objs[f].size \in Nat
      /\ \A o \in DOMAIN objs[f].words : o \in Nat /\ o < objs[f].size
  BY <1>2, ObjectFields DEF Width
<1>7. \A a \in DOMAIN exe : a \in Nat /\ a < length
  BY DEF LinkInv, FieldsKept
<1>8. \A a \in DOMAIN exe' : a \in Nat /\ a < length'
  BY <1>1, <1>2, <1>6, <1>7
<1>9. ASSUME NEW o \in DOMAIN objs[f].words
      PROVE  offsets'[f] + o \in DOMAIN exe' /\ exe'[offsets'[f] + o] = objs[f].words[o]
  <2>1. offsets'[f] = length
    BY <1>1 DEF Put
  <2>2. o \in Nat /\ length + o >= length /\ (length + o) - length = o
    BY <1>2, <1>6
  <2>3. length + o \in DOMAIN exe'
    BY <1>1
  <2>4. QED
    BY <1>1, <2>1, <2>2, <2>3
<1>10. ASSUME NEW g \in Appended, NEW o \in DOMAIN objs[g].words
       PROVE  /\ offsets'[g] + o \in DOMAIN exe'
              /\ exe'[offsets'[g] + o] = exe[offsets[g] + o]
  <2>1. offsets'[g] = offsets[g]
    BY <1>1, <1>2 DEF Put
  <2>2. offsets[g] + o \in DOMAIN exe
    BY DEF LinkInv, FieldsKept
  <2>3. offsets[g] + o \in Nat /\ ~(offsets[g] + o >= length)
    BY <1>2, <1>7, <2>2
  <2>4. QED
    BY <1>1, <2>1, <2>2, <2>3
<1>11. FieldsKept'
  <2>1. SUFFICES ASSUME NEW g \in Appended \cup {f}, NEW o \in DOMAIN objs[g].words
                 PROVE  /\ offsets'[g] + o \in DOMAIN exe'
                        /\ (\A r \in objs[g].rel : r.offset # o) =>
                              exe'[offsets'[g] + o] = objs[g].words[o]
    BY <1>1, <1>3, <1>8 DEF FieldsKept
  <2>2. CASE g = f
    BY <2>2, <1>9
  <2>3. CASE g \in Appended
    BY <2>3, <1>10 DEF LinkInv, FieldsKept
  <2>4. QED
    BY <2>2, <2>3
<1>12. QED
  BY <1>4, <1>5, <1>11 DEF LinkInv

LEMMA EntryKeepsLinkInv ==
    ASSUME AsmInv, LinkInv, PatchProgramEntry PROVE LinkInv'
<1>1. /\ phase = "entry" /\ phase' = "relocate" /\ objs' = objs /\ errors' = errors
      /\ UNCHANGED <<order, offsets, exe, length, relocated>>
      /\ entry' = IF Having = {} THEN entry ELSE Address(order[LastOf(Having)], Start)
  BY DEF PatchProgramEntry, asmVars, Having
<1>2. /\ Progress /\ FieldsKept /\ relocated = 0 /\ entry = NoEntry /\ ~errors
      /\ order \in Seq(Files) /\ Appended = Files /\ DOMAIN objs = Files
  BY <1>1 DEF LinkInv, Progress
<1>3. Len(order) > 0
  BY <1>2 DEF AsmInv, Tables, Appended
<1>4. Progress'
  BY <1>1, <1>2, <1>3 DEF Progress, Appended, Linked
<1>5. EntrySet'
  BY <1>1, <1>2 DEF EntrySet, Having, Address
<1>6. FieldsKept'
  BY <1>1, <1>2 DEF FieldsKept, Appended
<1>7. (RelocationsDone /\ MissesReported)'
  BY <1>1, <1>2 DEF RelocationsDone, MissesReported
<1>8. QED
  BY <1>4, <1>5, <1>6, <1>7 DEF LinkInv

\* A place in the executable belongs to one field of one object.
LEMMA PlacesApart ==
    ASSUME AsmInv, Bounds, LayoutInv,
           NEW f \in Appended, NEW g \in Appended,
           NEW o \in DOMAIN objs[f].words, NEW p \in DOMAIN objs[g].words,
           offsets[f] + o = offsets[g] + p
    PROVE  f = g /\ o = p
<1>1. /\ f \in DOMAIN offsets /\ g \in DOMAIN offsets
      /\ f \in DOMAIN objs /\ g \in DOMAIN objs
      /\ offsets[f] \in Nat /\ offsets[g] \in Nat
  BY DEF LayoutInv
<1>2. /\ o \in Nat /\ o + Width <= objs[f].size /\ objs[f].size \in Nat
      /\ p \in Nat /\ p + Width <= objs[g].size /\ objs[g].size \in Nat
  BY <1>1, ObjectFields
<1>3. \/ f = g
      \/ offsets[f] + objs[f].size <= offsets[g]
      \/ offsets[g] + objs[g].size <= offsets[f]
  BY <1>1 DEF LayoutInv, CodeDisjoint
<1>4. f = g
  BY <1>1, <1>2, <1>3 DEF Width
<1>5. QED
  BY <1>1, <1>2, <1>4

\* apply_relocations for one more object writes its relocated fields and no
\* others.
LEMMA RelocationsKeepLinkInv ==
    ASSUME AsmInv, Bounds, LayoutInv, LinkInv, ApplyRelocations PROVE LinkInv'
<1> DEFINE f == order[relocated + 1]
           found == {r \in objs[f].rel : Defining(r.symbol) # {}}
<1>1. /\ phase = "relocate" /\ UNCHANGED <<order, offsets, length, entry>>
      /\ objs' = objs /\ relocated' = relocated + 1
      /\ phase' = IF relocated' = Len(order) THEN "done" ELSE phase
      /\ errors' = (errors \/ found # objs[f].rel)
      /\ exe' = [a \in DOMAIN exe |->
                    IF {r \in found : offsets[f] + r.offset = a} = {} THEN exe[a]
                    ELSE LET r == CHOOSE r \in {r \in found : offsets[f] + r.offset = a} : TRUE
                         IN  Address(order[LastOf(Defining(r.symbol))], r.symbol)
                               - (offsets[f] + r.offset + Width)]
  BY DEF ApplyRelocations, asmVars
<1>2. /\ order \in Seq(Files) /\ relocated \in 0 .. Len(order) /\ relocated < Len(order)
      /\ \A i, j \in DOMAIN order : order[i] = order[j] => i = j
      /\ Appended = Files /\ DOMAIN objs = Files
      /\ f \in Files /\ relocated + 1 \in DOMAIN order
  BY <1>1 DEF LinkInv, Progress
<1>3. Appended' = Appended /\ \A l : Defining(l)' = Defining(l)
  BY <1>1 DEF Appended, Defining
<1>4. \A g, l : Address(g, l)' = Address(g, l)
  BY <1>1 DEF Address
<1> HIDE DEF f
<1>5. Progress'
  BY <1>1, <1>2, <1>3 DEF LinkInv, Progress, Linked
<1>6. EntrySet'
  BY <1>1 DEF LinkInv, EntrySet, Having, Address
<1>7. ASSUME NEW g \in Files, NEW o \in DOMAIN objs[g].words,
             \A r \in found : g = f => r.offset # o
      PROVE  /\ offsets[g] + o \in DOMAIN exe
             /\ exe'[offsets[g] + o] = exe[offsets[g] + o]
  <2>1. offsets[g] + o \in DOMAIN exe
    BY <1>2 DEF LinkInv, FieldsKept
  <2>2. ASSUME NEW r \in found, offsets[f] + r.offset = offsets[g] + o PROVE FALSE
    <3>1. r.offset \in DOMAIN objs[f].words
      BY <1>2, ObjectFields
    <3>2. f = g /\ r.offset = o
      BY <1>2, <2>2, <3>1, PlacesApart
    <3>3. QED
      BY <1>7, <3>2
  <2>3. {r \in found : offsets[f] + r.offset = offsets[g] + o} = {}
    BY <2>2
  <2> HIDE DEF found
  <2>4. QED
    BY <1>1, <2>1, <2>3
<1>8. FieldsKept'
  <2>1. \A a \in DOMAIN exe' : a \in Nat /\ a < length'
    BY <1>1 DEF LinkInv, FieldsKept
  <2>2. SUFFICES ASSUME NEW g \in Files, NEW o \in DOMAIN objs[g].words
                 PROVE  /\ offsets[g] + o \in DOMAIN exe'
                        /\ (\A r \in objs[g].rel : r.offset # o) =>
                              exe'[offsets[g] + o] = objs[g].words[o]
    <3>1. Appended' = Files /\ objs' = objs /\ offsets' = offsets
      BY <1>1, <1>2, <1>3
    <3>2. QED
      BY <2>1, <3>1 DEF FieldsKept
  <2>3. offsets[g] + o \in DOMAIN exe'
    BY <1>1, <1>2 DEF LinkInv, FieldsKept
  <2>4. ASSUME \A r \in objs[g].rel : r.offset # o
        PROVE  exe'[offsets[g] + o] = objs[g].words[o]
    <3>1. exe'[offsets[g] + o] = exe[offsets[g] + o]
      BY <1>7, <2>4
    <3>2. QED
      BY <1>2, <2>4, <3>1 DEF LinkInv, FieldsKept
  <2>5. QED
    BY <2>3, <2>4
<1>9. ASSUME NEW r \in found
      PROVE  exe'[Place(f, r)] = Displacement(f, r)
  <2>1. r \in objs[f].rel /\ r.offset \in DOMAIN objs[f].words
    BY <1>2, ObjectFields
  <2>2. offsets[f] + r.offset \in DOMAIN exe
    BY <1>2, <2>1 DEF LinkInv, FieldsKept
  <2>3. ASSUME NEW s \in found, offsets[f] + s.offset = offsets[f] + r.offset PROVE s = r
    <3>1. s \in objs[f].rel /\ s.offset \in DOMAIN objs[f].words
      BY <1>2, ObjectFields
    <3>2. s.offset = r.offset
      BY <1>2, <2>1, <2>3, <3>1, PlacesApart
    <3>3. QED
      BY <1>2, <2>1, <3>1, <3>2, ObjectFields
  <2>4. {s \in found : offsets[f] + s.offset = offsets[f] + r.offset} = {r}
    BY <2>3
  <2> HIDE DEF found
  <2>5. (CHOOSE s \in {s \in found : offsets[f] + s.offset = offsets[f] + r.offset} : TRUE) = r
    BY <2>4
  <2>6. QED
    BY <1>1, <2>2, <2>4, <2>5 DEF Place, Displacement
<1>10. RelocationsDone'
  <2>1. SUFFICES ASSUME NEW i \in 1 .. relocated + 1, NEW r \in objs[order[i]].rel,
                        Defining(r.symbol) # {}
                 PROVE  exe'[Place(order[i], r)] = Displacement(order[i], r)
    <3>1. order' = order /\ objs' = objs /\ offsets' = offsets /\ relocated' = relocated + 1
      BY <1>1
    <3>2. \A g, r : Place(g, r)' = Place(g, r) /\ Displacement(g, r)' = Displacement(g, r)
      BY <1>3, <1>4, <3>1 DEF Place, Displacement
    <3>3. QED
      BY <1>3, <3>1, <3>2 DEF RelocationsDone
  <2>2. CASE i = relocated + 1
    BY <1>9, <2>1, <2>2 DEF f
  <2>3. CASE i # relocated + 1
    <3>1. i \in 1 .. relocated /\ i \in DOMAIN order /\ order[i] \in Files
      BY <1>2, <2>1, <2>3
    <3>2. order[i] # f
      BY <1>2, <2>3, <3>1 DEF f
    <3>3. r.offset \in DOMAIN objs[order[i]].words
      BY <1>2, <3>1, ObjectFields
    <3>4. exe'[Place(order[i], r)] = exe[Place(order[i], r)]
      BY <1>7, <3>1, <3>2, <3>3 DEF Place
    <3>5. QED
      BY <2>1, <3>1, <3>4 DEF LinkInv, RelocationsDone
  <2>4. QED
    BY <2>2, <2>3
<1>11. MissesReported'
  <2>1. errors <=> \E i \in 1 .. relocated : \E r \in objs[order[i]].rel :
                       Defining(r.symbol) = {}
    BY <1>1 DEF LinkInv, MissesReported
  <2>2. found # objs[f].rel <=> \E r \in objs[f].rel : Defining(r.symbol) = {}
    OBVIOUS
  <2>3. errors' <=> \E i \in 1 .. relocated + 1 : \E r \in objs[order[i]].rel :
                        Defining(r.symbol) = {}
    <3>1. errors' <=> errors \/ found # objs[f].rel
      BY <1>1
    <3>2. \A i : i \in 1 .. relocated + 1 <=> i \in 1 .. relocated \/ i = relocated + 1
      BY <1>2
    <3> HIDE DEF found
    <3>3. QED
      BY <2>1, <2>2, <3>1, <3>2 DEF f
  <2>4. QED
    BY <1>1, <1>3, <2>3 DEF MissesReported
<1>12. QED
  BY <1>5, <1>6, <1>8, <1>10, <1>11 DEF LinkInv

LEMMA LinkNext ==
    ASSUME AsmInv, Bounds, LayoutInv, LinkInv, [Next]_vars PROVE LinkInv'
<1>1. ASSUME NEW n \in Lengths, Code(n) PROVE LinkInv'
  BY <1>1, AssemblingKeepsLinkInv DEF Code
<1>2. ASSUME NEW l \in Labels, LabelRef(l) \/ LabelDef(l) PROVE LinkInv'
  BY <1>2, AssemblingKeepsLinkInv DEF LabelRef, LabelDef
<1>3. CASE EndObject
  BY <1>3, AssemblingKeepsLinkInv DEF EndObject
<1>4. ASSUME NEW f \in Files, AppendProgram(f) PROVE LinkInv'
  BY <1>4, AppendKeepsLinkInv
<1>5. CASE PatchProgramEntry
  BY <1>5, EntryKeepsLinkInv
<1>6. CASE ApplyRelocations
  BY <1>6, RelocationsKeepLinkInv
<1>7. CASE UNCHANGED vars
  <2>1. UNCHANGED <<order, offsets, exe, length, entry, relocated, objs, errors, phase>>
    BY <1>7 DEF vars, asmVars, linkVars
  <2>2. Linked' = Linked /\ Appended' = Appended /\ Having' = Having
    BY <2>1 DEF Linked, Appended, Having
  <2>3. /\ \A g, l : Address(g, l)' = Address(g, l)
        /\ \A l : Defining(l)' = Defining(l)
    BY <2>1 DEF Address, Defining
  <2>4. \A g, r : Place(g, r)' = Place(g, r) /\ Displacement(g, r)' = Displacement(g, r)
    BY <2>1, <2>3 DEF Place, Displacement
  <2>5. Progress'
    BY <2>1, <2>2 DEF LinkInv, Progress
  <2>6. EntrySet' /\ FieldsKept'
    BY <2>1, <2>2, <2>3 DEF LinkInv, EntrySet, FieldsKept
  <2>7. RelocationsDone' /\ MissesReported'
    BY <2>1, <2>2, <2>3, <2>4 DEF LinkInv, RelocationsDone, MissesReported
  <2>8. QED
    BY <2>5, <2>6, <2>7 DEF LinkInv
<1>8. QED
  BY <1>1, <1>2, <1>3, <1>4, <1>5, <1>6, <1>7 DEF Next

LEMMA LayoutInductive == Spec => []LayoutInv
<1>1. Init => LayoutInv
  BY DEF Init, LayoutInv, Appended, CodeDisjoint
<1>2. AsmInv /\ SizesInv /\ LayoutInv /\ [Next]_vars => LayoutInv'
  BY LayoutNext
<1>3. QED
  BY <1>1, <1>2, AsmInductive, SizesInductive, PTL DEF Spec

LEMMA LinkInductive == Spec => []LinkInv
<1>1. AsmInv /\ Bounds /\ LayoutInv /\ LinkInv /\ [Next]_vars => LinkInv'
  BY LinkNext
<1>2. QED
  BY <1>1, LinkInit, AsmInductive, BoundsInductive, LayoutInductive, PTL DEF Spec

-----------------------------------------------------------------------------
(* The executable *)

\* Once all objects are appended the linker looks for a label in all files.
LEMMA DefiningDefiners ==
    ASSUME AsmInv, LinkInv, Linked, NEW l \in Labels
    PROVE  /\ Defining(l) \in SUBSET (1 .. Len(order))
           /\ \A i \in Defining(l) : order[i] \in Definers(l)
           /\ Defining(l) = {} => Definers(l) = {}
<1>1. /\ order \in Seq(Files) /\ Appended = Files /\ DOMAIN objs = Files
  BY DEF LinkInv, Progress, Linked
<1>2. ASSUME NEW f \in Files
      PROVE  table[f][l].defined <=>
                l \in DOMAIN objs[f].symtab /\ ~objs[f].symtab[l].undef
  <2>1. objs[f] = ObjectFile(table[f], PatchRelJumps(table[f], Unpatched(f)), size[f])
    BY <1>1 DEF AsmInv, Objects
  <2>2. DOMAIN objs[f].symtab = Present(table[f])
    BY <2>1 DEF ObjectFile, Relocations, TextSize
  <2>3. QED
    BY <1>1, <2>2, SymbolOf DEF Present
<1>3. \A i \in DOMAIN order : i \in Defining(l) <=> table[order[i]][l].defined
  BY <1>1, <1>2 DEF Defining
<1>4. \A f \in Files : \E i \in DOMAIN order : order[i] = f
  BY <1>1 DEF Appended
<1>5. QED
  BY <1>1, <1>3, <1>4 DEF Defining, Definers

\* What the address of a definition is, seen from the assembler's table.
LEMMA AddressOfDefiner ==
    ASSUME AsmInv, Bounds, LayoutInv, Linked, NEW l \in Labels, NEW g \in Definers(l),
           g \in DOMAIN offsets
    PROVE  /\ Address(g, l) = AddressIn(g, l)
           /\ Address(g, l) \in Nat
<1>1. /\ g \in Files /\ g \in DOMAIN objs /\ table[g][l].defined
      /\ table[g][l].addr \in Nat /\ TextOffset <= table[g][l].addr
      /\ offsets[g] \in Nat /\ TextOffset \in Nat
  BY SizesAssumption DEF Linked, Definers, AsmInv, Tables, Entries, LayoutInv, Bounds
<1>2. objs[g].symtab[l].value = table[g][l].addr - TextOffset
  BY <1>1, SymbolOf
<1>3. QED
  BY <1>1, <1>2 DEF Address, AddressIn

(***************************************************************************)
(* Linker::link without an error leaves every field leading to the label   *)
(* it is for: in its own file when that defines the label (NodeLabelRef,   *)
(* patch_rel_jumps), else in one that does (apply_relocations).            *)
(***************************************************************************)
THEOREM Resolved == Spec => []ReferencesResolved
<1>1. AsmInv /\ Bounds /\ LayoutInv /\ LinkInv => ReferencesResolved
  <2>1. SUFFICES ASSUME AsmInv, Bounds, LayoutInv, LinkInv, Linked, ~errors,
                        NEW r \in Refs
                 PROVE  \E g \in Definers(r.label) :
                           /\ LeadsTo(r.file, r.site) = AddressIn(g, r.label)
                           /\ r.file \in Definers(r.label) => g = r.file
    BY DEF ReferencesResolved
  <2> DEFINE f == r.file  l == r.label  a == r.site  o == a - TextOffset
  <2>2. f \in Files /\ l \in Labels /\ a \in table[f][l].sites
    BY DEF Refs
  <2> HIDE DEF f, l, a
  <2>3. /\ order \in Seq(Files) /\ relocated = Len(order)
        /\ Appended = Files /\ DOMAIN objs = Files /\ DOMAIN offsets = Files
    BY <2>1 DEF LinkInv, Progress, Linked, LayoutInv
  <2>4. /\ a \in SitesOf(f) /\ a \in Nat /\ TextOffset \in Nat
        /\ offsets[f] \in Nat /\ o \in DOMAIN objs[f].words
    BY <2>1, <2>2, <2>3, PatchedFields, ObjectFields, SizesAssumption DEF LayoutInv
  <2>5. offsets[f] + o = offsets[f] + a - TextOffset /\ o \in Int
    BY <2>4
  <2>6. LeadsTo(f, a) = exe[offsets[f] + o] + (offsets[f] + o) + Width
    BY <2>5 DEF LeadsTo
  <2>7. CASE table[f][l].defined
    <3>1. f \in Definers(l)
      BY <2>2, <2>7 DEF Definers
    <3>2. objs[f].words[o] = table[f][l].addr - (a + Width)
      BY <2>1, <2>2, <2>3, <2>7, PatchedFields
    <3>3. ASSUME NEW s \in objs[f].rel, s.offset = o PROVE FALSE
      <4>1. /\ s.symbol \in Labels /\ ~table[f][s.symbol].defined
            /\ s.offset + TextOffset \in table[f][s.symbol].sites
        BY <2>1, <2>2, <2>3, <3>3, ObjectFields
      <4>2. s.offset + TextOffset = a
        BY <2>4, <3>3
      <4>3. QED
        BY <2>1, <2>2, <2>7, <4>1, <4>2 DEF AsmInv, SitesOwned
    <3>4. exe[offsets[f] + o] = objs[f].words[o]
      BY <2>1, <2>2, <2>3, <2>4, <3>3 DEF LinkInv, FieldsKept
    <3>5. table[f][l].addr \in Nat
      BY <2>1, <2>2 DEF AsmInv, Tables, Entries
    <3>6. LeadsTo(f, a) = AddressIn(f, l)
      BY <2>4, <2>5, <2>6, <3>2, <3>4, <3>5 DEF AddressIn, Width
    <3>7. QED
      BY <3>1, <3>6 DEF f, l, a
  <2>8. CASE ~table[f][l].defined
    <3> DEFINE s == [offset |-> o, symbol |-> l]
    <3>1. s \in objs[f].rel /\ s.offset = o /\ s.symbol = l
      BY <2>1, <2>2, <2>3, <2>8, ObjectFields
    <3>2. PICK i \in 1 .. relocated : order[i] = f
      BY <2>2, <2>3 DEF Appended
    <3>3. Defining(l) # {}
      BY <2>1, <3>1, <3>2 DEF LinkInv, MissesReported
    <3> DEFINE g == order[LastOf(Defining(l))]
    <3>4. LastOf(Defining(l)) \in Defining(l)
      BY <2>1, <2>2, <2>3, <3>3, DefiningDefiners, LastIsIn
    <3>5. g \in Definers(l)
      BY <2>1, <2>2, <3>4, DefiningDefiners
    <3>6. exe[Place(f, s)] = Displacement(f, s)
      BY <2>1, <3>1, <3>2, <3>3 DEF LinkInv, RelocationsDone
    <3>7. exe[offsets[f] + o] = Address(g, l) - (offsets[f] + o + Width)
      BY <3>1, <3>6 DEF Place, Displacement
    <3> HIDE DEF g, s
    <3>8. g \in DOMAIN offsets
      BY <2>3, <3>5 DEF Definers
    <3>9. Address(g, l) = AddressIn(g, l) /\ Address(g, l) \in Nat
      BY <2>1, <2>2, <3>5, <3>8, AddressOfDefiner
    <3>10. LeadsTo(f, a) = AddressIn(g, l)
      BY <2>4, <2>5, <2>6, <3>7, <3>9 DEF Width
    <3>11. f \notin Definers(l)
      BY <2>8 DEF Definers
    <3>12. QED
      BY <3>5, <3>10, <3>11 DEF f, l, a
  <2>9. QED
    BY <2>7, <2>8
<1>2. QED
  BY <1>1, AsmInductive, BoundsInductive, LayoutInductive, LinkInductive, PTL

(***************************************************************************)
(* The linker reports an error exactly when a label is used that no file   *)
(* defines (apply_relocations).                                            *)
(***************************************************************************)
THEOREM Reported == Spec => []UnresolvedReported
<1>1. AsmInv /\ Bounds /\ LayoutInv /\ LinkInv => UnresolvedReported
  <2>1. SUFFICES ASSUME AsmInv, Bounds, LayoutInv, LinkInv, Linked
                 PROVE  errors <=> \E r \in Refs : Definers(r.label) = {}
    BY DEF UnresolvedReported
  <2>2. /\ order \in Seq(Files) /\ relocated = Len(order)
        /\ Appended = Files /\ DOMAIN objs = Files
    BY <2>1 DEF LinkInv, Progress, Linked
  <2>3. errors <=> \E i \in 1 .. relocated : \E s \in objs[order[i]].rel :
                      Defining(s.symbol) = {}
    BY <2>1 DEF LinkInv, MissesReported
  <2>4. ASSUME errors PROVE \E r \in Refs : Definers(r.label) = {}
    <3>0. PICK i \in 1 .. relocated : \E s \in objs[order[i]].rel : Defining(s.symbol) = {}
      BY <2>3, <2>4
    <3>1. PICK s \in objs[order[i]].rel : Defining(s.symbol) = {}
      BY <3>0
    <3> DEFINE f == order[i]  a == s.offset + TextOffset
    <3>2. f \in Files
      BY <2>2
    <3>3. s.symbol \in Labels /\ a \in table[f][s.symbol].sites
      BY <2>1, <2>2, <3>1, <3>2, ObjectFields
    <3>4. a \in 0 .. MaxSize
      <4>1. a \in Nat /\ a + Width <= size[f] /\ size[f] \in Nat /\ size[f] <= MaxSize
            /\ MaxSize \in Nat
        BY <2>1, <3>2, <3>3, SizesAssumption
           DEF AsmInv, Tables, Entries, SitesInside, Bounds
      <4>2. QED
        BY <4>1 DEF Width
    <3>5. [file |-> f, label |-> s.symbol, site |-> a] \in Refs
      BY <3>2, <3>3, <3>4 DEF Refs
    <3>6. Definers(s.symbol) = {}
      BY <2>1, <3>1, <3>3, DefiningDefiners
    <3>7. QED
      BY <3>5, <3>6
  <2>5. ASSUME NEW r \in Refs, Definers(r.label) = {} PROVE errors
    <3>1. r.file \in Files /\ r.label \in Labels /\ r.site \in table[r.file][r.label].sites
      BY DEF Refs
    <3>2. ~table[r.file][r.label].defined
      BY <2>5, <3>1 DEF Definers
    <3>3. [offset |-> r.site - TextOffset, symbol |-> r.label] \in objs[r.file].rel
      BY <2>1, <2>2, <3>1, <3>2, ObjectFields
    <3>4. PICK i \in 1 .. relocated : order[i] = r.file
      BY <2>2, <3>1 DEF Appended
    <3>5. Defining(r.label) = {}
      BY <2>1, <2>5, <3>1, DefiningDefiners
    <3>6. QED
      BY <2>3, <3>3, <3>4, <3>5
  <2>6. QED
    BY <2>4, <2>5
<1>2. QED
  BY <1>1, AsmInductive, BoundsInductive, LayoutInductive, LinkInductive, PTL

(***************************************************************************)
(* When only files that define _start refer to it, the entry point of the  *)
(* executable is one of the definitions (patch_program_entry).             *)
(***************************************************************************)
THEOREM StartsAtStart == Spec => []EntryIsStart
<1>1. AsmInv /\ Bounds /\ LayoutInv /\ LinkInv => EntryIsStart
  <2>1. SUFFICES ASSUME AsmInv, Bounds, LayoutInv, LinkInv, Linked,
                        Definers(Start) # {},
                        \A r \in Refs : r.label = Start => r.file \in Definers(Start)
                 PROVE  \E g \in Definers(Start) : entry = AddressIn(g, Start)
    BY DEF EntryIsStart
  <2>2. /\ order \in Seq(Files) /\ Appended = Files /\ DOMAIN objs = Files
        /\ DOMAIN offsets = Files /\ Start \in Labels
    BY <2>1, StartAssumption DEF LinkInv, Progress, Linked, LayoutInv
  <2>3. \A f \in Files : DOMAIN objs[f].symtab = Present(table[f])
    <3>1. SUFFICES ASSUME NEW f \in Files PROVE DOMAIN objs[f].symtab = Present(table[f])
      OBVIOUS
    <3>2. objs[f] = ObjectFile(table[f], PatchRelJumps(table[f], Unpatched(f)), size[f])
      BY <2>1, <2>2 DEF AsmInv, Objects
    <3>3. QED
      BY <3>2 DEF ObjectFile, Relocations, TextSize
  <2>4. ASSUME NEW f \in Files, Start \in Present(table[f]) PROVE f \in Definers(Start)
    <3>1. CASE table[f][Start].defined
      BY <3>1 DEF Definers
    <3>2. CASE table[f][Start].sites # {}
      <4>1. PICK a \in table[f][Start].sites : TRUE
        BY <3>2
      <4>2. a \in 0 .. MaxSize
        <5>1. a \in Nat /\ a + Width <= size[f] /\ size[f] \in Nat /\ size[f] <= MaxSize
              /\ MaxSize \in Nat
          BY <2>1, <2>2, <4>1, SizesAssumption
             DEF AsmInv, Tables, Entries, SitesInside, Bounds
        <5>2. QED
          BY <5>1 DEF Width
      <4>3. [file |-> f, label |-> Start, site |-> a] \in Refs
        BY <2>2, <4>1, <4>2 DEF Refs
      <4>4. QED
        BY <2>1, <4>3
    <3>3. QED
      BY <2>4, <3>1, <3>2 DEF Present
  <2>5. Having \in SUBSET (1 .. Len(order)) /\ Having # {}
    <3>1. PICK g \in Files : table[g][Start].defined
      BY <2>1 DEF Definers
    <3>2. PICK i \in DOMAIN order : order[i] = g
      BY <2>2 DEF Appended
    <3>3. Start \in DOMAIN objs[g].symtab
      BY <2>2, <2>3, <3>1 DEF Present
    <3>4. QED
      BY <2>2, <3>2, <3>3 DEF Having
  <2>6. LastOf(Having) \in Having
    <3>1. Len(order) \in Nat
      BY <2>2
    <3>2. QED
      BY <2>5, <3>1, LastIsIn
  <2> DEFINE g == order[LastOf(Having)]
  <2>7. g \in Definers(Start)
    BY <2>2, <2>3, <2>4, <2>6 DEF Having
  <2>8. entry = Address(g, Start)
    BY <2>1, <2>5 DEF LinkInv, EntrySet
  <2> HIDE DEF g
  <2>9. g \in DOMAIN offsets
    BY <2>2, <2>7 DEF Definers
  <2>10. QED
    BY <2>1, <2>2, <2>7, <2>8, <2>9, AddressOfDefiner
<1>2. QED
  BY <1>1, AsmInductive, BoundsInductive, LayoutInductive, LinkInductive, PTL

-----------------------------------------------------------------------------
Simple ==
    /\ \A f \in Files : /\ DOMAIN field[f] \subseteq Nat
                        /\ \A a \in DOMAIN field[f] : field[f][a] \in Int
    /\ errors \in BOOLEAN
    /\ phase \in {"assemble", "append", "entry", "relocate", "done"}
    /\ entry \in Nat \cup {NoEntry}

LEMMA SimpleNext ==
    ASSUME AsmInv, Bounds, LayoutInv, LinkInv, Simple, [Next]_vars PROVE Simple'
<1>1. /\ cur \in Files /\ size[cur] \in Nat
      /\ \A l \in Labels : table[cur][l].addr \in Nat
      /\ \A f \in Files : /\ DOMAIN field[f] \subseteq Nat
                          /\ \A a \in DOMAIN field[f] : field[f][a] \in Int
      /\ field = [f \in Files |-> field[f]]
  BY DEF Simple, AsmInv, Tables, Entries
<1>2. ASSUME UNCHANGED <<field, entry>>, errors' \in BOOLEAN,
             phase' \in {"assemble", "append", "entry", "relocate", "done"}
      PROVE  Simple'
  BY <1>2 DEF Simple
<1>3. ASSUME NEW l \in Labels, LabelRef(l) PROVE Simple'
  <2>1. /\ field' = [field EXCEPT ![cur] = Put(@, size[cur], size[cur] + Width)]
        /\ errors' = errors /\ phase' = phase /\ entry' = entry
    BY <1>3 DEF LabelRef, linkVars
  <2>2. \A f \in Files : f # cur => field'[f] = field[f]
    BY <1>1, <2>1
  <2>3. field'[cur] = Put(field[cur], size[cur], size[cur] + Width)
    BY <1>1, <2>1
  <2>4. /\ DOMAIN field'[cur] \subseteq Nat
        /\ \A a \in DOMAIN field'[cur] : field'[cur][a] \in Int
    BY <1>1, <2>3 DEF Put, Width
  <2>5. QED
    BY <1>1, <2>1, <2>2, <2>4 DEF Simple
<1>4. CASE EndObject
  <2>1. /\ field' = [field EXCEPT ![cur] = PatchRelJumps(table[cur], @)]
        /\ errors' = errors /\ phase' \in {"assemble", "append", "done"} /\ entry' = entry
    BY <1>4 DEF EndObject, linkVars
  <2>2. \A f \in Files : f # cur => field'[f] = field[f]
    BY <1>1, <2>1
  <2>3. field'[cur] = PatchRelJumps(table[cur], field[cur])
    BY <1>1, <2>1
  <2>4. DOMAIN field'[cur] = DOMAIN field[cur]
    BY <2>3 DEF PatchRelJumps
  <2>5. ASSUME NEW a \in DOMAIN field[cur] PROVE field'[cur][a] \in Int
    <3>1. CASE \E l \in Labels : table[cur][l].defined /\ a \in table[cur][l].sites
      <4> DEFINE k == CHOOSE l \in Labels : table[cur][l].defined /\ a \in table[cur][l].sites
      <4>1. k \in Labels
        BY <3>1
      <4>2. field'[cur][a] = table[cur][k].addr - field[cur][a]
        BY <2>3, <3>1 DEF PatchRelJumps
      <4> HIDE DEF k
      <4>3. QED
        BY <1>1, <4>1, <4>2
    <3>2. CASE ~\E l \in Labels : table[cur][l].defined /\ a \in table[cur][l].sites
      BY <1>1, <2>3, <3>2 DEF PatchRelJumps
    <3>3. QED
      BY <3>1, <3>2
  <2>6. QED
    BY <1>1, <2>1, <2>2, <2>4, <2>5 DEF Simple
<1>5. CASE PatchProgramEntry
  <2>1. /\ field' = field /\ errors' = errors /\ phase' = "relocate" /\ phase = "entry"
        /\ entry' = IF Having = {} THEN entry ELSE Address(order[LastOf(Having)], Start)
    BY <1>5 DEF PatchProgramEntry, asmVars, Having
  <2>2. /\ order \in Seq(Files) /\ DOMAIN objs = Files /\ Appended = Files
        /\ DOMAIN offsets = Files
    BY <2>1 DEF LinkInv, Progress, LayoutInv
  <2>3. CASE Having = {}
    BY <2>1, <2>3 DEF Simple
  <2>4. CASE Having # {}
    <3>1. Having \in SUBSET (1 .. Len(order)) /\ Len(order) \in Nat
      BY <2>2 DEF Having
    <3>2. LastOf(Having) \in Having
      BY <2>4, <3>1, LastIsIn
    <3> DEFINE g == order[LastOf(Having)]
    <3>3. g \in Files /\ Start \in DOMAIN objs[g].symtab
      BY <2>2, <3>2 DEF Having
    <3> HIDE DEF g
    <3>4. objs[g] = ObjectFile(table[g], PatchRelJumps(table[g], Unpatched(g)), size[g])
      BY <2>2, <3>3 DEF AsmInv, Objects
    <3>5. /\ Start \in Present(table[g]) /\ Start \in Labels
          /\ objs[g].symtab[Start] = IF table[g][Start].defined
                          THEN [value |-> table[g][Start].addr - TextOffset, undef |-> FALSE]
                          ELSE [value |-> 0, undef |-> TRUE]
      BY <3>3, <3>4, StartAssumption DEF ObjectFile, Relocations, TextSize
    <3>6. /\ table[g][Start].addr \in Nat
          /\ table[g][Start].defined => TextOffset <= table[g][Start].addr
          /\ offsets[g] \in Nat /\ TextOffset \in Nat
      BY <2>2, <3>3, <3>5, SizesAssumption DEF AsmInv, Tables, Entries, Bounds, LayoutInv
    <3>7. objs[g].symtab[Start].value \in Nat
      BY <3>5, <3>6
    <3>8. Address(g, Start) \in Nat
      BY <3>6, <3>7 DEF Address
    <3>9. QED
      BY <2>1, <2>4, <3>8 DEF g, Simple
  <2>5. QED
    BY <2>3, <2>4
<1>6. ASSUME NEW n \in Lengths, Code(n) PROVE Simple'
  BY <1>2, <1>6 DEF Code, linkVars, Simple
<1>7. ASSUME NEW l \in Labels, LabelDef(l) PROVE Simple'
  BY <1>2, <1>7 DEF LabelDef, linkVars, Simple
<1>8. ASSUME NEW f \in Files, AppendProgram(f) PROVE Simple'
  BY <1>2, <1>8 DEF AppendProgram, asmVars, Simple
<1>9. CASE ApplyRelocations
  BY <1>2, <1>9 DEF ApplyRelocations, asmVars, Simple
<1>10. CASE UNCHANGED vars
  BY <1>2, <1>10 DEF vars, asmVars, linkVars, Simple
<1>11. QED
  BY <1>3, <1>4, <1>5, <1>6, <1>7, <1>8, <1>9, <1>10 DEF Next

(***************************************************************************)
(* The assembler's table and fields and the linker's bookkeeping have the  *)
(* types the code declares.                                                *)
(***************************************************************************)
THEOREM TypeCorrect == Spec => []TypeOK
<1>1. Init => Simple
  BY DEF Init, Simple
<1>2. AsmInv /\ Bounds /\ LayoutInv /\ LinkInv /\ Simple /\ [Next]_vars => Simple'
  BY SimpleNext
<1>3. AsmInv /\ Bounds /\ LayoutInv /\ LinkInv /\ Simple => TypeOK
  <2>1. SUFFICES ASSUME AsmInv, Bounds, LayoutInv, LinkInv, Simple PROVE TypeOK
    OBVIOUS
  <2>2. /\ cur \in Files /\ DOMAIN objs \subseteq Files
        /\ size \in [Files -> Nat] /\ table \in [Files -> [Labels -> Entries]]
    BY <2>1 DEF AsmInv, Tables, Objects
  <2>3. size \in [Files -> TextOffset .. MaxSize]
    BY <2>1, <2>2, SizesAssumption DEF Bounds
  <2>4. /\ Appended \subseteq DOMAIN objs /\ DOMAIN offsets = Appended /\ length \in Nat
        /\ relocated \in 0 .. Len(order)
    BY <2>1 DEF LayoutInv, LinkInv, Progress
  <2>5. QED
    BY <2>1, <2>2, <2>3, <2>4 DEF TypeOK, Simple
<1>4. QED
  BY <1>1, <1>2, <1>3, AsmInductive, BoundsInductive, LayoutInductive, LinkInductive,
     PTL DEF Spec

=============================================================================
