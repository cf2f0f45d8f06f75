------------------------------- MODULE Frame -------------------------------
(***************************************************************************)
(* The stack frame the compiler lays out for the function it is            *)
(* translating: class X86Frame (x86_frame.cpp), driven by AstFunDef,       *)
(* AstBlock and the expression nodes of tmdAst.hpp.                        *)
(*                                                                         *)
(* m_scopes, a vector of symbol maps, is the pair                          *)
(*   depth  its size,                                                      *)
(*   live   the set of symbols in it, each with the level of its scope,    *)
(* so that the sum of the sizes of the maps is Cardinality(live).          *)
(* m_symbols, the map that outlives the scopes and that the code generator *)
(* reads, is a set of [key, off] with at most one entry per key: frame for *)
(* the function that is being translated, tables[f] for f before it.       *)
(* Offsets are in words from ebp: a local in slot k has off = -k (the      *)
(* code's -4 * k), the parameter number i has off = i + 2.                 *)
(*                                                                         *)
(* A Mutant_* operator is a faulty variant of the definition after it that *)
(* no specification uses; PROJECT.json says which property it breaks.      *)
(***************************************************************************)
EXTENDS Integers, FiniteSets

CONSTANTS
    Idents,      \* the identifiers a program uses
    Funs,        \* the names of its functions
    Anon,        \* the empty name add_temp passes to add_local
    MaxTemps,    \* bound: names handed out in one compilation
    MaxDepth,    \* bound: nested scopes
    MaxParams    \* bound: formal parameters of a function

ASSUME AnonAssumption == Anon \notin Idents \cup Funs
ASSUME BoundsAssumption == /\ MaxTemps \in Nat
                           /\ MaxDepth \in Nat
                           /\ MaxParams \in Nat

VARIABLES
    cur,         \* the name of m_compiling_fun, Anon when it is nullptr
    depth,       \* m_scopes.size()
    live,        \* the symbols of m_scopes
    frame,       \* m_symbols of the frame of cur
    tables,      \* m_symbols of the frames in m_frames, when cur left them
    temps,       \* X86Frame::s_temp_counter
    start,       \* start_temps of AstFunDef::emit_ir
    named,       \* the names add_local returned to the function's quads
    reserved,    \* m_opd2 / 4 of the last FunBegin that was patched
    aborted      \* the assertion of add_local failed

vars == <<cur, depth, live, frame, tables, temps, start, named, reserved, aborted>>

inFun == cur # Anon

(***************************************************************************)
(* "_t" + counter + name.  An identifier may be spelled like such a name   *)
(* (the lexer allows a leading underscore), so Idents may contain one.     *)
(***************************************************************************)
TacName(n, x) == <<n, x>>

\* the key of the scope's map: a temporary is stored under its own name
Key(n, x) == IF x = Anon THEN TacName(n, x) ELSE x

DefinedIn(L, d, k) == \E s \in L : s.level = d /\ s.key = k

\* symbol_count_in_scopes() + 1
Mutant_SlotFromZero(L, d) == Cardinality(L)
Mutant_SlotInScope(L, d) == Cardinality({s \in L : s.level = d}) + 1
Slot(L, d) == Cardinality(L) + 1

\* add_local: the counter moves on and the slot is taken from the number of
\* symbols in all scopes; std::unordered_map::insert keeps an existing entry
Insert(L, d, n, x) ==
    IF DefinedIn(L, d, Key(n, x))
    THEN L
    ELSE L \cup {[level |-> d, key |-> Key(n, x), tac |-> TacName(n, x),
                  slot |-> Slot(L, d)]}

\* get_symbol_from_scopes: the innermost scope that has the key
Lookup(L, k) ==
    {s \in L : s.key = k /\ \A r \in L : r.key = k => r.level <= s.level}

\* m_symbols.insert keeps an existing entry
Keys(F) == {f.key : f \in F}
Mutant_FlushVariables(F, S) ==
    F \cup {[key |-> s.tac, off |-> -s.slot] : s \in {r \in S : r.key # r.tac}}
Mutant_FlushBySource(F, S) ==
    {f \in F : \A s \in S : s.key # f.key}
        \cup {[key |-> s.key, off |-> -s.slot] : s \in S}
Flush(F, S) ==
    F \cup {[key |-> s.tac, off |-> -s.slot] :
               s \in {r \in S : r.tac \notin Keys(F)}}

\* add_parameter_to_frame for every parameter in order: the first of two
\* parameters with one name wins
ParamEntries(F, ps) ==
    F \cup {[key |-> ps[i], off |-> i + 1] :
               i \in {j \in DOMAIN ps :
                        /\ ps[j] \notin Keys(F)
                        /\ \A k \in DOMAIN ps : k < j => ps[k] # ps[j]}}

-----------------------------------------------------------------------------
Init ==
    /\ cur = Anon
    /\ depth = 0
    /\ live = {}
    /\ frame = {}
    /\ tables = <<>>
    /\ temps = 0
    /\ start = 0
    /\ named = {}
    /\ reserved = 0
    /\ aborted = FALSE

\* AstFunDef before its body.  m_frames->insert does not replace the frame of
\* a function that is defined again: its symbols are kept.
BeginFun(f, ps) ==
    /\ ~inFun /\ ~aborted
    /\ cur' = f
    /\ frame' = ParamEntries(IF f \in DOMAIN tables THEN tables[f] ELSE {}, ps)
    /\ start' = temps
    /\ named' = {}
    /\ UNCHANGED <<depth, live, tables, temps, reserved, aborted>>

\* the names handed out since the function began, whatever became of them
Mutant_ReserveOpenScopes == Cardinality(live)
Reservation == temps - start

\* AstFunDef after its body: the reservation of the prologue is patched
EndFun ==
    /\ inFun /\ ~aborted
    /\ depth = 0
    /\ cur' = Anon
    /\ tables' = [f \in DOMAIN tables \cup {cur} |->
                     IF f = cur THEN frame ELSE tables[f]]
    /\ reserved' = Reservation
    /\ UNCHANGED <<depth, live, frame, temps, start, named, aborted>>

BeginScope ==
    /\ inFun /\ ~aborted
    /\ depth < MaxDepth
    /\ depth' = depth + 1
    /\ UNCHANGED <<cur, live, frame, tables, temps, start, named, reserved, aborted>>

EndScope ==
    /\ inFun /\ ~aborted
    /\ depth > 0
    /\ frame' = Flush(frame, {s \in live : s.level = depth})
    /\ live' = {s \in live : s.level # depth}
    /\ depth' = depth - 1
    /\ UNCHANGED <<cur, tables, temps, start, named, reserved, aborted>>

\* add_local for a declared variable; its assertion stops the compiler
AddLocal(x) ==
    /\ inFun /\ ~aborted
    /\ depth > 0
    /\ ~DefinedIn(live, depth, x)
    /\ temps < MaxTemps
    /\ live' = Insert(live, depth, temps, x)
    /\ named' = named \cup {TacName(temps, x)}
    /\ temps' = temps + 1
    /\ UNCHANGED <<cur, depth, frame, tables, start, reserved, aborted>>

AddLocalAborts(x) ==
    /\ inFun /\ ~aborted
    /\ depth > 0
    /\ DefinedIn(live, depth, x)
    /\ aborted' = TRUE
    /\ UNCHANGED <<cur, depth, live, frame, tables, temps, start, named,
                   reserved>>

\* add_temp, once for most nodes
AddTemp ==
    /\ inFun /\ ~aborted
    /\ depth > 0
    /\ temps < MaxTemps
    /\ live' = Insert(live, depth, temps, Anon)
    /\ named' = named \cup {TacName(temps, Anon)}
    /\ temps' = temps + 1
    /\ UNCHANGED <<cur, depth, frame, tables, start, reserved, aborted>>

\* add_temp three times: <=, >=, != and the negation of a bool
AddThreeTemps ==
    /\ inFun /\ ~aborted
    /\ depth > 0
    /\ temps + 2 < MaxTemps
    /\ live' = Insert(Insert(Insert(live, depth, temps, Anon),
                             depth, temps + 1, Anon),
                      depth, temps + 2, Anon)
    /\ named' = named \cup {TacName(temps + i, Anon) : i \in 0 .. 2}
    /\ temps' = temps + 3
    /\ UNCHANGED <<cur, depth, frame, tables, start, reserved, aborted>>

ParamLists == UNION {[1 .. n -> Idents] : n \in 0 .. MaxParams}

Next ==
    \/ \E f \in Funs, ps \in ParamLists : BeginFun(f, ps)
    \/ EndFun
    \/ BeginScope
    \/ EndScope
    \/ \E x \in Idents : AddLocal(x) \/ AddLocalAborts(x)
    \/ AddTemp
    \/ AddThreeTemps

Spec == Init /\ [][Next]_vars

-----------------------------------------------------------------------------
Names == Idents \cup {Anon}
TacNames == (0 .. MaxTemps) \X Names
Symbols == [level : 1 .. MaxDepth, key : Idents \cup TacNames,
            tac : TacNames, slot : 1 .. MaxTemps]
Entries == [key : Idents \cup TacNames, off : Int]

TypeOK ==
    /\ cur \in Funs \cup {Anon} /\ aborted \in BOOLEAN
    /\ depth \in 0 .. MaxDepth
    /\ temps \in 0 .. MaxTemps /\ start \in 0 .. temps
    /\ reserved \in 0 .. MaxTemps
    /\ live \subseteq Symbols
    /\ frame \subseteq Entries
    /\ DOMAIN tables \subseteq Funs
    /\ \A f \in DOMAIN tables : tables[f] \subseteq Entries
    /\ named \subseteq TacNames

\* No identifier is spelled like a name add_local makes.
PlainIdents == Idents \cap TacNames = {}

(***************************************************************************)
(* Two symbols that are visible together never share a word of the stack,  *)
(* although slots of closed scopes are handed out again: the offset that   *)
(* add_local computes from the sizes of the open scopes is always free.    *)
(***************************************************************************)
NoSlotClash == \A a, b \in live : a.slot = b.slot => a = b

(***************************************************************************)
(* Every local of the function, still visible or flushed, lies inside the  *)
(* words its prologue reserves ((s_temp_counter - start_temps) * 4, patched *)
(* into FunBegin only when the body is done), so that no push or call can  *)
(* overwrite it.                                                           *)
(***************************************************************************)
Room == IF inFun THEN temps - start ELSE reserved
FrameFits ==
    /\ \A s \in live : s.slot <= Room
    /\ \A f \in frame : f.off < 0 /\ f.key[1] >= start => -f.off <= Room

(***************************************************************************)
(* Every name that add_local returned, and that the quads of the function  *)
(* therefore mention, has a slot: in an open scope, or in the table the    *)
(* code generator reads without testing the result (symbol_offset).        *)
(***************************************************************************)
Resolvable ==
    \A t \in named : \/ \E s \in live : s.tac = t
                    \/ \E f \in frame : f.key = t /\ f.off < 0

\* A table has one entry per name, so what a name stands for is the same at
\* every quad of the function that uses it.
UniqueKeys(F) == \A e, f \in F : e.key = f.key => e = f
OneEntryPerName ==
    UniqueKeys(frame) /\ \A f \in DOMAIN tables : UniqueKeys(tables[f])

(***************************************************************************)
(* Closing a scope loses nothing and moves nothing: each of its symbols    *)
(* arrives in m_symbols under its quad name and in the slot it had.        *)
(***************************************************************************)
ScopeExitKeepsSlots ==
    [][\A s \in live \ live' : [key |-> s.tac, off |-> -s.slot] \in frame']_vars
=============================================================================
