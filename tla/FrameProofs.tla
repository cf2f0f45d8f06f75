---------------------------- MODULE FrameProofs ----------------------------
(***************************************************************************)
(* Proofs about Frame, for every set of identifiers and every bound.       *)
(*                                                                         *)
(* The heart is LiveInv, the inductive strengthening of NoSlotClash: the   *)
(* slot of a symbol is its rank among the visible symbols, and an inner    *)
(* scope lies above the outer ones.  Without the order, closing a scope    *)
(* could leave a slot above the new size of the scopes in use, and the     *)
(* next add_local, which takes its offset from that size, could hit it.    *)
(***************************************************************************)
EXTENDS Frame, FiniteSetTheorems, TLAPS

NatNames == Nat \X Names
Sym == [level : Nat, key : Idents \cup NatNames, tac : NatNames, slot : Nat]

UpTo(L, k) == {b \in L : b.slot <= k}

LiveInv(L, d, lo, n) ==
    /\ L \subseteq Sym
    /\ IsFiniteSet(L)
    /\ Cardinality(L) <= n - lo
    /\ \A s \in L : /\ s.level \in 1 .. d
                    /\ s.tac[1] \in lo .. n - 1
                    /\ s.key = Key(s.tac[1], s.tac[2])
    /\ \A a, b \in L : a.slot = b.slot => a = b
    /\ \A a, b \in L : a.tac = b.tac => a = b
    /\ \A a, b \in L : a.level < b.level => a.slot < b.slot
    /\ \A a \in L : a.slot = Cardinality(UpTo(L, a.slot))

\* A slot is at most the number of visible symbols.
LEMMA SlotBound ==
    ASSUME NEW L, NEW d \in Nat, NEW lo \in Nat, NEW n \in Nat,
           LiveInv(L, d, lo, n), NEW s \in L
    PROVE  /\ s.slot \in Nat
           /\ Cardinality(L) \in Nat
           /\ s.slot <= Cardinality(L)
           /\ s.slot >= 1
<1>1. IsFiniteSet(L) /\ Cardinality(L) \in Nat
  BY FS_CardinalityType DEF LiveInv
<1>2. UpTo(L, s.slot) \subseteq L
  BY DEF UpTo
<1>3. /\ IsFiniteSet(UpTo(L, s.slot))
      /\ Cardinality(UpTo(L, s.slot)) <= Cardinality(L)
  BY <1>1, <1>2, FS_Subset
<1>4. s \in Sym /\ s.slot = Cardinality(UpTo(L, s.slot))
  BY DEF LiveInv
<1>5. s.slot \in Nat
  BY <1>4 DEF Sym
<1>6. s \in UpTo(L, s.slot)
  BY <1>5 DEF UpTo
<1>7. UpTo(L, s.slot) # {}
  BY <1>6
<1>8. Cardinality(UpTo(L, s.slot)) # 0
  BY <1>3, <1>7, FS_EmptySet
<1> QED BY <1>1, <1>3, <1>4, <1>5, <1>8

\* add_local keeps the ranks: the new symbol is the highest one.
LEMMA InsertKeepsLiveInv ==
    ASSUME NEW L, NEW d \in Nat, d > 0, NEW lo \in Nat, NEW n \in Nat,
           lo <= n, NEW x \in Names, LiveInv(L, d, lo, n)
    PROVE  LiveInv(Insert(L, d, n, x), d, lo, n + 1)
<1> DEFINE new == [level |-> d, key |-> Key(n, x), tac |-> TacName(n, x),
                   slot |-> Cardinality(L) + 1]
           M == L \cup {new}
<1>1. IsFiniteSet(L) /\ Cardinality(L) \in Nat /\ L \subseteq Sym
  BY FS_CardinalityType DEF LiveInv
<1>2. CASE DefinedIn(L, d, Key(n, x))
  <2>1. Insert(L, d, n, x) = L
    BY <1>2 DEF Insert, Slot
  <2>2. Cardinality(L) <= (n + 1) - lo
    BY <1>1 DEF LiveInv
  <2>3. \A s \in L : s.tac[1] \in lo .. n
    BY DEF LiveInv
  <2> QED BY <2>1, <2>2, <2>3 DEF LiveInv
<1>3. CASE ~DefinedIn(L, d, Key(n, x))
  <2>1. Insert(L, d, n, x) = M
    BY <1>3 DEF Insert, Slot
  <2>2. \A s \in L : /\ s.slot \in Nat
                     /\ s.slot <= Cardinality(L)
                     /\ s.slot >= 1
                     /\ s.tac[1] \in lo .. n - 1
                     /\ s.level \in 1 .. d
    BY SlotBound DEF LiveInv
  <2>3. /\ new \in Sym /\ new.slot = Cardinality(L) + 1 /\ new.level = d
        /\ new.tac = <<n, x>> /\ new.key = Key(n, x)
    <3>1. TacName(n, x) \in NatNames
      BY DEF TacName, NatNames
    <3>2. Key(n, x) \in Idents \cup NatNames
      BY <3>1 DEF Key, Names
    <3> QED BY <1>1, <3>1, <3>2 DEF Sym, TacName
  <2>4. new \notin L
    BY <1>1, <2>2, <2>3
  <2>5. IsFiniteSet(M) /\ Cardinality(M) = Cardinality(L) + 1
    BY <1>1, <2>4, FS_AddElement
  <2>6. \A a \in L : UpTo(M, a.slot) = UpTo(L, a.slot)
    BY <1>1, <2>2, <2>3 DEF UpTo
  <2>7. UpTo(M, new.slot) = M
    BY <1>1, <2>2, <2>3 DEF UpTo
  <2>8. \A a \in M : a.slot = Cardinality(UpTo(M, a.slot))
    BY <2>3, <2>5, <2>6, <2>7 DEF LiveInv
  <2>9. /\ \A a, b \in M : a.slot = b.slot => a = b
        /\ \A a, b \in M : a.level < b.level => a.slot < b.slot
    BY <1>1, <2>2, <2>3 DEF LiveInv
  <2>10. \A a, b \in M : a.tac = b.tac => a = b
    <3>1. \A a \in L : a.tac # new.tac
      BY <2>2, <2>3
    <3> QED BY <3>1 DEF LiveInv
  <2>11. M \subseteq Sym /\ Cardinality(M) <= (n + 1) - lo
    BY <1>1, <2>3, <2>5 DEF LiveInv
  <2>12. \A s \in M : /\ s.level \in 1 .. d
                      /\ s.tac[1] \in lo .. (n + 1) - 1
                      /\ s.key = Key(s.tac[1], s.tac[2])
    BY <2>2, <2>3 DEF LiveInv
  <2> HIDE DEF M
  <2> QED BY <2>1, <2>5, <2>8, <2>9, <2>10, <2>11, <2>12 DEF LiveInv
<1> QED BY <1>2, <1>3

\* Closing the innermost scope keeps the ranks: what it removes lies above.
LEMMA CloseKeepsLiveInv ==
    ASSUME NEW L, NEW d \in Nat, d > 0, NEW lo \in Nat, NEW n \in Nat,
           LiveInv(L, d, lo, n)
    PROVE  LiveInv({s \in L : s.level # d}, d - 1, lo, n)
<1> DEFINE M == {s \in L : s.level # d}
<1>1. M \subseteq L /\ L \subseteq Sym /\ IsFiniteSet(L)
  BY DEF LiveInv
<1>2. IsFiniteSet(M) /\ Cardinality(M) <= Cardinality(L)
      /\ Cardinality(M) \in Nat /\ Cardinality(L) \in Nat
  BY <1>1, FS_Subset, FS_CardinalityType
<1>3. Cardinality(M) <= n - lo
  BY <1>2 DEF LiveInv
<1>4. \A s \in M : s.level \in 1 .. d - 1
  BY DEF LiveInv
<1>5. \A a \in M : UpTo(M, a.slot) = UpTo(L, a.slot)
  <2> SUFFICES ASSUME NEW a \in M, NEW b \in L, b.slot <= a.slot
               PROVE  b.level # d
    BY DEF UpTo
  <2>1. a.level < d /\ a.slot \in Nat /\ b.slot \in Nat
    BY <1>1, <1>4 DEF Sym
  <2>2. a.level < b.level => a.slot < b.slot
    BY <1>1 DEF LiveInv
  <2> QED BY <2>1, <2>2
<1>6. \A a \in M : a.slot = Cardinality(UpTo(M, a.slot))
  BY <1>1, <1>5 DEF LiveInv
<1> HIDE DEF M
<1> QED
  <2>1. M \subseteq Sym
    BY <1>1
  <2>2. \A s \in M : /\ s.tac[1] \in lo .. n - 1
                     /\ s.key = Key(s.tac[1], s.tac[2])
    BY <1>1 DEF LiveInv
  <2>3. /\ \A a, b \in M : a.slot = b.slot => a = b
        /\ \A a, b \in M : a.tac = b.tac => a = b
        /\ \A a, b \in M : a.level < b.level => a.slot < b.slot
    BY <1>1 DEF LiveInv
  <2>4. LiveInv(M, d - 1, lo, n)
    BY <1>2, <1>3, <1>4, <1>6, <2>1, <2>2, <2>3 DEF LiveInv
  <2> QED BY <2>4 DEF M

-----------------------------------------------------------------------------
(***************************************************************************)
(* The inductive invariant, in two parts.  The first needs nothing of the  *)
(* identifiers; the second holds when none is spelled like a temporary.    *)
(***************************************************************************)
Counters ==
    /\ cur \in Funs \cup {Anon} /\ aborted \in BOOLEAN
    /\ depth \in 0 .. MaxDepth
    /\ temps \in 0 .. MaxTemps /\ start \in 0 .. temps
    /\ reserved \in 0 .. MaxTemps
    /\ named \subseteq TacNames
    /\ cur = Anon => depth = 0 /\ reserved = temps - start

EntryInv(F, lo, n) ==
    /\ F \subseteq [key : Idents \cup NatNames, off : Int]
    /\ \A f \in F : f.off >= 0 => f.key \in Idents
    /\ \A f \in F : f.off < 0 => /\ f.key \in NatNames
                                 /\ f.key[1] < n
                                 /\ f.key[1] >= lo => -f.off <= n - lo

LayoutInv ==
    /\ Counters
    /\ LiveInv(live, depth, start, temps)
    /\ EntryInv(frame, start, temps)
    /\ DOMAIN tables \subseteq Funs
    /\ \A h \in DOMAIN tables : EntryInv(tables[h], temps, temps)
    /\ OneEntryPerName

Covered(N, L, F) ==
    \A t \in N : \/ \E s \in L : s.tac = t
                \/ \E f \in F : f.key = t /\ f.off < 0

NamesInv ==
    /\ \A f \in frame, s \in live : f.key # s.tac
    /\ Covered(named, live, frame)

\* Flushing a scope adds entries inside the reservation, one per name.
LEMMA FlushKeepsEntries ==
    ASSUME NEW F, NEW L, NEW S \in SUBSET L, NEW d \in Nat, NEW lo \in Nat,
           NEW n \in Nat, LiveInv(L, d, lo, n), EntryInv(F, lo, n)
    PROVE  EntryInv(Flush(F, S), lo, n)
<1> SUFFICES ASSUME NEW s \in L
             PROVE  EntryInv({[key |-> s.tac, off |-> -s.slot]}, lo, n)
  BY DEF EntryInv, Flush
<1>1. /\ s \in Sym /\ Cardinality(L) <= n - lo /\ s.tac[1] \in lo .. n - 1
  BY DEF LiveInv
<1>2. s.slot \in Nat /\ s.slot >= 1 /\ s.slot <= n - lo
  BY <1>1, SlotBound
<1> QED BY <1>1, <1>2 DEF EntryInv, Sym, NatNames

\* Entries of an earlier function satisfy EntryInv of a later one.
LEMMA OldEntries ==
    ASSUME NEW F, NEW lo \in Nat, NEW n \in Nat, NEW m \in Nat, n <= m,
           EntryInv(F, lo, n)
    PROVE  EntryInv(F, m, m)
BY DEF EntryInv, NatNames

LEMMA ParamEntriesKeep ==
    ASSUME NEW F, NEW ps \in ParamLists, NEW lo \in Nat, NEW n \in Nat,
           EntryInv(F, lo, n)
    PROVE  EntryInv(ParamEntries(F, ps), n, n)
<1>1. PICK k \in 0 .. MaxParams : ps \in [1 .. k -> Idents]
  BY DEF ParamLists
<1>2. \A i \in DOMAIN ps : i \in Nat /\ i >= 1 /\ ps[i] \in Idents
  BY <1>1, BoundsAssumption
<1>3. \A i \in DOMAIN ps : EntryInv({[key |-> ps[i], off |-> i + 1]}, n, n)
  BY <1>2 DEF EntryInv
<1>4. EntryInv(F, n, n)
  BY DEF EntryInv, NatNames
<1> QED BY <1>3, <1>4 DEF EntryInv, ParamEntries

LEMMA LayoutInit == Init => LayoutInv
<1> SUFFICES ASSUME Init PROVE LayoutInv
  OBVIOUS
<1>1. Counters
  <2>1. cur \in Funs \cup {Anon} /\ aborted \in BOOLEAN
    BY DEF Init
  <2>2. /\ depth = 0 /\ temps = 0 /\ start = 0 /\ reserved = 0 /\ named = {}
        /\ reserved = temps - start
    BY DEF Init
  <2> QED BY <2>1, <2>2, BoundsAssumption DEF Counters
<1>2. LiveInv(live, depth, start, temps)
  BY FS_EmptySet DEF Init, LiveInv
<1>3. EntryInv(frame, start, temps) /\ OneEntryPerName
  BY DEF Init, EntryInv, OneEntryPerName, UniqueKeys
<1>4. DOMAIN tables = {}
  BY DEF Init
<1> QED BY <1>1, <1>2, <1>3, <1>4 DEF LayoutInv

LEMMA LayoutNext == LayoutInv /\ [Next]_vars => LayoutInv'
<1> SUFFICES ASSUME LayoutInv, [Next]_vars PROVE LayoutInv'
  OBVIOUS
<1> USE BoundsAssumption DEF LayoutInv
<1>0. /\ depth \in Nat /\ temps \in Nat /\ start \in Nat /\ start <= temps
      /\ Counters
  BY DEF Counters
\* The tables of the other functions only get older.
<1>a. ASSUME tables' = tables, temps' \in Nat, temps <= temps'
      PROVE  /\ DOMAIN tables' \subseteq Funs
             /\ \A h \in DOMAIN tables' : EntryInv(tables'[h], temps', temps')
  BY <1>0, <1>a, OldEntries
<1>1. ASSUME NEW h \in Funs, NEW ps \in ParamLists, BeginFun(h, ps)
      PROVE  LayoutInv'
  <2>1. Counters'
    BY <1>0, <1>1, AnonAssumption DEF BeginFun, Counters
  <2>2. live = {}
    BY <1>0, <1>1 DEF BeginFun, Counters, LiveInv, inFun
  <2>3. LiveInv(live, depth, start, temps)'
    BY <1>0, <1>1, <2>2, FS_EmptySet DEF BeginFun, LiveInv
  <2> DEFINE F == IF h \in DOMAIN tables THEN tables[h] ELSE {}
  <2>4. EntryInv(F, temps, temps)
    BY DEF EntryInv
  <2>5. EntryInv(frame, start, temps)'
    BY <1>0, <1>1, <2>4, ParamEntriesKeep DEF BeginFun
  <2>6. UniqueKeys(frame')
    <3>1. UniqueKeys(F)
      BY DEF OneEntryPerName, UniqueKeys
    <3>2. PICK k \in 0 .. MaxParams : ps \in [1 .. k -> Idents]
      BY DEF ParamLists
    <3>3. \A i, j \in DOMAIN ps : i < j \/ j < i \/ i = j
      BY <3>2
    <3>4. frame' = ParamEntries(F, ps)
      BY <1>1 DEF BeginFun
    <3> HIDE DEF F
    <3> QED BY <3>1, <3>3, <3>4 DEF UniqueKeys, ParamEntries, Keys
  <2>7. temps' = temps /\ tables' = tables
    BY <1>1 DEF BeginFun
  <2>8. OneEntryPerName'
    BY <2>6, <2>7 DEF OneEntryPerName
  <2> QED BY <1>0, <1>a, <2>1, <2>3, <2>5, <2>7, <2>8
<1>2. CASE EndFun
  <2>1. cur \in Funs /\ cur' \in Funs \cup {Anon} /\ aborted' \in BOOLEAN
    BY <1>0, <1>2 DEF EndFun, Reservation, Counters, inFun
  <2>2. /\ depth' = 0 /\ temps' = temps /\ start' = start /\ named' = named
        /\ reserved' = temps - start /\ temps - start \in 0 .. MaxTemps
    BY <1>0, <1>2 DEF EndFun, Reservation, Counters
  <2>3. Counters'
    BY <1>0, <2>1, <2>2 DEF Counters
  <2>4. EntryInv(frame, temps, temps)
    BY <1>0, OldEntries
  <2>5. /\ tables' = [h \in DOMAIN tables \cup {cur} |->
                        IF h = cur THEN frame ELSE tables[h]]
        /\ UNCHANGED <<depth, live, frame, temps, start>>
    BY <1>2 DEF EndFun
  <2>6. /\ DOMAIN tables' \subseteq Funs
        /\ \A h \in DOMAIN tables' : EntryInv(tables'[h], temps, temps)
    BY <2>1, <2>4, <2>5
  <2>7. OneEntryPerName'
    BY <2>5 DEF OneEntryPerName
  <2>8. /\ LiveInv(live, depth, start, temps)'
        /\ EntryInv(frame, start, temps)'
    BY <2>5
  <2> QED BY <2>3, <2>5, <2>6, <2>7, <2>8
<1>3. CASE BeginScope
  <2>1. Counters'
    BY <1>0, <1>3 DEF BeginScope, Counters, inFun
  <2>2. LiveInv(live, depth, start, temps)'
    BY <1>0, <1>3 DEF BeginScope, LiveInv
  <2>3. UNCHANGED <<frame, tables, start, temps>>
    BY <1>3 DEF BeginScope
  <2>4. OneEntryPerName' /\ EntryInv(frame, start, temps)'
    BY <2>3 DEF OneEntryPerName
  <2> QED BY <1>0, <1>a, <2>1, <2>2, <2>3, <2>4
<1>4. CASE EndScope
  <2> DEFINE S == {s \in live : s.level = depth}
  <2>1. Counters'
    BY <1>0, <1>4 DEF EndScope, Counters, inFun
  <2>2. LiveInv(live, depth, start, temps)'
    BY <1>0, <1>4, CloseKeepsLiveInv DEF EndScope
  <2>3. EntryInv(frame, start, temps)'
    BY <1>0, <1>4, FlushKeepsEntries DEF EndScope
  <2>4. UniqueKeys(frame')
    <3>1. \A a, b \in S : a.tac = b.tac => a = b
      BY DEF LiveInv
    <3>2. frame' = Flush(frame, S)
      BY <1>4 DEF EndScope
    <3>3. UniqueKeys(frame)
      BY DEF OneEntryPerName
    <3> HIDE DEF S
    <3> QED BY <3>1, <3>2, <3>3 DEF UniqueKeys, Flush, Keys
  <2>5. UNCHANGED <<tables, temps>>
    BY <1>4 DEF EndScope
  <2>6. OneEntryPerName'
    BY <2>4, <2>5 DEF OneEntryPerName
  <2> QED BY <1>0, <1>a, <2>1, <2>2, <2>3, <2>5, <2>6
<1>5. ASSUME NEW x \in Idents, AddLocal(x) PROVE LayoutInv'
  <2>1. Counters'
    BY <1>0, <1>5 DEF AddLocal, Counters, TacNames, TacName, Names,
                         inFun
  <2>2. LiveInv(live, depth, start, temps)'
    BY <1>0, <1>5, InsertKeepsLiveInv DEF AddLocal, Names
  <2>3. EntryInv(frame, start, temps)'
    BY <1>0, <1>5 DEF AddLocal, EntryInv, NatNames
  <2>4. UNCHANGED <<frame, tables>> /\ temps' = temps + 1
    BY <1>5 DEF AddLocal
  <2>5. OneEntryPerName'
    BY <2>4 DEF OneEntryPerName
  <2> QED BY <1>0, <1>a, <2>1, <2>2, <2>3, <2>4, <2>5
<1>6. ASSUME NEW x \in Idents, AddLocalAborts(x) PROVE LayoutInv'
  BY <1>6 DEF AddLocalAborts, Counters, OneEntryPerName
<1>7. CASE AddTemp
  <2>1. Counters'
    BY <1>0, <1>7 DEF AddTemp, Counters, TacNames, TacName, Names,
                         inFun
  <2>2. LiveInv(live, depth, start, temps)'
    BY <1>0, <1>7, InsertKeepsLiveInv DEF AddTemp, Names
  <2>3. EntryInv(frame, start, temps)'
    BY <1>0, <1>7 DEF AddTemp, EntryInv, NatNames
  <2>4. UNCHANGED <<frame, tables>> /\ temps' = temps + 1
    BY <1>7 DEF AddTemp
  <2>5. OneEntryPerName'
    BY <2>4 DEF OneEntryPerName
  <2> QED BY <1>0, <1>a, <2>1, <2>2, <2>3, <2>4, <2>5
<1>8. CASE AddThreeTemps
  <2>1. Counters'
    BY <1>0, <1>8 DEF AddThreeTemps, Counters, TacNames, TacName, Names,
                         inFun
  <2> DEFINE L1 == Insert(live, depth, temps, Anon)
             L2 == Insert(L1, depth, temps + 1, Anon)
             L3 == Insert(L2, depth, temps + 2, Anon)
  <2>2. depth > 0 /\ Anon \in Names
    BY <1>8 DEF AddThreeTemps, Names
  <2>3. LiveInv(L1, depth, start, temps + 1)
    BY <1>0, <2>2, InsertKeepsLiveInv
  <2>4. LiveInv(L2, depth, start, (temps + 1) + 1)
    <3> HIDE DEF L1
    <3> QED BY <1>0, <2>2, <2>3, InsertKeepsLiveInv
  <2>5. LiveInv(L3, depth, start, (temps + 2) + 1)
    <3> HIDE DEF L2
    <3>1. (temps + 1) + 1 = temps + 2 /\ temps + 2 \in Nat /\ start <= temps + 2
      BY <1>0
    <3>2. LiveInv(L2, depth, start, temps + 2)
      BY <2>4, <3>1
    <3> QED BY <1>0, <2>2, <3>1, <3>2, InsertKeepsLiveInv
  <2>6. live' = L3 /\ temps' = (temps + 2) + 1
        /\ UNCHANGED <<depth, start, frame, tables>>
    BY <1>0, <1>8 DEF AddThreeTemps
  <2>7. LiveInv(live, depth, start, temps)'
    <3> HIDE DEF L3
    <3> QED BY <2>5, <2>6
  <2>8. EntryInv(frame, start, temps)'
    BY <1>0, <2>6 DEF EntryInv, NatNames
  <2>9. OneEntryPerName'
    BY <2>6 DEF OneEntryPerName
  <2> QED BY <1>0, <1>a, <2>1, <2>6, <2>7, <2>8, <2>9
<1>9. CASE UNCHANGED vars
  BY <1>9 DEF vars, Counters, OneEntryPerName
<1> QED
  BY <1>1, <1>2, <1>3, <1>4, <1>5, <1>6, <1>7, <1>8, <1>9 DEF Next

LEMMA LayoutInductive == Spec => []LayoutInv
<1>1. Init => LayoutInv
  BY LayoutInit
<1>2. LayoutInv /\ [Next]_vars => LayoutInv'
  BY LayoutNext
<1> QED BY <1>1, <1>2, PTL DEF Spec

-----------------------------------------------------------------------------
\* add_local makes the new name visible and keeps the others: with plain
\* identifiers no key is taken, neither by a variable nor by a temporary.
LEMMA InsertNames ==
    ASSUME PlainIdents, NEW L, NEW d \in Nat, NEW lo \in Nat,
           NEW n \in 0 .. MaxTemps, NEW x \in Names, LiveInv(L, d, lo, n),
           x \in Idents => ~DefinedIn(L, d, x)
    PROVE  /\ L \subseteq Insert(L, d, n, x)
           /\ \A s \in Insert(L, d, n, x) : s \in L \/ s.tac = TacName(n, x)
           /\ \E s \in Insert(L, d, n, x) : s.tac = TacName(n, x)
<1>1. ~DefinedIn(L, d, Key(n, x))
  <2>1. CASE x \in Idents
    BY <2>1, AnonAssumption DEF Key
  <2>2. CASE x = Anon
    <3> SUFFICES ASSUME NEW s \in L PROVE s.key # TacName(n, x)
      BY <2>2 DEF DefinedIn, Key
    <3>1. /\ s \in Sym /\ s.tac[1] \in lo .. n - 1
          /\ s.key = Key(s.tac[1], s.tac[2])
      BY DEF LiveInv
    <3>2. TacName(n, x) \in TacNames
      BY <2>2 DEF TacName, TacNames, Names
    <3>3. CASE s.tac[2] = Anon
      <4>1. s.key = <<s.tac[1], Anon>>
        BY <3>1, <3>3 DEF Key, TacName
      <4>2. s.tac[1] # n
        BY <3>1
      <4> QED BY <4>1, <4>2 DEF TacName
    <3>4. CASE s.tac[2] # Anon
      <4>1. s.key \in Idents
        BY <3>1, <3>4 DEF Sym, NatNames, Names, Key
      <4> QED BY <4>1, <3>2 DEF PlainIdents
    <3> QED BY <3>3, <3>4
  <2> QED BY <2>1, <2>2 DEF Names
<1> DEFINE new == [level |-> d, key |-> Key(n, x), tac |-> TacName(n, x),
                   slot |-> Cardinality(L) + 1]
<1>2. Insert(L, d, n, x) = L \cup {new} /\ new.tac = TacName(n, x)
  BY <1>1 DEF Insert, Slot
<1> HIDE DEF new
<1> QED BY <1>2

LEMMA NamesInit == Init => NamesInv
BY DEF Init, NamesInv, Covered

LEMMA NamesNext ==
    ASSUME PlainIdents, LayoutInv, NamesInv, [Next]_vars
    PROVE  NamesInv'
<1> USE BoundsAssumption
<1>0. /\ depth \in Nat /\ temps \in 0 .. MaxTemps /\ start \in Nat
      /\ start <= temps /\ temps \in Nat
      /\ LiveInv(live, depth, start, temps) /\ EntryInv(frame, start, temps)
  BY DEF LayoutInv, Counters
\* A name made now is in no entry: entries of locals carry older counters,
\* entries of parameters carry identifiers.
<1>a. ASSUME NEW m \in Nat, m >= temps, m <= MaxTemps, NEW x \in Names
      PROVE  \A f \in frame : f.key # TacName(m, x)
  <2> SUFFICES ASSUME NEW f \in frame, f.key = TacName(m, x) PROVE FALSE
    OBVIOUS
  <2>1. f.off \in Int /\ f.key = <<m, x>>
    BY <1>0 DEF EntryInv, TacName
  <2>2. CASE f.off >= 0
    <3>1. f.key \in Idents
      BY <1>0, <2>2 DEF EntryInv
    <3>2. f.key \in TacNames
      BY <1>a, <2>1 DEF TacNames
    <3> QED BY <3>1, <3>2 DEF PlainIdents
  <2>3. CASE f.off < 0
    <3>1. f.key[1] < temps
      BY <1>0, <2>3 DEF EntryInv
    <3> QED BY <1>0, <1>a, <2>1, <3>1
  <2> QED BY <2>1, <2>2, <2>3
<1>1. ASSUME NEW h \in Funs, NEW ps \in ParamLists, BeginFun(h, ps)
      PROVE  NamesInv'
  <2>1. live' = {}
    BY <1>0, <1>1 DEF BeginFun, LayoutInv, Counters, LiveInv, inFun
  <2>2. named' = {}
    BY <1>1 DEF BeginFun
  <2> QED BY <2>1, <2>2 DEF NamesInv, Covered
<1>2. CASE EndFun
  BY <1>2 DEF EndFun, Reservation, NamesInv, Covered
<1>3. CASE BeginScope
  BY <1>3 DEF BeginScope, NamesInv, Covered
<1>4. CASE EndScope
  <2> DEFINE S == {s \in live : s.level = depth}
  <2>1. /\ frame' = Flush(frame, S) /\ live' = {s \in live : s.level # depth}
        /\ named' = named
    BY <1>4 DEF EndScope
  <2>2. \A s \in S : [key |-> s.tac, off |-> -s.slot] \in frame'
    BY <2>1 DEF Flush, Keys, NamesInv
  <2>3. \A s \in S : s.slot \in Nat /\ s.slot >= 1
    BY <1>0, SlotBound
  <2>4. \A s \in live : s \in S \/ s \in live'
    BY <2>1
  <2>5. frame \subseteq frame'
    BY <2>1 DEF Flush
  <2>6. Covered(named, live, frame)'
    <3> SUFFICES ASSUME NEW t \in named
                 PROVE  \/ \E s \in live' : s.tac = t
                        \/ \E f \in frame' : f.key = t /\ f.off < 0
      BY <2>1 DEF Covered
    <3>1. CASE \E f \in frame : f.key = t /\ f.off < 0
      BY <2>5, <3>1
    <3>2. ASSUME NEW s \in live, s.tac = t
          PROVE  \/ \E r \in live' : r.tac = t
                 \/ \E f \in frame' : f.key = t /\ f.off < 0
      <4>1. CASE s \in live'
        BY <3>2, <4>1
      <4>2. CASE s \in S
        <5> DEFINE e == [key |-> s.tac, off |-> -s.slot]
        <5>1. e \in frame' /\ e.key = t
          BY <2>2, <3>2, <4>2
        <5>2. e.off < 0
          BY <2>3, <4>2
        <5> QED BY <5>1, <5>2
      <4> QED BY <2>4, <4>1, <4>2
    <3> QED BY <3>1, <3>2 DEF NamesInv, Covered
  <2>7. \A f \in frame', s \in live' : f.key # s.tac
    <3>1. \A a, b \in live : a.tac = b.tac => a = b
      BY <1>0 DEF LiveInv
    <3> QED BY <2>1, <3>1 DEF Flush, NamesInv
  <2> QED BY <2>6, <2>7 DEF NamesInv
<1>5. ASSUME NEW x \in Idents, AddLocal(x) PROVE NamesInv'
  <2>1. live' = Insert(live, depth, temps, x) /\ frame' = frame
        /\ named' = named \cup {TacName(temps, x)} /\ ~DefinedIn(live, depth, x)
    BY <1>5 DEF AddLocal
  <2>2. /\ live \subseteq live'
        /\ \A s \in live' : s \in live \/ s.tac = TacName(temps, x)
        /\ \E s \in live' : s.tac = TacName(temps, x)
    BY <1>0, <2>1, InsertNames DEF Names
  <2>3. \A f \in frame : f.key # TacName(temps, x)
    BY <1>0, <1>a DEF Names
  <2> QED BY <2>1, <2>2, <2>3 DEF NamesInv, Covered
<1>6. ASSUME NEW x \in Idents, AddLocalAborts(x) PROVE NamesInv'
  BY <1>6 DEF AddLocalAborts, NamesInv, Covered
<1>7. CASE AddTemp
  <2>1. live' = Insert(live, depth, temps, Anon) /\ frame' = frame
        /\ named' = named \cup {TacName(temps, Anon)}
    BY <1>7 DEF AddTemp
  <2>2. /\ live \subseteq live'
        /\ \A s \in live' : s \in live \/ s.tac = TacName(temps, Anon)
        /\ \E s \in live' : s.tac = TacName(temps, Anon)
    BY <1>0, <2>1, InsertNames, AnonAssumption DEF Names
  <2>3. \A f \in frame : f.key # TacName(temps, Anon)
    BY <1>0, <1>a DEF Names
  <2> QED BY <2>1, <2>2, <2>3 DEF NamesInv, Covered
<1>8. CASE AddThreeTemps
  <2> DEFINE L1 == Insert(live, depth, temps, Anon)
             L2 == Insert(L1, depth, temps + 1, Anon)
             L3 == Insert(L2, depth, temps + 2, Anon)
             T(i) == TacName(temps + i, Anon)
  <2>1. /\ live' = L3 /\ frame' = frame
        /\ named' = named \cup {T(i) : i \in 0 .. 2}
        /\ depth > 0 /\ temps + 2 < MaxTemps
    BY <1>8 DEF AddThreeTemps
  <2>2. /\ Anon \in Names /\ Anon \notin Idents
        /\ temps + 0 = temps /\ (temps + 1) + 1 = temps + 2
        /\ temps + 1 \in Nat /\ temps + 2 \in Nat
        /\ temps + 1 \in 0 .. MaxTemps /\ temps + 2 \in 0 .. MaxTemps
        /\ start <= temps + 1
    BY <1>0, <2>1, AnonAssumption DEF Names
  <2>3. LiveInv(L1, depth, start, temps + 1)
    BY <1>0, <2>1, <2>2, InsertKeepsLiveInv
  <2>4. /\ live \subseteq L1
        /\ \A s \in L1 : s \in live \/ s.tac = TacName(temps, Anon)
        /\ \E s \in L1 : s.tac = TacName(temps, Anon)
    BY <1>0, <2>2, InsertNames
  <2>5. LiveInv(L2, depth, start, temps + 2)
    <3> HIDE DEF L1
    <3>1. LiveInv(L2, depth, start, (temps + 1) + 1)
      BY <1>0, <2>1, <2>2, <2>3, InsertKeepsLiveInv
    <3> QED BY <2>2, <3>1
  <2>6. /\ L1 \subseteq L2
        /\ \A s \in L2 : s \in L1 \/ s.tac = TacName(temps + 1, Anon)
        /\ \E s \in L2 : s.tac = TacName(temps + 1, Anon)
    <3> HIDE DEF L1
    <3> QED BY <1>0, <2>2, <2>3, InsertNames
  <2>7. /\ L2 \subseteq L3
        /\ \A s \in L3 : s \in L2 \/ s.tac = TacName(temps + 2, Anon)
        /\ \E s \in L3 : s.tac = TacName(temps + 2, Anon)
    <3> HIDE DEF L2
    <3> QED BY <1>0, <2>2, <2>5, InsertNames
  <2>8. \A i \in 0 .. 2 : \A f \in frame : f.key # T(i)
    BY <1>0, <1>a, <2>1, <2>2
  <2>9. /\ live \subseteq live'
        /\ \A s \in live' : s \in live \/ \E i \in 0 .. 2 : s.tac = T(i)
        /\ \A i \in 0 .. 2 : \E s \in live' : s.tac = T(i)
    <3>1. T(0) = TacName(temps, Anon)
      BY <2>2
    <3>2. \A i \in 0 .. 2 : i = 0 \/ i = 1 \/ i = 2
      OBVIOUS
    <3> HIDE DEF L1, L2, L3
    <3> QED BY <2>1, <2>4, <2>6, <2>7, <3>1, <3>2
  <2> HIDE DEF T, L1, L2, L3
  <2> QED BY <2>1, <2>8, <2>9 DEF NamesInv, Covered
<1>9. CASE UNCHANGED vars
  BY <1>9 DEF vars, NamesInv, Covered
<1> QED
  BY <1>1, <1>2, <1>3, <1>4, <1>5, <1>6, <1>7, <1>8, <1>9 DEF Next

-----------------------------------------------------------------------------
\* An entry of a table is for an identifier or for a name that was made.
LEMMA EntryTypes ==
    ASSUME NEW F, NEW lo \in Nat, NEW n \in 0 .. MaxTemps, EntryInv(F, lo, n)
    PROVE  F \subseteq Entries
<1> SUFFICES ASSUME NEW f \in F PROVE f \in Entries
  OBVIOUS
<1>1. f \in [key : Idents \cup NatNames, off : Int]
  BY DEF EntryInv
<1>2. f.off >= 0 \/ f.off < 0
  BY <1>1
<1>3. f.off >= 0 => f.key \in Idents
  BY DEF EntryInv
<1>4. f.off < 0 => f.key \in NatNames /\ f.key[1] < n
  BY DEF EntryInv
<1>5. f.key \in Idents \cup TacNames
  BY <1>2, <1>3, <1>4, BoundsAssumption DEF NatNames, TacNames
<1> QED BY <1>1, <1>5 DEF Entries

\* Every variable of X86Frame keeps its type and its bound.
THEOREM TypeCorrect == Spec => []TypeOK
<1>1. LayoutInv => TypeOK
  <2> SUFFICES ASSUME LayoutInv PROVE TypeOK
    OBVIOUS
  <2>1. /\ depth \in Nat /\ temps \in Nat /\ start \in Nat
        /\ temps <= MaxTemps /\ depth <= MaxDepth /\ Counters
        /\ LiveInv(live, depth, start, temps) /\ EntryInv(frame, start, temps)
    BY BoundsAssumption DEF LayoutInv, Counters
  <2>2. ASSUME NEW s \in live PROVE s \in Symbols
    <3>1. /\ s \in Sym /\ s.level \in 1 .. depth /\ s.tac[1] \in start .. temps - 1
          /\ s.key = Key(s.tac[1], s.tac[2]) /\ Cardinality(live) <= temps - start
      BY <2>1 DEF LiveInv
    <3>2. s.slot \in Nat /\ s.slot >= 1 /\ s.slot <= Cardinality(live)
          /\ Cardinality(live) \in Nat
      BY <2>1, SlotBound
    <3>3. s.slot \in 1 .. MaxTemps /\ s.level \in 1 .. MaxDepth
      BY <2>1, <3>1, <3>2, BoundsAssumption
    <3>4. s.tac \in TacNames
      BY <2>1, <3>1, BoundsAssumption DEF Sym, NatNames, TacNames
    <3>5. s.key \in Idents \cup TacNames
      BY <3>1, <3>4 DEF Key, TacName, Names, TacNames
    <3> QED BY <3>1, <3>3, <3>4, <3>5 DEF Sym, Symbols
  <2>3. frame \subseteq Entries
    BY <2>1, EntryTypes, BoundsAssumption DEF Counters
  <2>4. /\ DOMAIN tables \subseteq Funs
        /\ \A f \in DOMAIN tables : tables[f] \subseteq Entries
    BY <2>1, EntryTypes, BoundsAssumption DEF LayoutInv, Counters
  <2> QED BY <2>1, <2>2, <2>3, <2>4 DEF TypeOK, Counters
<1> QED BY <1>1, LayoutInductive, PTL

\* Visible symbols never share a stack slot, whatever the identifiers are.
THEOREM SlotsDisjoint == Spec => []NoSlotClash
<1>1. LayoutInv => NoSlotClash
  BY DEF LayoutInv, LiveInv, NoSlotClash
<1> QED BY <1>1, LayoutInductive, PTL

\* No local lies below the words the prologue reserves.
THEOREM LocalsInsideReservation == Spec => []FrameFits
<1>1. LayoutInv => FrameFits
  <2> SUFFICES ASSUME LayoutInv PROVE FrameFits
    OBVIOUS
  <2>1. /\ depth \in Nat /\ temps \in Nat /\ start \in Nat /\ Counters
        /\ LiveInv(live, depth, start, temps) /\ EntryInv(frame, start, temps)
    BY BoundsAssumption DEF LayoutInv, Counters
  <2>2. Room = temps - start
    BY <2>1 DEF Counters, Room, inFun
  <2>3. \A s \in live : s.slot <= Room
    <3> TAKE s \in live
    <3>1. Cardinality(live) <= temps - start
      BY <2>1 DEF LiveInv
    <3>2. s.slot \in Nat /\ s.slot <= Cardinality(live) /\ Cardinality(live) \in Nat
      BY <2>1, SlotBound
    <3> QED BY <2>1, <2>2, <3>1, <3>2
  <2>4. \A f \in frame : f.off < 0 /\ f.key[1] >= start => -f.off <= Room
    BY <2>1, <2>2 DEF EntryInv
  <2> QED BY <2>3, <2>4 DEF FrameFits
<1> QED BY <1>1, LayoutInductive, PTL

\* A name has one entry in the table of the code generator.
THEOREM EntriesUnique == Spec => []OneEntryPerName
<1>1. LayoutInv => OneEntryPerName
  BY DEF LayoutInv
<1> QED BY <1>1, LayoutInductive, PTL

\* With plain identifiers the table has an entry for every name in the quads.
THEOREM NamesResolve == ASSUME PlainIdents PROVE Spec => []Resolvable
<1>1. Init => NamesInv
  BY NamesInit
<1>2. LayoutInv /\ NamesInv /\ [Next]_vars => NamesInv'
  BY PlainIdents, NamesNext
<1>3. NamesInv => Resolvable
  BY DEF NamesInv, Covered, Resolvable
<1> QED BY <1>1, <1>2, <1>3, LayoutInductive, PTL DEF Spec

\* With plain identifiers no symbol is lost or moved when its scope closes.
THEOREM ScopeExit == ASSUME PlainIdents PROVE Spec => ScopeExitKeepsSlots
<1> DEFINE Kept == \A s \in live \ live' :
                     [key |-> s.tac, off |-> -s.slot] \in frame'
<1>1. Init => NamesInv
  BY NamesInit
<1>2. LayoutInv /\ NamesInv /\ [Next]_vars => NamesInv'
  BY PlainIdents, NamesNext
<1>3. LayoutInv /\ NamesInv /\ [Next]_vars => [Kept]_vars
  <2> SUFFICES ASSUME LayoutInv, NamesInv, Next PROVE Kept
    OBVIOUS
  <2>1. CASE EndScope
    BY <2>1 DEF EndScope, Flush, Keys, NamesInv
  <2>2. ASSUME NEW h \in Funs, NEW ps \in ParamLists, BeginFun(h, ps)
        PROVE  Kept
    BY <2>2 DEF BeginFun
  <2>3. ASSUME NEW x \in Idents, AddLocal(x) \/ AddLocalAborts(x) PROVE Kept
    BY <2>3 DEF AddLocal, AddLocalAborts, Insert, Slot
  <2>4. CASE EndFun \/ BeginScope
    BY <2>4 DEF EndFun, Reservation, BeginScope
  <2>5. CASE AddTemp
    BY <2>5 DEF AddTemp, Insert, Slot
  <2>6. CASE AddThreeTemps
    <3> DEFINE L1 == Insert(live, depth, temps, Anon)
               L2 == Insert(L1, depth, temps + 1, Anon)
    <3>1. live' = Insert(L2, depth, temps + 2, Anon)
      BY <2>6 DEF AddThreeTemps
    <3>2. \A L, d, n, x : L \subseteq Insert(L, d, n, x)
      BY DEF Insert, Slot
    <3>3. live \subseteq live'
      <4> HIDE DEF L2
      <4>1. L2 \subseteq live'
        BY <3>1, <3>2
      <4>2. live \subseteq L2
        BY <3>2 DEF L2
      <4> QED BY <4>1, <4>2
    <3> QED BY <3>3
  <2> QED BY <2>1, <2>2, <2>3, <2>4, <2>5, <2>6 DEF Next
<1> QED
  BY <1>1, <1>2, <1>3, LayoutInductive, PTL DEF Spec, ScopeExitKeepsSlots

=============================================================================
