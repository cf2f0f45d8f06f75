--------------------------- MODULE DeadCodeProofs ---------------------------
(***************************************************************************)
(* Proofs about DeadCode, for every set of programs.                       *)
(*                                                                         *)
(* The loop that cuts the blocks is followed round by round: what it makes *)
(* of the labels is CutAtLabels.                                           *)
(*                                                                         *)
(* The invariant of the marking is the tri-colour one: an edge never leads *)
(* from a White block to a Black one, every Grey block waits on the stack, *)
(* and nothing is coloured that is not in each closed set.  When the stack *)
(* and the roots are used up, the White blocks are themselves closed.      *)
(***************************************************************************)
EXTENDS DeadCode, WellFoundedInduction, TLAPS

-----------------------------------------------------------------------------
(* Induction and recursion up to a bound *)

LEMMA Least ==
    ASSUME NEW S \in SUBSET Nat, S # {} PROVE \E j \in S : \A h \in S : j <= h
<1>1. S \subseteq Nat /\ S # {}
  OBVIOUS
<1>2. \E j \in S : \A h \in S : ~ (<<h, j>> \in OpToRel(<, Nat))
  BY <1>1, NatLessThanWellFounded, WFMin, Zenon
<1>3. PICK j \in S : \A h \in S : ~ (<<h, j>> \in OpToRel(<, Nat))
  BY <1>2, Zenon
<1>4. \A h \in S : ~(h < j)
  <2>1. SUFFICES ASSUME NEW h \in S, h < j PROVE FALSE
    OBVIOUS
  <2>2. <<h, j>> \in OpToRel(<, Nat)
    BY <1>1, <2>1 DEF OpToRel
  <2>3. QED
    BY <1>3, <2>2, Zenon
<1>5. QED
  BY <1>1, <1>4

LEMMA BoundedInduction ==
    ASSUME NEW N \in Nat, NEW T, 0 \in T, \A k \in 1 .. N : k - 1 \in T => k \in T
    PROVE  0 .. N \subseteq T
<1> DEFINE S == {k \in 0 .. N : k \notin T}
<1>1. SUFFICES ASSUME S # {} PROVE FALSE
  OBVIOUS
<1>2. S \in SUBSET Nat
  OBVIOUS
<1>3. PICK j \in S : \A h \in S : j <= h
  <2> HIDE DEF S
  <2>1. QED
    BY <1>1, <1>2, Least
<1>4. j \in 1 .. N /\ j - 1 \in 0 .. N /\ j - 1 < j
  BY <1>3
<1>5. j - 1 \in T
  BY <1>3, <1>4
<1>6. QED
  BY <1>3, <1>4, <1>5

\* g is what comes of s0 step by step, step k being F[k]
StepByStep(N, s0, F, g) == g[0] = s0 /\ \A k \in 1 .. N : g[k] = F[k][g[k - 1]]

\* There is such a g for every s0 and F.
LEMMA Recursion ==
    ASSUME NEW N \in Nat, NEW S, NEW s0 \in S, NEW F \in [1 .. N -> [S -> S]]
    PROVE  \E g \in [0 .. N -> S] : StepByStep(N, s0, F, g)
<1> DEFINE T == {n \in 0 .. N : \E g \in [0 .. n -> S] : StepByStep(n, s0, F, g)}
<1>1. 0 \in T
  <2> DEFINE g0 == [k \in 0 .. 0 |-> s0]
  <2>1. g0 \in [0 .. 0 -> S] /\ StepByStep(0, s0, F, g0)
    BY DEF StepByStep
  <2> HIDE DEF g0
  <2>2. \E g \in [0 .. 0 -> S] : StepByStep(0, s0, F, g)
    BY <2>1
  <2>3. QED
    BY <2>2
<1>2. ASSUME NEW n \in 1 .. N, n - 1 \in T PROVE n \in T
  <2>1. PICK g \in [0 .. n - 1 -> S] : StepByStep(n - 1, s0, F, g)
    BY <1>2
  <2> DEFINE h == [k \in 0 .. n |-> IF k = n THEN F[n][g[n - 1]] ELSE g[k]]
  <2>2. n \in Nat /\ n - 1 \in Nat /\ g[n - 1] \in S
    BY <1>2
  <2>3. h \in [0 .. n -> S]
    BY <2>2
  <2>4. h[0] = s0
    BY <2>1, <2>2 DEF StepByStep
  <2>5. ASSUME NEW k \in 1 .. n PROVE h[k] = F[k][h[k - 1]]
    <3>1. h[k - 1] = g[k - 1]
      BY <2>2
    <3>2. CASE k = n
      <4>1. h[k] = F[n][g[n - 1]]
        BY <2>2, <3>2
      <4> HIDE DEF h
      <4>2. QED
        BY <3>1, <3>2, <4>1
    <3>3. CASE k # n
      <4>1. k \in 1 .. n - 1 /\ h[k] = g[k]
        BY <2>2, <3>3
      <4>2. QED
        BY <2>1, <3>1, <4>1 DEF StepByStep
    <3>4. QED
      BY <3>2, <3>3
  <2> HIDE DEF h
  <2>6. StepByStep(n, s0, F, h)
    BY <2>4, <2>5 DEF StepByStep
  <2>7. QED
    BY <1>2, <2>3, <2>6
<1>3. N \in T
  <2> HIDE DEF T
  <2>1. 0 .. N \subseteq T
    BY <1>1, <1>2, BoundedInduction
  <2>2. QED
    BY <2>1
<1>4. QED
  BY <1>3

-----------------------------------------------------------------------------
(* What create_basic_blocks makes of the labels of a file *)

Begins(L) == {i \in DOMAIN L : L[i] # Nothing}

\* A block begins at every label, ends at the next one or with the file, and
\* has no label behind its first quad.
CutAtLabels(L, E) ==
    /\ DOMAIN E = Begins(L)
    /\ \A b \in Begins(L) :
          /\ E[b] \in b + 1 .. Len(L) + 1
          /\ \A c \in b + 1 .. E[b] - 1 : L[c] = Nothing
          /\ E[b] = Len(L) + 1 \/ L[E[b]] # Nothing

\* its loop after i rounds
CutUpTo(L, s, i) ==
    /\ s.begin_idx \in 0 .. i
    /\ i # 0 => s.begin_idx # 0
    /\ s.begin_idx # 0 => L[s.begin_idx] # Nothing
    /\ \A c \in s.begin_idx + 1 .. i : L[c] = Nothing
    /\ DOMAIN s.ends = {b \in 1 .. Len(L) : b < s.begin_idx /\ L[b] # Nothing}
    /\ \A b \in DOMAIN s.ends :
          /\ s.ends[b] \in b + 1 .. s.begin_idx
          /\ L[s.ends[b]] # Nothing
          /\ \A c \in b + 1 .. s.ends[b] - 1 : L[c] = Nothing

LEMMA NextLabelCuts ==
    ASSUME NEW L, Len(L) \in Nat, L[1] # Nothing, NEW i \in 1 .. Len(L),
           NEW s, CutUpTo(L, s, i - 1)
    PROVE  CutUpTo(L, NextLabel(L, s, i), i)
<1> SUFFICES ASSUME NEW t, t = NextLabel(L, s, i) PROVE CutUpTo(L, t, i)
  OBVIOUS
<1>1. s.begin_idx \in 0 .. i - 1 /\ i \in Nat /\ i >= 1
  BY DEF CutUpTo
<1>2. CASE L[i] = Nothing
  <2>1. t = s /\ i # 1
    BY <1>2 DEF NextLabel
  <2>2. \A c \in s.begin_idx + 1 .. i : c \in s.begin_idx + 1 .. i - 1 \/ c = i
    BY <1>1
  <2>3. QED
    BY <1>1, <1>2, <2>1, <2>2 DEF CutUpTo
<1>3. CASE L[i] # Nothing /\ s.begin_idx = 0
  <2>1. t = [begin_idx |-> i, ends |-> s.ends] /\ i = 1
    BY <1>1, <1>3 DEF NextLabel, CutUpTo
  <2>2. DOMAIN s.ends = {}
    BY <1>3 DEF CutUpTo
  <2>3. {b \in 1 .. Len(L) : b < i /\ L[b] # Nothing} = {}
    BY <2>1
  <2>4. \A c \in i + 1 .. i : FALSE
    BY <1>1
  <2>5. t.begin_idx = i /\ t.ends = s.ends
    BY <2>1
  <2>6. QED
    BY <1>1, <1>3, <2>2, <2>3, <2>4, <2>5 DEF CutUpTo
<1>4. CASE L[i] # Nothing /\ s.begin_idx # 0
  <2> DEFINE a == s.begin_idx
             E == Pushed(s.ends, a, i)
  <2>1. t.begin_idx = i /\ t.ends = E
    BY <1>4 DEF NextLabel
  <2>2. /\ a \in 1 .. i - 1 /\ L[a] # Nothing /\ a \in 1 .. Len(L)
        /\ \A c \in a + 1 .. i - 1 : L[c] = Nothing
    BY <1>1, <1>4 DEF CutUpTo
  <2>3. DOMAIN E = DOMAIN s.ends \cup {a}
    BY DEF Pushed
  <2>4. DOMAIN E = {b \in 1 .. Len(L) : b < i /\ L[b] # Nothing}
    <3>1. DOMAIN s.ends = {b \in 1 .. Len(L) : b < a /\ L[b] # Nothing}
      BY DEF CutUpTo
    <3>2. ASSUME NEW b \in 1 .. Len(L), b < i, L[b] # Nothing PROVE b < a \/ b = a
      BY <1>1, <2>2, <3>2
    <3> HIDE DEF E, a
    <3>3. QED
      BY <1>1, <2>2, <2>3, <3>1, <3>2
  <2>5. ASSUME NEW b \in DOMAIN E
        PROVE  /\ E[b] \in b + 1 .. i
               /\ L[E[b]] # Nothing
               /\ \A c \in b + 1 .. E[b] - 1 : L[c] = Nothing
    <3>1. CASE b = a
      <4>1. E[b] = i
        BY <2>3, <3>1 DEF Pushed
      <4>2. QED
        BY <1>1, <1>4, <2>2, <3>1, <4>1
    <3>2. CASE b # a
      <4>1. b \in DOMAIN s.ends /\ E[b] = s.ends[b]
        BY <2>3, <3>2 DEF Pushed
      <4>2. /\ s.ends[b] \in b + 1 .. a /\ L[s.ends[b]] # Nothing
            /\ \A c \in b + 1 .. s.ends[b] - 1 : L[c] = Nothing
        BY <4>1 DEF CutUpTo
      <4>3. b \in 1 .. Len(L)
        BY <4>1 DEF CutUpTo
      <4> HIDE DEF E, a
      <4>4. QED
        BY <1>1, <2>2, <4>1, <4>2, <4>3
    <3>3. QED
      BY <3>1, <3>2
  <2>6. \A c \in i + 1 .. i : FALSE
    BY <1>1
  <2> HIDE DEF E, a
  <2>7. QED
    BY <1>1, <1>4, <2>1, <2>4, <2>5, <2>6 DEF CutUpTo
<1>5. QED
  BY <1>2, <1>3, <1>4

LEMMA BlocksAreCut ==
    ASSUME NEW L, Len(L) \in Nat \ {0}, L[1] # Nothing, DOMAIN L = 1 .. Len(L)
    PROVE  CutAtLabels(L, BlockEnds(L))
<1> DEFINE n == Len(L)
           s0 == [begin_idx |-> 0, ends |-> <<>>]
           Ends == UNION {[D -> 1 .. n] : D \in SUBSET (1 .. n)}
           S == [begin_idx : 0 .. n, ends : Ends]
           F == [i \in 1 .. n |-> [s \in S |-> NextLabel(L, s, i)]]
           cut == CHOOSE cut : cut = [i \in 0 .. n |->
                      IF i = 0 THEN s0 ELSE NextLabel(L, cut[i - 1], i)]
<1>1. n \in Nat /\ s0 \in S
  <2>1. <<>> \in [{} -> 1 .. n]
    OBVIOUS
  <2>2. QED
    BY <2>1
<1>2. F \in [1 .. n -> [S -> S]]
  <2>1. ASSUME NEW i \in 1 .. n, NEW s \in S PROVE NextLabel(L, s, i) \in S
    <3>1. CASE L[i] = Nothing
      BY <3>1 DEF NextLabel
    <3>2. CASE L[i] # Nothing /\ s.begin_idx = 0
      <4>1. NextLabel(L, s, i) = [begin_idx |-> i, ends |-> s.ends]
        BY <3>2 DEF NextLabel
      <4>2. QED
        BY <4>1
    <3>3. CASE L[i] # Nothing /\ s.begin_idx # 0
      <4>1. NextLabel(L, s, i) = [begin_idx |-> i, ends |-> Pushed(s.ends, s.begin_idx, i)]
        BY <3>3 DEF NextLabel
      <4>2. PICK D \in SUBSET (1 .. n) : s.ends \in [D -> 1 .. n]
        OBVIOUS
      <4>3. /\ D \cup {s.begin_idx} \in SUBSET (1 .. n)
            /\ Pushed(s.ends, s.begin_idx, i) \in [D \cup {s.begin_idx} -> 1 .. n]
        BY <3>3, <4>2 DEF Pushed
      <4>4. Pushed(s.ends, s.begin_idx, i) \in Ends
        BY <4>3
      <4> HIDE DEF Ends
      <4>5. QED
        BY <4>1, <4>4
    <3>4. QED
      BY <3>1, <3>2, <3>3
  <2> HIDE DEF S
  <2>2. QED
    BY <2>1
<1>3. PICK r \in [0 .. n -> S] : StepByStep(n, s0, F, r)
  <2> HIDE DEF F, n, S, s0
  <2>1. QED
    BY <1>1, <1>2, Recursion
<1>4. r = [i \in 0 .. n |-> IF i = 0 THEN s0 ELSE NextLabel(L, r[i - 1], i)]
  <2>1. ASSUME NEW i \in 0 .. n
        PROVE  r[i] = IF i = 0 THEN s0 ELSE NextLabel(L, r[i - 1], i)
    <3>1. CASE i = 0
      BY <1>3, <3>1 DEF StepByStep
    <3>2. CASE i # 0
      <4>1. i \in 1 .. n /\ i - 1 \in 0 .. n
        BY <1>1, <3>2
      <4>2. r[i - 1] \in S
        BY <4>1
      <4> HIDE DEF S
      <4>3. QED
        BY <1>3, <3>2, <4>1, <4>2 DEF StepByStep
    <3>3. QED
      BY <3>1, <3>2
  <2> HIDE DEF S
  <2>2. QED
    BY <2>1
<1>5. cut = [i \in 0 .. n |-> IF i = 0 THEN s0 ELSE NextLabel(L, cut[i - 1], i)]
  BY <1>4
<1>6. BlockEnds(L) = Pushed(cut[n].ends, cut[n].begin_idx, n + 1)
  BY DEF BlockEnds
<1> HIDE DEF cut
<1>7. CutUpTo(L, cut[n], n)
  <2> DEFINE T == {i \in 0 .. n : CutUpTo(L, cut[i], i)}
  <2>1. 0 \in T
    <3>1. cut[0] = s0 /\ 0 \in 0 .. n
      BY <1>1, <1>5
    <3>2. CutUpTo(L, s0, 0)
      <4>1. DOMAIN s0.ends = {} /\ s0.begin_idx = 0
        OBVIOUS
      <4>2. QED
        BY <4>1 DEF CutUpTo
    <3>3. QED
      BY <3>1, <3>2
  <2>2. ASSUME NEW i \in 1 .. n, i - 1 \in T PROVE i \in T
    <3>1. i \in 0 .. n /\ i # 0 /\ cut[i] = NextLabel(L, cut[i - 1], i)
      BY <1>1, <1>5
    <3>2. CutUpTo(L, cut[i - 1], i - 1)
      BY <2>2
    <3>3. CutUpTo(L, NextLabel(L, cut[i - 1], i), i)
      BY <1>1, <3>2, NextLabelCuts
    <3>4. QED
      BY <3>1, <3>3
  <2> HIDE DEF T
  <2>3. 0 .. n \subseteq T
    BY <1>1, <2>1, <2>2, BoundedInduction
  <2>4. n \in T
    BY <1>1, <2>3
  <2>5. QED
    BY <2>4 DEF T
<1> DEFINE s == cut[n]
           a == s.begin_idx
           E == Pushed(s.ends, a, n + 1)
<1>8. /\ a \in 1 .. n /\ L[a] # Nothing
      /\ \A c \in a + 1 .. n : L[c] = Nothing
      /\ DOMAIN s.ends = {b \in 1 .. n : b < a /\ L[b] # Nothing}
      /\ \A b \in DOMAIN s.ends :
            /\ s.ends[b] \in b + 1 .. a /\ L[s.ends[b]] # Nothing
            /\ \A c \in b + 1 .. s.ends[b] - 1 : L[c] = Nothing
  BY <1>1, <1>7 DEF CutUpTo
<1>9. DOMAIN E = DOMAIN s.ends \cup {a} /\ E[a] = n + 1
      /\ \A b \in DOMAIN s.ends : b # a => E[b] = s.ends[b]
  BY DEF Pushed
<1>10. DOMAIN E = Begins(L)
  <2>1. ASSUME NEW b \in 1 .. n, L[b] # Nothing PROVE b < a \/ b = a
    BY <1>1, <1>8, <2>1
  <2> HIDE DEF E, s, a
  <2>2. QED
    BY <1>8, <1>9, <2>1 DEF Begins
<1>11. ASSUME NEW b \in Begins(L)
       PROVE  /\ E[b] \in b + 1 .. n + 1
              /\ \A c \in b + 1 .. E[b] - 1 : L[c] = Nothing
              /\ E[b] = n + 1 \/ L[E[b]] # Nothing
  <2> HIDE DEF E, s, a
  <2>1. CASE b = a
    BY <1>1, <1>8, <1>9, <2>1
  <2>2. CASE b # a
    <3>1. b \in DOMAIN s.ends /\ b \in 1 .. n /\ E[b] = s.ends[b]
      BY <1>8, <1>9, <1>10, <2>2
    <3>2. QED
      BY <1>1, <1>8, <3>1
  <2>3. QED
    BY <2>1, <2>2
<1>12. BlockEnds(L) = E
  BY <1>6
<1> HIDE DEF E
<1>13. QED
  BY <1>10, <1>11, <1>12 DEF CutAtLabels

-----------------------------------------------------------------------------
(* The marking *)

Shape ==
    /\ phase \in {"idle", "mark", "swept", "done"}
    /\ mark \in [All -> Colors]
    /\ Len(labels) \in Nat \ {0} /\ DOMAIN labels = 1 .. Len(labels)
    /\ DOMAIN quads = DOMAIN labels /\ labels[1] # Nothing
    /\ All \subseteq DOMAIN quads
    /\ greys \subseteq All
    /\ roots \subseteq RootsOf(All, labels)
    /\ phase = "idle" => blocks = {} /\ greys = {} /\ roots = {} /\ All = {} /\ ends = <<>>
    /\ phase # "idle" => CutAtLabels(labels, ends) /\ All = DOMAIN ends
    /\ phase = "mark" => blocks = All
    /\ Swept => /\ blocks = {b \in All : mark[b] = "White"}
                /\ greys = {} /\ roots = {}

\* no edge from White to Black; a Grey block is on the stack
TriColour ==
    /\ \A b \in All : mark[b] = "White" =>
          \A c \in EdgeTargets(b) : mark[c] # "Black"
    /\ \A b \in All : mark[b] = "Grey" => b \in greys

\* a root is still to come, or its block is on the stack or White
RootsSeen ==
    phase # "idle" =>
        \A r \in RootsOf(All, labels) :
            \/ r \in roots
            \/ \A c \in GetBlock(All, labels, labels[r]) :
                   c \in greys \/ mark[c] = "White"

OnlyReachable ==
    \A S \in SUBSET All : Closed(S) =>
        greys \subseteq S /\ \A b \in All : mark[b] # "Black" => b \in S

\* every jump and call of a block is an edge of it
EdgesComplete ==
    \A b \in All : \A i \in Block(ends, b) :
        \A t \in Targets(quads[i]) \ {Nothing} : <<labels[b], t>> \in edges

MarkInv == Shape /\ TriColour /\ RootsSeen /\ OnlyReachable /\ EdgesComplete

LEMMA TargetsInGraph == \A b : EdgeTargets(b) \subseteq All
BY DEF EdgeTargets, GetBlock

LEMMA BlockInFile ==
    ASSUME NEW L, NEW E, CutAtLabels(L, E), Len(L) \in Nat, DOMAIN L = 1 .. Len(L),
           NEW b \in DOMAIN E
    PROVE  Block(E, b) \subseteq DOMAIN L
BY DEF CutAtLabels, Block, Begins

LEMMA InitInv == Init => MarkInv
<1> SUFFICES ASSUME Init PROVE MarkInv
  OBVIOUS
<1>1. All = {} /\ greys = {} /\ roots = {} /\ blocks = {} /\ phase = "idle"
  BY DEF Init, All
<1>2. Shape
  BY <1>1, ProgramsAssumption DEF Init, Shape, All, Swept
<1> QED
  BY <1>1, <1>2 DEF MarkInv, TriColour, RootsSeen, OnlyReachable, EdgesComplete

LEMMA BuildGraphInv ==
    ASSUME MarkInv, BuildGraph PROVE MarkInv'
<1>1. /\ phase' = "mark" /\ ends' = BlockEnds(labels) /\ blocks' = DOMAIN ends'
      /\ edges' = EdgesOf(quads, labels, ends')
      /\ mark' = [b \in blocks' |-> "Black"]
      /\ roots' = RootsOf(blocks', labels)
      /\ greys' = greys /\ quads' = quads /\ labels' = labels
  BY DEF BuildGraph
<1>2. All' = blocks' /\ greys = {} /\ Shape
  BY <1>1 DEF All, MarkInv, Shape, BuildGraph
<1>3. \A b \in All' : mark'[b] = "Black"
  BY <1>1, <1>2
<1>4. Shape'
  <2>1. CutAtLabels(labels, ends')
    BY <1>1, <1>2, BlocksAreCut DEF Shape
  <2>2. CutAtLabels(labels', ends')
    BY <1>1, <2>1
  <2>3. All' \subseteq DOMAIN labels
    BY <1>1, <1>2, <2>1 DEF CutAtLabels, Begins
  <2>4. QED
    BY <1>1, <1>2, <2>2, <2>3 DEF Shape, Colors, Swept
<1>5. TriColour' /\ OnlyReachable'
  BY <1>1, <1>2, <1>3 DEF TriColour, OnlyReachable
<1>6. RootsSeen'
  BY <1>1, <1>2 DEF RootsSeen
<1>7. EdgesComplete'
  BY <1>1, <1>2 DEF EdgesComplete, EdgesOf
<1> QED BY <1>4, <1>5, <1>6, <1>7 DEF MarkInv

LEMMA MarkFromRootInv ==
    ASSUME MarkInv, NEW r \in blocks, MarkFromRoot(r) PROVE MarkInv'
<1>1. /\ phase = "mark" /\ phase' = phase /\ greys = {} /\ r \in roots
      /\ greys' = GetBlock(blocks, labels, labels[r]) /\ roots' = roots \ {r}
      /\ quads' = quads /\ labels' = labels /\ blocks' = blocks
      /\ ends' = ends /\ edges' = edges /\ mark' = mark
  BY DEF MarkFromRoot
<1>2. All' = All /\ blocks = All /\ Shape
  BY <1>1 DEF All, MarkInv, Shape
<1>3. /\ \A b : EdgeTargets(b)' = EdgeTargets(b)
      /\ RootsOf(All, labels)' = RootsOf(All, labels)
      /\ RootBlocks' = RootBlocks
  BY <1>1, <1>2 DEF EdgeTargets, RootBlocks
<1>4. greys' \subseteq All /\ greys' \subseteq RootBlocks
  BY <1>1, <1>2 DEF Shape, GetBlock, RootBlocks
<1>5. Shape'
  BY <1>1, <1>2, <1>4 DEF Shape, Swept
<1>6. TriColour'
  BY <1>1, <1>2, <1>3 DEF MarkInv, TriColour
<1>7. RootsSeen'
  BY <1>1, <1>2 DEF MarkInv, RootsSeen
<1>8. OnlyReachable'
  BY <1>1, <1>2, <1>3, <1>4 DEF MarkInv, OnlyReachable, Closed
<1>9. EdgesComplete'
  BY <1>1, <1>2 DEF MarkInv, EdgesComplete, Positions
<1> QED BY <1>5, <1>6, <1>7, <1>8, <1>9 DEF MarkInv

LEMMA VisitInv ==
    ASSUME MarkInv, NEW b \in blocks, Visit(b) PROVE MarkInv'
<1> DEFINE new == {c \in Successors(b) : mark[c] = "Black"}
<1>1. /\ phase = "mark" /\ phase' = phase /\ b \in greys
      /\ greys' = (greys \ {b}) \cup new
      /\ mark' = [c \in blocks |-> IF c = b THEN "White"
                                   ELSE IF c \in new THEN "Grey" ELSE mark[c]]
      /\ quads' = quads /\ labels' = labels /\ blocks' = blocks
      /\ ends' = ends /\ edges' = edges /\ roots' = roots
  BY DEF Visit, Undiscovered
<1>2. blocks = All /\ Shape
  BY <1>1 DEF MarkInv, Shape
<1>3. All' = All
  BY <1>1, <1>2 DEF All
<1>4. Successors(b) = EdgeTargets(b)
  BY <1>2 DEF Successors, EdgeTargets
<1>5. /\ \A c : EdgeTargets(c)' = EdgeTargets(c)
      /\ RootsOf(All, labels)' = RootsOf(All, labels)
      /\ RootBlocks' = RootBlocks
  BY <1>1, <1>3 DEF EdgeTargets, RootBlocks
<1>6. new \subseteq All
  BY <1>4, TargetsInGraph
<1> HIDE DEF new
<1>7. Shape'
  <2>1. mark' \in [All' -> Colors]
    BY <1>1, <1>2, <1>3 DEF Shape, Colors
  <2> QED BY <1>1, <1>2, <1>3, <1>5, <1>6, <2>1 DEF Shape, Swept
<1>8. \A c \in All : /\ mark[c] # "Black" => mark'[c] # "Black"
                     /\ c \in new => mark'[c] # "Black"
                     /\ mark[c] = "White" => mark'[c] = "White"
                     /\ mark'[c] = "White" => mark[c] = "White" \/ c = b
                     /\ mark'[c] = "Grey" => c # b /\ (mark[c] = "Grey" \/ c \in new)
                     /\ mark'[c] # "Black" => mark[c] # "Black" \/ c = b \/ c \in new
  BY <1>1, <1>2, <1>4, TargetsInGraph DEF new, Shape, Colors
<1>9. TriColour'
  <2>1. ASSUME NEW c \in All, NEW d \in EdgeTargets(c), mark'[c] = "White"
        PROVE  mark'[d] # "Black"
    <3>1. d \in All
      BY TargetsInGraph
    <3>2. CASE mark[c] = "White"
      BY <1>8, <3>1, <3>2 DEF MarkInv, TriColour
    <3>3. CASE c = b
      BY <1>4, <1>8, <3>1, <3>3 DEF new
    <3> QED BY <1>8, <2>1, <3>2, <3>3
  <2>2. \A c \in All : mark'[c] = "Grey" => c \in greys'
    BY <1>1, <1>8 DEF MarkInv, TriColour
  <2> QED BY <1>3, <1>5, <2>1, <2>2 DEF TriColour
<1>10. RootsSeen'
  <2>1. mark'[b] = "White"
    BY <1>1
  <2>2. \A c \in All : c \in greys \/ mark[c] = "White"
                        => c \in greys' \/ mark'[c] = "White"
    BY <1>1, <1>8, <2>1
  <2>3. \A x : GetBlock(All, labels, x) \subseteq All
    BY DEF GetBlock
  <2> QED BY <1>1, <1>3, <2>2, <2>3 DEF MarkInv, RootsSeen
<1>11. OnlyReachable'
  <2> SUFFICES ASSUME NEW S \in SUBSET All, Closed(S)
               PROVE  greys' \subseteq S /\ \A c \in All : mark'[c] # "Black" => c \in S
    BY <1>3, <1>5 DEF OnlyReachable, Closed
  <2>1. greys \subseteq S /\ \A c \in All : mark[c] # "Black" => c \in S
    BY DEF MarkInv, OnlyReachable
  <2>2. b \in S /\ new \subseteq S
    BY <1>1, <1>4, <2>1 DEF Closed, new
  <2> QED BY <1>1, <1>8, <2>1, <2>2
<1>12. EdgesComplete'
  BY <1>1, <1>3 DEF MarkInv, EdgesComplete, Positions
<1> QED BY <1>7, <1>9, <1>10, <1>11, <1>12 DEF MarkInv

LEMMA SweepInv ==
    ASSUME MarkInv, Sweep PROVE MarkInv'
<1>1. /\ phase = "mark" /\ phase' = "swept" /\ greys = {} /\ roots = {}
      /\ blocks' = {b \in blocks : mark[b] = "White"} /\ blocks = All
      /\ quads' = quads /\ labels' = labels /\ ends' = ends /\ edges' = edges
      /\ mark' = mark /\ greys' = greys /\ roots' = roots /\ All' = All
  BY DEF Sweep, MarkInv, Shape, All
<1>2. /\ \A c : EdgeTargets(c)' = EdgeTargets(c)
      /\ RootBlocks' = RootBlocks
  BY <1>1 DEF EdgeTargets, RootBlocks
<1>3. Shape'
  BY <1>1 DEF MarkInv, Shape, Swept
<1>4. TriColour' /\ OnlyReachable'
  BY <1>1, <1>2 DEF MarkInv, TriColour, OnlyReachable, Closed
<1>5. RootsSeen' /\ EdgesComplete'
  BY <1>1 DEF MarkInv, RootsSeen, EdgesComplete, Positions
<1> QED BY <1>3, <1>4, <1>5 DEF MarkInv

LEMMA CollapseInv ==
    ASSUME MarkInv, Collapse PROVE MarkInv'
<1>1. /\ phase = "swept" /\ phase' = "done"
      /\ quads' = [i \in Positions |->
                      IF /\ i + 1 \in Positions
                         /\ quads[i].op = "CondGoto"
                         /\ quads[i].opd2 = labels[i + 1]
                      THEN [quads[i] EXCEPT !.opd2 = Nothing]
                      ELSE quads[i]]
      /\ blocks' = blocks /\ labels' = labels /\ ends' = ends /\ edges' = edges
      /\ mark' = mark /\ greys' = greys /\ roots' = roots /\ All' = All
  BY DEF Collapse, ThenFollows, All
<1>2. DOMAIN quads' = DOMAIN quads /\ Positions' = Positions
  BY <1>1 DEF Positions
<1>3. /\ \A c : EdgeTargets(c)' = EdgeTargets(c)
      /\ RootBlocks' = RootBlocks
  BY <1>1 DEF EdgeTargets, RootBlocks
<1>4. Shape'
  BY <1>1, <1>2 DEF MarkInv, Shape, Swept
<1>5. TriColour' /\ OnlyReachable'
  BY <1>1, <1>3 DEF MarkInv, TriColour, OnlyReachable, Closed
<1>6. RootsSeen'
  BY <1>1 DEF MarkInv, RootsSeen
<1>7. ASSUME NEW i \in Positions
      PROVE  Targets(quads'[i]) \ {Nothing} \subseteq Targets(quads[i])
  <2> DEFINE cut == [quads[i] EXCEPT !.opd2 = Nothing]
  <2>1. quads'[i] = quads[i] \/ (quads'[i] = cut /\ quads[i].op = "CondGoto")
    BY <1>1
  <2>2. CASE quads'[i] = cut /\ quads[i].op = "CondGoto"
    <3>1. cut.op = quads[i].op /\ cut.opd1 = quads[i].opd1
          /\ cut.opd2 \in {Nothing, quads[i].opd2}
      OBVIOUS
    <3>2. Targets(cut) = {cut.opd1, cut.opd2}
      BY <2>2, <3>1 DEF Targets
    <3>3. Targets(quads[i]) = {quads[i].opd1, quads[i].opd2}
      BY <2>2 DEF Targets
    <3> HIDE DEF cut
    <3> QED BY <2>2, <3>1, <3>2, <3>3
  <2> QED BY <2>1, <2>2
<1>8. \A b \in All : Block(ends, b) \subseteq Positions
  BY <1>1, BlockInFile DEF MarkInv, Shape, Positions
<1>9. EdgesComplete'
  <2> SUFFICES ASSUME NEW b \in All, NEW i \in Block(ends, b),
                      NEW t \in Targets(quads'[i]) \ {Nothing}
               PROVE  <<labels[b], t>> \in edges
    BY <1>1, <1>2 DEF EdgesComplete
  <2> QED BY <1>7, <1>8 DEF MarkInv, EdgesComplete
<1> QED BY <1>4, <1>5, <1>6, <1>9 DEF MarkInv

LEMMA StutterInv ==
    ASSUME MarkInv, UNCHANGED vars PROVE MarkInv'
<1>1. /\ phase' = phase /\ blocks' = blocks /\ ends' = ends /\ edges' = edges /\ mark' = mark
      /\ greys' = greys /\ roots' = roots /\ quads' = quads /\ labels' = labels
      /\ All' = All
  BY DEF vars, graphVars, All
<1>2. /\ \A c : EdgeTargets(c)' = EdgeTargets(c)
      /\ RootBlocks' = RootBlocks
  BY <1>1 DEF EdgeTargets, RootBlocks
<1>3. Shape' /\ RootsSeen' /\ EdgesComplete'
  BY <1>1 DEF MarkInv, Shape, Swept, RootsSeen, EdgesComplete, Positions
<1>4. TriColour' /\ OnlyReachable'
  BY <1>1, <1>2 DEF MarkInv, TriColour, OnlyReachable, Closed
<1> QED BY <1>3, <1>4 DEF MarkInv

LEMMA MarkInductive == Spec => []MarkInv
<1>1. Init => MarkInv
  BY InitInv
<1>2. MarkInv /\ [Next]_vars => MarkInv'
  BY BuildGraphInv, MarkFromRootInv, VisitInv, SweepInv, CollapseInv, StutterInv
     DEF Next
<1> QED BY <1>1, <1>2, PTL DEF Spec

-----------------------------------------------------------------------------
\* The types of the graph, for every program.
THEOREM TypeCorrect == Spec => []TypeOK
<1>1. MarkInv => TypeOK
  <2> SUFFICES ASSUME MarkInv PROVE TypeOK
    OBVIOUS
  <2>1. RootsOf(All, labels) \subseteq All
    BY DEF RootsOf, GetBlock
  <2>2. phase \in {"mark", "swept", "done"} => blocks \subseteq All
    BY DEF MarkInv, Shape, Swept
  <2>3. DOMAIN ends = All /\ \A b \in All : ends[b] \in Nat
    <3>1. Shape
      BY DEF MarkInv
    <3>2. CASE phase = "idle"
      BY <3>1, <3>2 DEF Shape
    <3>3. CASE phase # "idle"
      <4>1. CutAtLabels(labels, ends) /\ All = DOMAIN ends /\ All \subseteq Nat
        BY <3>1, <3>3 DEF Shape
      <4>2. QED
        BY <3>1, <4>1 DEF CutAtLabels, Shape
    <3>4. QED
      BY <3>2, <3>3
  <2> QED BY <2>1, <2>2, <2>3 DEF MarkInv, Shape, TypeOK, Positions
<1> QED BY <1>1, MarkInductive, PTL

LEMMA MarkReaches == ASSUME MarkInv PROVE KeptIsReachable
<1>1. SUFFICES ASSUME Swept
               PROVE  /\ Closed(blocks)
                      /\ \A S \in SUBSET All : Closed(S) => blocks \subseteq S
  BY DEF KeptIsReachable
<1>2. /\ blocks = {b \in All : mark[b] = "White"} /\ greys = {} /\ roots = {}
      /\ phase # "idle" /\ mark \in [All -> Colors]
  BY <1>1 DEF MarkInv, Shape, Swept
<1>3. RootBlocks \subseteq blocks
  <2>1. \A x : GetBlock(All, labels, x) \subseteq All
    BY DEF GetBlock
  <2>2. QED
    BY <1>2, <2>1 DEF MarkInv, RootsSeen, RootBlocks
<1>4. \A b \in blocks : EdgeTargets(b) \subseteq blocks
  BY <1>2, TargetsInGraph DEF MarkInv, TriColour, Colors
<1>5. \A S \in SUBSET All : Closed(S) => blocks \subseteq S
  BY <1>2 DEF MarkInv, OnlyReachable
<1>6. QED
  BY <1>3, <1>4, <1>5 DEF Closed

\* eliminate_dead_code keeps exactly the blocks the roots reach.
THEOREM ExactlyReachableKept == Spec => []KeptIsReachable
BY MarkReaches, MarkInductive, PTL

LEMMA MarkKeepsTargets == ASSUME MarkInv PROVE JumpsStayInKeptCode
<1>1. SUFFICES ASSUME Swept, NEW b \in blocks,
                      NEW i \in Block(ends, b),
                      NEW t \in Targets(quads[i]) \ {Nothing}
               PROVE  GetBlock(All, labels, t) \subseteq blocks
  BY DEF JumpsStayInKeptCode
<1>2. /\ blocks = {c \in All : mark[c] = "White"} /\ greys = {}
      /\ mark \in [All -> Colors]
  BY <1>1 DEF MarkInv, Shape, Swept
<1>3. <<labels[b], t>> \in edges
  BY <1>1, <1>2 DEF MarkInv, EdgesComplete
<1>4. GetBlock(All, labels, t) \subseteq EdgeTargets(b)
  BY <1>3 DEF EdgeTargets
<1>5. EdgeTargets(b) \subseteq blocks
  BY <1>1, <1>2, TargetsInGraph DEF MarkInv, TriColour, Colors
<1>6. QED
  BY <1>4, <1>5

\* No jump and no call of the kept code leads into code that was removed.
THEOREM KeptCodeIsSelfContained == Spec => []JumpsStayInKeptCode
BY MarkKeepsTargets, MarkInductive, PTL

-----------------------------------------------------------------------------
(* The blocks are the stretches between the labels, and stay so. *)

Labelled ==
    /\ \A i \in DOMAIN quads : DOMAIN quads[i] = {"op", "target", "opd1", "opd2"}
    /\ \A i, j \in DOMAIN labels : labels[i] = labels[j] /\ labels[i] # Nothing => i = j

LEMMA LabelledInductive == Spec => []Labelled
<1>1. Init => Labelled
  BY ProgramsAssumption, LabelsAssumption DEF Init, Labelled
<1>2. Labelled /\ [Next]_vars => Labelled'
  <2>1. SUFFICES ASSUME Labelled, [Next]_vars PROVE Labelled'
    OBVIOUS
  <2>2. CASE quads' = quads /\ labels' = labels
    BY <2>1, <2>2 DEF Labelled
  <2>3. CASE Collapse
    <3>1. labels' = labels /\ DOMAIN quads' = DOMAIN quads
      BY <2>3 DEF Collapse, Positions
    <3>2. \A i \in DOMAIN quads : DOMAIN quads'[i] = DOMAIN quads[i]
      BY <2>3 DEF Collapse, Positions
    <3>3. QED
      BY <2>1, <3>1, <3>2 DEF Labelled
  <2>4. QED
    BY <2>1, <2>2, <2>3 DEF Next, BuildGraph, MarkFromRoot, Visit, Sweep, vars
<1>3. QED
  BY <1>1, <1>2, PTL DEF Spec

\* A position lies in the block of the last label up to it.
LEMMA LastLabel ==
    ASSUME NEW L, Len(L) \in Nat \ {0}, L[1] # Nothing, DOMAIN L = 1 .. Len(L),
           NEW i \in DOMAIN L
    PROVE  \E b \in Begins(L) : b <= i /\ \A c \in b + 1 .. i : L[c] = Nothing
<1> DEFINE T == {k \in 0 .. i - 1 : L[i - k] # Nothing}
<1>1. T \in SUBSET Nat /\ i - 1 \in T /\ i \in Nat
  OBVIOUS
<1>2. PICK k \in T : \A h \in T : k <= h
  <2> HIDE DEF T
  <2>1. QED
    BY <1>1, Least
<1>3. ASSUME NEW c \in i - k + 1 .. i, L[c] # Nothing PROVE FALSE
  <2>1. i - c \in 0 .. i - 1 /\ i - (i - c) = c
    BY <1>1, <1>2, <1>3
  <2>2. i - c \in T /\ i - c < k
    BY <1>1, <1>2, <1>3, <2>1
  <2>3. QED
    BY <1>2, <2>2
<1>4. i - k \in Begins(L) /\ i - k <= i
  BY <1>1, <1>2 DEF Begins
<1>5. QED
  BY <1>3, <1>4

(***************************************************************************)
(* create_basic_blocks gives every quad of the file to exactly one block,  *)
(* and only the first quad of a block can be jumped to.                    *)
(***************************************************************************)
THEOREM BlocksCutAtLabels == Spec => []BlocksPartition
<1>1. MarkInv => BlocksPartition
  <2>1. SUFFICES ASSUME MarkInv, Built PROVE BlocksPartition
    BY DEF BlocksPartition
  <2>2. /\ CutAtLabels(labels, ends) /\ All = Begins(labels) /\ Positions = DOMAIN labels
        /\ Len(labels) \in Nat \ {0} /\ DOMAIN labels = 1 .. Len(labels)
        /\ labels[1] # Nothing
    BY <2>1 DEF MarkInv, Shape, Built, CutAtLabels, Positions
  <2>3. ASSUME NEW b \in All
        PROVE  labels[b] # Nothing /\ Block(ends, b) \subseteq Positions
    BY <2>2, BlockInFile DEF Begins, CutAtLabels
  <2>4. ASSUME NEW b \in All, NEW c \in All, NEW i, i \in Block(ends, b), i \in Block(ends, c)
        PROVE  ~(b < c)
    <3>1. SUFFICES ASSUME b < c PROVE FALSE
      OBVIOUS
    <3>2. b \in Nat /\ c \in Nat /\ ends[b] \in Nat /\ ends[c] \in Nat
      BY <2>2 DEF CutAtLabels, Begins
    <3>3. c \in b + 1 .. ends[b] - 1
      BY <2>4, <3>1, <3>2 DEF Block
    <3>4. labels[c] = Nothing
      BY <2>2, <3>3 DEF CutAtLabels
    <3>5. QED
      BY <2>3, <3>4
  <2>5. ASSUME NEW i \in Positions
        PROVE  \E b \in All : /\ i \in Block(ends, b)
                              /\ \A c \in All : i \in Block(ends, c) => c = b
                              /\ i # b => labels[i] = Nothing
    <3>1. PICK b \in All : b <= i /\ \A c \in b + 1 .. i : labels[c] = Nothing
      BY <2>2, <2>5, LastLabel
    <3>2. /\ b \in Nat /\ i \in 1 .. Len(labels) /\ ends[b] \in b + 1 .. Len(labels) + 1
          /\ ends[b] = Len(labels) + 1 \/ labels[ends[b]] # Nothing
      BY <2>2, <2>5 DEF CutAtLabels, Begins
    <3>3. i \in Block(ends, b)
      <4>1. ends[b] \notin b + 1 .. i
        BY <2>2, <3>1, <3>2
      <4>2. QED
        BY <3>1, <3>2, <4>1 DEF Block
    <3>4. ASSUME NEW c \in All, i \in Block(ends, c) PROVE c = b
      BY <2>2, <2>4, <3>2, <3>3, <3>4 DEF Begins
    <3>5. i # b => labels[i] = Nothing
      BY <3>1, <3>2
    <3>6. QED
      BY <3>3, <3>4, <3>5
  <2>6. QED
    BY <2>3, <2>5 DEF BlocksPartition
<1>2. QED
  BY <1>1, MarkInductive, PTL

(***************************************************************************)
(* collapse_cond_jumps leaves every jump of the kept code leading to the   *)
(* block it led to: the quad behind it begins that block, which was kept.  *)
(***************************************************************************)
THEOREM CollapseIsSafe == Spec => CollapseKeepsJumps
<1>1. MarkInv /\ Labelled /\ JumpsStayInKeptCode /\ [Next]_vars =>
          [Swept => \A b \in blocks : \A i \in Block(ends, b) :
                       JumpLeadsTo(i)' = JumpLeadsTo(i)]_vars
  <2>1. SUFFICES ASSUME MarkInv, Labelled, JumpsStayInKeptCode, [Next]_vars, Swept,
                        NEW b \in blocks, NEW i \in Block(ends, b)
                 PROVE  UNCHANGED vars \/ JumpLeadsTo(i)' = JumpLeadsTo(i)
    OBVIOUS
  <2>2. Collapse \/ UNCHANGED vars
    BY <2>1 DEF Swept, Next, BuildGraph, MarkFromRoot, Visit, Sweep
  <2>3. CASE UNCHANGED vars
    BY <2>3
  <2>4. CASE Collapse
    <3>1. /\ labels' = labels /\ blocks' = blocks /\ ends' = ends
          /\ quads' = [j \in Positions |->
                          IF ThenFollows(j) THEN [quads[j] EXCEPT !.opd2 = Nothing]
                          ELSE quads[j]]
      BY <2>4 DEF Collapse
    <3>2. /\ i \in Positions /\ DOMAIN labels = Positions
          /\ DOMAIN quads[i] = {"op", "target", "opd1", "opd2"}
          /\ All = {j \in Positions : labels[j] # Nothing}
          /\ blocks \subseteq All
      <4>1. /\ DOMAIN labels = Positions /\ blocks \subseteq All
            /\ All = Begins(labels) /\ CutAtLabels(labels, ends) /\ All = DOMAIN ends
            /\ Len(labels) \in Nat /\ DOMAIN labels = 1 .. Len(labels)
        BY <2>1 DEF MarkInv, Shape, Swept, Positions, CutAtLabels
      <4>2. i \in Positions
        BY <2>1, <4>1, BlockInFile
      <4>3. QED
        BY <2>1, <4>1, <4>2 DEF Labelled, Positions, Begins
    <3>3. CASE ~ThenFollows(i)
      <4>1. quads'[i] = quads[i]
        BY <3>1, <3>2, <3>3
      <4>2. QED
        BY <3>1, <4>1 DEF JumpLeadsTo, GetBlock
    <3>4. CASE ThenFollows(i)
      <4>1. /\ i + 1 \in Positions /\ quads[i].op = "CondGoto"
            /\ quads[i].opd2 = labels[i + 1]
        BY <3>4 DEF ThenFollows
      <4>2. quads'[i].op = "CondGoto" /\ quads'[i].opd1 = quads[i].opd1
            /\ quads'[i].opd2 = Nothing
        BY <3>1, <3>2, <3>4, <4>1
      <4>3. JumpLeadsTo(i)' = <<GetBlock(blocks, labels, quads[i].opd1), {i + 1}>>
        BY <3>1, <4>2 DEF JumpLeadsTo, GetBlock
      <4>4. CASE labels[i + 1] = Nothing
        BY <4>1, <4>3, <4>4 DEF JumpLeadsTo
      <4>5. CASE labels[i + 1] # Nothing
        <5>1. i + 1 \in All /\ i + 1 \in Nat
          BY <2>1, <3>2, <4>1, <4>5 DEF MarkInv, Shape, Positions
        <5>2. \A c \in All : labels[c] = labels[i + 1] => c = i + 1
          BY <2>1, <3>2, <4>1, <4>5 DEF Labelled
        <5>3. GetBlock(All, labels, labels[i + 1]) = {i + 1}
          BY <5>1, <5>2 DEF GetBlock
        <5>4. i + 1 \in blocks
          <6>1. labels[i + 1] \in Targets(quads[i]) \ {Nothing}
            BY <4>1, <4>5 DEF Targets
          <6>2. GetBlock(All, labels, labels[i + 1]) \subseteq blocks
            BY <2>1, <6>1 DEF JumpsStayInKeptCode
          <6>3. QED
            BY <5>3, <6>2
        <5>5. GetBlock(blocks, labels, labels[i + 1]) = {i + 1}
          BY <3>2, <5>1, <5>2, <5>4 DEF GetBlock
        <5>6. QED
          BY <4>1, <4>3, <4>5, <5>5 DEF JumpLeadsTo
      <4>6. QED
        BY <4>4, <4>5
    <3>5. QED
      BY <3>3, <3>4
  <2>5. QED
    BY <2>2, <2>3, <2>4
<1>2. QED
  BY <1>1, MarkInductive, LabelledInductive, KeptCodeIsSelfContained, PTL
     DEF Spec, CollapseKeepsJumps

=============================================================================
