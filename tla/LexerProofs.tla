---------------------------- MODULE LexerProofs ----------------------------
(***************************************************************************)
(* The tokens of a text, for any text, letters and reserved words.         *)
(*                                                                         *)
(* Reading is TokensCoverText for the part of the text that was read so    *)
(* far; it is kept by next_token unless the text ends in a space, and the  *)
(* parser, which comes next, changes neither the text nor the tokens.      *)
(***************************************************************************)
EXTENDS Parser, FiniteSetTheorems, WellFoundedInduction, TLAPS

TokenTypes == Signs \cup DOMAIN Pair \cup Range(Pair) \cup Range(Reserved)
                  \cup {"id", "int", "hex", "float"}
TokenRecords == [type : TokenTypes, start : Nat, len : Nat \ {0}, line : Nat]
Solid(n) == {h \in 0 .. n - 1 : Char(h) \notin Blanks}

Reading ==
    /\ at \in 0 .. Len(code)
    /\ line = 1 + Newlines(at)
    /\ tokens \in Seq(TokenRecords)
    /\ Covered(tokens) = Solid(at)
    /\ InOrder(tokens)
    /\ tokens # <<>> => tokens[Len(tokens)].start + tokens[Len(tokens)].len <= at
    /\ \A t \in Range(tokens) : ReadWhole(t)
LexInv ==
    /\ goal = "lex" => code \in Texts /\ (~EndsInSpace => Reading)
    /\ TokensCoverText


-----------------------------------------------------------------------------
(* Runs of characters *)

LEMMA Least ==
    ASSUME NEW S \in SUBSET Nat, S # {} PROVE \E j \in S : \A h \in S : j <= h
<1>1. S \subseteq Nat /\ S # {}
  OBVIOUS
<1>2. \E j \in S : \A h \in S : ~ (<<h, j>> \in OpToRel(<, Nat))
  BY <1>1, NatLessThanWellFounded, WFMin, Zenon
<1>3. PICK j \in S : \A h \in S : ~ (<<h, j>> \in OpToRel(<, Nat))
  BY <1>2, Zenon
<1>4. \A h \in S : ~(h < j)
  <2>1. SUFFICES ASSUME NEW h \in S, h < j PROVE FALSE
    OBVIOUS
  <2>2. <<h, j>> \in OpToRel(<, Nat)
    BY <1>1, <2>1 DEF OpToRel
  <2>3. QED
    BY <1>3, <2>2, Zenon
<1>5. QED
  BY <1>1, <1>4

LEMMA TextFacts ==
    ASSUME code \in Texts
    PROVE  /\ Len(code) \in Nat
           /\ Char(Len(code)) = "nul"
           /\ \A i \in 0 .. Len(code) - 1 : Char(i) = code[i + 1] /\ Char(i) # "nul"
           /\ \A i \in Nat : Char(i) # "nul" => i < Len(code)
<1>1. code \in Seq(Range(code)) /\ "nul" \notin Range(code)
  BY CharsAssumption
<1>2. Len(code) \in Nat /\ DOMAIN code = 1 .. Len(code)
  BY <1>1
<1>3. \A i \in 1 .. Len(code) : code[i] \in Range(code)
  BY <1>2 DEF Range
<1>4. QED
  BY <1>1, <1>2, <1>3 DEF Char

\* From i on there is a first character outside of S.
LEMMA RunStops ==
    ASSUME code \in Texts, NEW S, "nul" \notin S, NEW i \in 0 .. Len(code)
    PROVE  \E j \in i .. Len(code) :
               Char(j) \notin S /\ \A h \in i .. j - 1 : Char(h) \in S
<1> DEFINE J == {j \in i .. Len(code) : Char(j) \notin S}
<1>1. Len(code) \in Nat /\ Len(code) \in J
  BY TextFacts
<1>2. J \subseteq Nat /\ J # {}
  BY <1>1
<1>3. PICK j \in J : \A h \in J : j <= h
  <2> HIDE DEF J
  <2>1. QED
    BY <1>2, Least
<1>4. \A h \in i .. j - 1 : Char(h) \in S
  <2>1. SUFFICES ASSUME NEW h \in i .. j - 1, Char(h) \notin S PROVE FALSE
    OBVIOUS
  <2>2. h \in J /\ h < j
    BY <1>1, <2>1
  <2>3. QED
    BY <1>1, <1>3, <2>2
<1>5. QED
  BY <1>3, <1>4

LEMMA RunEndIs ==
    ASSUME code \in Texts, NEW S, "nul" \notin S, NEW i \in 0 .. Len(code)
    PROVE  /\ RunEnd(i, S) \in i .. Len(code)
           /\ Char(RunEnd(i, S)) \notin S
           /\ \A h \in i .. RunEnd(i, S) - 1 : Char(h) \in S
<1>1. \E j \in i .. Len(code) : Char(j) \notin S /\ \A h \in i .. j - 1 : Char(h) \in S
  BY RunStops
<1>2. QED
  BY <1>1 DEF RunEnd

LEMMA SkippedIs ==
    ASSUME code \in Texts, NEW i \in 0 .. Len(code)
    PROVE  /\ Skipped(i) \in i .. Len(code)
           /\ Char(Skipped(i)) # "space"
           /\ \A h \in i .. Skipped(i) - 1 : Char(h) = "space"
<1>1. \E j \in i .. Len(code) : Char(j) \notin {"space"} /\ \A h \in i .. j - 1 : Char(h) \in {"space"}
  BY RunStops
<1>2. \E j \in i .. Len(code) : Char(j) # "space" /\ \A h \in i .. j - 1 : Char(h) = "space"
  BY <1>1
<1>3. QED
  BY <1>2 DEF Skipped

-----------------------------------------------------------------------------
(* One token *)

\* What next_token has to say of the characters it takes.
Sound(t, i) ==
    /\ t \in TokenRecords
    /\ t.start = i /\ t.line = line /\ i + t.len <= Len(code)
    /\ \A h \in i .. i + t.len - 1 : Char(h) \notin Blanks
    /\ ~GoesOnAsToken(t, Char(i + t.len))
    /\ \A w \in DOMAIN Reserved : t.type = Reserved[w] <=> w = Text(t)
Begins(i) == i \in 0 .. Len(code) - 1 /\ Char(i) \notin Blanks

LEMMA CharKinds ==
    /\ \A c \in WordChars : /\ c \notin Signs /\ c \notin DOMAIN Pair /\ c \notin Blanks
                            /\ c # "." /\ c # "nul"
    /\ \A c \in Digits : c \in WordChars /\ c \notin Letters
    /\ \A c \in Letters : c \in WordChars
    /\ \A c \in Signs \cup DOMAIN Pair : c \notin Blanks
    /\ \A c \in DOMAIN Pair : /\ SecondSign[c] \in {":", "="}
                              /\ Pair[c] \notin DOMAIN Pair /\ c \notin Signs
    /\ Range(Pair) = {"::", "<=", ">=", "==", "!="}
<1>1. DOMAIN Pair = {":", "<", ">", "=", "!"}
  BY DEF Pair
<1>2. /\ Pair[":"] = "::" /\ Pair["<"] = "<=" /\ Pair[">"] = ">=" /\ Pair["="] = "=="
      /\ Pair["!"] = "!="
  BY DEF Pair
<1>3. Range(Pair) = {"::", "<=", ">=", "==", "!="}
  BY <1>1, <1>2 DEF Range
<1>4. \A c \in DOMAIN Pair : SecondSign[c] \in {":", "="}
  BY DEF SecondSign
<1>5. \A c \in DOMAIN Pair : Pair[c] \notin DOMAIN Pair
  BY <1>1, <1>2
<1>6. \A c \in Signs : c \notin {":", "<", ">", "=", "!", "space", "newline"}
  BY Zenon DEF Signs
<1>7. QED
  BY <1>1, <1>3, <1>4, <1>5, <1>6, CharsAssumption DEF WordChars, Blanks

LEMMA Kinds ==
    \A w \in DOMAIN Reserved :
        /\ Reserved[w] \in Range(Reserved)
        /\ Reserved[w] \notin Signs \cup DOMAIN Pair \cup Range(Pair)
        /\ Reserved[w] \notin {"id", "int", "hex", "float"}
BY ReservedAssumption DEF Range

\* A token is spelled with its first character, so a reserved word is no sign
\* and no number.
LEMMA NotReserved ==
    ASSUME code \in Texts, NEW t \in TokenRecords, t.start + t.len <= Len(code),
           Char(t.start) \notin Letters, NEW w \in DOMAIN Reserved
    PROVE  w # Text(t)
<1>1. code \in Seq(Range(code)) /\ Len(code) \in Nat
  BY CharsAssumption, TextFacts
<1>2. /\ t.start \in Nat /\ t.len \in Nat \ {0}
      /\ t.start \in 0 .. Len(code) - 1
  BY <1>1 DEF TokenRecords
<1>3. Text(t)[1] = code[t.start + 1]
  BY <1>1, <1>2 DEF Text
<1>4. Text(t)[1] = Char(t.start)
  BY <1>2, <1>3, TextFacts
<1>5. w[1] \in Letters
  BY ReservedAssumption
<1>6. QED
  BY <1>4, <1>5

LEMMA TextAt ==
    ASSUME code \in Texts, NEW t \in TokenRecords, t.start + t.len <= Len(code)
    PROVE  \A n \in 1 .. t.len : Text(t)[n] = Char(t.start + (n - 1))
<1>1. code \in Seq(Range(code)) /\ Len(code) \in Nat
  BY CharsAssumption, TextFacts
<1>2. t.start \in Nat /\ t.len \in Nat \ {0}
  BY DEF TokenRecords
<1>3. ASSUME NEW n \in 1 .. t.len PROVE Text(t)[n] = Char(t.start + (n - 1))
  <2>1. PICK a \in Nat, k \in Nat : a = t.start /\ k = t.len
    BY <1>2
  <2>2. n \in 1 .. k /\ a + k <= Len(code)
    BY <1>3, <2>1
  <2>3. SubSeq(code, a + 1, a + k)[n] = code[a + n]
    BY <1>1, <2>2
  <2>4. a + (n - 1) \in 0 .. Len(code) - 1 /\ (a + (n - 1)) + 1 = a + n
    BY <1>1, <2>2
  <2>5. Char(a + (n - 1)) = code[a + n]
    BY <2>4, TextFacts
  <2>6. QED
    BY <2>1, <2>3, <2>5 DEF Text
<1>4. QED
  BY <1>3

\* Only the first character of a sign or a word can be a point.
LEMMA OnePoint ==
    ASSUME code \in Texts, NEW t \in TokenRecords, t.start + t.len <= Len(code),
           NEW p, \A n \in 1 .. t.len : Text(t)[n] = "." => n = p
    PROVE  ~(Cardinality({n \in 1 .. t.len : Text(t)[n] = "."}) > 1)
<1> DEFINE S == {n \in 1 .. t.len : Text(t)[n] = "."}
<1>1. S \in SUBSET {p}
  OBVIOUS
<1> HIDE DEF S
<1>2. IsFiniteSet({p}) /\ Cardinality({p}) = 1
  BY FS_Singleton, Zenon
<1>3. Cardinality(S) <= Cardinality({p}) /\ IsFiniteSet(S)
  BY <1>1, <1>2, FS_Subset
<1>4. Cardinality(S) \in Nat
  BY <1>3, FS_CardinalityType
<1>5. ~(Cardinality(S) > 1)
  BY <1>2, <1>3, <1>4
<1>6. QED
  BY <1>5 DEF S

\* The points that read_number counts are those of the token.
LEMMA PointsOfNumber ==
    ASSUME code \in Texts, NEW t \in TokenRecords, t.start + t.len <= Len(code),
           t.len = NumberLength(t.start)
    PROVE  Cardinality({n \in 1 .. t.len : Text(t)[n] = "."}) = Dots(t.start)
<1> DEFINE S == {n \in 1 .. t.len : Text(t)[n] = "."}
           T == {h \in t.start .. t.start + t.len - 1 : Char(h) = "."}
           f == [n \in S |-> t.start + (n - 1)]
<1>1. t.start \in Nat /\ t.len \in Nat \ {0}
  BY DEF TokenRecords
<1>2. \A n \in S : f[n] \in T
  BY <1>1, TextAt
<1>3. \A m, n \in S : f[m] = f[n] => m = n
  BY <1>1
<1>4. \A h \in T : (h - t.start) + 1 \in S /\ f[(h - t.start) + 1] = h
  <2>1. SUFFICES ASSUME NEW h \in T
                 PROVE  (h - t.start) + 1 \in S /\ f[(h - t.start) + 1] = h
    OBVIOUS
  <2>2. PICK a \in Nat, k \in Nat : a = t.start /\ k = t.len
    BY <1>1
  <2>3. h \in a .. a + k - 1
    BY <2>2
  <2>4. (h - a) + 1 \in 1 .. k /\ a + (((h - a) + 1) - 1) = h
    BY <2>3
  <2>5. QED
    BY <2>2, <2>4, TextAt
<1>5. f \in [S -> T]
  BY <1>2
<1>6. S \in SUBSET (1 .. t.len)
  OBVIOUS
<1> HIDE DEF S, T, f
<1>7. f \in Bijection(S, T)
  BY <1>3, <1>4, <1>5 DEF Bijection, Injection, IsInjective, Surjection
<1>8. IsFiniteSet(S)
  <2>1. IsFiniteSet(1 .. t.len)
    BY <1>1, FS_Interval
  <2>2. QED
    BY <1>6, <2>1, FS_Subset
<1>9. Cardinality(T) = Cardinality(S)
  <2>1. ExistsBijection(S, T)
    BY <1>7 DEF ExistsBijection
  <2>2. QED
    BY <1>8, <2>1, FS_Bijection, Zenon
<1>10. QED
  BY <1>9 DEF S, T, Dots

-----------------------------------------------------------------------------
(* The cases of next_token *)

LEMMA SignToken ==
    ASSUME code \in Texts, line \in Nat, NEW i, Begins(i), Char(i) \in Signs
    PROVE  Sound(Token(Char(i), i, 1), i)
<1> DEFINE t == Token(Char(i), i, 1)
<1>1. Len(code) \in Nat /\ i \in Nat /\ i + 1 <= Len(code)
  BY TextFacts DEF Begins
<1>2. t.type = Char(i) /\ t.start = i /\ t.len = 1 /\ t.line = line /\ t \in TokenRecords
  BY <1>1 DEF Token, TokenRecords, TokenTypes
<1>3. Char(i) \notin DOMAIN Pair /\ Char(i) \notin Letters
  BY CharKinds
<1>4. Char(i) \notin {"id", "int", "float"}
  BY Zenon DEF Signs
<1>5. Char(i) \notin Range(Reserved)
  BY ReservedAssumption
<1> HIDE DEF t
<1>6. ~GoesOnAsToken(t, Char(i + t.len))
  BY <1>2, <1>3, <1>4, <1>5 DEF GoesOnAsToken
<1>7. \A w \in DOMAIN Reserved : t.type # Reserved[w] /\ w # Text(t)
  BY <1>1, <1>2, <1>3, <1>5, Kinds, NotReserved
<1>8. \A h \in i .. i + t.len - 1 : Char(h) \notin Blanks
  BY <1>1, <1>2 DEF Begins
<1>9. QED
  BY <1>1, <1>2, <1>6, <1>7, <1>8 DEF Sound, t

LEMMA PairToken ==
    ASSUME code \in Texts, line \in Nat, NEW i, Begins(i), Char(i) \in DOMAIN Pair,
           Char(i + 1) = SecondSign[Char(i)]
    PROVE  Sound(Token(Pair[Char(i)], i, 2), i)
<1> DEFINE t == Token(Pair[Char(i)], i, 2)
<1>1. Char(i + 1) \in {":", "="} /\ i \in Nat /\ Len(code) \in Nat
  BY CharKinds, TextFacts DEF Begins
<1>2. i + 1 < Len(code)
  BY <1>1, TextFacts
<1>3. Pair[Char(i)] \in Range(Pair)
  BY DEF Range
<1>4. t.type \in Range(Pair) /\ t.start = i /\ t.len = 2 /\ t.line = line /\ t \in TokenRecords
  BY <1>1, <1>3 DEF Token, TokenRecords, TokenTypes
<1>5. t.type \notin {"id", "int", "float"} /\ t.type \notin Range(Reserved)
  BY <1>4, CharKinds, ReservedAssumption
<1>6. Char(i) \notin Letters
  BY CharKinds
<1> HIDE DEF t
<1>7. ~GoesOnAsToken(t, Char(i + t.len))
  BY <1>4, <1>5 DEF GoesOnAsToken
<1>8. \A w \in DOMAIN Reserved : t.type # Reserved[w] /\ w # Text(t)
  BY <1>2, <1>1, <1>4, <1>5, <1>6, Kinds, NotReserved
<1>9. \A h \in i .. i + t.len - 1 : Char(h) \notin Blanks
  <2>1. \A h \in i .. i + t.len - 1 : h = i \/ h = i + 1
    BY <1>1, <1>4
  <2>2. QED
    BY <1>1, <2>1 DEF Begins, Blanks
<1>10. QED
  BY <1>2, <1>1, <1>4, <1>7, <1>8, <1>9 DEF Sound, t

LEMMA SingleToken ==
    ASSUME code \in Texts, line \in Nat, NEW i, Begins(i), Char(i) \in DOMAIN Pair,
           Char(i + 1) # SecondSign[Char(i)]
    PROVE  Sound(Token(Char(i), i, 1), i)
<1> DEFINE t == Token(Char(i), i, 1)
<1>1. Len(code) \in Nat /\ i \in Nat /\ i + 1 <= Len(code)
  BY TextFacts DEF Begins
<1>2. t.type = Char(i) /\ t.start = i /\ t.len = 1 /\ t.line = line /\ t \in TokenRecords
  BY <1>1 DEF Token, TokenRecords, TokenTypes
<1>3. Char(i) \notin Letters
  BY CharKinds
<1>4. Char(i) \notin {"id", "int", "float"}
  BY DEF Pair
<1>5. Char(i) \notin Range(Reserved)
  BY ReservedAssumption
<1> HIDE DEF t
<1>6. ~GoesOnAsToken(t, Char(i + t.len))
  BY <1>2, <1>4, <1>5 DEF GoesOnAsToken
<1>7. \A w \in DOMAIN Reserved : t.type # Reserved[w] /\ w # Text(t)
  BY <1>1, <1>2, <1>3, <1>5, Kinds, NotReserved
<1>8. \A h \in i .. i + t.len - 1 : Char(h) \notin Blanks
  BY <1>1, <1>2 DEF Begins
<1>9. QED
  BY <1>1, <1>2, <1>6, <1>7, <1>8 DEF Sound, t

LEMMA NumberIsSound ==
    ASSUME code \in Texts, line \in Nat, NEW i, Begins(i), Char(i) \in Digits
    PROVE  Sound(NumberToken(i), i) /\ NumberToken(i).len = NumberLength(i)
<1> DEFINE t == NumberToken(i)
           more == Digits \cup {"."} \cup (IF IsHex(i) THEN Letters ELSE {})
           e == RunEnd(i + 1, more)
<1>1. Len(code) \in Nat /\ i \in Nat /\ i + 1 \in 0 .. Len(code)
  BY TextFacts DEF Begins
<1>2. /\ "nul" \notin more /\ Digits \subseteq more /\ "." \in more
      /\ \A c \in more : c \notin Blanks
  BY CharKinds DEF Blanks
<1>3. NumberLength(i) = e - i
  BY DEF NumberLength
<1> HIDE DEF more, e
<1>4. /\ e \in i + 1 .. Len(code) /\ Char(e) \notin more
      /\ \A h \in i + 1 .. e - 1 : Char(h) \in more
  BY <1>1, <1>2, RunEndIs DEF e
<1>5. NumberLength(i) \in Nat \ {0} /\ i + NumberLength(i) = e
  BY <1>1, <1>3, <1>4
<1>6. t.type \in {"float", "hex", "int"} /\ t.start = i /\ t.len = NumberLength(i) /\ t.line = line
  BY DEF NumberToken, Token
<1>7. t \in TokenRecords
  BY <1>1, <1>5 DEF NumberToken, Token, TokenRecords, TokenTypes
<1> HIDE DEF t
<1>8. t.type \notin Range(Reserved) /\ t.type # "id" /\ t.type \notin DOMAIN Pair
  BY <1>6, ReservedAssumption DEF Pair
<1>9. Char(i) \notin Letters
  BY CharKinds
<1>10. ~GoesOnAsToken(t, Char(i + t.len))
  BY <1>2, <1>4, <1>5, <1>6, <1>8 DEF GoesOnAsToken
<1>11. \A w \in DOMAIN Reserved : t.type # Reserved[w] /\ w # Text(t)
  BY <1>1, <1>4, <1>5, <1>6, <1>7, <1>8, <1>9, Kinds, NotReserved
<1>12. \A h \in i .. i + t.len - 1 : Char(h) \notin Blanks
  <2>1. \A h \in i .. e - 1 : h = i \/ h \in i + 1 .. e - 1
    BY <1>1, <1>4
  <2>2. QED
    BY <1>2, <1>4, <1>5, <1>6, <2>1 DEF Begins
<1>13. Sound(t, i)
  BY <1>1, <1>4, <1>5, <1>6, <1>7, <1>10, <1>11, <1>12 DEF Sound
<1>14. QED
  BY <1>6, <1>13 DEF t

LEMMA WordIsSound ==
    ASSUME code \in Texts, line \in Nat, NEW i, Begins(i), Char(i) \notin Signs,
           Char(i) \notin DOMAIN Pair, Char(i) \notin Digits
    PROVE  /\ Sound(Word(i), i)
           /\ \A h \in i + 1 .. i + Word(i).len - 1 : Char(h) \in WordChars
<1> DEFINE t == Word(i)
           e == WordEnd(i)
           word == SubSeq(code, i + 1, e)
<1>1. Len(code) \in Nat /\ i \in Nat /\ i + 1 \in 0 .. Len(code)
  BY TextFacts DEF Begins
<1>2. "nul" \notin WordChars
  BY CharKinds
<1>3. /\ e \in i + 1 .. Len(code) /\ Char(e) \notin WordChars
      /\ \A h \in i + 1 .. e - 1 : Char(h) \in WordChars
  BY <1>1, <1>2, RunEndIs DEF WordEnd
<1>4. t.type = ReservedAs(word) /\ t.start = i /\ t.len = e - i /\ t.line = line
  BY DEF Word, Token
<1>5. ReservedAs(word) \in {"id"} \cup Range(Reserved)
  BY DEF ReservedAs, Range
<1>6. e - i \in Nat \ {0} /\ i + (e - i) = e
  BY <1>1, <1>3
<1>7. t \in TokenRecords
  BY <1>1, <1>5, <1>6 DEF Word, Token, TokenRecords, TokenTypes
<1>8. Text(t) = word
  BY <1>4, <1>6 DEF Text
<1> HIDE DEF t
<1>9. t.type \notin {"int", "float"} /\ t.type \notin DOMAIN Pair
  BY <1>4, <1>5, ReservedAssumption DEF Pair
<1>10. ~GoesOnAsToken(t, Char(i + t.len))
  BY <1>3, <1>4, <1>6, <1>9 DEF GoesOnAsToken
<1>11. \A w \in DOMAIN Reserved : t.type = Reserved[w] <=> w = Text(t)
  BY <1>4, <1>8, Kinds, ReservedAssumption DEF ReservedAs
<1>12. \A h \in i .. i + t.len - 1 : Char(h) \notin Blanks
  <2>1. \A h \in i .. e - 1 : h = i \/ h \in i + 1 .. e - 1
    BY <1>1, <1>3
  <2>2. QED
    BY <1>3, <1>4, <1>6, <2>1, CharKinds DEF Begins
<1>13. Sound(t, i)
  BY <1>1, <1>3, <1>4, <1>6, <1>7, <1>10, <1>11, <1>12 DEF Sound
<1>14. \A h \in i + 1 .. i + t.len - 1 : Char(h) \in WordChars
  BY <1>1, <1>3, <1>4, <1>6
<1>15. QED
  BY <1>13, <1>14 DEF t

LEMMA TokenIsSound ==
    ASSUME code \in Texts, line \in Nat, NEW i, Begins(i)
    PROVE  /\ Sound(TokenAt(i), i)
           /\ LET points == Cardinality({n \in 1 .. TokenAt(i).len : Text(TokenAt(i))[n] = "."})
              IN  points > 1 => Char(i) \in Digits /\ Dots(i) > 1
<1> DEFINE t == TokenAt(i)
           points == Cardinality({n \in 1 .. t.len : Text(t)[n] = "."})
<1>1. SUFFICES Sound(t, i) /\ (points > 1 => Char(i) \in Digits /\ Dots(i) > 1)
  OBVIOUS
<1>2. ASSUME Sound(t, i), t.len = 1 PROVE ~(points > 1)
  <2>1. t \in TokenRecords /\ t.start + t.len <= Len(code)
    BY <1>2 DEF Sound
  <2>2. \A n \in 1 .. t.len : Text(t)[n] = "." => n = 1
    BY <1>2
  <2> HIDE DEF t
  <2>3. QED
    BY <2>1, <2>2, OnePoint
<1>3. CASE Char(i) \in Signs
  <2>1. t = Token(Char(i), i, 1)
    BY <1>3, CharKinds DEF TokenAt
  <2>2. Sound(t, i) /\ t.len = 1
    BY <1>3, <2>1, SignToken DEF Token
  <2>3. QED
    BY <1>2, <2>2
<1>4. CASE Char(i) \in DOMAIN Pair /\ Char(i + 1) = SecondSign[Char(i)]
  <2>1. t = Token(Pair[Char(i)], i, 2)
    BY <1>4, CharKinds DEF TokenAt
  <2>2. Sound(t, i) /\ t.len = 2 /\ t.start = i
    BY <1>4, <2>1, PairToken DEF Token
  <2>3. t \in TokenRecords /\ t.start + t.len <= Len(code)
    BY <2>2 DEF Sound
  <2>4. Char(i + 1) \in {":", "="}
    BY <1>4, CharKinds
  <2> HIDE DEF t
  <2>5. \A n \in 1 .. t.len : Text(t)[n] = "." => n = 1
    <3>1. SUFFICES ASSUME NEW n \in 1 .. t.len, n # 1 PROVE Text(t)[n] # "."
      OBVIOUS
    <3>2. n = 2
      BY <2>2, <3>1
    <3>3. Text(t)[2] = Char(i + (2 - 1))
      BY <2>2, <2>3, <3>2, TextAt
    <3>4. QED
      BY <2>4, <3>2, <3>3
  <2>6. QED
    BY <2>2, <2>3, <2>5, OnePoint
<1>5. CASE Char(i) \in DOMAIN Pair /\ Char(i + 1) # SecondSign[Char(i)]
  <2>1. t = Token(Char(i), i, 1)
    BY <1>5, CharKinds DEF TokenAt
  <2>2. Sound(t, i) /\ t.len = 1
    BY <1>5, <2>1, SingleToken DEF Token
  <2>3. QED
    BY <1>2, <2>2
<1>6. CASE Char(i) \in Digits
  <2>1. t = NumberToken(i)
    BY <1>6, CharKinds DEF TokenAt
  <2>2. Sound(t, i) /\ t.len = NumberLength(i)
    BY <1>6, <2>1, NumberIsSound
  <2>3. t \in TokenRecords /\ t.start + t.len <= Len(code) /\ t.start = i
    BY <2>2 DEF Sound
  <2> HIDE DEF t
  <2>4. points = Dots(i)
    BY <2>2, <2>3, PointsOfNumber
  <2>5. QED
    BY <1>6, <2>2, <2>4
<1>7. CASE Char(i) \notin Signs /\ Char(i) \notin DOMAIN Pair /\ Char(i) \notin Digits
  <2>1. t = Word(i)
    BY <1>7 DEF TokenAt
  <2>2. Sound(t, i) /\ \A h \in i + 1 .. i + t.len - 1 : Char(h) \in WordChars
    BY <1>7, <2>1, WordIsSound
  <2>3. t \in TokenRecords /\ t.start + t.len <= Len(code) /\ t.start = i
    BY <2>2 DEF Sound
  <2> HIDE DEF t
  <2>4. \A n \in 1 .. t.len : Text(t)[n] = "." => n = 1
    <3>1. SUFFICES ASSUME NEW n \in 1 .. t.len, n # 1 PROVE Text(t)[n] # "."
      OBVIOUS
    <3>2. PICK k \in Nat : k = t.len
      BY <2>3 DEF TokenRecords
    <3>3. i \in Nat /\ i + (n - 1) \in i + 1 .. i + k - 1
      BY <3>1, <3>2 DEF Begins
    <3>4. Text(t)[n] = Char(i + (n - 1))
      BY <2>3, TextAt
    <3>5. QED
      BY <2>2, <3>2, <3>3, <3>4, CharKinds
  <2>5. QED
    BY <2>2, <2>3, <2>4, OnePoint
<1>8. QED
  BY <1>3, <1>4, <1>5, <1>6, <1>7

-----------------------------------------------------------------------------
(* The text up to the cursor *)

LEMMA NewlinesNat ==
    ASSUME NEW n \in Nat
    PROVE  /\ IsFiniteSet({h \in 0 .. n - 1 : Char(h) = "newline"})
           /\ Newlines(n) \in Nat
<1>1. IsFiniteSet(0 .. n - 1)
  BY FS_Interval
<1>2. {h \in 0 .. n - 1 : Char(h) = "newline"} \in SUBSET (0 .. n - 1)
  OBVIOUS
<1>3. IsFiniteSet({h \in 0 .. n - 1 : Char(h) = "newline"})
  BY <1>1, <1>2, FS_Subset
<1>4. QED
  BY <1>3, FS_CardinalityType DEF Newlines

LEMMA NoNewline ==
    ASSUME NEW a \in Nat, NEW b \in Nat, a <= b, \A h \in a .. b - 1 : Char(h) # "newline"
    PROVE  Newlines(b) = Newlines(a)
<1>1. \A h \in 0 .. b - 1 : h \in 0 .. a - 1 \/ h \in a .. b - 1
  OBVIOUS
<1>2. \A h \in 0 .. a - 1 : h \in 0 .. b - 1
  OBVIOUS
<1>3. {h \in 0 .. b - 1 : Char(h) = "newline"} = {h \in 0 .. a - 1 : Char(h) = "newline"}
  BY <1>1, <1>2
<1>4. QED
  BY <1>3 DEF Newlines

LEMMA OneNewline ==
    ASSUME NEW a \in Nat, Char(a) = "newline" PROVE Newlines(a + 1) = Newlines(a) + 1
<1> DEFINE S == {h \in 0 .. a - 1 : Char(h) = "newline"}
<1>1. {h \in 0 .. (a + 1) - 1 : Char(h) = "newline"} = S \cup {a}
  <2>1. \A h : h \in 0 .. (a + 1) - 1 <=> h \in 0 .. a - 1 \/ h = a
    OBVIOUS
  <2>2. QED
    BY <2>1
<1>2. a \notin S
  OBVIOUS
<1>3. IsFiniteSet(S) /\ Cardinality(S) = Newlines(a)
  BY NewlinesNat DEF Newlines
<1> HIDE DEF S
<1>4. Cardinality(S \cup {a}) = Cardinality(S) + 1
  BY <1>2, <1>3, FS_AddElement
<1>5. QED
  BY <1>1, <1>3, <1>4 DEF Newlines

LEMMA SolidGrows ==
    ASSUME NEW a \in Nat, NEW b \in Nat, a <= b
    PROVE  /\ (\A h \in a .. b - 1 : Char(h) \in Blanks) => Solid(b) = Solid(a)
           /\ (\A h \in a .. b - 1 : Char(h) \notin Blanks) =>
                  Solid(b) = Solid(a) \cup (a .. b - 1)
<1>1. \A h : h \in 0 .. b - 1 <=> h \in 0 .. a - 1 \/ h \in a .. b - 1
  OBVIOUS
<1>2. QED
  BY <1>1 DEF Solid

LEMMA OneMoreToken ==
    ASSUME NEW ts \in Seq(TokenRecords), NEW t \in TokenRecords
    PROVE  /\ Range(Append(ts, t)) = Range(ts) \cup {t}
           /\ Covered(Append(ts, t)) = Covered(ts) \cup (t.start .. t.start + t.len - 1)
<1>1. Range(Append(ts, t)) = Range(ts) \cup {t}
  <2>1. /\ DOMAIN ts = 1 .. Len(ts) /\ DOMAIN Append(ts, t) = 1 .. Len(ts) + 1
        /\ Append(ts, t)[Len(ts) + 1] = t /\ Len(ts) \in Nat
        /\ \A n \in 1 .. Len(ts) : Append(ts, t)[n] = ts[n]
    OBVIOUS
  <2>2. \A n \in 1 .. Len(ts) + 1 : n \in 1 .. Len(ts) \/ n = Len(ts) + 1
    BY <2>1
  <2>3. QED
    BY <2>1, <2>2 DEF Range
<1>2. QED
  BY <1>1 DEF Covered

-----------------------------------------------------------------------------
(* The steps *)

LEMMA SameText ==
    ASSUME code' = code
    PROVE  /\ \A n : Char(n)' = Char(n)
           /\ \A n : Newlines(n)' = Newlines(n)
           /\ \A n : Solid(n)' = Solid(n)
           /\ EndsInSpace' <=> EndsInSpace
<1>1. \A n : Char(n)' = Char(n)
  BY DEF Char
<1>2. QED
  BY <1>1 DEF Newlines, Solid, EndsInSpace

\* A token that was read well stays so: errors are not taken back.
LEMMA ReadWholeStays ==
    ASSUME code' = code, lexErrors => lexErrors', NEW t, ReadWhole(t) PROVE ReadWhole(t)'
<1>1. /\ t.line = (1 + Newlines(t.start))'
      /\ ~GoesOnAsToken(t, Char(t.start + t.len))'
  BY SameText DEF ReadWhole, GoesOnAsToken
<1>2. Text(t)' = Text(t)
  BY DEF Text
<1>3. QED
  BY <1>1, <1>2 DEF ReadWhole

LEMMA NewlineStep ==
    ASSUME code \in Texts, code' = code, Reading, at < Len(code),
           Char(Skipped(at)) = "newline", at' = Skipped(at) + 1, line' = line + 1,
           UNCHANGED <<tokens, lexErrors>>
    PROVE  Reading'
<1> DEFINE i == Skipped(at)
<1>1. Len(code) \in Nat /\ at \in 0 .. Len(code) /\ at \in Nat
  BY TextFacts DEF Reading
<1>2. i \in at .. Len(code) /\ \A h \in at .. i - 1 : Char(h) = "space"
  BY <1>1, SkippedIs
<1> HIDE DEF i
<1>3. i \in Nat /\ at <= i /\ Char(i) = "newline"
  BY <1>1, <1>2 DEF i
<1>4. i < Len(code)
  BY <1>3, TextFacts
<1>5. at' = i + 1 /\ at' \in 0 .. Len(code) /\ at <= at'
  BY <1>1, <1>3, <1>4 DEF i
<1>6. Newlines(i + 1) = Newlines(at) + 1
  <2>1. \A h \in at .. i - 1 : Char(h) # "newline"
    BY <1>2
  <2>2. QED
    BY <1>1, <1>3, <2>1, NoNewline, OneNewline
<1>7. Solid(i + 1) = Solid(at)
  <2>1. \A h \in at .. (i + 1) - 1 : h \in at .. i - 1 \/ h = i
    BY <1>1, <1>3
  <2>2. \A h \in at .. (i + 1) - 1 : Char(h) \in Blanks
    BY <1>2, <1>3, <2>1 DEF Blanks
  <2>3. i + 1 \in Nat /\ at <= i + 1
    BY <1>1, <1>3
  <2>4. QED
    BY <1>1, <2>2, <2>3, SolidGrows
<1>8. line' = 1 + Newlines(i + 1)
  <2>1. Newlines(at) \in Nat
    BY <1>1, NewlinesNat
  <2>2. line = 1 + Newlines(at)
    BY DEF Reading
  <2>3. QED
    BY <1>6, <2>1, <2>2
<1>9. \A t \in Range(tokens) : ReadWhole(t)'
  BY ReadWholeStays DEF Reading
<1>10. tokens # <<>> => tokens[Len(tokens)].start + tokens[Len(tokens)].len <= i + 1
  <2>1. SUFFICES ASSUME tokens # <<>>
                 PROVE  tokens[Len(tokens)].start + tokens[Len(tokens)].len <= i + 1
    OBVIOUS
  <2>2. tokens[Len(tokens)] \in TokenRecords
    BY <2>1 DEF Reading
  <2>3. tokens[Len(tokens)].start \in Nat /\ tokens[Len(tokens)].len \in Nat
    BY <2>2 DEF TokenRecords
  <2>4. QED
    BY <1>1, <1>3, <2>1, <2>3 DEF Reading
<1>11. (line = 1 + Newlines(at))'
  BY <1>5, <1>8, SameText
<1>12. (Covered(tokens) = Solid(at))'
  <2>1. Covered(tokens)' = Covered(tokens)
    BY DEF Covered, Range
  <2>2. QED
    BY <1>5, <1>7, <2>1, SameText DEF Reading
<1>13. QED
  <2>1. (tokens \in Seq(TokenRecords) /\ InOrder(tokens))'
    BY DEF Reading, InOrder, TokenRecords, TokenTypes
  <2>2. (at \in 0 .. Len(code))'
    BY <1>5
  <2>3. (\A t \in Range(tokens) : ReadWhole(t))'
    BY <1>9 DEF Range
  <2>4. (tokens # <<>> => tokens[Len(tokens)].start + tokens[Len(tokens)].len <= at)'
    BY <1>5, <1>10
  <2>5. QED
    BY <1>11, <1>12, <2>1, <2>2, <2>3, <2>4 DEF Reading

LEMMA TokenStep ==
    ASSUME code \in Texts, code' = code, Reading, at < Len(code),
           NEW i, i = Skipped(at), Begins(i), NEW t, t = TokenAt(i),
           at' = i + t.len, tokens' = Append(tokens, t), line' = line,
           lexErrors' = (lexErrors \/ (Char(i) \in Digits /\ Dots(i) > 1))
    PROVE  Reading'
<1>1. Len(code) \in Nat /\ at \in 0 .. Len(code) /\ at \in Nat
  BY TextFacts DEF Reading
<1>2. i \in at .. Len(code) /\ \A h \in at .. i - 1 : Char(h) = "space"
  BY <1>1, SkippedIs
<1>3. line \in Nat
  <2>1. Newlines(at) \in Nat
    BY <1>1, NewlinesNat
  <2>2. line = 1 + Newlines(at)
    BY DEF Reading
  <2>3. QED
    BY <2>1, <2>2
<1>4. i \in Nat /\ at <= i
  BY <1>1, <1>2
<1>5. /\ Sound(t, i)
      /\ Cardinality({n \in 1 .. t.len : Text(t)[n] = "."}) > 1 => lexErrors'
  BY <1>3, TokenIsSound
<1>6. lexErrors => lexErrors'
  OBVIOUS
<1>7. /\ t \in TokenRecords /\ t.start = i /\ t.line = line /\ i + t.len <= Len(code)
      /\ \A h \in i .. i + t.len - 1 : Char(h) \notin Blanks
  BY <1>5 DEF Sound
<1>8. PICK b \in Nat : b = i + t.len /\ i < b
  BY <1>4, <1>7 DEF TokenRecords
<1>9. t.len \in Nat /\ b - 1 = i + t.len - 1
  BY <1>4, <1>7, <1>8 DEF TokenRecords
<1>10. Newlines(i) = Newlines(at) /\ Newlines(b) = Newlines(i)
  <2>1. \A h \in at .. i - 1 : Char(h) # "newline"
    BY <1>2
  <2>2. \A h \in i .. b - 1 : Char(h) # "newline"
    BY <1>7, <1>9 DEF Blanks
  <2>3. QED
    BY <1>1, <1>4, <1>8, <2>1, <2>2, NoNewline
<1>11. Solid(b) = Solid(at) \cup (i .. b - 1)
  <2>1. \A h \in at .. i - 1 : Char(h) \in Blanks
    BY <1>2 DEF Blanks
  <2>2. \A h \in i .. b - 1 : Char(h) \notin Blanks
    BY <1>7, <1>9
  <2>3. Solid(i) = Solid(at)
    BY <1>1, <1>4, <2>1, SolidGrows
  <2>4. Solid(b) = Solid(i) \cup (i .. b - 1)
    <3>1. i \in Nat /\ b \in Nat /\ i <= b
      BY <1>4, <1>8
    <3>2. QED
      BY <2>2, <3>1, SolidGrows
  <2>5. QED
    BY <2>3, <2>4
<1>12. ReadWhole(t)'
  <2>1. t.line = 1 + Newlines(t.start)
    BY <1>7, <1>10 DEF Reading
  <2>2. t.line = (1 + Newlines(t.start))'
    BY <2>1, SameText
  <2>3. ~GoesOnAsToken(t, Char(t.start + t.len))'
    BY <1>5, <1>7, SameText DEF Sound, GoesOnAsToken
  <2>4. Text(t)' = Text(t)
    BY DEF Text
  <2>5. \A w \in DOMAIN Reserved : t.type = Reserved[w] <=> w = Text(t)
    BY <1>5 DEF Sound
  <2>6. QED
    BY <1>5, <2>2, <2>3, <2>4, <2>5 DEF ReadWhole
<1>13. tokens \in Seq(TokenRecords) /\ Len(tokens) \in Nat
  BY DEF Reading
<1>14. /\ Range(tokens') = Range(tokens) \cup {t}
       /\ Covered(tokens') = Covered(tokens) \cup (i .. b - 1)
  BY <1>6, <1>7, <1>9, <1>13, OneMoreToken
<1>15. /\ tokens' \in Seq(TokenRecords) /\ Len(tokens') = Len(tokens) + 1
       /\ tokens'[Len(tokens) + 1] = t
       /\ \A n \in 1 .. Len(tokens) : tokens'[n] = tokens[n]
  BY <1>6, <1>7, <1>13
<1>16. InOrder(tokens')
  <2>1. SUFFICES ASSUME NEW n \in 2 .. Len(tokens) + 1
                 PROVE  tokens'[n - 1].start + tokens'[n - 1].len <= tokens'[n].start
    BY <1>15 DEF InOrder
  <2>2. CASE n \in 2 .. Len(tokens)
    <3>1. n - 1 \in 1 .. Len(tokens) /\ n \in 1 .. Len(tokens)
      BY <1>13, <2>2
    <3>2. tokens[n - 1].start + tokens[n - 1].len <= tokens[n].start
      BY <2>2 DEF Reading, InOrder
    <3>3. QED
      BY <1>15, <3>1, <3>2
  <2>3. CASE n = Len(tokens) + 1
    <3>1. n - 1 = Len(tokens) /\ tokens # <<>> /\ Len(tokens) \in 1 .. Len(tokens)
      BY <1>13, <2>1, <2>3
    <3>2. tokens[Len(tokens)].start + tokens[Len(tokens)].len <= at
      BY <3>1 DEF Reading
    <3>3. tokens[Len(tokens)] \in TokenRecords
      BY <1>13, <3>1
    <3>4. tokens[Len(tokens)].start + tokens[Len(tokens)].len \in Nat
      BY <3>3 DEF TokenRecords
    <3>5. tokens[Len(tokens)].start + tokens[Len(tokens)].len <= i
      BY <1>1, <1>4, <3>2, <3>4
    <3>6. QED
      BY <1>7, <1>15, <2>3, <3>1, <3>5
  <2>4. QED
    BY <1>13, <2>1, <2>2, <2>3
<1>17. \A u \in Range(tokens') : ReadWhole(u)'
  <2>1. \A u \in Range(tokens) : ReadWhole(u)'
    BY <1>6, ReadWholeStays DEF Reading
  <2>2. QED
    BY <1>12, <1>14, <2>1
<1>18. at' = b /\ b \in 0 .. Len(code)
  BY <1>1, <1>6, <1>7, <1>8
<1>19. (line = 1 + Newlines(at))'
  BY <1>10, <1>18, SameText DEF Reading
<1>20. (Covered(tokens) = Solid(at))'
  <2>1. Covered(tokens') = Solid(b)
    BY <1>11, <1>14 DEF Reading
  <2>2. Covered(tokens)' = Covered(tokens')
    BY DEF Covered, Range
  <2>3. QED
    BY <1>18, <2>1, <2>2, SameText
<1>21. (tokens # <<>> => tokens[Len(tokens)].start + tokens[Len(tokens)].len <= at)'
  BY <1>1, <1>6, <1>7, <1>8, <1>15, <1>18
<1>22. QED
  <2>1. (at \in 0 .. Len(code))' /\ (tokens \in Seq(TokenRecords))' /\ InOrder(tokens)'
    BY <1>15, <1>16, <1>18 DEF TokenRecords, TokenTypes, InOrder
  <2>2. (\A u \in Range(tokens) : ReadWhole(u))'
    BY <1>17 DEF Range
  <2>3. QED
    BY <1>19, <1>20, <1>21, <2>1, <2>2 DEF Reading

\* next_token goes on with the text, unless the text ends in a space.
LEMMA NextTokenKeepsReading ==
    ASSUME code \in Texts, ~EndsInSpace, Reading, NextToken PROVE Reading'
<1> DEFINE i == Skipped(at)
<1>1. Len(code) \in Nat /\ at \in 0 .. Len(code) /\ at < Len(code) /\ code' = code
  BY TextFacts DEF Reading, NextToken
<1>2. i \in at .. Len(code) /\ Char(i) # "space" /\ \A h \in at .. i - 1 : Char(h) = "space"
  BY <1>1, SkippedIs
<1>3. Char(i) # "nul"
  <2>1. SUFFICES ASSUME i = Len(code) PROVE FALSE
    BY <1>1, <1>2, TextFacts
  <2>2. Len(code) - 1 \in at .. i - 1 /\ Len(code) - 1 \in 0 .. Len(code) - 1
    BY <1>1, <2>1
  <2>3. code[(Len(code) - 1) + 1] = "space"
    BY <1>2, <2>2, TextFacts
  <2>4. (Len(code) - 1) + 1 = Len(code) /\ code # <<>>
    BY <1>1
  <2>5. QED
    BY <2>3, <2>4 DEF EndsInSpace
<1>4. CASE Char(i) = "newline"
  <2>1. at' = i + 1 /\ line' = line + 1 /\ UNCHANGED <<tokens, lexErrors>>
    BY <1>4 DEF NextToken
  <2>2. QED
    BY <1>1, <1>4, <2>1, NewlineStep
<1>5. CASE Char(i) # "newline"
  <2>1. Begins(i)
    BY <1>1, <1>2, <1>3, <1>5, TextFacts DEF Begins, Blanks
  <2>2. /\ tokens' = Append(tokens, TokenAt(i)) /\ at' = i + TokenAt(i).len
        /\ lexErrors' = (lexErrors \/ (Char(i) \in Digits /\ Dots(i) > 1))
        /\ line' = line
    BY <1>3, <1>5 DEF NextToken
  <2>3. QED
    BY <1>1, <2>1, <2>2, TokenStep
<1>6. QED
  BY <1>4, <1>5

-----------------------------------------------------------------------------
(* The parser neither lexes nor changes what the lexer left. *)

LEMMA ParserDoesNotLex ==
    ASSUME ParseStep \/ ParseStmts PROVE goal # "lex" /\ goal' # "lex"
<1>1. CASE ParseExpr
  BY <1>1, Zenon DEF ParseExpr, Call
<1>2. CASE ParseUnary
  BY <1>2, Zenon DEF ParseUnary, Call
<1>3. CASE ParseLiteral
  <2>1. \/ Call("expr", <<Activation("group", 0, "", <<>>)>>)
        \/ Call("args", <<Activation("args", 0, "", <<>>)>>)
        \/ Give(Leaf(Kind(cur)))
    BY <1>3, Zenon DEF ParseLiteral
  <2>2. QED
    BY <1>3, <2>1, Zenon DEF ParseLiteral, Call, Give
<1>4. CASE ParseArgs
  BY <1>4, Zenon DEF ParseArgs, Call, Return
<1>5. CASE ReturnBinary
  <2>1. goal' = "unary" \/ goal' = "value"
    BY <1>5, Zenon DEF ReturnBinary, Return
  <2>2. QED
    BY <1>5, <2>1, Zenon DEF ReturnBinary, Waits
<1>6. CASE ReturnExpr
  <2>1. goal' = "args" \/ goal' = "value"
    BY <1>6, Zenon DEF ReturnExpr, Return
  <2>2. QED
    BY <1>6, <2>1, Zenon DEF ReturnExpr, Waits
<1>7. CASE ParseStmt
  <2>1. goal = "stmt"
    BY <1>7, Zenon DEF ParseStmt
  <2>2. \E g \in {"expr", "params", "block", "value"} : goal' = g
    BY <1>7, Zenon DEF ParseStmt, Call, Give
  <2>3. QED
    BY <2>1, <2>2, Zenon
<1>8. CASE ParseParams
  BY <1>8, Zenon DEF ParseParams
<1>9. CASE ParseBlock
  BY <1>9, Zenon DEF ParseBlock, Call
<1>10. CASE ReturnStmt
  <2>1. \E g \in {"block", "stmts", "value"} : goal' = g
    BY <1>10, Zenon DEF ReturnStmt, Return
  <2>2. goal = "value"
    BY <1>10, Zenon DEF ReturnStmt, Waits
  <2>3. QED
    BY <2>1, <2>2, Zenon
<1>11. CASE ParseStmts
  BY <1>11, Zenon DEF ParseStmts, Return, Call
<1>12. QED
  BY <1>1, <1>2, <1>3, <1>4, <1>5, <1>6, <1>7, <1>8, <1>9, <1>10, <1>11 DEF ParseStep

-----------------------------------------------------------------------------
(* The invariant *)

\* When lex returns, the whole text was read.
LEMMA EndLexCovers ==
    ASSUME EndLex, code \in Texts, ~EndsInSpace, Reading PROVE TokensCoverText'
<1> DEFINE ts == SubSeq(tokens', 1, Len(tokens') - 1)
<1>1. /\ code' = code /\ lexErrors' = lexErrors /\ at >= Len(code)
      /\ tokens' = Append(tokens, Token("eof", at, 0))
  BY DEF EndLex
<1>2. Len(code) \in Nat /\ at = Len(code)
  BY <1>1, TextFacts DEF Reading
<1>3. ts = tokens
  <2>1. tokens \in Seq(TokenRecords \cup {Token("eof", at, 0)})
    BY DEF Reading
  <2>2. QED
    BY <1>1, <2>1
<1>4. Covered(ts) = {h \in 0 .. Len(code) - 1 : Char(h) \notin Blanks}
  BY <1>2, <1>3 DEF Reading, Solid
<1>5. InOrder(ts) /\ \A t \in Range(ts) : ReadWhole(t)'
  BY <1>1, <1>3, ReadWholeStays DEF Reading
<1>6. \A h : Char(h)' = Char(h)
  BY <1>1 DEF Char
<1> HIDE DEF ts
<1>7. Covered(ts) = {h \in 0 .. Len(code') - 1 : Char(h)' \notin Blanks}
  BY <1>1, <1>4, <1>6
<1>8. QED
  BY <1>5, <1>7 DEF ts, TokensCoverText, Covered, InOrder, Range, Blanks

\* What the lexer left stays as it is.
LEMMA ReadingStays ==
    ASSUME code' = code, at' = at, line' = line, tokens' = tokens, lexErrors' = lexErrors, Reading
    PROVE  Reading'
<1>1. (at \in 0 .. Len(code))' /\ (line = 1 + Newlines(at))'
  BY SameText DEF Reading
<1>2. (tokens \in Seq(TokenRecords) /\ InOrder(tokens))'
  BY DEF Reading, InOrder, TokenRecords, TokenTypes
<1>3. (Covered(tokens) = Solid(at))'
  <2>1. Covered(tokens)' = Covered(tokens)
    BY DEF Covered, Range
  <2>2. QED
    BY <2>1, SameText DEF Reading
<1>4. (\A t \in Range(tokens) : ReadWhole(t))'
  <2>1. \A t \in Range(tokens) : ReadWhole(t)'
    BY ReadWholeStays DEF Reading
  <2>2. QED
    BY <2>1 DEF Range
<1>5. (tokens # <<>> => tokens[Len(tokens)].start + tokens[Len(tokens)].len <= at)'
  BY DEF Reading
<1>6. QED
  BY <1>1, <1>2, <1>3, <1>4, <1>5 DEF Reading

LEMMA LexerKept ==
    ASSUME UNCHANGED lexVars, goal # "lex", goal' # "lex", LexInv PROVE LexInv'
<1>1. TokensCoverText'
  <2>1. code' = code /\ tokens' = tokens /\ lexErrors' = lexErrors
    BY DEF lexVars
  <2>2. SUFFICES ASSUME code # <<>>, ~EndsInSpace PROVE TokensCoverText'
    BY <2>1, SameText DEF TokensCoverText
  <2> DEFINE ts == SubSeq(tokens, 1, Len(tokens) - 1)
  <2>3. /\ Covered(ts) = {h \in 0 .. Len(code) - 1 : Char(h) \notin Blanks}
        /\ InOrder(ts) /\ \A t \in Range(ts) : ReadWhole(t)
    BY <2>2 DEF LexInv, TokensCoverText
  <2>4. InOrder(ts) /\ \A t \in Range(ts) : ReadWhole(t)'
    BY <2>1, <2>3, ReadWholeStays
  <2>5. \A h : Char(h)' = Char(h)
    BY <2>1 DEF Char
  <2> HIDE DEF ts
  <2>6. Covered(ts) = {h \in 0 .. Len(code') - 1 : Char(h)' \notin Blanks}
    BY <2>1, <2>3, <2>5
  <2>7. QED
    BY <2>1, <2>4, <2>6 DEF ts, TokensCoverText, Covered, InOrder, Range, Blanks
<1>2. QED
  BY <1>1 DEF LexInv

LEMMA LexInvInit ==
    ASSUME Init PROVE LexInv
<1>1. at = 0 /\ line = 1 /\ tokens = <<>>
  BY DEF Init, LexInit
<1>2. CASE code \in Texts /\ goal = "lex"
  <2>1. Len(code) \in Nat
    BY <1>2, TextFacts
  <2>2. Newlines(0) = 0
    BY FS_EmptySet DEF Newlines
  <2>3. Covered(tokens) = {} /\ Solid(0) = {}
    BY <1>1 DEF Covered, Solid, Range
  <2>4. InOrder(tokens) /\ \A t \in Range(tokens) : ReadWhole(t)
    BY <1>1 DEF InOrder, Range
  <2>5. Reading
    BY <1>1, <2>1, <2>2, <2>3, <2>4 DEF Reading
  <2>6. QED
    BY <1>2, <2>5 DEF LexInv, TokensCoverText
<1>3. CASE code = <<>> /\ goal = "stmts"
  BY <1>3 DEF LexInv, TokensCoverText
<1>4. QED
  <2>1. (code \in Texts /\ goal = "lex") \/ (code = <<>> /\ goal = "stmts")
    BY Zenon DEF Init
  <2>2. QED
    BY <1>2, <1>3, <2>1

LEMMA LexInvStep ==
    ASSUME LexInv, [Next]_vars PROVE LexInv'
<1>1. CASE NextToken
  <2>1. goal = "lex" /\ goal' = goal /\ code' = code
    BY <1>1, Zenon DEF NextToken
  <2>2. code' \in Texts /\ (~EndsInSpace' => Reading')
    BY <1>1, <2>1, SameText, NextTokenKeepsReading DEF LexInv
  <2>3. QED
    BY <2>1, <2>2 DEF LexInv, TokensCoverText
<1>2. CASE EndLex
  <2>1. goal = "lex" /\ goal' # "lex" /\ code' = code
    BY <1>2, Zenon DEF EndLex
  <2>2. CASE EndsInSpace
    <3>1. EndsInSpace'
      BY <2>1, <2>2, SameText
    <3>2. QED
      BY <2>1, <3>1 DEF LexInv, TokensCoverText
  <2>3. CASE ~EndsInSpace
    BY <1>2, <2>1, <2>3, EndLexCovers DEF LexInv
  <2>4. QED
    BY <2>2, <2>3
<1>3. CASE (ParseStep \/ ParseStmts) /\ UNCHANGED lexVars
  BY <1>3, ParserDoesNotLex, LexerKept
<1>4. CASE UNCHANGED vars
  <2>1. /\ goal' = goal /\ code' = code /\ at' = at /\ line' = line
        /\ tokens' = tokens /\ lexErrors' = lexErrors
    BY <1>4 DEF vars, lexVars
  <2>2. CASE goal = "lex"
    <3>1. (~EndsInSpace => Reading)'
      <4>1. SUFFICES ASSUME ~EndsInSpace' PROVE Reading'
        OBVIOUS
      <4>2. Reading
        BY <2>1, <2>2, <4>1, SameText DEF LexInv
      <4>3. QED
        BY <2>1, <4>2, ReadingStays
    <3>2. QED
      BY <2>1, <2>2, <3>1 DEF LexInv, TokensCoverText
  <2>3. CASE goal # "lex"
    BY <2>1, <2>3, LexerKept DEF lexVars
  <2>4. QED
    BY <2>2, <2>3
<1>5. QED
  BY <1>1, <1>2, <1>3, <1>4, Zenon DEF Next, Ended

\* TokensCoverText for every text, letters, digits and reserved words: what
\* next_token leaves of a text when lex returns.
THEOREM TextCovered == Spec => []TokensCoverText
<1>1. Init => LexInv
  BY LexInvInit
<1>2. LexInv /\ [Next]_vars => LexInv'
  BY LexInvStep
<1>3. LexInv => TokensCoverText
  BY DEF LexInv
<1>4. QED
  BY <1>1, <1>2, <1>3, PTL DEF Spec
=============================================================================
