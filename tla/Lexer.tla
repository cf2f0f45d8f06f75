------------------------------- MODULE Lexer -------------------------------
(***************************************************************************)
(* Lexer::lex (lexer.cpp): one token of the text per step.                 *)
(*                                                                         *)
(* A text is a sequence of characters, of which letters and digits are the *)
(* given ones; space, newline, underscore and nul are characters called by *)
(* their names.  A character the lexer has no case for (a tab, a quote, #) *)
(* begins a word.  Positions count from 0, as m_current does.  What lies   *)
(* after the terminating 0 of the text is not determined.                  *)
(*                                                                         *)
(* A Mutant_* operator is a faulty variant of the definition after it that *)
(* no specification uses; PROJECT.json says which property it breaks.      *)
(***************************************************************************)
EXTENDS Integers, Sequences, FiniteSets, Functions

CONSTANTS
    Texts,       \* the texts that are lexed
    Letters, Digits,
    Reserved     \* the reserved words: a function from texts to token types

VARIABLES
    goal,        \* lex, or what Parser does next
    code,        \* m_code
    at,          \* m_current
    line,        \* m_line
    tokens,      \* m_tokens
    lexErrors    \* ems.has_errors() after the lexer

lexVars == <<code, at, line, tokens, lexErrors>>

Char(i) == IF i < Len(code) THEN code[i + 1] ELSE "nul"
WordChars == Letters \cup Digits \cup {"underscore"}
Token(type, start, len) == [type |-> type, start |-> start, len |-> len, line |-> line]

Signs == {"+", "-", "*", "/", "(", ")", "{", "}", "[", "]", ","}
\* the signs that may go on with a second one
Pair == [c \in {":", "<", ">", "=", "!"} |->
            CASE c = ":" -> "::" [] c = "<" -> "<=" [] c = ">" -> ">=" [] c = "=" -> "=="
              [] c = "!" -> "!="]
SecondSign == [c \in DOMAIN Pair |-> IF c = ":" THEN ":" ELSE "="]

\* a character is a letter, a digit or another one; the end of the text is none
ASSUME CharsAssumption ==
    /\ Letters \cap Digits = {}
    /\ WordChars \cap (Signs \cup DOMAIN Pair \cup {"space", "newline", ".", "nul"}) = {}
    /\ \A t \in Texts : t \in Seq(Range(t)) /\ "nul" \notin Range(t)
\* m_reserved_words: words of letters, each with a type of its own
ASSUME ReservedAssumption ==
    /\ \A w \in DOMAIN Reserved : w \in Seq(Letters) \ {<<>>}
    /\ \A v, w \in DOMAIN Reserved : Reserved[v] = Reserved[w] => v = w
    /\ Range(Reserved) \cap
           (Signs \cup DOMAIN Pair \cup Range(Pair) \cup {"id", "int", "hex", "float"}) = {}

\* skip_ws
Skipped(i) == CHOOSE j \in i .. Len(code) :
                  Char(j) # "space" /\ \A h \in i .. j - 1 : Char(h) = "space"
\* the end of the longest run of characters of S that begins at i
RunEnd(i, S) == CHOOSE j \in i .. Len(code) :
                    Char(j) \notin S /\ \A h \in i .. j - 1 : Char(h) \in S

\* read_word: whatever it begins with, it goes on with letters, digits and _
ReservedAs(word) == IF word \in DOMAIN Reserved THEN Reserved[word] ELSE "id"
WordEnd(i) == RunEnd(i + 1, WordChars)
Mutant_ReservedPrefix(i) ==
    LET prefixes == {n \in i + 1 .. WordEnd(i) : ReservedAs(SubSeq(code, i + 1, n)) # "id"}
    IN  Token(IF prefixes = {} THEN "id"
              ELSE ReservedAs(SubSeq(code, i + 1, CHOOSE n \in prefixes : TRUE)),
              i, WordEnd(i) - i)
Word(i) == Token(ReservedAs(SubSeq(code, i + 1, WordEnd(i))), i, WordEnd(i) - i)

\* read_number; "0x" begins a number that goes on with any letters
IsHex(i) == Char(i) = "0" /\ Char(i + 1) = "x"
NumberLength(i) ==
    LET more == Digits \cup {"."} \cup (IF IsHex(i) THEN Letters ELSE {})
    IN  RunEnd(i + 1, more) - i
Dots(i) == Cardinality({h \in i .. i + NumberLength(i) - 1 : Char(h) = "."})
NumberToken(i) ==
    Token(IF Dots(i) > 0 THEN "float" ELSE IF IsHex(i) THEN "hex" ELSE "int",
          i, NumberLength(i))

\* next_token after skip_ws, where a token begins at i < Len(code)
TokenAt(i) ==
    LET c == Char(i)
    IN  CASE c \in Signs -> Token(c, i, 1)
          [] c \in DOMAIN Pair /\ Char(i + 1) = SecondSign[c] -> Token(Pair[c], i, 2)
          [] c \in DOMAIN Pair /\ Char(i + 1) # SecondSign[c] -> Token(c, i, 1)
          [] c \in Digits -> NumberToken(i)
          [] OTHER -> Word(i)

LexInit ==
    /\ at = 0
    /\ line = 1
    /\ tokens = <<>>
    /\ lexErrors = FALSE

\* one round of the loop in lex
NextToken ==
    /\ goal = "lex"
    /\ at < Len(code)
    /\ LET i == Skipped(at)
       IN  CASE Char(i) = "newline" ->
                    /\ at' = i + 1
                    /\ line' = line + 1
                    /\ UNCHANGED <<tokens, lexErrors>>
             [] Char(i) = "nul" ->
                    \* a word of the terminating 0 and whatever follows it
                    \E len \in 1 .. 2 :
                        /\ tokens' = Append(tokens, Token("id", i, len))
                        /\ at' = i + len
                        /\ UNCHANGED <<line, lexErrors>>
             [] OTHER ->
                    /\ tokens' = Append(tokens, TokenAt(i))
                    /\ at' = i + TokenAt(i).len
                    /\ lexErrors' = (lexErrors \/ (Char(i) \in Digits /\ Dots(i) > 1))
                    /\ UNCHANGED line
    /\ UNCHANGED <<goal, code>>

-----------------------------------------------------------------------------
\* Limit: spaces between the last newline or token and the end of the text
\* become one more token, read behind the text.
EndsInSpace == code # <<>> /\ code[Len(code)] = "space"

Blanks == {"space", "newline"}
Text(t) == SubSeq(code, t.start + 1, t.start + t.len)
Newlines(n) == Cardinality({h \in 0 .. n - 1 : Char(h) = "newline"})
Covered(ts) == UNION {t.start .. t.start + t.len - 1 : t \in Range(ts)}
InOrder(ts) == \A n \in 2 .. Len(ts) : ts[n - 1].start + ts[n - 1].len <= ts[n].start
GoesOnAsToken(t, c) ==
    \/ t.len = 1 /\ t.type \in DOMAIN Pair /\ c = SecondSign[t.type]
    \/ t.type \in {"int", "float"} /\ c \in Digits \cup {"."}
    \/ t.type \in {"id"} \cup Range(Reserved) /\ c \in WordChars
ReadWhole(t) ==
    /\ t.line = 1 + Newlines(t.start)
    /\ ~GoesOnAsToken(t, Char(t.start + t.len))
    /\ \A w \in DOMAIN Reserved : t.type = Reserved[w] <=> w = Text(t)
    /\ Cardinality({n \in 1 .. t.len : Text(t)[n] = "."}) > 1 => lexErrors

\* When the text is lexed, every character but spaces and newlines is in one
\* token; the tokens are in the order of the text, each with the number of its
\* line; none is the beginning of a longer one; a word is reserved as a whole
\* only; and a number with two points is an error.
TokensCoverText ==
    goal # "lex" /\ code # <<>> /\ ~EndsInSpace =>
        LET ts == SubSeq(tokens, 1, Len(tokens) - 1)
        IN  /\ Covered(ts) = {h \in 0 .. Len(code) - 1 : Char(h) \notin Blanks}
            /\ InOrder(ts)
            /\ \A t \in Range(ts) : ReadWhole(t)
=============================================================================
