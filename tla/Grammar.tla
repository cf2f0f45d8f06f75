------------------------------ MODULE Grammar ------------------------------
(***************************************************************************)
(* How trees are written as tokens, and what Parser makes of tokens.       *)
(* These definitions follow the trees recursively, those of Parser do not. *)
(***************************************************************************)
EXTENDS Parser, SequencesExt

-----------------------------------------------------------------------------
(* The tokens of a tree, and the trees that can be written *)

Joined(seqs) == FoldLeft(LAMBDA a, b : a \o b, <<>>, seqs)
Separated(seqs) == Joined([i \in DOMAIN seqs |-> IF i = 1 THEN seqs[1] ELSE <<",">> \o seqs[i]])

RECURSIVE Yield(_)
Yield(t) ==
    LET y == [i \in DOMAIN t.kids |-> Yield(t.kids[i])]
    IN  CASE t.n = "leaf" /\ t.op = "import" -> <<"import", "id">>
          [] t.n = "leaf" -> <<t.op>>
          [] t.n = "param" -> <<"id", ":", t.op>>
          [] t.n = "unary" -> <<t.op>> \o y[1]
          [] t.n = "binary" -> y[1] \o <<t.op>> \o y[2]
          [] t.n = "group" -> <<"(">> \o y[1] \o <<")">>
          [] t.n = "set" -> <<"id", "=">> \o y[1]
          [] t.n = "call" -> <<"id", "(">> \o Separated(y) \o <<")">>
          [] t.n = "print" -> <<"print", "(">> \o y[1] \o <<")">>
          [] t.n = "decl" -> <<"id", ":", t.op, "=">> \o y[1]
          [] t.n = "return" -> <<"return">> \o y[1]
          [] t.n = "exprstmt" -> y[1]
          [] t.n = "if" -> <<"if">> \o y[1] \o y[2] \o (IF Len(y) = 3 THEN <<"else">> \o y[3] ELSE <<>>)
          [] t.n = "while" -> <<"while">> \o y[1] \o y[2]
          [] t.n = "block" -> <<"{">> \o Joined(y) \o <<"}">>
          [] t.n = "fundef" -> <<"id", "::", "(">> \o Separated(SubSeq(y, 1, Len(y) - 1))
                             \o <<")", "-", ">", IF t.op = "nil type" THEN "nil" ELSE t.op>> \o y[Len(y)]

\* how tight an expression holds together
LevelOf(t) == CASE t.n = "set" -> 0
                [] t.n = "binary" -> CHOOSE l \in 1 .. 6 : t.op \in
                       <<{"or"}, {"and"}, {"==", "!="}, {"<", "<=", ">", ">="}, {"+", "-"},
                         {"*", "/"}>>[l]
                [] t.n = "unary" -> 7
                [] OTHER -> 8
RECURSIVE WellShaped(_)
WellShaped(t) ==
    /\ t.n = "binary" => LevelOf(t.kids[1]) >= LevelOf(t) /\ LevelOf(t.kids[2]) > LevelOf(t)
    /\ t.n = "unary" => LevelOf(t.kids[1]) >= 7
    /\ \A i \in DOMAIN t.kids : WellShaped(t.kids[i])

Tokens(file) == Append(Joined([i \in DOMAIN file |-> Yield(file[i])]), "eof")

ASSUME WrittenAssumption == \A p \in Programs : p.tokens = Tokens(p.tree)

-----------------------------------------------------------------------------
(* Properties *)

WithoutCommas(s) == SelectSeq(s, LAMBDA x : x # ",")

\* A file that is accepted has the tree of its tokens: nothing is left out or
\* read twice, and the operators bind as the levels say, to the left.  Commas
\* are optional in the parser.
TreeMatchesTokens ==
    goal = "done" /\ ~errors =>
        /\ WithoutCommas(Tokens(nodes)) = WithoutCommas(toks)
        /\ \A i \in DOMAIN nodes : WellShaped(nodes[i])

\* A newline is no token: a statement that ends in an expression goes on with a
\* next one that begins with a minus or, after a name, with a parenthesis.
LastToken(t) == Last(Yield(t))
GoesOn(s, next) ==
    /\ s.n \in {"exprstmt", "decl", "return"}
    /\ LET first == Head(Yield(next))
       IN  first = "-" \/ (first = "(" /\ LastToken(s) = "id")
RECURSIVE Merges(_)
Merges(stmts) ==
    \/ \E i \in 1 .. Len(stmts) - 1 : GoesOn(stmts[i], stmts[i + 1])
    \/ \E i \in DOMAIN stmts : Merges(stmts[i].kids)

\* Every program that can be written is accepted and read back as it was, unless
\* one of its statements goes on with the next, and then it is read as another.
ProgramsReadBack ==
    goal = "done" /\ wanted # <<>> =>
        (~errors /\ nodes = wanted <=> ~Merges(wanted))
=============================================================================
