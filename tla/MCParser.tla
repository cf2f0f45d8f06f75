------------------------------ MODULE MCParser ------------------------------
(***************************************************************************)
(* TLC instance of Parser and Grammar: every short text, every short       *)
(* sequence of tokens, and programs of all kinds of nodes.                 *)
(***************************************************************************)
EXTENDS Grammar

MCReserved == (<<"i", "f">> :> "if") @@ (<<"x">> :> "nil")
MCLetters == {"i", "f", "x"}
MCDigits == {"0", "1"}

UpTo(n, S) == UNION {[1 .. k -> S] : k \in 0 .. n}
Chars == {"space", "newline", "0", "x", ".", "i", "f", "=", ":", "#"}
MCTexts ==
    UpTo(4, Chars) \cup
    {<<"0", "x", "1", "f", ".", "0">>, <<"0", "1", ".", "1", ".", "0", "i">>,
     <<"i", "underscore", "1", ":", ":", ":", "=", "=", "=">>,
     <<"<", "=", "!", "=", ">", "=", "!", ">", "<", "+", "-", "*", "/", ",">>,
     <<"i", ":", "i", "=", "0", "newline", "{", "i", "f", "(", "i", ")", "}", "space", "newline", "[", "]">>}

MCTokenTexts ==
    UpTo(4, {"id", "(", ")", ",", "-", "=", "{"}) \cup
    UpTo(3, {"id", "int", "(", "::", ":", "{", "}", "if", "else", "print", "return", "import",
             "[", "*"})

-----------------------------------------------------------------------------
Id == Leaf("id")
Atoms == {Id, Leaf("int"), Tree("group", "", <<Id>>), Tree("call", "", <<>>)}
SomeOps == {"or", "and", "==", "<", "+", "-", "*"}
Bin(op, a, b) == Tree("binary", op, <<a, b>>)
Un(op, a) == Tree("unary", op, <<a>>)
Small == Atoms \cup {Un("-", Id), Un("!", Un("-", Id)), Bin("-", Id, Id), Bin("*", Id, Leaf("int")),
                     Tree("call", "", <<Id>>), Tree("call", "", <<Id, Un("-", Id)>>)}
Deep == {Bin(p, Bin(q, Id, Id), Id) : p, q \in SomeOps} \cup
        {Bin(p, Id, Bin(q, Id, Id)) : p, q \in SomeOps} \cup
        {Bin(p, Bin("+", Id, Id), Bin("*", Id, Id)) : p \in SomeOps} \cup
        {Tree("set", "", <<e>>) : e \in Small} \cup
        {Tree("group", "", <<Tree("set", "", <<e>>)>>) : e \in Small} \cup
        {Tree("call", "", <<Tree("set", "", <<Id>>), e>>) : e \in Small}
Exprs == {e \in Small \cup Deep : WellShaped(e)}

Stmt(n, kids) == Tree(n, "", kids)
BlockOf(stmts) == Stmt("block", stmts)
SimpleOf(e) == {Stmt("print", <<e>>), Stmt("exprstmt", <<e>>), Stmt("return", <<e>>),
                Tree("decl", "int type", <<e>>)}
Simple == UNION {SimpleOf(e) : e \in Small} \cup {Leaf("import")}
Params(n) == [i \in 1 .. n |-> Tree("param", "int type", <<>>)]
Around(stmts) ==
    {BlockOf(stmts), Stmt("if", <<Id, BlockOf(stmts)>>),
     Stmt("if", <<Id, BlockOf(stmts), BlockOf(stmts)>>), Stmt("while", <<Id, BlockOf(stmts)>>)}
        \cup {Tree("fundef", type, Params(n) \o <<BlockOf(stmts)>>) :
                  type \in {"nil type", "int type"}, n \in 0 .. 2}
Compound == UNION {Around(stmts) : stmts \in {<<>>} \cup {<<s>> : s \in SimpleOf(Id)}
                                                     \cup {<<s, t>> : s, t \in SimpleOf(Un("-", Id))}}
MCTrees == {<<s>> : s \in UNION {SimpleOf(e) : e \in Exprs}} \cup
           {<<s, t>> : s, t \in Simple} \cup
           {<<s>> : s \in Compound} \cup
           {<<s, t>> : s \in UNION {Around(<<u>>) : u \in SimpleOf(Id)}, t \in SimpleOf(Un("-", Id))}
MCPrograms == {[tree |-> t, tokens |-> Tokens(t)] : t \in MCTrees}
=============================================================================
