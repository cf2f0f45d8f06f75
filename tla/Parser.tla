------------------------------- MODULE Parser -------------------------------
(***************************************************************************)
(* Semant::TmdParser (semant.cpp, parser.cpp): the tree of the tokens.     *)
(*                                                                         *)
(* A recursive-descent parser, as a machine: goal is the procedure that is *)
(* called next, stack holds the activations that wait for a result, and    *)
(* goal = "value" returns ret to the last of them.  The loops of parse_or  *)
(* to parse_factor are activations of one kind, with a level.              *)
(*                                                                         *)
(* A token is its type.  Tokens are consumed also where they are not what  *)
(* was expected; at the end of the file the cursor stays (in the code it   *)
(* grows, and the last token is read again).                               *)
(***************************************************************************)
EXTENDS Lexer

CONSTANTS
    TokenTexts,  \* sequences of tokens that are parsed
    Programs     \* trees, each with the tokens it is written as

VARIABLES
    toks,        \* the types of m_tokens
    cur,         \* m_current
    stack, ret,
    errors,      \* ems.has_errors()
    nodes,       \* m_nodes, when parse_tokens returns
    wanted       \* history: the tree that was written, if any

parseVars == <<toks, cur, stack, ret, errors, nodes, wanted>>
vars == <<goal, lexVars, parseVars>>

Tree(n, op, kids) == [n |-> n, op |-> op, kids |-> kids]
Leaf(type) == Tree("leaf", type, <<>>)
NoTree == Tree("none", "", <<>>)

\* the operators of a level, from parse_or to parse_factor
Mutant_MinusBindsTight ==
    <<{"or"}, {"and"}, {"==", "!="}, {"<", "<=", ">", ">="}, {"+"}, {"-", "*", "/"}>>
Operators ==
    <<{"or"}, {"and"}, {"==", "!="}, {"<", "<=", ">", ">="}, {"+", "-"}, {"*", "/"}>>

Kind(k) == toks[IF k > Len(toks) THEN Len(toks) ELSE k]
Forward(n) == IF cur + n > Len(toks) THEN Len(toks) ELSE cur + n
\* next_token, and consume_token of a sequence of types
Next1 == cur' = Forward(1) /\ UNCHANGED errors
Consume(types) ==
    /\ cur' = Forward(Len(types))
    /\ errors' = (errors \/ \E i \in DOMAIN types : types[i] \notin {"any", Kind(cur + i - 1)})
Stay == UNCHANGED <<cur, errors>>

Activation(proc, level, op, kids) == [proc |-> proc, level |-> level, op |-> op, kids |-> kids]
Top == stack[Len(stack)]
Popped == SubSeq(stack, 1, Len(stack) - 1)
Levels(from) == [i \in 1 .. 7 - from |-> Activation("binary", from + i - 1, "", <<>>)]
Call(g, activations) == goal' = g /\ stack' = stack \o activations /\ UNCHANGED ret
Update(kids) == stack' = Append(Popped, [Top EXCEPT !.kids = kids])
Return(tree) == goal' = "value" /\ stack' = Popped /\ ret' = tree
Give(tree) == goal' = "value" /\ ret' = tree /\ UNCHANGED stack
Waits(proc) == goal = "value" /\ Top.proc = proc

-----------------------------------------------------------------------------
(* Expressions *)

ParseExpr ==
    /\ goal = "expr"
    /\ IF Kind(cur) = "id" /\ Kind(cur + 1) = "="
       THEN Consume(<<"id", "=">>) /\ Call("expr", <<Activation("set", 0, "", <<>>)>>)
       ELSE Stay /\ Call("unary", Levels(1))

ParseUnary ==
    /\ goal = "unary"
    /\ IF Kind(cur) \in {"-", "!"}
       THEN Next1 /\ Call("unary", <<Activation("unary", 0, Kind(cur), <<>>)>>)
       ELSE Stay /\ Call("literal", <<>>)

Literals == {"id", "int", "true", "false", "nil"}
\* parse_literal: an unexpected token is an error and a literal
ParseLiteral ==
    /\ goal = "literal"
    /\ CASE Kind(cur) = "(" -> Next1 /\ Call("expr", <<Activation("group", 0, "", <<>>)>>)
         [] Kind(cur) = "id" /\ Kind(cur + 1) = "(" ->
                Consume(<<"id", "(">>) /\ Call("args", <<Activation("args", 0, "", <<>>)>>)
         [] OTHER -> /\ cur' = Forward(1)
                     /\ errors' = (errors \/ Kind(cur) \notin Literals)
                     /\ Give(Leaf(Kind(cur)))

\* the loops over arguments and parameters, which only a parenthesis ends
ListEnds == Kind(cur) = ")"
ParseArgs ==
    /\ goal = "args"
    /\ IF ListEnds THEN Consume(<<")">>) /\ Return(Tree("call", "", Top.kids))
                   ELSE Stay /\ Call("expr", <<>>)

\* the right operand is read one level below, so that a level binds to the left
Mutant_SameLevel(level) == Levels(level)
RightOperand(level) == Levels(level + 1)
ReturnBinary ==
    /\ Waits("binary")
    /\ LET left == IF Top.op = "" THEN ret ELSE Tree("binary", Top.op, <<Top.kids[1], ret>>)
       IN  IF Kind(cur) \in Operators[Top.level]
           THEN /\ Next1
                /\ goal' = "unary"
                /\ stack' = Popped \o <<[Top EXCEPT !.op = Kind(cur), !.kids = <<left>>]>>
                                \o RightOperand(Top.level)
                /\ UNCHANGED ret
           ELSE Stay /\ Return(left)

\* bound: the end of the file, read as an argument or a statement again and
\* again, is kept once
EofRead == {Leaf("eof"), Tree("exprstmt", "", <<Leaf("eof")>>)}
Grown == IF ret \in EofRead /\ ret \in Range(Top.kids) THEN Top.kids ELSE Append(Top.kids, ret)
ReturnExpr ==
    \/ Waits("unary") /\ Stay /\ Return(Tree("unary", Top.op, <<ret>>))
    \/ Waits("set") /\ Stay /\ Return(Tree("set", "", <<ret>>))
    \/ Waits("group") /\ Consume(<<")">>) /\ Return(Tree("group", "", <<ret>>))
    \/ /\ Waits("args")
       /\ cur' = IF Kind(cur) = "," THEN Forward(1) ELSE cur
       /\ Update(Grown)
       /\ goal' = "args"
       /\ UNCHANGED <<ret, errors>>

-----------------------------------------------------------------------------
(* Statements *)

ParseStmt ==
    /\ goal = "stmt"
    /\ CASE Kind(cur) = "print" ->
                Consume(<<"print", "(">>) /\ Call("expr", <<Activation("print", 0, "", <<>>)>>)
         [] Kind(cur) = "id" /\ Kind(cur + 1) = "::" ->
                Consume(<<"id", "::", "(">>) /\ Call("params", <<Activation("fundef", 0, "", <<>>)>>)
         [] Kind(cur) = "id" /\ Kind(cur + 1) = ":" ->
                /\ Consume(<<"id", ":", "any", "=">>)
                /\ Call("expr", <<Activation("decl", 0, Kind(cur + 2), <<>>)>>)
         [] Kind(cur) = "{" -> Stay /\ Call("block", <<>>)
         [] Kind(cur) \in {"if", "while", "return"} ->
                Next1 /\ Call("expr", <<Activation(Kind(cur), 0, "", <<>>)>>)
         [] Kind(cur) = "import" -> Consume(<<"import", "id">>) /\ Give(Leaf("import"))
         [] OTHER -> Stay /\ Call("expr", <<Activation("exprstmt", 0, "", <<>>)>>)

ParseParams ==
    /\ goal = "params"
    /\ IF ListEnds
       THEN /\ Consume(<<")", "-", ">", "any">>)
            /\ goal' = "block"
            /\ stack' = Append(Popped, [Top EXCEPT !.op = IF Kind(cur + 3) = "nil" THEN "nil type"
                                                         ELSE Kind(cur + 3)])
            /\ UNCHANGED ret
       ELSE /\ errors' = (errors \/ Kind(cur) # "id" \/ Kind(cur + 1) # ":")
            /\ cur' = Forward(IF Kind(cur + 3) = "," THEN 4 ELSE 3)
            /\ Update(IF Kind(cur) = "eof" THEN Top.kids
                      ELSE Append(Top.kids, Tree("param", Kind(cur + 2), <<>>)))
            /\ UNCHANGED <<goal, ret>>

ParseBlock ==
    /\ goal = "block"
    /\ Consume(<<"{">>)
    /\ Call("stmts", <<Activation("block", 0, "", <<>>)>>)

\* the loops of parse_block and parse_tokens
Mutant_BlockRunsOn == Kind(cur) = "}"
BlockEnds == Kind(cur) \in {"}", "eof"}
ParseStmts ==
    /\ goal = "stmts"
    /\ CASE Top.proc = "file" /\ Kind(cur) = "eof" ->
                /\ goal' = "done"
                /\ nodes' = Top.kids
                /\ stack' = <<>>
                /\ UNCHANGED <<cur, errors, ret>>
         [] Top.proc = "block" /\ BlockEnds ->
                Consume(<<"}">>) /\ Return(Tree("block", "", Top.kids)) /\ UNCHANGED nodes
         [] OTHER -> Stay /\ Call("stmt", <<>>) /\ UNCHANGED nodes

\* the value of an expression, or of a block, goes to the statement around it
ReturnStmt ==
    \/ Waits("print") /\ Consume(<<")">>) /\ Return(Tree("print", "", <<ret>>))
    \/ \E s \in {"decl", "return", "exprstmt"} :
           Waits(s) /\ Stay /\ Return(Tree(s, Top.op, <<ret>>))
    \/ Waits("fundef") /\ Stay /\ Return(Tree("fundef", Top.op, Append(Top.kids, ret)))
    \/ \E s \in {"if", "while"} :
           /\ Waits(s) /\ Top.kids = <<>>
           /\ Stay /\ Update(<<ret>>) /\ goal' = "block" /\ UNCHANGED ret
    \/ Waits("while") /\ Len(Top.kids) = 1 /\ Stay /\ Return(Tree("while", "", Append(Top.kids, ret)))
    \/ /\ Waits("if") /\ Len(Top.kids) > 0
       /\ IF Len(Top.kids) = 1 /\ Kind(cur) = "else"
          THEN Next1 /\ Update(Append(Top.kids, ret)) /\ goal' = "block" /\ UNCHANGED ret
          ELSE Stay /\ Return(Tree("if", "", Append(Top.kids, ret)))
    \/ \E s \in {"block", "file"} :
           /\ Waits(s)
           /\ Stay /\ Update(Grown) /\ goal' = "stmts" /\ UNCHANGED ret

-----------------------------------------------------------------------------
ParseInit ==
    /\ cur = 1
    /\ stack = <<Activation("file", 0, "", <<>>)>>
    /\ ret = NoTree
    /\ errors = FALSE
    /\ nodes = <<>>

Init ==
    /\ LexInit
    /\ ParseInit
    /\ \/ code \in Texts /\ goal = "lex" /\ toks = <<>> /\ wanted = <<>>
       \/ /\ code = <<>> /\ goal = "stmts" /\ wanted = <<>>
          /\ \E t \in TokenTexts : toks = Append(t, "eof")
       \/ /\ code = <<>> /\ goal = "stmts"
          /\ \E p \in Programs : wanted = p.tree /\ toks = p.tokens

\* lex returns; the parser is not called after an error
EndLex ==
    /\ goal = "lex"
    /\ at >= Len(code)
    /\ tokens' = Append(tokens, Token("eof", at, 0))
    /\ toks' = [i \in DOMAIN tokens' |-> tokens'[i].type]
    /\ goal' = IF lexErrors THEN "rejected" ELSE "stmts"
    /\ UNCHANGED <<code, at, line, lexErrors, cur, stack, ret, errors, nodes, wanted>>

ParseStep == \/ ParseExpr \/ ParseUnary \/ ParseLiteral \/ ParseArgs \/ ReturnBinary \/ ReturnExpr
             \/ ParseStmt \/ ParseParams \/ ParseBlock \/ ReturnStmt

Ended == goal \in {"done", "rejected"} /\ UNCHANGED vars

Next == \/ NextToken /\ UNCHANGED parseVars
        \/ EndLex
        \/ ParseStep /\ UNCHANGED <<lexVars, toks, nodes, wanted>>
        \/ ParseStmts /\ UNCHANGED <<lexVars, toks, wanted>>
        \/ Ended

Spec == Init /\ [][Next]_vars /\ WF_vars(Next)

-----------------------------------------------------------------------------
\* The parser ends on every file, unless the file ends inside of a list of
\* arguments or parameters: the two loops over lists do not look for the end.
EndsUnlessListOpen ==
    <>(\/ goal \in {"done", "rejected"}
       \/ goal \in {"args", "params"} /\ Kind(cur) = "eof")
=============================================================================
