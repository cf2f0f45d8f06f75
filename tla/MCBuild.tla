------------------------------ MODULE MCBuild ------------------------------
(***************************************************************************)
(* TLC instance of Build: a program, a library it imports and a file that  *)
(* has a function of the same name, in versions that fit together or not.  *)
(***************************************************************************)
EXTENDS Build, TLC

CONSTANTS a, b, c, main, f, g, h

Source(imports, funs) ==
    [ok |-> TRUE, types |-> TRUE, encodes |-> TRUE, imports |-> imports, funs |-> funs]
Fun(params, calls) == [params |-> params, calls |-> calls]

MCSources ==
    a :> {Source(<<b>>, main :> Fun(0, {<<f, 1>>})),
          Source(<<c, b>>, main :> Fun(0, {<<f, 1>>}) @@ g :> Fun(0, {})),
          Source(<<b>>, main :> Fun(0, {<<h, 0>>}))} @@
    b :> {Source(<<>>, f :> Fun(1, {}) @@ h :> Fun(0, {})),
          Source(<<>>, f :> Fun(0, {<<h, 0>>}) @@ h :> Fun(0, {})),
          Source(<<a>>, f :> Fun(1, {<<g, 0>>})),
          [Source(<<>>, f :> Fun(1, {})) EXCEPT !.ok = FALSE],
          [Source(<<>>, f :> Fun(1, {})) EXCEPT !.types = FALSE],
          [Source(<<>>, f :> Fun(1, {})) EXCEPT !.encodes = FALSE]} @@
    c :> {Source(<<>>, f :> Fun(0, {}))}

MCAsmSources == [s \in Stems |-> IF s = c THEN {} ELSE {Source(<<>>, f :> Fun(0, {}))}]

File(s, ext) == [stem |-> s, ext |-> ext]
Ext == {"tmd", "asm", "obj"}
MCCommands == {<<>>, <<File(a, "tmd"), File(b, "c")>>, <<File(a, "tmd"), File(a, "asm")>>,
               <<File(b, "asm"), File(a, "obj"), File(b, "tmd")>>} \cup
              {<<File(b, x)>> : x \in Ext} \cup {<<File(a, x), File(b, y)>> : x, y \in Ext} \cup
              {<<File(c, "tmd"), File(b, "tmd"), File(a, "tmd")>>}
=============================================================================
