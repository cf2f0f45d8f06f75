---------------------------- MODULE BuildProofs ----------------------------
(***************************************************************************)
(* Proofs about Build, for all files, contents, command lines and bounds.  *)
(*                                                                         *)
(* Each phase of a command consumes one list and fills the next.  The      *)
(* inductive invariant says, phase by phase, that a file of the command is *)
(* still in the list or has been turned into the newest version of what    *)
(* the next phase reads.  A file may be named twice, or once as a .tmd and *)
(* once as an .asm: then an object is made again after it was made, and    *)
(* the invariant holds because both times give the same.                   *)
(***************************************************************************)
EXTENDS Build, TLAPS

\* What marking keeps are functions of the file, the roots and all they call.
LEMMA ReachedClosed ==
    ASSUME NEW x
    PROVE  /\ Roots(x) \subseteq Reached(x, Roots(x))
           /\ Reached(x, Roots(x)) \subseteq DOMAIN x.funs
           /\ Callees(x, Reached(x, Roots(x))) \subseteq Reached(x, Roots(x))
<1>1. Roots(x) \subseteq DOMAIN x.funs
  BY DEF Roots
<1>2. Roots(x) \subseteq Reached(x, Roots(x))
  BY <1>1 DEF Reached, Closed
<1>3. ASSUME NEW e \in Callees(x, Reached(x, Roots(x))), NEW S \in Closed(x, Roots(x))
      PROVE  e \in S
  <2>1. Reached(x, Roots(x)) \subseteq S
    BY DEF Reached
  <2>2. Callees(x, Reached(x, Roots(x))) \subseteq Callees(x, S)
    BY <2>1 DEF Callees
  <2> QED BY <2>2, <1>3 DEF Closed
<1>4. Callees(x, Reached(x, Roots(x))) \subseteq DOMAIN x.funs
  BY DEF Callees
<1>5. Callees(x, Reached(x, Roots(x))) \subseteq Reached(x, Roots(x))
  BY <1>3, <1>4 DEF Reached
<1> QED BY <1>2, <1>5 DEF Reached

\* An object has the functions that marking keeps, as the source has them.
LEMMA CompiledFuns ==
    ASSUME NEW x
    PROVE  /\ Compiled(x).ok = x.encodes
           /\ DOMAIN Compiled(x).funs = Reached(x, Roots(x))
           /\ \A e \in DOMAIN Compiled(x).funs :
                 e \in DOMAIN x.funs /\ Compiled(x).funs[e] = x.funs[e]
<1>1. Compiled(x).funs = Restrict(x.funs, Reached(x, Roots(x)))
  BY DEF Compiled, Empty
<1>2. DOMAIN Compiled(x).funs = Reached(x, Roots(x))
  BY <1>1 DEF Restrict
<1>3. \A e \in Reached(x, Roots(x)) : Compiled(x).funs[e] = x.funs[e]
  BY <1>1 DEF Restrict
<1>4. Compiled(x).ok = x.encodes
  BY DEF Compiled, Empty
<1> QED BY <1>2, <1>3, <1>4, ReachedClosed

\* A call that the object of a file makes was made in the file, and if the file
\* defines the function then so does the object.
LEMMA CalleeKept ==
    ASSUME NEW x, NEW h \in DOMAIN Compiled(x).funs, NEW call \in Compiled(x).funs[h].calls
    PROVE  /\ h \in DOMAIN x.funs /\ call \in x.funs[h].calls
           /\ call[1] \in DOMAIN x.funs => call[1] \in DOMAIN Compiled(x).funs
<1>1. h \in Reached(x, Roots(x)) /\ h \in DOMAIN x.funs /\ call \in x.funs[h].calls
  BY CompiledFuns
<1>2. ASSUME call[1] \in DOMAIN x.funs PROVE call[1] \in DOMAIN Compiled(x).funs
  <2>1. call[1] \in Callees(x, Reached(x, Roots(x)))
    BY <1>1, <1>2 DEF Callees
  <2> QED BY <2>1, ReachedClosed, CompiledFuns
<1> QED BY <1>1, <1>2

\* A visible function of a file without a main is in its object.
LEMMA VisibleKept ==
    ASSUME NEW x, NEW e \in DOMAIN x.funs, e \notin Hidden, Main \notin DOMAIN x.funs
    PROVE  e \in DOMAIN Compiled(x).funs
<1>1. e \in Roots(x)
  BY DEF Roots
<1> QED BY <1>1, ReachedClosed, CompiledFuns

\* The files of a list after Append and Tail.
LEMMA AppendRange ==
    ASSUME NEW S, NEW q \in Seq(S), NEW e \in S
    PROVE  Append(q, e) \in Seq(S) /\ Range(Append(q, e)) = Range(q) \cup {e}
<1>1. /\ Append(q, e) \in Seq(S)
      /\ DOMAIN q = 1 .. Len(q) /\ Len(q) \in Nat
      /\ DOMAIN Append(q, e) = 1 .. Len(q) + 1
      /\ \A i \in 1 .. Len(q) : Append(q, e)[i] = q[i]
      /\ Append(q, e)[Len(q) + 1] = e
  OBVIOUS
<1>2. Range(Append(q, e)) \subseteq Range(q) \cup {e}
  <2>1. SUFFICES ASSUME NEW i \in 1 .. Len(q) + 1
                 PROVE  Append(q, e)[i] \in Range(q) \cup {e}
    BY <1>1 DEF Range
  <2>2. i \in 1 .. Len(q) \/ i = Len(q) + 1
    BY <1>1
  <2> QED BY <2>2, <1>1 DEF Range
<1>3. ASSUME NEW i \in 1 .. Len(q) PROVE q[i] \in Range(Append(q, e))
  <2>1. i \in DOMAIN Append(q, e) /\ q[i] = Append(q, e)[i]
    BY <1>1
  <2> QED BY <2>1 DEF Range
<1>4. e \in Range(Append(q, e))
  <2>1. Len(q) + 1 \in DOMAIN Append(q, e)
    BY <1>1
  <2> QED BY <2>1, <1>1 DEF Range
<1>5. Range(q) \cup {e} \subseteq Range(Append(q, e))
  BY <1>1, <1>3, <1>4 DEF Range
<1> QED BY <1>1, <1>2, <1>5

LEMMA TailRange ==
    ASSUME NEW S, NEW q \in Seq(S), q # <<>>
    PROVE  Head(q) \in S /\ Tail(q) \in Seq(S) /\ Range(q) = {Head(q)} \cup Range(Tail(q))
<1>1. Len(q) \in Nat \ {0} /\ Head(q) = q[1] /\ Tail(q) \in Seq(S)
  OBVIOUS
<1>2. /\ DOMAIN q = 1 .. Len(q) /\ DOMAIN Tail(q) = 1 .. Len(q) - 1
      /\ \A i \in 1 .. Len(q) - 1 : Tail(q)[i] = q[i + 1]
  OBVIOUS
<1>3. ASSUME NEW i \in 1 .. Len(q) PROVE q[i] \in {Head(q)} \cup Range(Tail(q))
  <2>1. CASE i = 1
    BY <2>1, <1>1
  <2>2. CASE i # 1
    <3>1. i - 1 \in DOMAIN Tail(q) /\ Tail(q)[i - 1] = q[i]
      BY <2>2, <1>1, <1>2
    <3> QED BY <3>1 DEF Range
  <2> QED BY <2>1, <2>2
<1>4. ASSUME NEW i \in 1 .. Len(q) - 1 PROVE Tail(q)[i] \in Range(q)
  <2>1. i + 1 \in DOMAIN q /\ Tail(q)[i] = q[i + 1]
    BY <1>1, <1>2
  <2> QED BY <2>1 DEF Range
<1>5. Head(q) \in Range(q)
  BY <1>1, <1>2 DEF Range
<1> QED BY <1>1, <1>2, <1>3, <1>4, <1>5 DEF Range

-----------------------------------------------------------------------------
(* The inductive invariant *)

Fine(s) == Accepted(Read(tmd[s]))
New(s) == Compiled(Read(tmd[s]))
Translated(s) == Fine(s) /\ asm[s] = New(s)
Made(s) == obj[s] = Read(asm[s])
ToAssemble == Named("tmd") \cup Named("asm")

Types ==
    /\ DOMAIN tmd = Stems /\ DOMAIN asm = Stems /\ DOMAIN obj = Stems
    /\ \A s \in Stems : tmd[s] \in Sources[s] \cup {Missing}
    /\ \A s \in Stems : obj[s] = Missing \/ obj[s].ok
    /\ tmdFiles \in Seq(Stems) /\ asmFiles \in Seq(Stems) /\ objFiles \in Seq(Stems)
    /\ command \in Seq([stem : Stems, ext : STRING])
    /\ phase # "idle" => outcome = "none"

\* the first n arguments with this suffix
Taken(ext, n) == {command[k].stem : k \in {j \in 1 .. n : command[j].ext = ext}}
InArgs ==
    phase = "args" =>
        /\ arg \in 1 .. Len(command) + 1
        /\ Range(tmdFiles) = Taken("tmd", arg - 1)
        /\ Range(asmFiles) = Taken("asm", arg - 1)
        /\ Range(objFiles) = Taken("obj", arg - 1)

InCompile ==
    phase = "compile" =>
        /\ Range(tmdFiles) \subseteq Named("tmd")
        /\ \A s \in Named("tmd") \ Range(tmdFiles) : Translated(s) /\ s \in Range(asmFiles)
        /\ Named("asm") \subseteq Range(asmFiles) /\ Range(asmFiles) \subseteq ToAssemble
        /\ Range(objFiles) = Named("obj")

InAssemble ==
    phase = "assemble" =>
        /\ \A s \in Named("tmd") : Translated(s)
        /\ Range(asmFiles) \subseteq ToAssemble
        /\ \A s \in ToAssemble \ Range(asmFiles) : Made(s) /\ s \in Range(objFiles)
        /\ Named("obj") \subseteq Range(objFiles) /\ Range(objFiles) \subseteq AllNamed

InLink ==
    phase = "link" =>
        /\ \A s \in Named("tmd") : Translated(s)
        /\ \A s \in ToAssemble : Made(s)
        /\ Range(objFiles) = AllNamed

AfterLink ==
    outcome \in {"ok", "link"} =>
        /\ exe = [s \in AllNamed |-> Newest(s)]
        /\ \A s \in AllNamed : exe[s].ok
        /\ \A s \in Named("tmd") : Fine(s)
        /\ outcome = "link" =>
               \E c \in Calls(exe) : \A s \in DOMAIN exe : ~Defines(exe[s], c[1])

Inv == Types /\ InArgs /\ InCompile /\ InAssemble /\ InLink /\ AfterLink

LEMMA InitInv == Init => Inv
<1> SUFFICES ASSUME Init PROVE Inv
  OBVIOUS
<1>1. Types
  BY DEF Init, Types, Written
<1>2. InArgs /\ InCompile /\ InAssemble /\ InLink /\ AfterLink
  BY DEF Init, InArgs, InCompile, InAssemble, InLink, AfterLink
<1> QED BY <1>1, <1>2 DEF Inv

\* What is said of a .tmd file depends on the .tmd files alone.
LEMMA SameSources ==
    ASSUME tmd' = tmd, NEW s
    PROVE  Fine(s)' = Fine(s) /\ New(s)' = New(s)
BY DEF Fine, New, Accepted, Admitted, Declaring, Imported, Read

LEMMA SameCommand ==
    ASSUME command' = command
    PROVE  /\ \A ext : Named(ext)' = Named(ext)
           /\ AllNamed' = AllNamed /\ ToAssemble' = ToAssemble
           /\ \A ext, n : Taken(ext, n)' = Taken(ext, n)
BY DEF Named, AllNamed, ToAssemble, Taken

\* The loop over argv sorts the whole command.
LEMMA TakenAll ==
    ASSUME Types, NEW ext
    PROVE  Taken(ext, Len(command)) = Named(ext)
<1>1. DOMAIN command = 1 .. Len(command)
  BY DEF Types
<1> QED BY <1>1 DEF Taken, Named, Range

LEMMA ElementOf ==
    ASSUME NEW S, NEW q \in Seq(S), NEW i \in 1 .. Len(q)
    PROVE  Len(q) \in Nat /\ q[i] \in S
OBVIOUS

LEMMA WithTakes ==
    ASSUME Types, arg \in 1 .. Len(command), NEW ext, NEW list \in Seq(Stems),
           Range(list) = Taken(ext, arg - 1)
    PROVE  With(list, ext) \in Seq(Stems) /\ Range(With(list, ext)) = Taken(ext, arg)
<1>1. Len(command) \in Nat /\ command[arg].stem \in Stems
  <2>1. command \in Seq([stem : Stems, ext : STRING])
    BY DEF Types
  <2>2. Len(command) \in Nat /\ command[arg] \in [stem : Stems, ext : STRING]
    BY <2>1, ElementOf
  <2> QED BY <2>2
<1>2. 1 .. arg = (1 .. arg - 1) \cup {arg}
  BY <1>1
<1>3. CASE command[arg].ext = ext
  <2>1. Taken(ext, arg) = Taken(ext, arg - 1) \cup {command[arg].stem}
    BY <1>2, <1>3 DEF Taken
  <2> QED BY <1>1, <1>3, <2>1, AppendRange DEF With
<1>4. CASE command[arg].ext # ext
  <2>1. Taken(ext, arg) = Taken(ext, arg - 1)
    BY <1>2, <1>4 DEF Taken
  <2> QED BY <1>4, <2>1 DEF With
<1> QED BY <1>3, <1>4

LEMMA EditInv == ASSUME Inv, NEW s \in Stems, NEW c \in Sources[s] \cup {Missing}, Edit(s, c)
                 PROVE  Inv'
<1>1. phase = "idle" /\ phase' = "idle" /\ outcome' = "none"
  BY DEF Edit
<1>2. Types'
  BY <1>1 DEF Inv, Types, Edit, lists
<1> QED BY <1>1, <1>2 DEF Inv, InArgs, InCompile, InAssemble, InLink, AfterLink

LEMMA InvokeInv == ASSUME Inv, NEW args \in Commands, Invoke(args)
                   PROVE  Inv'
<1>1. phase' \in {"idle", "args"} /\ outcome' \in {"usage", "none"}
  BY DEF Invoke, Stop
<1>2. phase' # "idle" => outcome' = "none"
  BY DEF Invoke, Stop
<1>3. /\ tmdFiles' = <<>> /\ asmFiles' = <<>> /\ objFiles' = <<>>
      /\ command' = args /\ arg' = 1
      /\ tmd' = tmd /\ asm' = asm /\ obj' = obj
  BY DEF Invoke, files
<1>4. Types'
  <2>1. args \in Seq([stem : Stems, ext : STRING])
    BY CommandsAssumption
  <2>2. <<>> \in Seq(Stems)
    OBVIOUS
  <2> QED BY <1>2, <1>3, <2>1, <2>2 DEF Inv, Types
<1>5. InArgs'
  <2>1. Len(command') \in Nat /\ Range(<<>>) = {}
    BY <1>4 DEF Types, Range
  <2>2. \A ext : Taken(ext, 0)' = {}
    BY DEF Taken
  <2>3. arg' - 1 = 0 /\ arg' \in 1 .. Len(command') + 1
    BY <1>3, <2>1
  <2> QED BY <1>3, <2>1, <2>2, <2>3 DEF InArgs
<1> QED BY <1>1, <1>4, <1>5 DEF Inv, InCompile, InAssemble, InLink, AfterLink

LEMMA ClassifyInv == ASSUME Inv, Classify
                     PROVE  Inv'
<1>1. phase = "args" /\ outcome = "none" /\ Types /\ InArgs
  BY DEF Classify, Inv, Types
<1>2. /\ tmd' = tmd /\ asm' = asm /\ obj' = obj /\ exe' = exe /\ command' = command
  BY DEF Classify, files
<1>3. Len(command) \in Nat /\ arg \in 1 .. Len(command) + 1
  BY <1>1 DEF Types, InArgs
<1>4. CASE arg > Len(command)
  <2>1. /\ phase' = "compile" /\ outcome' = "none"
        /\ tmdFiles' = tmdFiles /\ asmFiles' = asmFiles /\ objFiles' = objFiles
    BY <1>1, <1>4 DEF Classify, lists
  <2>2. arg - 1 = Len(command)
    BY <1>3, <1>4
  <2>3. /\ Range(tmdFiles) = Named("tmd") /\ Range(asmFiles) = Named("asm")
        /\ Range(objFiles) = Named("obj")
    BY <1>1, <2>2, TakenAll DEF InArgs
  <2>4. Types'
    BY <1>1, <1>2, <2>1 DEF Types
  <2>5. InCompile'
    BY <1>2, <2>1, <2>3, SameCommand DEF InCompile, ToAssemble
  <2> QED BY <2>1, <2>4, <2>5 DEF Inv, InArgs, InAssemble, InLink, AfterLink
<1>5. CASE arg <= Len(command)
  <2>1. /\ arg' = arg + 1
        /\ tmdFiles' = With(tmdFiles, "tmd") /\ asmFiles' = With(asmFiles, "asm")
        /\ objFiles' = With(objFiles, "obj")
    BY <1>3, <1>5 DEF Classify
  <2>2. \/ phase' = "args" /\ outcome' = "none"
        \/ phase' = "idle" /\ outcome' = "usage"
    BY <1>1, <1>3, <1>5 DEF Classify, Stop
  <2>3. arg \in 1 .. Len(command) /\ arg' - 1 = arg /\ arg' \in 1 .. Len(command) + 1
    BY <1>3, <1>5, <2>1
  <2>4. /\ tmdFiles' \in Seq(Stems) /\ Range(tmdFiles') = Taken("tmd", arg)
        /\ asmFiles' \in Seq(Stems) /\ Range(asmFiles') = Taken("asm", arg)
        /\ objFiles' \in Seq(Stems) /\ Range(objFiles') = Taken("obj", arg)
    <3>1. /\ Range(tmdFiles) = Taken("tmd", arg - 1) /\ tmdFiles \in Seq(Stems)
          /\ Range(asmFiles) = Taken("asm", arg - 1) /\ asmFiles \in Seq(Stems)
          /\ Range(objFiles) = Taken("obj", arg - 1) /\ objFiles \in Seq(Stems)
      BY <1>1 DEF InArgs, Types
    <3> QED BY <1>1, <2>1, <2>3, <3>1, WithTakes
  <2>5. Types'
    BY <1>1, <1>2, <2>2, <2>4 DEF Types
  <2>6. InArgs'
    BY <1>2, <2>3, <2>4, SameCommand DEF InArgs
  <2> QED BY <2>2, <2>5, <2>6 DEF Inv, InCompile, InAssemble, InLink, AfterLink
<1> QED BY <1>3, <1>4, <1>5

LEMMA EmptyRange == Range(<<>>) = {}
BY DEF Range

LEMMA CompileFileInv == ASSUME Inv, CompileFile
                        PROVE  Inv'
<1>1. phase = "compile" /\ outcome = "none" /\ Types /\ InCompile
  BY DEF CompileFile, Inv, Types
<1>2. tmd' = tmd /\ obj' = obj /\ command' = command /\ objFiles' = objFiles
  BY DEF CompileFile, lists
<1>3. /\ Range(tmdFiles) \subseteq Named("tmd")
      /\ \A s \in Named("tmd") \ Range(tmdFiles) : Translated(s) /\ s \in Range(asmFiles)
      /\ Named("asm") \subseteq Range(asmFiles) /\ Range(asmFiles) \subseteq ToAssemble
      /\ Range(objFiles) = Named("obj")
  BY <1>1 DEF InCompile
<1>4. CASE tmdFiles = <<>>
  <2>1. /\ phase' = "assemble" /\ outcome' = "none" /\ asm' = asm
        /\ tmdFiles' = tmdFiles /\ asmFiles' = asmFiles
    BY <1>1, <1>4 DEF CompileFile, lists
  <2>2. Types'
    BY <1>1, <1>2, <2>1 DEF Types
  <2>3. \A s \in Named("tmd") : Translated(s) /\ s \in Range(asmFiles)
    BY <1>3, <1>4, EmptyRange
  <2>4. \A s : Translated(s)' = Translated(s)
    BY <1>2, <2>1, SameSources DEF Translated
  <2>5. InAssemble'
    BY <1>2, <1>3, <2>1, <2>3, <2>4, SameCommand DEF InAssemble, ToAssemble, AllNamed
  <2> QED BY <2>1, <2>2, <2>5 DEF Inv, InArgs, InCompile, InLink, AfterLink
<1>5. CASE tmdFiles # <<>> /\ ~Fine(Head(tmdFiles))
  <2>1. /\ phase' = "idle" /\ outcome' = "compile" /\ asm' = asm
        /\ tmdFiles' = tmdFiles /\ asmFiles' = asmFiles
    BY <1>5 DEF CompileFile, lists, Fine, Stop
  <2>2. Types'
    BY <1>1, <1>2, <2>1 DEF Types
  <2> QED BY <2>1, <2>2 DEF Inv, InArgs, InCompile, InAssemble, InLink, AfterLink
<1>6. CASE tmdFiles # <<>> /\ Fine(Head(tmdFiles))
  <2> DEFINE h == Head(tmdFiles)
  <2>1. /\ phase' = "compile" /\ outcome' = "none" /\ asm' = [asm EXCEPT ![h] = New(h)]
        /\ tmdFiles' = Tail(tmdFiles) /\ asmFiles' = Append(asmFiles, h)
    BY <1>1, <1>6 DEF CompileFile, Fine, New
  <2>2. /\ h \in Stems /\ tmdFiles' \in Seq(Stems)
        /\ Range(tmdFiles) = {h} \cup Range(tmdFiles')
    <3>1. tmdFiles \in Seq(Stems)
      BY <1>1 DEF Types
    <3> QED BY <1>6, <2>1, <3>1, TailRange
  <2>3. asmFiles' \in Seq(Stems) /\ Range(asmFiles') = Range(asmFiles) \cup {h}
    <3>1. asmFiles \in Seq(Stems)
      BY <1>1 DEF Types
    <3> QED BY <2>1, <2>2, <3>1, AppendRange
  <2>4. DOMAIN asm = Stems
    BY <1>1 DEF Types
  <2>5. Types'
    BY <1>1, <1>2, <2>1, <2>2, <2>3, <2>4 DEF Types
  <2>6. \A s : Fine(s)' = Fine(s) /\ New(s)' = New(s)
    BY <1>2, SameSources
  <2>7. ASSUME NEW s \in Named("tmd") \ Range(tmdFiles')
        PROVE  Translated(s)' /\ s \in Range(asmFiles')
    <3>1. CASE s = h
      <4>1. asm'[h] = New(h)
        BY <2>1, <2>2, <2>4
      <4> QED BY <1>6, <2>3, <2>6, <3>1, <4>1 DEF Translated
    <3>2. CASE s # h
      <4>1. Translated(s) /\ s \in Range(asmFiles)
        BY <1>3, <2>2, <3>2
      <4>2. asm'[s] = asm[s]
        BY <1>3, <2>1, <2>4, <3>2, <4>1
      <4> QED BY <2>3, <2>6, <4>1, <4>2 DEF Translated
    <3> QED BY <3>1, <3>2
  <2>8. InCompile'
    BY <1>2, <1>3, <2>2, <2>3, <2>7, SameCommand DEF InCompile, ToAssemble
  <2> QED BY <2>1, <2>5, <2>8 DEF Inv, InArgs, InAssemble, InLink, AfterLink
<1> QED BY <1>4, <1>5, <1>6

LEMMA AssembleFileInv == ASSUME Inv, AssembleFile
                         PROVE  Inv'
<1>1. phase = "assemble" /\ outcome = "none" /\ Types /\ InAssemble
  BY DEF AssembleFile, Inv, Types
<1>2. tmd' = tmd /\ asm' = asm /\ command' = command /\ tmdFiles' = tmdFiles
  BY DEF AssembleFile, lists
<1>3. /\ \A s \in Named("tmd") : Translated(s)
      /\ Range(asmFiles) \subseteq ToAssemble
      /\ \A s \in ToAssemble \ Range(asmFiles) : Made(s) /\ s \in Range(objFiles)
      /\ Named("obj") \subseteq Range(objFiles) /\ Range(objFiles) \subseteq AllNamed
  BY <1>1 DEF InAssemble
<1>4. \A s : Translated(s)' = Translated(s)
  BY <1>2, SameSources DEF Translated
<1>5. CASE asmFiles = <<>>
  <2>1. /\ phase' = "link" /\ outcome' = "none" /\ obj' = obj
        /\ asmFiles' = asmFiles /\ objFiles' = objFiles
    BY <1>1, <1>5 DEF AssembleFile, lists
  <2>2. Types'
    BY <1>1, <1>2, <2>1 DEF Types
  <2>3. \A s \in ToAssemble : Made(s) /\ s \in Range(objFiles)
    BY <1>3, <1>5, EmptyRange
  <2>4. Range(objFiles) = AllNamed
    BY <1>3, <2>3 DEF AllNamed, ToAssemble
  <2>5. \A s : Made(s)' = Made(s)
    BY <1>2, <2>1 DEF Made, Read
  <2>6. InLink'
    BY <1>2, <1>3, <1>4, <2>1, <2>3, <2>4, <2>5, SameCommand DEF InLink
  <2> QED BY <2>1, <2>2, <2>6 DEF Inv, InArgs, InCompile, InAssemble, AfterLink
<1>6. CASE asmFiles # <<>> /\ ~Read(asm[Head(asmFiles)]).ok
  <2>1. /\ phase' = "idle" /\ outcome' = "assemble" /\ obj' = obj
        /\ asmFiles' = asmFiles /\ objFiles' = objFiles
    BY <1>6 DEF AssembleFile, lists, Stop
  <2>2. Types'
    BY <1>1, <1>2, <2>1 DEF Types
  <2> QED BY <2>1, <2>2 DEF Inv, InArgs, InCompile, InAssemble, InLink, AfterLink
<1>7. CASE asmFiles # <<>> /\ Read(asm[Head(asmFiles)]).ok
  <2> DEFINE h == Head(asmFiles)
  <2>1. /\ phase' = "assemble" /\ outcome' = "none" /\ obj' = [obj EXCEPT ![h] = Read(asm[h])]
        /\ asmFiles' = Tail(asmFiles) /\ objFiles' = Append(objFiles, h)
    BY <1>1, <1>7 DEF AssembleFile, Assembled
  <2>2. /\ h \in Stems /\ asmFiles' \in Seq(Stems)
        /\ Range(asmFiles) = {h} \cup Range(asmFiles')
    <3>1. asmFiles \in Seq(Stems)
      BY <1>1 DEF Types
    <3> QED BY <1>7, <2>1, <3>1, TailRange
  <2>3. objFiles' \in Seq(Stems) /\ Range(objFiles') = Range(objFiles) \cup {h}
    <3>1. objFiles \in Seq(Stems)
      BY <1>1 DEF Types
    <3> QED BY <2>1, <2>2, <3>1, AppendRange
  <2>4. DOMAIN obj = Stems /\ \A s \in Stems : obj[s] = Missing \/ obj[s].ok
    BY <1>1 DEF Types
  <2>5. /\ DOMAIN obj' = Stems /\ obj'[h] = Read(asm[h])
        /\ \A s \in Stems \ {h} : obj'[s] = obj[s]
    BY <2>1, <2>2, <2>4
  <2>6. \A s \in Stems : obj'[s] = Missing \/ obj'[s].ok
    BY <1>7, <2>4, <2>5
  <2>7. Types'
    BY <1>1, <1>2, <2>1, <2>2, <2>3, <2>5, <2>6 DEF Types
  <2>8. ASSUME NEW s \in ToAssemble \ Range(asmFiles')
        PROVE  Made(s)' /\ s \in Range(objFiles')
    <3>1. CASE s = h
      BY <1>2, <2>3, <2>5, <3>1 DEF Made, Read
    <3>2. CASE s # h
      <4>1. Made(s) /\ s \in Range(objFiles)
        BY <1>3, <2>2, <3>2
      <4>2. s \in Stems
        BY <1>1, <4>1 DEF Types, Range
      <4>3. obj'[s] = obj[s]
        BY <2>5, <3>2, <4>2
      <4> QED BY <1>2, <2>3, <4>1, <4>3 DEF Made, Read
    <3> QED BY <3>1, <3>2
  <2>9. InAssemble'
    <3>1. h \in AllNamed
      BY <1>3, <2>2 DEF ToAssemble, AllNamed
    <3> QED BY <1>2, <1>3, <1>4, <2>2, <2>3, <2>8, <3>1, SameCommand DEF InAssemble
  <2> QED BY <2>1, <2>7, <2>9 DEF Inv, InArgs, InCompile, InLink, AfterLink
<1> QED BY <1>5, <1>6, <1>7

\* What the linker reads is the newest version of each file.
LEMMA LinkerReadsNewest ==
    ASSUME Inv, phase = "link", NEW s \in AllNamed
    PROVE  obj[s] = Newest(s)
<1>1. /\ Types
      /\ \A t \in Named("tmd") : Translated(t)
      /\ \A t \in ToAssemble : Made(t)
      /\ Range(objFiles) = AllNamed
  BY DEF Inv, InLink
<1>2. s \in Stems
  BY <1>1 DEF Types, Range
<1>3. CASE s \in Named("tmd")
  <2>1. obj[s] = Read(New(s))
    BY <1>1, <1>3 DEF Made, Translated, ToAssemble
  <2>2. Read(tmd[s]) \in (UNION {Sources[t] : t \in Stems}) \cup {Empty}
    <3>1. tmd[s] = Missing \/ tmd[s] \in Sources[s]
      BY <1>1, <1>2 DEF Types
    <3>2. CASE tmd[s] = Missing
      <4>1. Read(tmd[s]) = Empty
        BY <3>2 DEF Read
      <4> QED BY <4>1
    <3>3. CASE tmd[s] \in Sources[s] /\ tmd[s] # Missing
      <4>1. Read(tmd[s]) = tmd[s]
        BY <3>3 DEF Read
      <4> QED BY <1>2, <3>3, <4>1
    <3> QED BY <3>1, <3>2, <3>3
  <2>3. New(s) # Missing
    BY <2>2, MissingAssumption DEF New
  <2> QED BY <1>3, <2>1, <2>3 DEF Read, New, Newest
<1>4. CASE s \in Named("asm") \ Named("tmd")
  BY <1>1, <1>4 DEF Made, ToAssemble, Newest
<1>5. CASE s \notin Named("tmd") \cup Named("asm")
  BY <1>5 DEF Newest
<1> QED BY <1>3, <1>4, <1>5

LEMMA LinkInv == ASSUME Inv, Link
                 PROVE  Inv'
<1>1. phase = "link" /\ phase' = "idle" /\ Types
  BY DEF Link, Inv, Stop
<1>2. /\ tmd' = tmd /\ asm' = asm /\ obj' = obj /\ command' = command
      /\ tmdFiles' = tmdFiles /\ asmFiles' = asmFiles /\ objFiles' = objFiles
  BY DEF Link, lists
<1>3. Types'
  BY <1>1, <1>2 DEF Types
<1>4. AfterLink'
  <2>1. CASE \E s \in Range(objFiles) : obj[s] = Missing
    BY <2>1 DEF Link, Stop, AfterLink
  <2>2. CASE ~\E s \in Range(objFiles) : obj[s] = Missing
    <3>1. /\ Range(objFiles) = AllNamed
          /\ \A s \in Named("tmd") : Fine(s)
      BY <1>1 DEF Inv, InLink, Translated
    <3>2. \A s \in AllNamed : s \in Stems /\ obj[s].ok /\ obj[s] = Newest(s)
      BY <1>1, <2>2, <3>1, LinkerReadsNewest DEF Types, Range
    <3>3. exe' = [s \in AllNamed |-> obj[s]]
      BY <2>2, <3>1 DEF Link, Restrict
    <3>4. \A s : Newest(s)' = Newest(s) /\ Fine(s)' = Fine(s)
      BY <1>2, SameSources, SameCommand DEF Newest, Read
    <3>5. exe' = [s \in AllNamed' |-> Newest(s)']
      BY <1>2, <3>2, <3>3, <3>4, SameCommand
    <3>6. \A s \in AllNamed' : exe'[s].ok
      BY <1>2, <3>2, <3>3, SameCommand
    <3>7. \A s \in Named("tmd")' : Fine(s)'
      BY <1>2, <3>1, <3>4, SameCommand
    <3>8. outcome' = "link" =>
              ~\A c \in Calls(exe') : \E s \in DOMAIN exe' : Defines(exe'[s], c[1])
      BY <2>2 DEF Link, Stop
    <3>9. outcome' = "link" =>
              \E c \in Calls(exe') : \A s \in DOMAIN exe' : ~Defines(exe'[s], c[1])
      BY <3>8
    <3> QED BY <3>5, <3>6, <3>7, <3>9 DEF AfterLink
  <2> QED BY <2>1, <2>2
<1> QED BY <1>1, <1>3, <1>4 DEF Inv, InArgs, InCompile, InAssemble, InLink

LEMMA DieInv == ASSUME Inv, Die
                PROVE  Inv'
<1>1. phase' = "idle" /\ outcome' = "died"
  BY DEF Die, Stop
<1>2. Types'
  BY <1>1 DEF Inv, Types, Die, files, lists
<1> QED BY <1>1, <1>2 DEF Inv, InArgs, InCompile, InAssemble, InLink, AfterLink

LEMMA StutterInv == ASSUME Inv, UNCHANGED vars
                    PROVE  Inv'
<1>1. /\ tmd' = tmd /\ asm' = asm /\ obj' = obj /\ exe' = exe /\ phase' = phase
      /\ command' = command /\ arg' = arg /\ outcome' = outcome
      /\ tmdFiles' = tmdFiles /\ asmFiles' = asmFiles /\ objFiles' = objFiles
  BY DEF vars, files, lists
<1>2. /\ \A s : Fine(s)' = Fine(s) /\ Newest(s)' = Newest(s)
      /\ \A s : Translated(s)' = Translated(s) /\ Made(s)' = Made(s)
  BY <1>1, SameSources, SameCommand DEF Newest, Read, Translated, Made
<1>3. Types' /\ InArgs'
  BY <1>1, SameCommand DEF Inv, Types, InArgs
<1>4. InCompile' /\ InAssemble' /\ InLink'
  BY <1>1, <1>2, SameCommand DEF Inv, InCompile, InAssemble, InLink
<1>5. AfterLink'
  BY <1>1, <1>2, SameCommand DEF Inv, AfterLink
<1> QED BY <1>3, <1>4, <1>5 DEF Inv

LEMMA Invariance == Spec => []Inv
<1>1. Inv /\ [Next]_vars => Inv'
  BY EditInv, InvokeInv, ClassifyInv, CompileFileInv, AssembleFileInv, LinkInv, DieInv,
     StutterInv DEF Next
<1> QED BY <1>1, InitInv, PTL DEF Spec

\* A command that succeeds has put the newest version of each file it names into
\* out.exe, whatever objects older commands left (main.cpp, the three loops).
THEOREM Current == Spec => []SuccessIsCurrent
<1>1. Inv => SuccessIsCurrent
  BY DEF Inv, AfterLink, SuccessIsCurrent, Fine
<1> QED BY <1>1, Invariance, PTL

\* A call in out.exe was checked against a declaration; if optimization does not
\* take the function from other files then the file of the declaration is in
\* out.exe and still has the function, with the parameters it was declared with.
LEMMA CallTraced ==
    ASSUME AfterLink, outcome \in {"ok", "link"}, FromSources,
           NEW c \in Calls(exe), ~LostToOthers(c[1])
    PROVE  \E t \in DOMAIN exe : /\ Defines(exe[t], c[1])
                                 /\ exe[t].funs[c[1]].params = c[2]
<1>1. AllNamed = Named("tmd")
  BY DEF FromSources, AllNamed
<1>2. DOMAIN exe = Named("tmd") /\ \A s \in Named("tmd") : exe[s] = New(s) /\ Fine(s)
  BY <1>1 DEF AfterLink, Newest, New
<1>3. PICK s \in Named("tmd") : \E g \in DOMAIN exe[s].funs : c \in exe[s].funs[g].calls
  BY <1>2 DEF Calls
<1> DEFINE x == Read(tmd[s])
<1>4. PICK g \in DOMAIN Compiled(x).funs : c \in Compiled(x).funs[g].calls
  BY <1>2, <1>3 DEF New
<1>5. /\ g \in DOMAIN x.funs /\ c \in x.funs[g].calls
      /\ c[1] \in DOMAIN x.funs => c[1] \in DOMAIN Compiled(x).funs
  BY <1>4, CalleeKept
<1>6. PICK d \in Declaring(x, c[1]) : d.funs[c[1]].params = c[2]
  <2>1. Admitted(x, c)
    BY <1>2, <1>5 DEF Fine, Accepted
  <2> QED BY <2>1 DEF Admitted
<1>7. CASE c[1] \in DOMAIN x.funs
  <2>1. d = x
    BY <1>6, <1>7 DEF Declaring
  <2>2. c[1] \in DOMAIN Compiled(x).funs /\ Compiled(x).funs[c[1]] = x.funs[c[1]]
    BY <1>5, <1>7, CompiledFuns
  <2>3. exe[s] = Compiled(x)
    BY <1>2 DEF New
  <2> QED BY <1>2, <1>3, <1>6, <2>1, <2>2, <2>3 DEF Defines
<1>8. CASE c[1] \notin DOMAIN x.funs
  <2>1. PICK k \in DOMAIN x.imports : d = Imported(x, k) /\ c[1] \in DOMAIN d.funs
    BY <1>6, <1>8 DEF Declaring
  <2> DEFINE t == x.imports[k]
  <2>2. t \in Named("tmd") /\ d = Read(tmd[t])
    BY <1>3, <2>1 DEF FromSources, Range, Imported
  <2>3. c[1] \notin Hidden /\ Main \notin DOMAIN d.funs
    BY <2>1, <2>2 DEF LostToOthers
  <2>4. c[1] \in DOMAIN Compiled(d).funs /\ Compiled(d).funs[c[1]] = d.funs[c[1]]
    BY <2>1, <2>3, VisibleKept, CompiledFuns
  <2>5. exe[t] = Compiled(d)
    BY <1>2, <2>2 DEF New
  <2> QED BY <1>2, <1>6, <2>2, <2>4, <2>5 DEF Defines
<1> QED BY <1>7, <1>8

\* A call of what was built from sources passes as many arguments as the one
\* function it is linked to has parameters (AstCall::emit_ir against what
\* Linker::apply_relocations finds by name).
THEOREM CallsAgree == Spec => []CallsMatch
<1>1. ASSUME Inv PROVE CallsMatch
  <2>1. SUFFICES ASSUME outcome = "ok", FromSources, NEW c \in Calls(exe), NEW s \in DOMAIN exe,
                        {r \in DOMAIN exe : Defines(exe[r], c[1])} = {s}, ~LostToOthers(c[1])
                 PROVE  exe[s].funs[c[1]].params = c[2]
    BY DEF CallsMatch
  <2>2. PICK t \in DOMAIN exe : Defines(exe[t], c[1]) /\ exe[t].funs[c[1]].params = c[2]
    BY <1>1, <2>1, CallTraced DEF Inv
  <2>3. t = s
    BY <2>1, <2>2
  <2> QED BY <2>2, <2>3
<1> QED BY <1>1, Invariance, PTL

\* The linker fails on sources only for a function that dead-code elimination
\* took from a file that other files import.
THEOREM OnlyLostFunctionsMissing == Spec => []FunctionsFound
<1>1. ASSUME Inv PROVE FunctionsFound
  <2>1. SUFFICES ASSUME outcome = "link", FromSources
                 PROVE  \E c \in Calls(exe) : /\ LostToOthers(c[1])
                                              /\ \A s \in DOMAIN exe : ~Defines(exe[s], c[1])
    BY DEF FunctionsFound
  <2>2. PICK c \in Calls(exe) : \A s \in DOMAIN exe : ~Defines(exe[s], c[1])
    BY <1>1, <2>1 DEF Inv, AfterLink
  <2>3. LostToOthers(c[1])
    BY <1>1, <2>1, <2>2, CallTraced DEF Inv
  <2> QED BY <2>2, <2>3
<1> QED BY <1>1, Invariance, PTL
=============================================================================
