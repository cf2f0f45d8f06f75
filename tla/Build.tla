------------------------------- MODULE Build -------------------------------
(***************************************************************************)
(* The driver (main.cpp): one command line after another over the files of *)
(* a directory, which are edited in between.                               *)
(*                                                                         *)
(* A file is known by its stem and its suffix.  A content is what the      *)
(* phases see of it: ok, the file can be lexed and parsed (an .asm file:   *)
(* assembled); types, there is no error in its statements beside the calls;*)
(* encodes, what it is compiled to can be assembled; the imports, in       *)
(* order; and for each function its number of parameters and its calls,    *)
(* each with a number of arguments.  A function of the file is declared    *)
(* before it is called.  What a phase does to a content is the subject of  *)
(* the other modules; here it is when, and to which version of which file. *)
(*                                                                         *)
(* A Mutant_* operator is a faulty variant of the definition after it that *)
(* no specification uses; PROJECT.json says which property it breaks.      *)
(***************************************************************************)
EXTENDS Integers, Sequences, FiniteSets, Functions

CONSTANTS
    Stems,
    Sources,     \* for each stem, the contents the author gives to its .tmd file
    AsmSources,  \* and to its .asm file
    Missing,     \* no file
    Commands,    \* command lines: sequences of [stem, ext]
    Main,        \* the function main
    Hidden,      \* functions whose names begin with an underscore
    MaxRuns      \* bound: command lines

ASSUME CommandsAssumption == Commands \subseteq Seq([stem : Stems, ext : STRING])

VARIABLES
    tmd, asm, obj,        \* the files, by stem
    exe,                  \* the objects in out.exe, by stem
    phase,                \* idle, compile, assemble, link
    command,              \* argv, and i in the loop over it
    arg,
    tmdFiles, asmFiles, objFiles,
    outcome,              \* of the last command: ok, or how it failed
    runs

files == <<tmd, asm, obj, exe>>
lists == <<tmdFiles, asmFiles, objFiles>>
vars == <<files, phase, command, arg, lists, outcome, runs>>

Empty == [ok |-> TRUE, types |-> TRUE, encodes |-> TRUE, imports |-> <<>>, funs |-> <<>>]
\* an std::ifstream of a file that is not there reads as empty
Read(content) == IF content = Missing THEN Empty ELSE content

\* for each stem no file or one of the contents
Written(contents) ==
    {w \in [Stems -> (UNION {contents[s] : s \in Stems}) \cup {Missing}] :
        \A s \in Stems : w[s] \in contents[s] \cup {Missing}}

Init ==
    /\ tmd \in Written(Sources) /\ asm \in Written(AsmSources)
    /\ obj = [s \in Stems |-> Missing]
    /\ exe = <<>>
    /\ phase = "idle" /\ command = <<>> /\ arg = 1
    /\ tmdFiles = <<>> /\ asmFiles = <<>> /\ objFiles = <<>>
    /\ outcome = "none"
    /\ runs = 0

\* the author writes or removes a source between two commands
Edit(s, content) ==
    /\ phase = "idle" /\ runs < MaxRuns
    /\ content # tmd[s]
    /\ tmd' = [tmd EXCEPT ![s] = content]
    /\ outcome' = "none"
    /\ UNCHANGED <<asm, obj, exe, phase, command, arg, lists, runs>>

Stop(result) == phase' = "idle" /\ outcome' = result

Invoke(args) ==
    /\ phase = "idle" /\ runs < MaxRuns
    /\ runs' = runs + 1
    /\ command' = args
    /\ arg' = 1
    /\ tmdFiles' = <<>> /\ asmFiles' = <<>> /\ objFiles' = <<>>
    /\ IF args = <<>> THEN Stop("usage") ELSE phase' = "args" /\ outcome' = "none"
    /\ UNCHANGED files

\* one round of the loop over argv
With(list, ext) == IF command[arg].ext = ext THEN Append(list, command[arg].stem) ELSE list
Classify ==
    /\ phase = "args"
    /\ IF arg > Len(command)
       THEN phase' = "compile" /\ UNCHANGED <<arg, lists, outcome>>
       ELSE /\ arg' = arg + 1
            /\ tmdFiles' = With(tmdFiles, "tmd")
            /\ asmFiles' = With(asmFiles, "asm")
            /\ objFiles' = With(objFiles, "obj")
            /\ IF command[arg].ext \in {"tmd", "asm", "obj"}
               THEN UNCHANGED <<phase, outcome>> ELSE Stop("usage")
    /\ UNCHANGED <<files, command, runs>>

-----------------------------------------------------------------------------
\* AstCall: where the call finds the function, in the file itself or in the first
\* import that has it
Imported(content, k) == Read(tmd[content.imports[k]])
Declaring(content, f) ==
    IF f \in DOMAIN content.funs THEN {content}
    ELSE {Imported(content, k) : k \in {j \in DOMAIN content.imports :
             /\ f \in DOMAIN Imported(content, j).funs
             /\ \A i \in 1 .. j - 1 : f \notin DOMAIN Imported(content, i).funs}}
Mutant_KnownName(content, call) == Declaring(content, call[1]) # {}
Admitted(content, call) ==
    \E d \in Declaring(content, call[1]) : d.funs[call[1]].params = call[2]
\* of an import only the declarations are read
Accepted(content) ==
    /\ content.ok /\ content.types
    /\ \A k \in DOMAIN content.imports : Imported(content, k).ok
    /\ \A f \in DOMAIN content.funs : \A c \in content.funs[f].calls : Admitted(content, c)

\* eliminate_dead_code: a file with a main keeps what main reaches, any other
\* file what its visible functions reach (a hidden function is one block here:
\* module DeadCode has the blocks)
Callees(content, S) == {f \in DOMAIN content.funs :
                           \E g \in S : \E c \in content.funs[g].calls : c[1] = f}
Closed(content, roots) ==
    {S \in SUBSET DOMAIN content.funs : roots \subseteq S /\ Callees(content, S) \subseteq S}
Reached(content, roots) ==
    {f \in DOMAIN content.funs : \A S \in Closed(content, roots) : f \in S}
Mutant_Roots(content) == {Main} \cap DOMAIN content.funs
Roots(content) == IF Main \in DOMAIN content.funs THEN {Main}
                  ELSE DOMAIN content.funs \ Hidden
Compiled(content) ==
    [Empty EXCEPT !.ok = content.encodes,
                  !.funs = Restrict(content.funs, Reached(content, Roots(content)))]

\* no file is a content of its own
ASSUME MissingAssumption ==
    \A c \in (UNION {Sources[s] : s \in Stems}) \cup {Empty} : Missing \notin {c, Compiled(c)}

\* one round of the loop over the .tmd files
CompileFile ==
    /\ phase = "compile"
    /\ IF tmdFiles = <<>>
       THEN phase' = "assemble" /\ UNCHANGED <<asm, lists, outcome>>
       ELSE LET s == Head(tmdFiles)
            IN  IF Accepted(Read(tmd[s]))
                THEN /\ asm' = [asm EXCEPT ![s] = Compiled(Read(tmd[s]))]
                     /\ asmFiles' = Append(asmFiles, s)
                     /\ tmdFiles' = Tail(tmdFiles)
                     /\ UNCHANGED <<objFiles, phase, outcome>>
                ELSE Stop("compile") /\ UNCHANGED <<asm, lists>>
    /\ UNCHANGED <<tmd, obj, exe, command, arg, runs>>

\* one round of the loop over the .asm files
Mutant_OnlyNew(s) == IF obj[s] # Missing THEN obj[s] ELSE Read(asm[s])
Assembled(s) == Read(asm[s])
AssembleFile ==
    /\ phase = "assemble"
    /\ IF asmFiles = <<>>
       THEN phase' = "link" /\ UNCHANGED <<obj, lists, outcome>>
       ELSE LET s == Head(asmFiles)
            IN  IF Read(asm[s]).ok
                THEN /\ obj' = [obj EXCEPT ![s] = Assembled(s)]
                     /\ objFiles' = Append(objFiles, s)
                     /\ asmFiles' = Tail(asmFiles)
                     /\ UNCHANGED <<tmdFiles, phase, outcome>>
                ELSE Stop("assemble") /\ UNCHANGED <<obj, lists>>
    /\ UNCHANGED <<tmd, asm, exe, command, arg, runs>>

\* Linker::link: the objects are a map by name, so one that is named twice is
\* there once; a missing one stops the linker where it reserves the buffer;
\* out.exe is written before the driver asks for errors
Calls(objects) == UNION {UNION {objects[s].funs[f].calls : f \in DOMAIN objects[s].funs} :
                            s \in DOMAIN objects}
Defines(object, f) == f \in DOMAIN object.funs
Link ==
    /\ phase = "link"
    /\ IF \E s \in Range(objFiles) : obj[s] = Missing
       THEN Stop("abort") /\ UNCHANGED exe
       ELSE /\ exe' = Restrict(obj, Range(objFiles))
            /\ Stop(IF \A c \in Calls(exe') : \E s \in DOMAIN exe' : Defines(exe'[s], c[1])
                    THEN "ok" ELSE "link")
    /\ UNCHANGED <<tmd, asm, obj, command, arg, lists, runs>>

\* the process dies between two files: a failed assertion, a trap in constant
\* folding, the user; nothing it knew survives but the files
Die ==
    /\ phase # "idle"
    /\ Stop("died")
    /\ UNCHANGED <<files, command, arg, lists, runs>>

Next ==
    \/ \E s \in Stems : \E c \in Sources[s] \cup {Missing} : Edit(s, c)
    \/ \E args \in Commands : Invoke(args)
    \/ Classify
    \/ CompileFile
    \/ AssembleFile
    \/ Link
    \/ Die

Spec == Init /\ [][Next]_vars

-----------------------------------------------------------------------------
(* Properties *)

Named(ext) == {a.stem : a \in {b \in Range(command) : b.ext = ext}}
AllNamed == Named("tmd") \cup Named("asm") \cup Named("obj")
\* the files of the command are sources, and so are those they import
FromSources ==
    /\ Named("asm") \cup Named("obj") = {}
    /\ \A s \in Named("tmd") : Range(Read(tmd[s]).imports) \subseteq Named("tmd")

\* After a command that succeeds out.exe consists of exactly the files it names,
\* each made from its newest version, whatever older commands left behind: the
\* .tmd file if it was named, else the .asm file, else the .obj file; and no
\* file with an error is in it.
Newest(s) == IF s \in Named("tmd") THEN Compiled(Read(tmd[s]))
             ELSE IF s \in Named("asm") THEN Read(asm[s]) ELSE obj[s]
SuccessIsCurrent ==
    outcome = "ok" => /\ exe = [s \in AllNamed |-> Newest(s)]
                      /\ \A s \in Named("tmd") : Accepted(Read(tmd[s]))
                      /\ \A s \in AllNamed : exe[s].ok

\* Limit: a file with a main loses the functions main does not reach, and any
\* other file its unused hidden ones, also when other files call them.
LostToOthers(f) ==
    \/ f \in Hidden
    \/ \E s \in Named("tmd") : {Main, f} \subseteq DOMAIN Read(tmd[s]).funs

\* Objects carry no signatures.  What is built from sources together with its
\* imports still agrees: a call passes as many arguments as the function that
\* it is linked to has parameters, if no other file defines that function.
CallsMatch ==
    outcome = "ok" /\ FromSources =>
        \A c \in Calls(exe) : \A s \in DOMAIN exe :
            {r \in DOMAIN exe : Defines(exe[r], c[1])} = {s} /\ ~LostToOthers(c[1])
                => exe[s].funs[c[1]].params = c[2]

\* What the compiler accepts the linker can link: a call that was checked
\* against the declarations of an import finds its function.
FunctionsFound ==
    outcome = "link" /\ FromSources =>
        \E c \in Calls(exe) : LostToOthers(c[1]) /\ \A s \in DOMAIN exe : ~Defines(exe[s], c[1])
=============================================================================
