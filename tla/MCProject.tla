----------------------------- MODULE MCProject -----------------------------
(* Small projects for TLC: every set of eight source files, built by gradle  *)
(* or not at all, with what is left over of an earlier build.              *)
EXTENDS Project, TLC

CONSTANTS P, Q      \* two packages

Package(p) == [is |-> "package", package |-> p]
Line(kind) == [is |-> kind, package |-> DefaultPackage]
File(root, dir, stem, lang, text) ==
    [root |-> root, dir |-> dir, stem |-> stem, lang |-> lang, text |-> text,
     utf8 |-> stem # "Latin"]

\* In the directory of its package, after a comment; and without a package.
Main    == File("java", P, "Main", "java",
                <<Line("comment"), Package(P), Line("publicStaticVoidMain")>>)
Tool    == File("java", DefaultPackage, "Tool", "java", <<Line("code")>>)
\* A Java file of that name in the directory of another package than its own.
Odd     == File("kotlin", P, "Tool", "java",
                <<Package(Q), Line("publicStaticVoidMain")>>)
\* Two Kotlin files of one name, outside the directories of their packages.
UtilP   == File("kotlin", DefaultPackage, "Util", "kt",
                <<Line("blank"), Package(P), Line("funMain")>>)
UtilQ   == File("kotlin", P, "Util", "kt", <<Package(Q), Line("code")>>)
\* An annotation before the package.
UtilA   == File("kotlin", Q, "Named", "kt", <<Line("annotation"), Package(P)>>)
Script  == File("groovy", Q, "Script", "groovy", <<Package(Q), Line("staticMain")>>)

\* Not in UTF-8.
Latin   == File("groovy", Q, "Latin", "groovy", <<Package(Q), Line("code")>>)

\* What the compilers make of a file: Kotlin's top-level functions are a class
\* of their own name.  Two classes have a nested class.
ClassFile(f, class) ==
    [name |-> [package |-> Declared(f), class |-> class],
     source |-> [stem |-> f.stem, lang |-> f.lang], of |-> f]
Compiled(f) == LET outer == IF f.lang = "kt" THEN <<f.stem, "Kt">> ELSE <<f.stem>>
               IN  {ClassFile(f, outer)} \cup
                       {ClassFile(g, outer \o <<"Inner">>) : g \in {f} \cap {Main, UtilP}}
CompiledAll(fs) == UNION {Compiled(f) : f \in fs}

\* A class without a SourceFile attribute, and the classes of Main as they were
\* when Main was written in Kotlin, in another Util.
Bare     == [name |-> [package |-> P, class |-> <<"Bare">>], source |-> NoFile,
             of |-> NoFile]
OldUtil  == File("kotlin", Q, "Util", "kt", <<Package(P)>>)
Leftover == {ClassFile(OldUtil, <<"Main">>), ClassFile(OldUtil, <<"Main", "Inner">>)}

MCProjects ==
    LET files == SUBSET {Main, Tool, Odd, UtilP, UtilQ, UtilA, Script, Latin}
        built(fs) == [buildFiles : {{"build.gradle"}}, files : {fs},
                      roots : {<<"java", "kotlin", "groovy">>, <<"kotlin", "java">>},
                      dirs : {<<CompiledAll(fs) \cup {Bare}>>}, explicit : BOOLEAN]
        found(fs) == [buildFiles : {{}}, files : {fs},
                      roots : {<<"java", "groovy", "kotlin">>},
                      dirs : {<<CompiledAll(fs), Leftover>>}, explicit : {TRUE}]
    IN  UNION {built(fs) \cup found(fs) : fs \in files}

MCOutputs == {<<>>, <<"other", "blank">>, <<"other", "compilerError">>}
=============================================================================
