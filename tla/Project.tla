------------------------------ MODULE Project ------------------------------
(***************************************************************************)
(* What a launch makes of a project before it starts the JVM: the build,   *)
(* the source roots, the main class, the class path, and the source map    *)
(* that the breakpoints and the snapshots rest on.                         *)
(*                                                                         *)
(* The steps run one after the other.  What is not fixed is the project,   *)
(* what the build prints, and the order in which directories are listed.   *)
(* A package is an atom; a directory is named by the package it mirrors.   *)
(***************************************************************************)
EXTENDS Naturals, Sequences, SequencesExt, Functions

CONSTANTS
    Projects,       \* the projects a launch may meet
    DefaultPackage, \* the package of a file that declares none
    NoFile,         \* "no file"
    Outputs         \* what a failing build may print: sequences of LineKinds

\* Lines of gradle's output; a compiler error has one of the known patterns.
LineKinds == {"compilerError", "other", "blank"}
ASSUME OutputsAssumption == Outputs \subseteq Seq(LineKinds)

\* A source file is [root, dir, stem, lang, text, utf8]: a line of its text is
\* [is, package], and `utf8` says whether read_to_string can read it.  A class
\* file is [name, source, of]: its class, its SourceFile attribute, if any, and
\* the source file it was compiled from, as it was then.  A project is
\* [buildFiles, files, roots, dirs, explicit]: its gradle files, source files,
\* source roots and class directories in the order they are listed, and whether
\* the editor names the main class.
Languages == {"java", "groovy", "kt"}

IsNamed(file, source) == file.stem = source.stem /\ file.lang = source.lang

\* The package a file belongs to, as a compiler sees it: `package` may follow
\* comments, annotations and whatever else the language allows.
PackageLines(file) == {i \in DOMAIN file.text : file.text[i].is = "package"}
Declared(file) ==
    IF PackageLines(file) = {} THEN DefaultPackage
    ELSE file.text[CHOOSE i \in PackageLines(file) : TRUE].package

\* A file declares one package at most.  A compiler puts a class into the package
\* that its file declares, and names the file in SourceFile.
ASSUME ProjectsAssumption ==
    \A p \in Projects :
        /\ p.roots \in Seq(Range(p.roots))
        /\ \A f \in p.files : /\ f.lang \in Languages
                              /\ \A i, j \in PackageLines(f) : i = j
        /\ \A i \in DOMAIN p.dirs : \A c \in p.dirs[i] :
               c.source # NoFile => /\ IsNamed(c.of, c.source)
                                    /\ Declared(c.of) = c.name.package

VARIABLES
    project,        \* never changes
    pc,             \* the step of do_launch
    errors,         \* BuildResult::errors
    candidate,      \* the source file of the main class that was found
    mainClass,      \* the name of the main class
    unread,         \* class files not yet read, per class directory
    byClass,        \* SourceMap::by_class
    bySource        \* SourceMap::by_source

mapVars == <<byClass, bySource>>
vars == <<project, pc, errors, candidate, mainClass, unread, mapVars>>

Init ==
    /\ project \in Projects
    /\ pc = "build" /\ errors = <<>>
    /\ candidate = NoFile /\ mainClass = "explicit"
    /\ unread = project.dirs
    /\ byClass = <<>> /\ bySource = <<>>

-----------------------------------------------------------------------------
(* Build tools.                                                            *)

\* get_build_tool: without one of gradle's files there is nothing to run.
UsesGradle == project.buildFiles # {}

\* The lines that look like compiler errors, of both streams; without any, all
\* that is on stdout.
ErrorsOf(stdout, stderr) ==
    LET found == SelectSeq(stdout \o stderr, LAMBDA l : l = "compilerError")
    IN  IF found # <<>> THEN found
        ELSE SelectSeq(stdout, LAMBDA l : l # "blank")

Build ==
    /\ pc = "build"
    /\ \/ /\ pc' = "roots"
          /\ UNCHANGED errors
       \/ /\ UsesGradle
          /\ \E stdout, stderr \in Outputs : errors' = ErrorsOf(stdout, stderr)
          /\ pc' = "failed"
    /\ UNCHANGED <<project, candidate, mainClass, unread, mapVars>>

\* Gradle may not run, or its query may fail; nothing else can.
GradleFails ==
    /\ UsesGradle /\ pc \in {"build", "roots", "classpath"}
    /\ pc' = "failed"
    /\ UNCHANGED <<project, errors, candidate, mainClass, unread, mapVars>>

\* The source roots are project.roots.
GetSourceRoots ==
    /\ pc = "roots"
    /\ pc' = IF project.explicit THEN "classpath" ELSE "main"
    /\ UNCHANGED <<project, errors, candidate, mainClass, unread, mapVars>>

-----------------------------------------------------------------------------
(* The main class.                                                         *)

\* The lines that has_java_main, has_groovy_main and has_kotlin_main look for.
MainLines == [java |-> {"publicStaticVoidMain"},
              groovy |-> {"publicStaticVoidMain", "staticMain"},
              kt |-> {"funMain"}]

HasMain(file) == \E i \in DOMAIN file.text : file.text[i].is \in MainLines[file.lang]

\* Mutant of Fqn: the path of the file within the root is left out.
FqnOfStem(file) == [package |-> DefaultPackage, class |-> <<file.stem>>]
\* derive_fqn: the directory and the stem of the file, whatever it declares.
Fqn(file) == [package |-> file.dir, class |-> <<file.stem>>]

FilesIn(root) == {f \in project.files : f.root = root}

\* The files of the first root, in order, that has one with property P.
InFirstRoot(P) ==
    LET has(i) == \E f \in FilesIn(project.roots[i]) : f \in P
        first  == {i \in DOMAIN project.roots :
                      has(i) /\ \A j \in 1 .. i - 1 : ~has(j)}
    IN  UNION {FilesIn(project.roots[i]) \cap P : i \in first}

InRoots(file) == file \in project.files /\ file.root \in Range(project.roots)

\* The first candidate is launched; read_dir may list any file of a root first.
\* All files are read, and one that cannot be fails the launch.
FindMain ==
    /\ pc = "main"
    /\ LET mains == InFirstRoot({f \in project.files : HasMain(f)})
           unreadable == {f \in project.files : InRoots(f) /\ ~f.utf8} IN
       \/ /\ mains = {} \/ unreadable # {}
          /\ pc' = "failed"
          /\ UNCHANGED <<candidate, mainClass>>
       \/ \E f \in mains :
              /\ unreadable = {}
              /\ candidate' = f
              /\ mainClass' = Fqn(f)
              /\ pc' = "classpath"
    /\ UNCHANGED <<project, errors, unread, mapVars>>

\* The class path has jars, too, but only its directories are searched.
GetClasspath ==
    /\ pc = "classpath"
    /\ pc' = "map"
    /\ UNCHANGED <<project, errors, candidate, mainClass, unread, mapVars>>

-----------------------------------------------------------------------------
(* The source map.                                                         *)

\* strip_inner_suffix and package_dir_of: all that is used of a class name.
PackageOf(name) == name.package

\* Line i declares the package, and follows none but blank lines and comments.
LeadsWith(file, i) ==
    /\ i \in PackageLines(file)
    /\ \A j \in 1 .. i - 1 : file.text[j].is \in {"blank", "comment"}

\* file_package_matches: the first line that is neither blank nor a comment
\* declares the package, or it declares none and the default one is sought.
PackageMatches(file, package) ==
    /\ file.utf8
    /\ \/ \E i \in DOMAIN file.text :
              LeadsWith(file, i) /\ file.text[i].package = package
       \/ /\ ~\E i \in DOMAIN file.text : LeadsWith(file, i)
          /\ package = DefaultPackage

\* Mutant of Matches: files are only compared by name.
MatchesName(file, c) == IsNamed(file, c.source)
\* Is this a file resolve_source may find for class file c?
Matches(file, c) ==
    /\ IsNamed(file, c.source)
    /\ IF file.lang = "java" THEN file.dir = PackageOf(c.name)
       ELSE PackageMatches(file, PackageOf(c.name))

Resolved(c) == InFirstRoot({f \in project.files : Matches(f, c)})

\* Mutant of Insert: a source file keeps only the last of its classes.
InsertOne(name, file) ==
    /\ bySource' = [s \in DOMAIN bySource \cup {file} |->
                       IF s = file THEN <<name>> ELSE bySource[s]]
    /\ byClass' = [n \in DOMAIN byClass \cup {name} |->
                       IF n = name THEN file ELSE byClass[n]]
Insert(name, file) ==
    /\ bySource' = [s \in DOMAIN bySource \cup {file} |->
                       IF s # file THEN bySource[s]
                       ELSE IF s \in DOMAIN bySource
                            THEN Append(bySource[s], name) ELSE <<name>>]
    /\ byClass' = [n \in DOMAIN byClass \cup {name} |->
                       IF n = name THEN file ELSE byClass[n]]

\* The next class file of the first directory that has any left.
CollectClass(c) ==
    /\ pc = "map"
    /\ \E i \in DOMAIN unread :
           /\ c \in unread[i] /\ \A j \in 1 .. i - 1 : unread[j] = {}
           /\ unread' = [unread EXCEPT ![i] = @ \ {c}]
    /\ IF c.source = NoFile \/ Resolved(c) = {} THEN UNCHANGED mapVars
       ELSE \E f \in Resolved(c) : Insert(c.name, f)
    /\ UNCHANGED <<project, pc, errors, candidate, mainClass>>

\* launcher::launch follows: see module Session.
Launch ==
    /\ pc = "map" /\ \A i \in DOMAIN unread : unread[i] = {}
    /\ pc' = "launched"
    /\ UNCHANGED <<project, errors, candidate, mainClass, unread, mapVars>>

Next == \/ Build \/ GradleFails \/ GetSourceRoots \/ FindMain \/ GetClasspath
        \/ \E c \in UNION Range(unread) : CollectClass(c)
        \/ Launch

Spec == Init /\ [][Next]_vars

-----------------------------------------------------------------------------
(* Properties.                                                             *)

ClassFiles == UNION Range(project.dirs)

\* There is one class file of this class, in one directory.
Once(c) ==
    \A i, j \in DOMAIN project.dirs :
        \A d \in project.dirs[i], e \in project.dirs[j] :
            d.name = c.name /\ e.name = c.name => i = j /\ d = e

CompiledOnce == \A c \in ClassFiles : Once(c)

\* The two halves of the map agree: the file of a class lists it, once, and a
\* class that is listed has that file - or setBreakpoints, which asks for the
\* classes of a file, and ClassPrepare, which asks for the file of a class,
\* install different breakpoints.  Classes that were compiled twice, left over
\* in a second directory, are listed in both files.
MapIsTwoWay ==
    /\ \A n \in DOMAIN byClass :
           byClass[n] \in DOMAIN bySource /\ n \in Range(bySource[byClass[n]])
    /\ CompiledOnce => \A s \in DOMAIN bySource :
           /\ IsInjective(bySource[s])
           /\ \A n \in Range(bySource[s]) : n \in DOMAIN byClass /\ byClass[n] = s

\* A file that resolve_source knows where to look for: a Java file lies in the
\* directory of its package, any other is UTF-8 and declares its package before
\* anything but comments.  The languages ask for neither: a Kotlin file may begin
\* with an annotation, and a comment may have lines that do not look like one.
InPlace(file) ==
    IF file.lang = "java" THEN file.dir = Declared(file)
    ELSE /\ file.utf8
         /\ \A i \in PackageLines(file) : \A j \in 1 .. i - 1 :
                file.text[j].is \in {"blank", "comment"}

\* No other file of the name of c's could be taken for it: each is in place and
\* of another package.
Distinct(c) ==
    \A f \in project.files : InRoots(f) /\ IsNamed(f, c.source) /\ f # c.of =>
        InPlace(f) /\ Declared(f) # c.name.package

\* The map is true: a class is never taken to be of another file than the one it
\* was compiled from, whatever namesakes that has in other packages; not even
\* one whose file was moved, deleted or edited since.  And it is complete: a
\* class whose file is still there, and in place, has it.  Two cases are left
\* out: a class that was compiled twice, of which the JVM loads the first and
\* the map has the last; and a file with a namesake in its own package, or in
\* one that is not in place.
MapIsTrue ==
    \A i \in DOMAIN project.dirs : \A c \in project.dirs[i] \ unread[i] :
        Once(c) =>
            /\ c.name \in DOMAIN byClass =>
                   c.source # NoFile /\ (Distinct(c) => byClass[c.name] = c.of)
            /\ c.source # NoFile /\ InRoots(c.of) /\ InPlace(c.of) =>
                   c.name \in DOMAIN byClass

\* A main class that gradle built and the server found does exist, if its file
\* is in the directory of its package (derive_fqn trusts that it is) and
\* has a class of its name; not so in Kotlin, whose top-level functions
\* are compiled to another class than main_class.rs:126 assumes.
MainClassExists ==
    /\ pc = "launched" /\ UsesGradle
    /\ candidate # NoFile /\ candidate.lang # "kt"
    /\ Declared(candidate) = candidate.dir
    => \E c \in ClassFiles : c.name = mainClass /\ c.of = candidate

=============================================================================
