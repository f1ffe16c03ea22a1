--------------------------- MODULE ProjectProofs ---------------------------
(***************************************************************************)
(* Theorems about module Project, for any projects, of any size: the two   *)
(* halves of the source map agree, and the map is true.                    *)
(***************************************************************************)
EXTENDS Project, SequenceTheorems, WellFoundedInduction, TLAPS

-----------------------------------------------------------------------------
(* The inductive invariants.                                               *)

\* The class files that have been read.
ReadFrom(i) == project.dirs[i] \ unread[i]

\* Class files are taken from the project; a class in the map has been read.
Reading ==
    /\ project \in Projects
    /\ DOMAIN unread = DOMAIN project.dirs
    /\ \A i \in DOMAIN unread : unread[i] \subseteq project.dirs[i]
    /\ \A n \in DOMAIN byClass : \E i \in DOMAIN unread :
           \E c \in ReadFrom(i) : c.name = n

Lists == \A s \in DOMAIN bySource : bySource[s] \in Seq(Range(bySource[s]))

TwoWayInv == Reading /\ Lists /\ MapIsTwoWay

\* The file a class is mapped to is one that was found for the last class file of
\* that class; and each class for which one is found is mapped.
FoundInv ==
    /\ \A n \in DOMAIN byClass : \E i \in DOMAIN unread : \E c \in ReadFrom(i) :
           c.name = n /\ c.source # NoFile /\ byClass[n] \in Resolved(c)
    /\ \A i \in DOMAIN unread : \A c \in ReadFrom(i) :
           c.source # NoFile /\ Resolved(c) # {} => c.name \in DOMAIN byClass

TrueInv == Reading /\ FoundInv

-----------------------------------------------------------------------------
(* Reading a class file.                                                   *)

\* A set of numbers that is not empty has a least one.
LEMMA LeastNat ==
    ASSUME NEW T, T \subseteq Nat, T # {}
    PROVE  \E x \in T : \A y \in T : x <= y
<1>1. IsWellFoundedOn(OpToRel(<, Nat), Nat)
  BY NatLessThanWellFounded
<1>2. PICK x \in T : \A y \in T : ~(<<y, x>> \in OpToRel(<, Nat))
  BY <1>1, WFMin
<1>3. ASSUME NEW y \in T PROVE x <= y
  <2>1. x \in Nat /\ y \in Nat
    OBVIOUS
  <2>2. ~(y < x)
    BY <1>2, <2>1 DEF OpToRel
  <2> QED
    BY <2>1, <2>2
<1> QED
  BY <1>3

\* The class file was not read before, and is now; nothing else changes.
LEMMA ReadsOne ==
    ASSUME Reading, NEW c, CollectClass(c)
    PROVE  \E i \in DOMAIN unread :
               /\ c \in unread[i] /\ c \in ReadFrom(i)'
               /\ DOMAIN unread' = DOMAIN unread /\ project' = project
               /\ \A j \in DOMAIN unread :
                      /\ unread'[j] \subseteq project.dirs[j]
                      /\ ReadFrom(j) \subseteq ReadFrom(j)'
                      /\ ReadFrom(j)' \subseteq ReadFrom(j) \cup (IF j = i THEN {c} ELSE {})
<1>1. project' = project
  BY DEF CollectClass
<1>2. PICK i \in DOMAIN unread :
          c \in unread[i] /\ unread' = [unread EXCEPT ![i] = @ \ {c}]
  BY DEF CollectClass
<1>3. DOMAIN unread' = DOMAIN unread
  BY <1>2
<1>4. /\ unread'[i] = unread[i] \ {c}
      /\ \A j \in DOMAIN unread : j # i => unread'[j] = unread[j]
  BY <1>2
<1>5. c \in project.dirs[i]
  BY <1>2 DEF Reading
<1> QED
  BY <1>1, <1>2, <1>3, <1>4, <1>5 DEF Reading, ReadFrom

\* No class of that name is in the map yet, if each was compiled once.
LEMMA NotYet ==
    ASSUME Reading, CompiledOnce, NEW c, NEW i \in DOMAIN unread, c \in unread[i]
    PROVE  c.name \notin DOMAIN byClass
<1>1. SUFFICES ASSUME c.name \in DOMAIN byClass PROVE FALSE
  OBVIOUS
<1>2. PICK j \in DOMAIN unread : \E d \in ReadFrom(j) : d.name = c.name
  BY <1>1 DEF Reading
<1>3. PICK d \in ReadFrom(j) : d.name = c.name
  BY <1>2
<1>4. c \in project.dirs[i] /\ d \in project.dirs[j] /\ DOMAIN unread = DOMAIN project.dirs
  BY <1>3 DEF Reading, ReadFrom
<1>5. i = j /\ c = d
  BY <1>3, <1>4 DEF CompiledOnce, Once, ClassFiles, Range
<1> QED
  BY <1>3, <1>5 DEF ReadFrom

\* A class that is added to the map has been read.
LEMMA StillRead ==
    ASSUME Reading, NEW c, CollectClass(c),
           DOMAIN byClass' \subseteq DOMAIN byClass \cup {c.name}
    PROVE  Reading'
<1>1. PICK i \in DOMAIN unread :
          /\ c \in unread[i] /\ c \in ReadFrom(i)'
          /\ DOMAIN unread' = DOMAIN unread /\ project' = project
          /\ \A j \in DOMAIN unread :
                 /\ unread'[j] \subseteq project.dirs[j]
                 /\ ReadFrom(j) \subseteq ReadFrom(j)'
  BY ReadsOne
<1>2. ASSUME NEW n \in DOMAIN byClass'
      PROVE  \E j \in DOMAIN unread' : \E d \in ReadFrom(j)' : d.name = n
  <2>1. CASE n = c.name
    BY <1>1, <2>1
  <2>2. CASE n \in DOMAIN byClass
    <3>1. PICK j \in DOMAIN unread : \E d \in ReadFrom(j) : d.name = n
      BY <2>2 DEF Reading
    <3> QED
      BY <1>1, <3>1
  <2> QED
    BY <2>1, <2>2
<1> QED
  BY <1>1, <1>2 DEF Reading

-----------------------------------------------------------------------------
(* Both halves of the map.                                                 *)

\* What Insert makes of the map.
LEMMA InsertDoes ==
    ASSUME Lists, NEW name, NEW file, Insert(name, file)
    PROVE  /\ DOMAIN byClass' = DOMAIN byClass \cup {name}
           /\ byClass'[name] = file
           /\ \A n \in DOMAIN byClass : n # name => byClass'[n] = byClass[n]
           /\ DOMAIN bySource' = DOMAIN bySource \cup {file}
           /\ \A s \in DOMAIN bySource : s # file => bySource'[s] = bySource[s]
           /\ IF file \in DOMAIN bySource
              THEN bySource'[file] = Append(bySource[file], name)
              ELSE bySource'[file] = <<name>>
BY DEF Insert

\* A sequence with one more element.
LEMMA OneMore ==
    ASSUME NEW s, s \in Seq(Range(s)), NEW e
    PROVE  /\ Append(s, e) \in Seq(Range(Append(s, e)))
           /\ Range(Append(s, e)) = Range(s) \cup {e}
           /\ IsInjective(s) /\ e \notin Range(s) => IsInjective(Append(s, e))
<1> DEFINE S == Range(s) \cup {e}
           a == Append(s, e)
<1>1. /\ s \in Seq(S) /\ Len(s) \in Nat
      /\ DOMAIN s = 1 .. Len(s)
  OBVIOUS
<1>2. /\ a \in Seq(S) /\ Len(a) = Len(s) + 1
      /\ DOMAIN a = 1 .. Len(s) + 1
      /\ \A i \in 1 .. Len(s) : a[i] = s[i]
      /\ a[Len(s) + 1] = e
  BY <1>1, AppendProperties
<1>3. a \in Seq(Range(a))
  BY <1>2, SeqOfRange DEF Range
<1>4. Range(a) = Range(s) \cup {e}
  <2> HIDE DEF a
  <2>1. DOMAIN a = DOMAIN s \cup {Len(s) + 1}
    BY <1>1, <1>2
  <2> QED
    BY <1>1, <1>2, <2>1 DEF Range
<1>5. ASSUME IsInjective(s), e \notin Range(s) PROVE IsInjective(a)
  <2> HIDE DEF a
  <2> SUFFICES ASSUME NEW i \in 1 .. Len(s) + 1, NEW j \in 1 .. Len(s) + 1, a[i] = a[j]
               PROVE  i = j
    BY <1>2 DEF IsInjective
  <2>1. \A k \in 1 .. Len(s) : a[k] \in Range(s)
    BY <1>1, <1>2 DEF Range
  <2>2. CASE i \in 1 .. Len(s) /\ j \in 1 .. Len(s)
    BY <1>1, <1>2, <1>5, <2>2 DEF IsInjective
  <2> QED
    BY <1>1, <1>2, <1>5, <2>1, <2>2
<1> QED
  BY <1>3, <1>4, <1>5

LEMMA JustOne ==
    ASSUME NEW e
    PROVE  /\ <<e>> \in Seq(Range(<<e>>)) /\ Range(<<e>>) = {e}
           /\ IsInjective(<<e>>)
BY DEF Range, IsInjective

\* The list of a file, after one class of it has been added.
LEMMA ListAfter ==
    ASSUME Lists, NEW name, NEW file, Insert(name, file)
    PROVE  /\ Lists'
           /\ \A s \in DOMAIN bySource : Range(bySource[s]) \subseteq Range(bySource'[s])
           /\ name \in Range(bySource'[file])
           /\ \A s \in DOMAIN bySource' : \A n \in Range(bySource'[s]) :
                  \/ n = name /\ s = file
                  \/ s \in DOMAIN bySource /\ n \in Range(bySource[s])
           /\ \A s \in DOMAIN bySource' :
                  \/ s = file /\ s \notin DOMAIN bySource /\ IsInjective(bySource'[s])
                  \/ /\ s \in DOMAIN bySource
                     /\ IsInjective(bySource[s]) /\ (s = file => name \notin Range(bySource[s]))
                            => IsInjective(bySource'[s])
<1>1. /\ DOMAIN bySource' = DOMAIN bySource \cup {file}
      /\ \A s \in DOMAIN bySource : s # file => bySource'[s] = bySource[s]
  <2>1. DOMAIN bySource' = DOMAIN bySource \cup {file}
    BY InsertDoes
  <2>2. \A s \in DOMAIN bySource : s # file => bySource'[s] = bySource[s]
    BY DEF Insert
  <2> QED
    BY <2>1, <2>2
<1>2. CASE file \in DOMAIN bySource
  <2> DEFINE old == bySource[file]
             new == bySource'[file]
  <2>1. new = Append(old, name)
    BY <1>2, InsertDoes
  <2>2. old \in Seq(Range(old))
    BY <1>2 DEF Lists
  <2>3. /\ new \in Seq(Range(new)) /\ Range(new) = Range(old) \cup {name}
        /\ IsInjective(old) /\ name \notin Range(old) => IsInjective(new)
    <3> HIDE DEF old, new
    <3> QED
      BY <2>1, <2>2, OneMore
  <2>4. Lists'
    BY <1>1, <1>2, <2>3 DEF Lists
  <2> QED
    BY <1>1, <1>2, <2>3, <2>4
<1>3. CASE file \notin DOMAIN bySource
  <2>1. bySource'[file] = <<name>>
    BY <1>3, InsertDoes
  <2>2. /\ bySource'[file] \in Seq(Range(bySource'[file]))
        /\ Range(bySource'[file]) = {name} /\ IsInjective(bySource'[file])
    BY <2>1, JustOne
  <2>3. Lists'
    BY <1>1, <1>3, <2>2 DEF Lists
  <2>4. \A s \in DOMAIN bySource : s # file /\ bySource'[s] = bySource[s]
    BY <1>1, <1>3
  <2>5. \A s \in DOMAIN bySource' : s = file \/ s \in DOMAIN bySource
    BY <1>1
  <2> QED
    BY <1>3, <2>2, <2>3, <2>4, <2>5
<1> QED
  BY <1>2, <1>3

LEMMA TwoWayInsert ==
    ASSUME TwoWayInv, NEW c, CollectClass(c), NEW file, Insert(c.name, file)
    PROVE  TwoWayInv'
<1> USE DEF TwoWayInv
<1>1. /\ DOMAIN byClass' = DOMAIN byClass \cup {c.name}
      /\ byClass'[c.name] = file
      /\ \A n \in DOMAIN byClass : n # c.name => byClass'[n] = byClass[n]
      /\ DOMAIN bySource' = DOMAIN bySource \cup {file}
  BY InsertDoes
<1>2. Reading'
  BY <1>1, StillRead
<1>3. /\ Lists'
      /\ \A s \in DOMAIN bySource : Range(bySource[s]) \subseteq Range(bySource'[s])
      /\ c.name \in Range(bySource'[file])
  BY ListAfter
<1>4. ASSUME NEW n \in DOMAIN byClass'
      PROVE  byClass'[n] \in DOMAIN bySource' /\ n \in Range(bySource'[byClass'[n]])
  BY <1>1, <1>3 DEF MapIsTwoWay
<1>5. ASSUME CompiledOnce'
      PROVE  \A s \in DOMAIN bySource' :
                 /\ IsInjective(bySource'[s])
                 /\ \A n \in Range(bySource'[s]) : n \in DOMAIN byClass' /\ byClass'[n] = s
  <2>1. CompiledOnce
    <3>1. project' = project
      BY DEF CollectClass
    <3> QED
      BY <1>5, <3>1 DEF CompiledOnce, Once, ClassFiles
  <2>2. c.name \notin DOMAIN byClass
    <3>1. PICK i \in DOMAIN unread : c \in unread[i]
      BY ReadsOne
    <3> QED
      BY <2>1, <3>1, NotYet
  <2>3. \A s \in DOMAIN bySource :
            /\ IsInjective(bySource[s])
            /\ \A n \in Range(bySource[s]) : n \in DOMAIN byClass /\ byClass[n] = s
    BY <2>1 DEF MapIsTwoWay
  <2>4. \A s \in DOMAIN bySource : c.name \notin Range(bySource[s])
    BY <2>2, <2>3
  <2>5. ASSUME NEW s \in DOMAIN bySource', NEW n \in Range(bySource'[s])
        PROVE  n \in DOMAIN byClass' /\ byClass'[n] = s
    <3>1. \/ n = c.name /\ s = file
          \/ s \in DOMAIN bySource /\ n \in Range(bySource[s])
      BY ListAfter
    <3> QED
      BY <1>1, <2>2, <2>3, <3>1
  <2>6. ASSUME NEW s \in DOMAIN bySource' PROVE IsInjective(bySource'[s])
    <3>1. \/ s = file /\ s \notin DOMAIN bySource /\ IsInjective(bySource'[s])
          \/ /\ s \in DOMAIN bySource
             /\ IsInjective(bySource[s]) /\ (s = file => c.name \notin Range(bySource[s]))
                    => IsInjective(bySource'[s])
      BY ListAfter
    <3> QED
      BY <2>3, <2>4, <3>1
  <2> QED
    BY <2>5, <2>6
<1>6. MapIsTwoWay'
  BY <1>4, <1>5 DEF MapIsTwoWay
<1> QED
  BY <1>2, <1>3, <1>6

\* A class file without a source that can be found leaves the map alone.
LEMMA TwoWaySkip ==
    ASSUME TwoWayInv, NEW c, CollectClass(c), UNCHANGED mapVars
    PROVE  TwoWayInv'
<1>1. UNCHANGED <<project, byClass, bySource>>
  BY DEF CollectClass, mapVars
<1>2. Reading'
  BY <1>1, StillRead DEF TwoWayInv
<1> QED
  BY <1>1, <1>2 DEF TwoWayInv, Lists, MapIsTwoWay, CompiledOnce, Once, ClassFiles

\* Whatever the step reads or writes otherwise, it is not the map.
LEMMA OtherSteps ==
    ASSUME [Next]_vars, ~\E c \in UNION Range(unread) : CollectClass(c)
    PROVE  UNCHANGED <<project, unread, byClass, bySource>>
BY DEF Next, vars, mapVars, Build, GradleFails, GetSourceRoots, FindMain, GetClasspath,
       Launch

LEMMA TwoWayNext ==
    ASSUME TwoWayInv, [Next]_vars
    PROVE  TwoWayInv'
<1>1. CASE \E c \in UNION Range(unread) : CollectClass(c)
  <2>1. PICK c \in UNION Range(unread) : CollectClass(c)
    BY <1>1
  <2>2. CASE UNCHANGED mapVars
    BY <2>1, <2>2, TwoWaySkip
  <2>3. CASE \E f \in Resolved(c) : Insert(c.name, f)
    BY <2>1, <2>3, TwoWayInsert
  <2> QED
    BY <2>1, <2>2, <2>3 DEF CollectClass
<1>2. CASE ~\E c \in UNION Range(unread) : CollectClass(c)
  <2>1. UNCHANGED <<project, unread, byClass, bySource>>
    BY <1>2, OtherSteps
  <2> QED
    BY <2>1 DEF TwoWayInv, Reading, ReadFrom, Lists, MapIsTwoWay, CompiledOnce, Once, ClassFiles
<1> QED
  BY <1>1, <1>2

\* At first the map is empty.
LEMMA TwoWayInit == Init => TwoWayInv
<1> SUFFICES ASSUME Init PROVE TwoWayInv
  OBVIOUS
<1>1. DOMAIN byClass = {} /\ DOMAIN bySource = {}
  BY DEF Init
<1> QED
  BY <1>1 DEF Init, TwoWayInv, Reading, Lists, MapIsTwoWay

\* The classes that setBreakpoints finds for a file are those that ClassPrepare
\* finds that file for (source_map.rs:26 and :31), however directories are listed.
THEOREM MapTwoWay == Spec => []MapIsTwoWay
<1>1. TwoWayInv /\ [Next]_vars => TwoWayInv'
  BY TwoWayNext
<1>2. TwoWayInv => MapIsTwoWay
  BY DEF TwoWayInv
<1> QED
  BY <1>1, <1>2, TwoWayInit, PTL DEF Spec

-----------------------------------------------------------------------------
(* The truth of the map.                                                   *)

\* The files found lie in a root, and are among those sought.
LEMMA FoundInRoot ==
    ASSUME NEW P, NEW f \in InFirstRoot(P)
    PROVE  f \in P /\ f \in project.files /\ f.root \in Range(project.roots)
<1>1. PICK i \in DOMAIN project.roots : f \in FilesIn(project.roots[i]) \cap P
  BY DEF InFirstRoot
<1> QED
  BY <1>1 DEF FilesIn, Range

\* If there is one in any root, there is one in the first that has any.
LEMMA FoundIfThere ==
    ASSUME project \in Projects, NEW P, NEW f \in P,
           f \in project.files, f.root \in Range(project.roots)
    PROVE  InFirstRoot(P) # {}
<1> DEFINE has(i) == \E g \in FilesIn(project.roots[i]) : g \in P
           T == {i \in DOMAIN project.roots : has(i)}
<1>1. DOMAIN project.roots \subseteq Nat
  <2>1. project.roots \in Seq(Range(project.roots))
    BY ProjectsAssumption
  <2> QED
    BY <2>1
<1>2. PICK i \in DOMAIN project.roots : f.root = project.roots[i]
  BY DEF Range
<1>3. i \in T
  BY <1>2 DEF FilesIn
<1>4. PICK k \in T : \A j \in T : k <= j
  <2> HIDE DEF T
  <2>1. T \subseteq Nat
    BY <1>1 DEF T
  <2> QED
    BY <1>3, <2>1, LeastNat
<1>5. \A j \in 1 .. k - 1 : ~(j \in T)
  BY <1>1, <1>4
<1>6. PICK g \in FilesIn(project.roots[k]) : g \in P
  BY <1>4
<1>7. project.roots \in Seq(Range(project.roots))
  BY ProjectsAssumption
<1>8. \A j \in 1 .. k - 1 : j \in DOMAIN project.roots
  BY <1>4, <1>7
<1>9. k \in {l \in DOMAIN project.roots : has(l) /\ \A j \in 1 .. l - 1 : ~has(j)}
  BY <1>4, <1>5, <1>8
<1> QED
  BY <1>6, <1>9 DEF InFirstRoot

\* What the first lines of a file say is what it declares, if it is in place.
LEMMA PackageInPlace ==
    ASSUME NEW f, InPlace(f), f.lang # "java", f.utf8,
           \A i, j \in PackageLines(f) : i = j,
           NEW package
    PROVE  PackageMatches(f, package) <=> Declared(f) = package
<1>1. \A i \in DOMAIN f.text : LeadsWith(f, i) <=> i \in PackageLines(f)
  BY DEF InPlace, LeadsWith
<1>2. CASE PackageLines(f) = {}
  BY <1>1, <1>2 DEF PackageMatches, Declared
<1>3. CASE PackageLines(f) # {}
  <2>1. PICK i \in PackageLines(f) : TRUE
    BY <1>3
  <2>2. i \in DOMAIN f.text /\ LeadsWith(f, i)
    BY <1>1, <2>1 DEF PackageLines
  <2>3. \A j \in DOMAIN f.text : LeadsWith(f, j) => j = i
    BY <1>1, <2>1
  <2>4. Declared(f) = f.text[i].package
    BY <1>3, <2>1 DEF Declared
  <2> QED
    BY <2>2, <2>3, <2>4 DEF PackageMatches
<1> QED
  BY <1>2, <1>3

\* resolve_source finds no other file than the one a class was compiled from, if
\* that has no namesake that could be taken for it.
LEMMA FindsNoOther ==
    ASSUME project \in Projects, NEW c, Distinct(c), NEW f \in Resolved(c)
    PROVE  f = c.of
<1> SUFFICES ASSUME f # c.of PROVE FALSE
  OBVIOUS
<1>1. Matches(f, c) /\ InRoots(f)
  BY FoundInRoot DEF Resolved, InRoots
<1>2. InPlace(f) /\ Declared(f) # c.name.package
  BY <1>1 DEF Distinct, InRoots, Matches
<1>3. CASE f.lang = "java"
  BY <1>1, <1>2, <1>3 DEF Matches, PackageOf, InPlace
<1>4. CASE f.lang # "java"
  <2>1. \A i, j \in PackageLines(f) : i = j
    BY <1>1, ProjectsAssumption DEF InRoots
  <2>2. PackageMatches(f, c.name.package) /\ f.utf8
    BY <1>1, <1>4 DEF Matches, PackageOf, PackageMatches
  <2> QED
    BY <1>2, <1>4, <2>1, <2>2, PackageInPlace
<1> QED
  BY <1>3, <1>4

\* It finds one, if that file is still there and in place.
LEMMA FindsIt ==
    ASSUME project \in Projects,
           NEW i \in DOMAIN project.dirs, NEW c \in project.dirs[i], c.source # NoFile,
           InRoots(c.of), InPlace(c.of)
    PROVE  Resolved(c) # {}
<1>1. IsNamed(c.of, c.source) /\ Declared(c.of) = c.name.package
  BY ProjectsAssumption
<1>2. Matches(c.of, c)
  <2>1. CASE c.of.lang = "java"
    BY <1>1, <2>1 DEF Matches, PackageOf, InPlace
  <2>2. CASE c.of.lang # "java"
    <3>1. \A k, j \in PackageLines(c.of) : k = j
      BY ProjectsAssumption DEF InRoots
    <3>2. c.of.utf8
      BY <2>2 DEF InPlace
    <3> QED
      BY <1>1, <2>2, <3>1, <3>2, PackageInPlace DEF Matches, PackageOf
  <2> QED
    BY <2>1, <2>2
<1> QED
  BY <1>2, FoundIfThere DEF InRoots, Resolved

\* What is found for a class is a matter of the project, which never changes.
LEMMA SameResolved ==
    ASSUME project' = project, NEW c
    PROVE  Resolved(c)' = Resolved(c)
BY DEF Resolved, InFirstRoot, FilesIn

LEMMA FoundCollect ==
    ASSUME TrueInv, NEW c, CollectClass(c)
    PROVE  TrueInv'
<1> USE DEF TrueInv
<1>1. PICK i \in DOMAIN unread :
          /\ c \in unread[i] /\ c \in ReadFrom(i)'
          /\ DOMAIN unread' = DOMAIN unread /\ project' = project
          /\ \A j \in DOMAIN unread :
                 /\ unread'[j] \subseteq project.dirs[j]
                 /\ ReadFrom(j) \subseteq ReadFrom(j)'
                 /\ ReadFrom(j)' \subseteq ReadFrom(j) \cup (IF j = i THEN {c} ELSE {})
  BY ReadsOne
<1>2. \A d : Resolved(d)' = Resolved(d)
  BY <1>1, SameResolved
<1>3. CASE c.source = NoFile \/ Resolved(c) = {}
  <2>1. UNCHANGED byClass
    BY <1>3 DEF CollectClass, mapVars
  <2>2. Reading'
    BY <2>1, StillRead
  <2>3. ASSUME NEW n \in DOMAIN byClass'
        PROVE  \E j \in DOMAIN unread' : \E d \in ReadFrom(j)' :
                   d.name = n /\ d.source # NoFile /\ byClass'[n] \in Resolved(d)'
    BY <1>1, <1>2, <2>1 DEF FoundInv
  <2>4. ASSUME NEW j \in DOMAIN unread', NEW d \in ReadFrom(j)',
               d.source # NoFile, Resolved(d)' # {}
        PROVE  d.name \in DOMAIN byClass'
    <3>1. d # c
      BY <1>2, <1>3, <2>4
    <3>2. d \in ReadFrom(j)
      BY <1>1, <3>1
    <3> QED
      BY <1>1, <1>2, <2>1, <2>4, <3>2 DEF FoundInv
  <2> QED
    BY <2>2, <2>3, <2>4 DEF FoundInv
<1>4. CASE c.source # NoFile /\ Resolved(c) # {}
  <2>1. PICK f \in Resolved(c) : Insert(c.name, f)
    BY <1>4 DEF CollectClass
  <2>2. /\ DOMAIN byClass' = DOMAIN byClass \cup {c.name}
        /\ byClass'[c.name] = f
        /\ \A n \in DOMAIN byClass : n # c.name => byClass'[n] = byClass[n]
    BY <2>1 DEF Insert
  <2>3. Reading'
    BY <2>2, StillRead
  <2>4. ASSUME NEW n \in DOMAIN byClass'
        PROVE  \E j \in DOMAIN unread' : \E d \in ReadFrom(j)' :
                   d.name = n /\ d.source # NoFile /\ byClass'[n] \in Resolved(d)'
    <3>1. CASE n = c.name
      BY <1>1, <1>2, <1>4, <2>1, <2>2, <3>1
    <3>2. CASE n \in DOMAIN byClass /\ n # c.name
      BY <1>1, <1>2, <2>2, <3>2 DEF FoundInv
    <3> QED
      BY <2>2, <3>1, <3>2
  <2>5. ASSUME NEW j \in DOMAIN unread', NEW d \in ReadFrom(j)',
               d.source # NoFile, Resolved(d)' # {}
        PROVE  d.name \in DOMAIN byClass'
    <3>1. CASE d \in ReadFrom(j)
      BY <1>1, <1>2, <2>2, <2>5, <3>1 DEF FoundInv
    <3>2. CASE d = c
      BY <2>2, <3>2
    <3> QED
      BY <1>1, <3>1, <3>2
  <2> QED
    BY <2>3, <2>4, <2>5 DEF FoundInv
<1> QED
  BY <1>3, <1>4

LEMMA TrueNext ==
    ASSUME TrueInv, [Next]_vars
    PROVE  TrueInv'
<1>1. CASE \E c \in UNION Range(unread) : CollectClass(c)
  BY <1>1, FoundCollect
<1>2. CASE ~\E c \in UNION Range(unread) : CollectClass(c)
  <2>1. UNCHANGED <<project, unread, byClass, bySource>>
    BY <1>2, OtherSteps
  <2>2. \A c : Resolved(c)' = Resolved(c)
    BY <2>1, SameResolved
  <2>3. \A i : ReadFrom(i)' = ReadFrom(i)
    BY <2>1 DEF ReadFrom
  <2>4. Reading'
    BY <2>1, <2>3 DEF TrueInv, Reading
  <2>5. FoundInv'
    BY <2>1, <2>2, <2>3 DEF TrueInv, FoundInv
  <2> QED
    BY <2>4, <2>5 DEF TrueInv
<1> QED
  BY <1>1, <1>2

LEMMA TrueInit == Init => TrueInv
<1> SUFFICES ASSUME Init PROVE TrueInv
  OBVIOUS
<1>1. DOMAIN byClass = {}
  BY DEF Init
<1>2. \A i \in DOMAIN unread : ReadFrom(i) = {}
  BY DEF Init, ReadFrom
<1>3. Reading
  BY <1>1 DEF Init, Reading
<1> QED
  BY <1>1, <1>2, <1>3 DEF TrueInv, FoundInv

\* A class with one class file has the file that was found for that one.
LEMMA TrueImplies ==
    ASSUME TrueInv
    PROVE  MapIsTrue
<1> SUFFICES ASSUME NEW i \in DOMAIN project.dirs, NEW c \in project.dirs[i] \ unread[i],
                    Once(c)
             PROVE  /\ c.name \in DOMAIN byClass =>
                           c.source # NoFile /\ (Distinct(c) => byClass[c.name] = c.of)
                    /\ c.source # NoFile /\ InRoots(c.of) /\ InPlace(c.of) =>
                           c.name \in DOMAIN byClass
  BY DEF MapIsTrue
<1>1. /\ project \in Projects /\ DOMAIN unread = DOMAIN project.dirs
      /\ c \in ReadFrom(i) /\ FoundInv
  BY DEF TrueInv, Reading, ReadFrom
<1>2. ASSUME c.name \in DOMAIN byClass
      PROVE  c.source # NoFile /\ (Distinct(c) => byClass[c.name] = c.of)
  <2>1. PICK j \in DOMAIN unread : \E d \in ReadFrom(j) :
            d.name = c.name /\ d.source # NoFile /\ byClass[c.name] \in Resolved(d)
    BY <1>1, <1>2 DEF FoundInv
  <2>2. PICK d \in ReadFrom(j) :
            d.name = c.name /\ d.source # NoFile /\ byClass[c.name] \in Resolved(d)
    BY <2>1
  <2>3. c = d
    BY <1>1, <2>2 DEF Once, ReadFrom
  <2> QED
    BY <1>1, <2>2, <2>3, FindsNoOther
<1>3. ASSUME c.source # NoFile, InRoots(c.of), InPlace(c.of)
      PROVE  c.name \in DOMAIN byClass
  <2>1. Resolved(c) # {}
    BY <1>1, <1>3, FindsIt
  <2> QED
    BY <1>1, <1>3, <2>1 DEF FoundInv
<1> QED
  BY <1>2, <1>3

\* A class compiled once is never mapped to another file than the one it was
\* compiled from, unless that has a namesake in its package or out of place, and
\* it is mapped if that file is in place (source_map.rs:109 and :191): whatever
\* the project, its roots, their order, and the order of the class files.
THEOREM MapTrue == Spec => []MapIsTrue
<1>1. TrueInv /\ [Next]_vars => TrueInv'
  BY TrueNext
<1>2. TrueInv => MapIsTrue
  BY TrueImplies
<1> QED
  BY <1>1, <1>2, TrueInit, PTL DEF Spec

=============================================================================
